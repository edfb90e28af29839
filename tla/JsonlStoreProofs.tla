--------------------------- MODULE JsonlStoreProofs ---------------------------
(***************************************************************************)
(* For any keys, thresholds, operations and crashes: an acknowledged       *)
(* operation survives whatever a write cut short, a compaction, a failed   *)
(* disk and a reload do, an idle store serves what its file holds, and the *)
(* store implements DurableMap.                                            *)
(***************************************************************************)
EXTENDS JsonlStore, FiniteSetTheorems, TLAPS

StoreLines == [key : Keys, op : Nat, del : BOOLEAN]
StoreJobs  == {CompactJob} \cup [kind : {"append"}, line : StoreLines]
FileLines  == StoreLines \cup {Garbage}

\* What a line makes of its key, when it is the last one of the key.
LineEffect(line) == IF line.del THEN 0 ELSE line.op

-------------------------------------------------------------------------------
(* What a restart reads of a file.                                          *)

\* A set of positions that is not empty has a last one.
LEMMA LastExists ==
  ASSUME NEW n \in Nat, NEW S \in SUBSET (1 .. n), S # {}
  PROVE  \E x \in S : \A y \in S : x >= y
<1> DEFINE T == {m \in Nat : n - m \in S}
           R == OpToRel(<, Nat)
<1>1. T # {}
  <2>1. PICK s : s \in S
    OBVIOUS
  <2>2. n - s \in Nat /\ n - (n - s) = s
    BY <2>1
  <2> QED BY <2>1, <2>2
<1>2. \E x \in T : \A y \in T : <<y, x>> \notin R
  <2>1. IsWellFoundedOn(R, Nat)
    BY NatLessThanWellFounded DEF R
  <2>2. T \subseteq Nat
    OBVIOUS
  <2> HIDE DEF T, R
  <2> QED BY <2>1, <2>2, <1>1, WFMin
<1>3. PICK x \in T : \A y \in T : ~ (y < x)
  BY <1>1, <1>2 DEF OpToRel
<1>4. x \in Nat /\ n - x \in S
  OBVIOUS
<1>5. ASSUME NEW y \in S PROVE n - x >= y
  <2>1. n - y \in Nat /\ n - (n - y) = y /\ y \in Nat
    OBVIOUS
  <2>2. n - y \in T
    BY <2>1
  <2> QED BY <2>1, <2>2, <1>3, <1>4
<1> QED BY <1>4, <1>5

\* The last position is the one Max chooses.
LEMMA MaxIsLast ==
  ASSUME NEW n \in Nat, NEW S \in SUBSET (1 .. n), NEW x \in S, \A y \in S : x >= y
  PROVE  Max(S) = x
<1>1. Max(S) \in S /\ \A y \in S : Max(S) >= y
  BY DEF Max
<1>2. Max(S) \in 1 .. n /\ x \in 1 .. n /\ Max(S) >= x /\ x >= Max(S)
  BY <1>1
<1> QED BY <1>2

LEMMA MaxIsInSet ==
  ASSUME NEW n \in Nat, NEW S \in SUBSET (1 .. n), S # {}
  PROVE  Max(S) \in S /\ \A y \in S : Max(S) >= y
BY LastExists DEF Max

\* A restart reads nothing from an empty file.
LEMMA ViewOfNothing == View(<<>>) = Empty
BY DEF View, Empty

\* A line decides its key, and says nothing of the others; a line that does not
\* parse says nothing at all.
LEMMA ViewOfAppend ==
  ASSUME NEW f \in Seq(FileLines), NEW line \in FileLines, NEW k \in Keys
  PROVE  View(Append(f, line))[k] =
           IF line.key = k THEN LineEffect(line) ELSE View(f)[k]
<1> DEFINE g == Append(f, line)
           at(h) == {i \in DOMAIN h : h[i].key = k}
<1>1. DOMAIN f = 1 .. Len(f) /\ DOMAIN g = 1 .. Len(f) + 1 /\ Len(f) \in Nat
  OBVIOUS
<1>2. g[Len(f) + 1] = line /\ \A i \in DOMAIN f : g[i] = f[i]
  OBVIOUS
<1>3. CASE line.key = k
  <2>1. Len(f) + 1 \in at(g) /\ \A i \in at(g) : Len(f) + 1 >= i
    BY <1>1, <1>2, <1>3
  <2>2. Max(at(g)) = Len(f) + 1
    <3>1. at(g) \in SUBSET (1 .. Len(f) + 1) /\ Len(f) + 1 \in Nat
      BY <1>1
    <3> HIDE DEF at, g
    <3> QED BY <2>1, <3>1, MaxIsLast
  <2>3. at(g) # {}
    BY <2>1
  <2> QED BY <1>2, <1>3, <2>2, <2>3 DEF View, LineEffect
<1>4. CASE line.key # k
  <2>1. at(g) = at(f)
    BY <1>1, <1>2, <1>4
  <2>2. CASE at(f) = {}
    BY <1>4, <2>1, <2>2 DEF View
  <2>3. CASE at(f) # {}
    <3>1. Max(at(f)) \in DOMAIN f
      BY <1>1, <2>3, MaxIsInSet
    <3> QED BY <1>2, <1>4, <2>1, <2>3, <3>1 DEF View
  <2> QED BY <2>2, <2>3
<1> QED BY <1>3, <1>4

\* What the keys of a set become, written one after the other: each of them once.
LEMMA SetToSeqIsBijection ==
  ASSUME NEW S, IsFiniteSet(S)
  PROVE  /\ SetToSeq(S) \in Seq(S)
         /\ \A a, b \in DOMAIN SetToSeq(S) : SetToSeq(S)[a] = SetToSeq(S)[b] => a = b
         /\ \A s \in S : \E i \in DOMAIN SetToSeq(S) : SetToSeq(S)[i] = s
<1> DEFINE n == Cardinality(S)
<1>1. n \in Nat /\ ExistsBijection(1 .. n, S)
  BY FS_CardinalityType
<1>2. \E f \in [1 .. n -> S] : IsInjective(f)
  BY <1>1 DEF ExistsBijection, Bijection, Injection
<1>3. SetToSeq(S) \in [1 .. n -> S] /\ IsInjective(SetToSeq(S))
  BY <1>2 DEF SetToSeq
<1>4. SetToSeq(S) \in Injection(1 .. n, S)
  BY <1>3 DEF Injection
<1>5. Cardinality(1 .. n) = n
  BY <1>1, FS_Interval
<1>6. SetToSeq(S) \in Surjection(1 .. n, S)
  BY <1>4, <1>5, FS_Injection
<1> QED BY <1>1, <1>3, <1>6 DEF IsInjective, Surjection

\* A rewritten file gives back the memory it was made from.
LEMMA ViewOfLines ==
  ASSUME NEW m \in [Keys -> Nat]
  PROVE  /\ Lines(m) \in Seq(StoreLines)
         /\ View(Lines(m)) = m
         /\ Lines(m) # NoSnapshot
         /\ \A i \in DOMAIN Lines(m) :
              /\ Lines(m)[i].key \in Live(m)
              /\ Lines(m)[i].op = m[Lines(m)[i].key]
              /\ Lines(m)[i].del = FALSE
<1> DEFINE s == SetToSeq(Live(m))
           f == Lines(m)
<1>1. Live(m) \subseteq Keys /\ IsFiniteSet(Live(m))
  BY StoreAssumption, FS_Subset DEF Live
<1>2. /\ s \in Seq(Live(m))
      /\ \A a, b \in DOMAIN s : s[a] = s[b] => a = b
      /\ \A k \in Live(m) : \E i \in DOMAIN s : s[i] = k
  BY <1>1, SetToSeqIsBijection
<1>3. f = [i \in DOMAIN s |-> Line(s[i], m[s[i]], FALSE)]
  BY DEF Lines
<1> HIDE DEF s, f
<1>4. \A i \in DOMAIN s : s[i] \in Live(m) /\ s[i] \in Keys /\ m[s[i]] \in Nat /\ m[s[i]] # 0
  BY <1>1, <1>2 DEF Live
<1>5. DOMAIN f = DOMAIN s /\ DOMAIN s = 1 .. Len(s) /\ Len(s) \in Nat
  BY <1>2, <1>3
<1>6. \A i \in DOMAIN f : /\ f[i] \in StoreLines
                          /\ f[i].key = s[i] /\ f[i].op = m[s[i]] /\ f[i].del = FALSE
  BY <1>3, <1>4 DEF Line, StoreLines
<1>7. f \in Seq(StoreLines)
  <2>1. f \in [1 .. Len(s) -> StoreLines]
    BY <1>3, <1>5, <1>6
  <2> QED BY <1>5, <2>1
<1>8. ASSUME NEW k \in Keys PROVE View(f)[k] = m[k]
  <2> DEFINE at == {i \in DOMAIN f : f[i].key = k}
  <2>1. CASE m[k] = 0
    <3>1. at = {}
      BY <1>4, <1>5, <1>6, <2>1
    <3> QED BY <2>1, <3>1 DEF View
  <2>2. CASE m[k] # 0
    <3>1. PICK i \in DOMAIN s : s[i] = k
      BY <1>2, <2>2 DEF Live
    <3>2. at = {i}
      BY <1>2, <1>5, <1>6, <3>1
    <3>3. Max(at) = i
      <4>1. at \in SUBSET (1 .. Len(s)) /\ i \in at /\ (\A j \in at : i >= j)
        BY <1>5, <3>1, <3>2
      <4> HIDE DEF at
      <4> QED BY <1>5, <4>1, MaxIsLast
    <3> QED BY <1>5, <1>6, <3>1, <3>2, <3>3 DEF View
  <2> QED BY <2>1, <2>2
<1>9. View(f) = m
  BY <1>8 DEF View
<1>10. f # NoSnapshot
  <2> SUFFICES ASSUME f = NoSnapshot PROVE FALSE
    OBVIOUS
  <2>1. 1 \in DOMAIN f /\ f[1].op = 0
    BY DEF NoSnapshot, Line
  <2> QED BY <1>4, <1>5, <1>6, <2>1
<1> QED BY <1>4, <1>5, <1>6, <1>7, <1>9, <1>10 DEF f

-------------------------------------------------------------------------------
(* The invariant.                                                           *)

\* A line is that of an operation of ops.
RecordedIn(ops, line) ==
  line.op \in DOMAIN ops /\ ops[line.op].key = line.key /\ ops[line.op].del = line.del
Recorded(line) == RecordedIn(log, line)

Recent(k, n) == n \in acked[k] .. Len(log) /\ (n > 0 => log[n].key = k)

\* v is what operation n of ops makes of its key, if n has not expired.
Yields(ops, old, n, v) ==
  v = (IF n = 0 \/ ops[n].del THEN 0 ELSE n) \/ (v = 0 /\ n \in old)
Gives(n, v) == Yields(log, expired, n, v)

Pending(k) == {i \in DOMAIN jobs : jobs[i].kind = "append" /\ jobs[i].line.key = k}

\* Types, and that a line, a record, a job and an acknowledgement are those of
\* an operation that was issued.  An operation expires with the older ones of
\* its key.
RecordsInv ==
  /\ phase \in {"down", "loading", "up", "closing"}
  /\ tailOpen \in BOOLEAN /\ persistence \in {"active", "disabled"}
  /\ appended \in Nat /\ sinceEvict \in Nat /\ crashes \in Nat
  /\ log \in Seq([key : Keys, del : BOOLEAN])
  /\ memory \in [Keys -> Nat]
  /\ \A k \in Keys : memory[k] # 0 => Recorded(Line(k, memory[k], FALSE))
  /\ file \in Seq(FileLines)
  /\ \A i \in DOMAIN file : file[i] = Garbage \/ Recorded(file[i])
  /\ snapshot # NoSnapshot =>
       snapshot \in Seq(StoreLines) /\ \A i \in DOMAIN snapshot : Recorded(snapshot[i])
  /\ jobs \in Seq(StoreJobs)
  /\ \A i \in DOMAIN jobs : jobs[i].kind = "append" => Recorded(jobs[i].line)
  /\ acked \in [Keys -> Nat]
  /\ expired \subseteq DOMAIN log
  /\ \A n \in expired, m \in DOMAIN log :
       m <= n /\ log[m].key = log[n].key => m \in expired

\* A degraded store has no jobs, a store that is down no memory, and a write that
\* was cut short is never appended to: load() heals the file first.
PhaseInv ==
  /\ jobs # <<>> => persistence = "active" /\ phase \in {"up", "closing"}
  /\ snapshot # NoSnapshot =>
       persistence = "active" /\ (phase = "loading" \/ jobs # <<>>)
  /\ phase = "loading" => snapshot # NoSnapshot
  /\ phase = "down" => memory = Empty
  /\ tailOpen => /\ phase \in {"down", "loading"} \/ persistence = "disabled"
                 /\ \E i \in DOMAIN file : file[i] = Garbage

\* The queue keeps the order of the operations, and acknowledges in that order.
OrderInv ==
  \A i \in DOMAIN jobs : jobs[i].kind = "append" =>
    /\ acked[jobs[i].line.key] < jobs[i].line.op
    /\ \A j \in DOMAIN jobs : j > i /\ jobs[j].kind = "append" =>
         jobs[i].line.op < jobs[j].line.op

\* Memory is the effect of an operation that nothing queued or written is newer than.
NewestInv ==
  phase # "down" /\ persistence = "active" =>
    \A k \in Keys : \E n \in Nat :
      /\ Recent(k, n) /\ Gives(n, memory[k])
      /\ View(file)[k] <= n
      /\ snapshot # NoSnapshot => View(snapshot)[k] <= n
      /\ \A i \in Pending(k) : jobs[i].line.op <= n

\* A compaction in progress may replace the file: it holds what is acknowledged,
\* and what will be when it returns.
SnapshotInv ==
  snapshot # NoSnapshot =>
    \A k \in Keys : \E n \in Nat :
      /\ Recent(k, n) /\ Gives(n, View(snapshot)[k])
      /\ jobs # <<>> /\ 1 \in Pending(k) => Head(jobs).line.op <= n

HonoursInv ==
  \A k \in Keys : \E n \in Nat : Recent(k, n) /\ Gives(n, View(file)[k])

\* Once the queue has run, the file holds what memory does.
SyncInv ==
  persistence = "active" => \A k \in Keys :
    /\ phase \in {"up", "closing"} /\ Pending(k) = {} =>
         View(file)[k] \in {memory[k]} \cup expired
    /\ \A i \in Pending(k) : (\A j \in Pending(k) : j <= i) =>
         LineEffect(jobs[i].line) \in {memory[k]} \cup expired
    /\ snapshot # NoSnapshot /\ Pending(k) \subseteq {1} =>
         View(snapshot)[k] \in {memory[k]} \cup expired

StoreInv ==
  RecordsInv /\ PhaseInv /\ OrderInv /\ NewestInv /\ SnapshotInv /\ HonoursInv /\ SyncInv
-------------------------------------------------------------------------------
(* Steps.                                                                   *)

LEMMA EvictedIs ==
  ASSUME NEW m \in [Keys -> Nat]
  PROVE  /\ Evicted(m) \in [Keys -> Nat]
         /\ \A k \in Keys : Evicted(m)[k] = m[k] \/ (Evicted(m)[k] = 0 /\ m[k] \in expired)
BY DEF Evicted

\* What a restart reads is the record of an operation.
LEMMA ViewIsRecorded ==
  ASSUME NEW f \in Seq(FileLines), \A i \in DOMAIN f : f[i] = Garbage \/ Recorded(f[i])
  PROVE  /\ View(f) \in [Keys -> Nat]
         /\ \A k \in Keys : View(f)[k] # 0 => Recorded(Line(k, View(f)[k], FALSE))
<1>1. ASSUME NEW k \in Keys
      PROVE  View(f)[k] \in Nat /\ (View(f)[k] # 0 => Recorded(Line(k, View(f)[k], FALSE)))
  <2> DEFINE at == {i \in DOMAIN f : f[i].key = k}
  <2>1. CASE at = {}
    BY <2>1 DEF View
  <2>2. CASE at # {}
    <3>1. Max(at) \in at
      <4>1. at \in SUBSET (1 .. Len(f)) /\ Len(f) \in Nat
        OBVIOUS
      <4> HIDE DEF at
      <4> QED BY <2>2, <4>1, MaxIsInSet
    <3>2. PICK i \in DOMAIN f : i = Max(at) /\ f[i].key = k
      BY <3>1
    <3>3. f[i] # Garbage
      BY <3>2, StoreAssumption DEF Garbage
    <3>4. f[i] \in StoreLines /\ Recorded(f[i])
      BY <3>2, <3>3 DEF FileLines
    <3>5. View(f)[k] = IF f[i].del THEN 0 ELSE f[i].op
      BY <2>2, <3>2 DEF View
    <3>6. f[i].del \in BOOLEAN /\ f[i].op \in Nat
      BY <3>4 DEF StoreLines
    <3>7. CASE f[i].del
      BY <3>5, <3>7
    <3>8. CASE ~f[i].del
      <4> DEFINE n == f[i].op
      <4>1. View(f)[k] = n /\ n \in Nat /\ n \in DOMAIN log /\ log[n].key = k /\ log[n].del = FALSE
        BY <3>2, <3>4, <3>5, <3>6, <3>8 DEF Recorded, RecordedIn
      <4> QED BY <4>1 DEF Recorded, RecordedIn, Line
    <3> QED BY <3>6, <3>7, <3>8
  <2> QED BY <2>1, <2>2
<1>2. View(f) = [k \in Keys |-> View(f)[k]]
  BY DEF View
<1> HIDE DEF View
<1> QED BY <1>1, <1>2

LEMMA StoreTypes ==
  ASSUME RecordsInv
  PROVE  /\ acked \in [Keys -> Nat] /\ memory \in [Keys -> Nat] /\ Len(log) \in Nat
         /\ View(file) \in [Keys -> Nat]
<1>1. file \in Seq(FileLines) /\ \A i \in DOMAIN file : file[i] = Garbage \/ Recorded(file[i])
  BY DEF RecordsInv
<1>2. View(file) \in [Keys -> Nat]
  BY <1>1, ViewIsRecorded
<1> QED BY <1>2 DEF RecordsInv

\* The jobs of the queue.
LEMMA JobsAre ==
  ASSUME RecordsInv
  PROVE  /\ DOMAIN jobs = 1 .. Len(jobs) /\ Len(jobs) \in Nat
         /\ \A i \in DOMAIN jobs :
              \/ jobs[i] = CompactJob /\ jobs[i].kind = "compact"
              \/ /\ jobs[i].kind = "append" /\ jobs[i].line \in StoreLines
                 /\ jobs[i].line.key \in Keys /\ jobs[i].line.op \in Nat
                 /\ jobs[i].line.del \in BOOLEAN /\ jobs[i].line \in FileLines
                 /\ Recorded(jobs[i].line)
         /\ jobs # <<>> => /\ 1 \in DOMAIN jobs /\ Head(jobs) = jobs[1]
                           /\ Tail(jobs) \in Seq(StoreJobs)
                           /\ DOMAIN Tail(jobs) = 1 .. Len(jobs) - 1
                           /\ \A i \in DOMAIN Tail(jobs) :
                                i + 1 \in DOMAIN jobs /\ Tail(jobs)[i] = jobs[i + 1]
<1>1. jobs \in Seq(StoreJobs)
  BY DEF RecordsInv
<1>2. ASSUME NEW i \in DOMAIN jobs
      PROVE  \/ jobs[i] = CompactJob /\ jobs[i].kind = "compact"
             \/ /\ jobs[i].kind = "append" /\ jobs[i].line \in StoreLines
                /\ Recorded(jobs[i].line)
  <2>1. jobs[i] \in StoreJobs
    BY <1>1
  <2> QED BY <2>1 DEF StoreJobs, CompactJob, RecordsInv
<1>3. \A line \in StoreLines : line.key \in Keys /\ line.op \in Nat /\ line.del \in BOOLEAN
                               /\ line \in FileLines
  BY DEF StoreLines, FileLines
<1> QED BY <1>1, <1>2, <1>3

\* The log only grows, and what has expired stays expired.
LEMMA LogStep ==
  ASSUME RecordsInv, [Next]_vars
  PROVE  /\ log' \in Seq([key : Keys, del : BOOLEAN])
         /\ Len(log) \in Nat /\ Len(log') \in Nat /\ Len(log) <= Len(log')
         /\ DOMAIN log = 1 .. Len(log) /\ DOMAIN log' = 1 .. Len(log')
         /\ \A n \in DOMAIN log : n \in DOMAIN log' /\ log'[n] = log[n]
         /\ expired \subseteq expired'
<1> DEFINE LogGrew ==
      /\ log' \in Seq([key : Keys, del : BOOLEAN])
      /\ Len(log) \in Nat /\ Len(log') \in Nat /\ Len(log) <= Len(log')
      /\ DOMAIN log = 1 .. Len(log) /\ DOMAIN log' = 1 .. Len(log')
      /\ \A n \in DOMAIN log : n \in DOMAIN log' /\ log'[n] = log[n]
      /\ expired \subseteq expired'
<1> SUFFICES LogGrew
  OBVIOUS
<1>1. log \in Seq([key : Keys, del : BOOLEAN])
  BY DEF RecordsInv
<1>2. ASSUME NEW k \in Keys, NEW d \in BOOLEAN, log' = Append(log, [key |-> k, del |-> d]),
             expired' = expired
      PROVE  LogGrew
  BY <1>1, <1>2
<1>3. ASSUME log' = log, expired \subseteq expired' PROVE LogGrew
  BY <1>1, <1>3
<1>4. CASE \E k \in Keys : Put(k) \/ Delete(k)
  BY <1>2, <1>4 DEF Put, Delete
<1>5. CASE \E n \in DOMAIN log : Expire(n)
  BY <1>3, <1>5 DEF Expire, storeVars
<1>6. CASE ~((\E k \in Keys : Put(k) \/ Delete(k)) \/ (\E n \in DOMAIN log : Expire(n)))
  BY <1>3, <1>6 DEF Next, vars, historyVars, Prune, Close, Disk, AppendDone, CompactStart,
     CompactDone, IoFails, Closed, Crash, Load, LoadFails
<1> QED BY <1>4, <1>5, <1>6
\* What an operation was, what it gives and whose it is does not change.
LEMMA FactsStand ==
  ASSUME RecordsInv, [Next]_vars
  PROVE  /\ \A line : Recorded(line) => RecordedIn(log', line)
         /\ \A v : \A n \in 0 .. Len(log) : Gives(n, v) => Yields(log', expired', n, v)
         /\ \A n \in Nat, k \in Keys : Recent(k, n) /\ acked'[k] = acked[k] => Recent(k, n)'
<1> USE LogStep
<1>1. \A line : Recorded(line) => RecordedIn(log', line)
  BY DEF Recorded, RecordedIn
<1>2. \A v : \A n \in 0 .. Len(log) : Gives(n, v) => Yields(log', expired', n, v)
  BY DEF Gives, Yields
<1>3. acked \in [Keys -> Nat]
  BY DEF RecordsInv
<1>4. \A n \in Nat, k \in Keys : Recent(k, n) /\ acked'[k] = acked[k] => Recent(k, n)'
  BY <1>3 DEF Recent
<1> QED BY <1>1, <1>2, <1>4

\* Nothing is appended to a line that lacks its newline.
LEMMA TailIsClosed ==
  ASSUME RecordsInv, PhaseInv, jobs # <<>>
  PROVE  /\ tailOpen = FALSE /\ persistence = "active" /\ phase \in {"up", "closing"}
         /\ \A line : Joined(line) = Append(file, line)
BY DEF RecordsInv, PhaseInv, Joined

\* A write cut short leaves the file as it was, with the line, or with text that
\* does not parse: provided a line without its newline is torn, not whole.
LEMMA CutShortIs ==
  ASSUME RecordsInv, PhaseInv, "no_newline" \notin TornWrites, NEW left \in CutShort
  PROVE  \/ left[1] = file /\ left[2] = tailOpen
         \/ /\ jobs # <<>> /\ Head(jobs).kind = "append" /\ snapshot = NoSnapshot
            /\ left[1] = Append(file, Head(jobs).line) /\ left[2] = FALSE
         \/ /\ jobs # <<>> /\ Head(jobs).kind = "append" /\ snapshot = NoSnapshot
            /\ left[1] = Append(file, Garbage) /\ left[2] = TRUE
<1>1. CASE ~(jobs # <<>> /\ Head(jobs).kind = "append" /\ snapshot = NoSnapshot)
  BY <1>1 DEF CutShort
<1>2. CASE jobs # <<>> /\ Head(jobs).kind = "append" /\ snapshot = NoSnapshot
  <2>1. PICK o \in {"nothing", "full"} \cup TornWrites : left = Outcome(Head(jobs).line, o)
    BY <1>2 DEF CutShort
  <2>2. o \in {"nothing", "full", "partial"}
    BY <2>1, StoreAssumption
  <2>3. CASE o = "nothing"
    BY <2>1, <2>3 DEF Outcome
  <2>4. CASE o = "full"
    BY <1>2, <2>1, <2>4, TailIsClosed DEF Outcome
  <2>5. CASE o = "partial"
    BY <1>2, <2>1, <2>5, TailIsClosed DEF Outcome
  <2> QED BY <2>2, <2>3, <2>4, <2>5
<1> QED BY <1>1, <1>2

\* What may happen to the file.
LEMMA FileStep ==
  ASSUME RecordsInv, PhaseInv, "no_newline" \notin TornWrites, [Next]_vars
  PROVE  \/ file' = file /\ tailOpen' = tailOpen
         \/ snapshot # NoSnapshot /\ file' = snapshot /\ tailOpen' = FALSE
         \/ /\ jobs # <<>> /\ Head(jobs).kind = "append" /\ snapshot = NoSnapshot
            /\ file' = Append(file, Head(jobs).line) /\ tailOpen' = FALSE
         \/ /\ jobs # <<>> /\ Head(jobs).kind = "append" /\ snapshot = NoSnapshot
            /\ file' = Append(file, Garbage) /\ tailOpen' = TRUE
            /\ phase' = "down" \/ persistence' = "disabled"
<1>1. CASE AppendDone
  BY <1>1, TailIsClosed DEF AppendDone, Outcome
<1>2. CASE CompactDone
  BY <1>2 DEF CompactDone
<1>3. CASE IoFails
  <2>1. PICK left \in CutShort : file' = left[1] /\ tailOpen' = left[2]
    BY <1>3 DEF IoFails
  <2> QED BY <1>3, <2>1, CutShortIs DEF IoFails
<1>4. CASE Crash
  <2>1. CASE \E left \in CutShort : file' = left[1] /\ tailOpen' = left[2]
    <3>1. PICK left \in CutShort : file' = left[1] /\ tailOpen' = left[2]
      BY <2>1
    <3> QED BY <1>4, <3>1, CutShortIs DEF Crash
  <2>2. CASE ~(\E left \in CutShort : file' = left[1] /\ tailOpen' = left[2])
    BY <1>4, <2>2 DEF Crash
  <2> QED BY <2>1, <2>2
<1>5. CASE ~(AppendDone \/ CompactDone \/ IoFails \/ Crash)
  BY <1>5 DEF Next, vars, storeVars, Put, Delete, Prune, Close, Expire, Disk, CompactStart,
     Closed, Load, LoadFails
<1> QED BY <1>1, <1>2, <1>3, <1>4, <1>5

\* What may happen to the queue.
LEMMA JobsStep ==
  ASSUME RecordsInv, PhaseInv, [Next]_vars
  PROVE  \/ jobs' = jobs
         \/ jobs' = <<>>
         \/ jobs # <<>> /\ jobs' = Tail(jobs)
         \/ persistence = "active" /\ jobs' = Append(jobs, CompactJob)
         \/ \E k \in Keys, d \in BOOLEAN :
              /\ persistence = "active"
              /\ jobs' = Append(jobs, AppendJob(Line(k, Issued, d)))
              /\ log' = Append(log, [key |-> k, del |-> d])
<1>1. CASE \E k \in Keys : Put(k)
  BY <1>1 DEF Put, Enqueue
<1>2. CASE \E k \in Keys : Delete(k)
  BY <1>2 DEF Delete, Enqueue
<1>3. CASE Prune \/ Close
  BY <1>3 DEF Prune, Close, Enqueue
<1>4. CASE AppendDone \/ CompactDone
  BY <1>4 DEF AppendDone, CompactDone, PhaseInv
<1>5. CASE ~((\E k \in Keys : Put(k) \/ Delete(k)) \/ Prune \/ Close \/ AppendDone \/ CompactDone)
  BY <1>5 DEF Next, vars, storeVars, Expire, Disk, CompactStart, IoFails, Crash,
     Closed, Load, LoadFails
<1> QED BY <1>1, <1>2, <1>3, <1>4, <1>5

\* What may happen to memory.
LEMMA MemoryIs ==
  ASSUME RecordsInv, [Next]_vars
  PROVE  /\ memory' \in [Keys -> Nat]
         /\ \A k \in Keys : \/ memory'[k] \in {0, memory[k], View(file)[k]}
                            \/ /\ memory'[k] = Issued
                               /\ log' = Append(log, [key |-> k, del |-> FALSE])
<1>1. memory \in [Keys -> Nat] /\ View(file) \in [Keys -> Nat] /\ Issued \in Nat
      /\ Empty \in [Keys -> Nat]
  <2>1. file \in Seq(FileLines) /\ (\A i \in DOMAIN file : file[i] = Garbage \/ Recorded(file[i]))
        /\ memory \in [Keys -> Nat] /\ log \in Seq([key : Keys, del : BOOLEAN])
    BY DEF RecordsInv
  <2>2. View(file) \in [Keys -> Nat]
    BY <2>1, ViewIsRecorded
  <2> QED BY <2>1, <2>2 DEF Issued, Empty
<1>2. ASSUME NEW k \in Keys, Put(k)
      PROVE  /\ memory' \in [Keys -> Nat]
             /\ \A j \in Keys : \/ memory'[j] \in {0, memory[j]}
                                \/ j = k /\ memory'[j] = Issued
  <2> DEFINE m == [memory EXCEPT ![k] = Issued]
  <2>1. m \in [Keys -> Nat]
    BY <1>1
  <2>2. memory' = m \/ memory' = Evicted(m)
    BY <1>2 DEF Put
  <2>3. memory' \in [Keys -> Nat] /\ \A j \in Keys : memory'[j] \in {0, m[j]}
    BY <2>1, <2>2, EvictedIs
  <2> QED BY <1>1, <2>3
<1>3. CASE \E k \in Keys : Put(k)
  BY <1>2, <1>3 DEF Put
<1>4. CASE \E k \in Keys : Delete(k)
  BY <1>1, <1>4 DEF Delete
<1>5. CASE memory' = Evicted(memory) \/ memory' = Evicted(View(file)) \/ memory' = Empty
  BY <1>1, <1>5, EvictedIs DEF Empty
<1>6. CASE memory' = memory
  BY <1>1, <1>6
<1>7. CASE ~(\E k \in Keys : Put(k) \/ Delete(k))
  <2>1. memory' \in {memory, Evicted(memory), Evicted(View(file)), Empty}
    BY <1>7 DEF Next, vars, storeVars, Prune, Close, Expire, Disk, AppendDone, CompactStart,
       CompactDone, IoFails, Closed, Crash, Load, LoadFails
  <2> QED BY <1>5, <1>6, <2>1
<1> QED BY <1>3, <1>4, <1>7

\* What may happen to a compaction: it starts with what memory becomes.
LEMMA SnapshotStep ==
  ASSUME RecordsInv, PhaseInv, [Next]_vars
  PROVE  \/ snapshot' \in {snapshot, NoSnapshot}
         \/ snapshot' = Lines(memory') /\ View(snapshot') = memory' /\ snapshot = NoSnapshot
<1>1. memory' \in [Keys -> Nat]
  BY MemoryIs
<1>2. phase = "down" => snapshot = NoSnapshot
  BY DEF PhaseInv
<1>3. \/ snapshot' \in {snapshot, NoSnapshot}
      \/ snapshot' = Lines(memory') /\ snapshot = NoSnapshot
  BY <1>2 DEF Next, vars, storeVars, Put, Delete, Prune, Close, Expire, Disk, AppendDone,
     CompactStart, CompactDone, IoFails, Closed, Crash, Load, LoadFails
<1> QED BY <1>1, <1>3, ViewOfLines
\* Only the job at the head of the queue is acknowledged, and leaves it then.
LEMMA AckedStep ==
  ASSUME RecordsInv, PhaseInv, [Next]_vars
  PROVE  \/ acked' = acked
         \/ /\ jobs # <<>> /\ Head(jobs).kind = "append" /\ jobs' = Tail(jobs)
            /\ acked' = [acked EXCEPT ![Head(jobs).line.key] = Head(jobs).line.op]
<1>1. CASE AppendDone
  BY <1>1 DEF AppendDone, Acknowledge
<1>2. CASE CompactDone
  BY <1>2 DEF CompactDone, Acknowledge, PhaseInv
<1>3. CASE ~(AppendDone \/ CompactDone)
  BY <1>3 DEF Next, vars, historyVars, Put, Delete, Prune, Close, Expire, Disk,
     CompactStart, IoFails, Closed, Crash, Load, LoadFails
<1> QED BY <1>1, <1>2, <1>3

LEMMA AckedIsIssued ==
  ASSUME RecordsInv, HonoursInv
  PROVE  \A k \in Keys : acked[k] \in 0 .. Len(log)
<1>1. acked \in [Keys -> Nat] /\ Len(log) \in Nat
  BY DEF RecordsInv
<1>2. ASSUME NEW k \in Keys PROVE acked[k] \in 0 .. Len(log)
  <2>1. PICK n \in Nat : Recent(k, n)
    BY DEF HonoursInv
  <2> QED BY <1>1, <2>1 DEF Recent
<1> QED BY <1>2

\* Whatever a step does, the lines and records it leaves are those of operations.
LEMMA RecordsKept ==
  ASSUME RecordsInv, PhaseInv, "no_newline" \notin TornWrites, [Next]_vars
  PROVE  RecordsInv'
<1> DEFINE
      FileIs == file' \in Seq(FileLines)
                /\ \A i \in DOMAIN file' : file'[i] = Garbage \/ RecordedIn(log', file'[i])
      QueueIs == jobs' \in Seq(StoreJobs)
                 /\ \A i \in DOMAIN jobs' : jobs'[i].kind = "append" => RecordedIn(log', jobs'[i].line)
      ExpiredIs == expired' \subseteq DOMAIN log'
                   /\ \A n \in expired', m \in DOMAIN log' :
                        m <= n /\ log'[m].key = log'[n].key => m \in expired'
<1>1. log' \in Seq([key : Keys, del : BOOLEAN])
  BY LogStep
<1>2. phase' \in {"down", "loading", "up", "closing"} /\ persistence' \in {"active", "disabled"}
      /\ appended' \in Nat /\ sinceEvict' \in Nat /\ crashes' \in Nat
  <2>1. phase \in {"down", "loading", "up", "closing"} /\ persistence \in {"active", "disabled"}
        /\ appended \in Nat /\ sinceEvict \in Nat /\ crashes \in Nat /\ Len(file) \in Nat
    BY DEF RecordsInv
  <2>2. CASE (\E k \in Keys : Put(k) \/ Delete(k)) \/ Prune \/ Close
    <3>1. /\ sinceEvict' \in {0, sinceEvict + 1, sinceEvict} /\ phase' \in {phase, "closing"}
          /\ UNCHANGED <<persistence, appended, crashes>>
      BY <2>2 DEF Put, Delete, Prune, Close
    <3> QED BY <2>1, <3>1
  <2>3. CASE AppendDone \/ CompactStart \/ CompactDone \/ IoFails
    BY <2>1, <2>3 DEF AppendDone, CompactStart, CompactDone, IoFails, historyVars
  <2>4. CASE Closed \/ Crash \/ Load \/ LoadFails
    BY <2>1, <2>4 DEF Closed, Crash, Load, LoadFails, historyVars
  <2>5. CASE (\E n \in DOMAIN log : Expire(n)) \/ UNCHANGED vars
    BY <2>1, <2>5 DEF Expire, vars, storeVars
  <2> QED BY <2>2, <2>3, <2>4, <2>5 DEF Next, Disk
<1>3. tailOpen' \in BOOLEAN
  BY FileStep DEF RecordsInv
<1>4. memory' \in [Keys -> Nat] /\ \A k \in Keys : memory'[k] # 0 => RecordedIn(log', Line(k, memory'[k], FALSE))
  <2>1. memory' \in [Keys -> Nat]
    BY MemoryIs
  <2>2. ASSUME NEW k \in Keys, NEW n, n = memory'[k], n # 0
        PROVE  RecordedIn(log', Line(k, n, FALSE))
    <3>1. CASE n = memory[k] \/ n = View(file)[k]
      <4>1. View(file)[k] # 0 => Recorded(Line(k, View(file)[k], FALSE))
        BY ViewIsRecorded DEF RecordsInv
      <4>2. memory[k] # 0 => Recorded(Line(k, memory[k], FALSE))
        BY DEF RecordsInv
      <4>3. Recorded(Line(k, n, FALSE))
        <5>1. CASE n = memory[k]
          BY <2>2, <4>2, <5>1
        <5>2. CASE n = View(file)[k]
          BY <2>2, <4>1, <5>2
        <5> QED BY <3>1, <5>1, <5>2
      <4> QED BY <4>3, FactsStand
    <3>2. CASE n = Issued /\ log' = Append(log, [key |-> k, del |-> FALSE])
      <4>1. log \in Seq([key : Keys, del : BOOLEAN])
        BY DEF RecordsInv
      <4>2. n \in DOMAIN log' /\ log'[n].key = k /\ log'[n].del = FALSE
        BY <3>2, <4>1 DEF Issued
      <4> QED BY <4>2 DEF Recorded, RecordedIn, Line
    <3> QED BY <2>2, <3>1, <3>2, MemoryIs
  <2> QED BY <2>1, <2>2
<1>5. FileIs
  <2>1. file \in Seq(FileLines) /\ \A i \in DOMAIN file : file[i] = Garbage \/ Recorded(file[i])
    BY DEF RecordsInv
  <2>2. CASE file' = file
    BY <2>1, <2>2, FactsStand
  <2>3. CASE snapshot # NoSnapshot /\ file' = snapshot
    <3>1. snapshot \in Seq(StoreLines) /\ \A i \in DOMAIN snapshot : Recorded(snapshot[i])
      BY <2>3 DEF RecordsInv
    <3>2. snapshot \in Seq(FileLines)
      BY <3>1 DEF FileLines
    <3> QED BY <2>3, <3>1, <3>2, FactsStand
  <2>4. ASSUME NEW line \in FileLines, line = Garbage \/ Recorded(line), file' = Append(file, line)
        PROVE  FileIs
    <3>1. file' \in Seq(FileLines) /\ DOMAIN file' = 1 .. Len(file) + 1
      BY <2>1, <2>4
    <3>2. ASSUME NEW i \in DOMAIN file', NEW l, l = file'[i] PROVE l = Garbage \/ RecordedIn(log', l)
      <4>1. l = line \/ (i \in DOMAIN file /\ l = file[i])
        BY <2>1, <2>4, <3>1, <3>2
      <4>2. l = Garbage \/ Recorded(l)
        BY <2>1, <2>4, <4>1
      <4> QED BY <4>2, FactsStand
    <3> QED BY <3>1, <3>2
  <2>5. Garbage \in FileLines
    BY DEF FileLines
  <2>6. jobs # <<>> /\ Head(jobs).kind = "append" =>
          Head(jobs).line \in FileLines /\ Recorded(Head(jobs).line)
    BY JobsAre DEF CompactJob
  <2> QED BY <2>2, <2>3, <2>4, <2>5, <2>6, FileStep
<1>6. snapshot' # NoSnapshot =>
        snapshot' \in Seq(StoreLines) /\ \A i \in DOMAIN snapshot' : RecordedIn(log', snapshot'[i])
  <2>1. CASE snapshot' = snapshot \/ snapshot' = NoSnapshot
    BY <2>1, FactsStand DEF RecordsInv
  <2>2. CASE snapshot' = Lines(memory')
    <3>1. /\ Lines(memory') \in Seq(StoreLines)
          /\ \A i \in DOMAIN Lines(memory') :
               /\ Lines(memory')[i].key \in Live(memory')
               /\ Lines(memory')[i].op = memory'[Lines(memory')[i].key]
               /\ Lines(memory')[i].del = FALSE
      BY <1>4, ViewOfLines
    <3>2. ASSUME NEW i \in DOMAIN snapshot', NEW l, l = snapshot'[i] PROVE RecordedIn(log', l)
      <4>1. l.key \in Keys /\ memory'[l.key] # 0 /\ l.op = memory'[l.key] /\ l.del = FALSE
        BY <2>2, <3>1, <3>2 DEF Live
      <4>2. RecordedIn(log', Line(l.key, l.op, FALSE))
        BY <1>4, <4>1
      <4> QED BY <4>1, <4>2 DEF Recorded, RecordedIn, Line
    <3> QED BY <2>2, <3>1, <3>2
  <2> QED BY <2>1, <2>2, SnapshotStep
<1>7. QueueIs
  <2>1. jobs \in Seq(StoreJobs)
        /\ \A i \in DOMAIN jobs : jobs[i].kind = "append" => Recorded(jobs[i].line)
    BY DEF RecordsInv
  <2>2. CASE jobs' = jobs
    BY <2>1, <2>2, FactsStand
  <2>3. CASE jobs' = <<>>
    BY <2>3
  <2>4. CASE jobs # <<>> /\ jobs' = Tail(jobs)
    <3>1. Tail(jobs) \in Seq(StoreJobs)
          /\ \A i \in DOMAIN Tail(jobs) : i + 1 \in DOMAIN jobs /\ Tail(jobs)[i] = jobs[i + 1]
      BY <2>4, JobsAre
    <3> QED BY <2>1, <2>4, <3>1, FactsStand
  <2>5. ASSUME NEW job \in StoreJobs, jobs' = Append(jobs, job),
               job.kind = "append" => RecordedIn(log', job.line)
        PROVE  QueueIs
    <3>1. jobs' \in Seq(StoreJobs) /\ DOMAIN jobs' = 1 .. Len(jobs) + 1
      BY <2>1, <2>5
    <3>2. ASSUME NEW i \in DOMAIN jobs', jobs'[i].kind = "append", NEW l, l = jobs'[i].line
          PROVE  RecordedIn(log', l)
      <4>1. jobs'[i] = job \/ (i \in DOMAIN jobs /\ jobs'[i] = jobs[i])
        BY <2>1, <2>5, <3>1, <3>2
      <4>2. CASE jobs'[i] = job
        BY <2>5, <3>2, <4>2
      <4>3. CASE i \in DOMAIN jobs /\ jobs'[i] = jobs[i]
        BY <2>1, <3>2, <4>3, FactsStand
      <4> QED BY <4>1, <4>2, <4>3
    <3> QED BY <3>1, <3>2
  <2>6. CompactJob \in StoreJobs /\ CompactJob.kind # "append"
    BY DEF CompactJob, StoreJobs
  <2>7. CASE jobs' = Append(jobs, CompactJob)
    BY <2>5, <2>6, <2>7
  <2>8. ASSUME NEW k \in Keys, NEW d \in BOOLEAN, jobs' = Append(jobs, AppendJob(Line(k, Issued, d))),
               log' = Append(log, [key |-> k, del |-> d])
        PROVE  QueueIs
    <3> DEFINE job == AppendJob(Line(k, Issued, d))
    <3>1. log \in Seq([key : Keys, del : BOOLEAN]) /\ Issued \in Nat
      BY DEF RecordsInv, Issued
    <3>2. job \in StoreJobs /\ job.line = Line(k, Issued, d)
      BY <3>1 DEF StoreJobs, AppendJob, StoreLines, Line
    <3>3. ASSUME NEW n, n = Issued PROVE RecordedIn(log', Line(k, n, d))
      <4>1. n \in DOMAIN log' /\ log'[n].key = k /\ log'[n].del = d
        BY <2>8, <3>1, <3>3 DEF Issued
      <4> QED BY <4>1 DEF Recorded, RecordedIn, Line
    <3> HIDE DEF job
    <3>4. ASSUME NEW l, l = job.line PROVE RecordedIn(log', l)
      BY <3>2, <3>3, <3>4
    <3> QED BY <2>5, <2>8, <3>2, <3>4 DEF job
  <2> QED BY <2>2, <2>3, <2>4, <2>7, <2>8, JobsStep
<1>8. acked' \in [Keys -> Nat]
  <2>1. jobs # <<>> /\ Head(jobs).kind = "append" =>
          Head(jobs).line.key \in Keys /\ Head(jobs).line.op \in Nat
    BY JobsAre DEF CompactJob
  <2> QED BY <2>1, AckedStep DEF RecordsInv
<1>9. ExpiredIs
  <2>1. /\ log \in Seq([key : Keys, del : BOOLEAN]) /\ expired \subseteq DOMAIN log
        /\ \A n \in expired, m \in DOMAIN log :
             m <= n /\ log[m].key = log[n].key => m \in expired
    BY DEF RecordsInv
  <2>2. ASSUME NEW n \in DOMAIN log, Expire(n) PROVE ExpiredIs
    <3>1. log' = log /\ expired' = expired \cup {m \in 1 .. n : log[m].key = log[n].key}
      BY <2>2 DEF Expire
    <3> QED BY <2>1, <3>1
  <2>3. CASE \E n \in DOMAIN log : Expire(n)
    BY <2>2, <2>3
  <2>4. CASE ~(\E n \in DOMAIN log : Expire(n))
    <3>1. expired' = expired
      BY <2>4 DEF Next, vars, historyVars, Put, Delete, Prune, Close, Disk, AppendDone,
         CompactStart, CompactDone, IoFails, Closed, Crash, Load, LoadFails
    <3>2. \A n \in DOMAIN log' : (n \in Nat /\ n > Len(log)) \/ n \in DOMAIN log
      BY <2>1, LogStep
    <3> QED BY <2>1, <3>1, <3>2, LogStep
  <2> QED BY <2>3, <2>4
<1> QED BY <1>1, <1>2, <1>3, <1>4, <1>5, <1>6, <1>7, <1>8, <1>9 DEF RecordsInv, Recorded
LEMMA PhaseKept ==
  ASSUME RecordsInv, PhaseInv, "no_newline" \notin TornWrites, [Next]_vars
  PROVE  PhaseInv'
<1> USE DEF PhaseInv
<1>1. phase \in {"down", "loading", "up", "closing"} /\ file \in Seq(FileLines)
  BY DEF RecordsInv
<1>2. CASE (\E k \in Keys : Put(k) \/ Delete(k)) \/ Prune \/ Close
  <2>1. /\ phase \in {"up", "closing"} /\ phase' \in {"up", "closing"}
        /\ UNCHANGED <<persistence, snapshot, tailOpen, file>>
    BY <1>2 DEF Put, Delete, Prune, Close
  <2>2. jobs' = jobs \/ (persistence = "active" /\ \E job : jobs' = Append(jobs, job))
    BY <1>2 DEF Put, Delete, Prune, Close, Enqueue
  <2>3. ASSUME NEW job PROVE Append(jobs, job) # <<>>
    <3>1. jobs \in Seq(StoreJobs \cup {job})
      BY DEF RecordsInv
    <3>2. Len(Append(jobs, job)) = Len(jobs) + 1 /\ Len(jobs) \in Nat
      BY <3>1
    <3> QED BY <3>2
  <2> QED BY <2>1, <2>2, <2>3
<1>3. CASE (\E n \in DOMAIN log : Expire(n)) \/ UNCHANGED vars
  BY <1>3 DEF Expire, storeVars, vars
<1>4. CASE AppendDone
  <2>1. phase \in {"up", "closing"} /\ persistence = "active" /\ tailOpen' = FALSE
        /\ UNCHANGED <<phase, persistence>>
    BY <1>4 DEF AppendDone
  <2>2. snapshot' = NoSnapshot \/ jobs' # <<>>
    BY <1>4 DEF AppendDone
  <2> QED BY <2>1, <2>2
<1>5. CASE CompactStart
  BY <1>5 DEF CompactStart
<1>6. CASE CompactDone
  BY <1>6 DEF CompactDone
<1>7. CASE IoFails \/ Crash
  <2>1. /\ jobs' = <<>> /\ snapshot' = NoSnapshot /\ phase' # "loading"
        /\ phase' = "down" \/ persistence' = "disabled"
        /\ phase' = "down" => memory' = Empty
    BY <1>1, <1>7 DEF IoFails, Crash
  <2>2. tailOpen' => \E i \in DOMAIN file' : file'[i] = Garbage
    <3>1. CASE file' = file /\ tailOpen' = tailOpen
      BY <3>1
    <3>2. CASE file' = Append(file, Garbage)
      <4>1. Len(file) + 1 \in DOMAIN file' /\ file'[Len(file) + 1] = Garbage
        BY <1>1, <3>2
      <4> QED BY <4>1
    <3> QED BY <3>1, <3>2, FileStep
  <2> QED BY <2>1, <2>2
<1>8. CASE Closed
  BY <1>8 DEF Closed
<1>9. CASE Load
  <2>1. memory' \in [Keys -> Nat]
    BY MemoryIs
  <2>2. jobs' = <<>> /\ persistence' = "active" /\ file' = file /\ tailOpen' = tailOpen
    BY <1>9 DEF Load
  <2>3. \/ phase' = "loading" /\ snapshot' # NoSnapshot
        \/ phase' = "up" /\ snapshot' = NoSnapshot /\ Garbage \notin {file[i] : i \in DOMAIN file}
    BY <1>9, <2>1, ViewOfLines DEF Load
  <2>4. tailOpen => \E i \in DOMAIN file : file[i] = Garbage
    OBVIOUS
  <2> QED BY <2>2, <2>3, <2>4
<1>10. CASE LoadFails
  BY <1>10 DEF LoadFails
<1> QED BY <1>2, <1>3, <1>4, <1>5, <1>6, <1>7, <1>8, <1>9, <1>10 DEF Next, Disk

\* Where the lines of a key are, after a job joins the queue and after one leaves it.
LEMMA PendingJoins ==
  ASSUME RecordsInv, NEW job \in StoreJobs, jobs' = Append(jobs, job), NEW k \in Keys
  PROVE  /\ DOMAIN jobs' = 1 .. Len(jobs) + 1 /\ jobs'[Len(jobs) + 1] = job
         /\ \A i \in DOMAIN jobs : i \in DOMAIN jobs' /\ jobs'[i] = jobs[i]
         /\ \A i \in 1 .. Len(jobs) + 1 :
              i \in Pending(k)' <=>
                \/ i \in Pending(k)
                \/ i = Len(jobs) + 1 /\ job.kind = "append" /\ job.line.key = k
<1>1. jobs \in Seq(StoreJobs)
  BY DEF RecordsInv
<1> QED BY <1>1 DEF Pending

LEMMA PendingLeaves ==
  ASSUME RecordsInv, jobs # <<>>, jobs' = Tail(jobs), NEW k \in Keys
  PROVE  /\ DOMAIN jobs' = 1 .. Len(jobs) - 1
         /\ \A i \in DOMAIN jobs' : i + 1 \in DOMAIN jobs /\ jobs'[i] = jobs[i + 1]
         /\ \A i \in DOMAIN jobs' : i \in Pending(k)' <=> i + 1 \in Pending(k)
BY JobsAre DEF Pending

LEMMA OrderKept ==
  ASSUME RecordsInv, PhaseInv, OrderInv, HonoursInv, [Next]_vars
  PROVE  OrderInv'
<1> USE JobsAre
<1>1. \A k \in Keys : acked[k] \in 0 .. Len(log)
  BY AckedIsIssued
<1>2. Len(log) \in Nat /\ acked \in [Keys -> Nat]
  BY DEF RecordsInv
<1>3. CASE acked' = acked
  <2>1. CASE jobs' = jobs \/ jobs' = <<>>
    BY <1>3, <2>1 DEF OrderInv
  <2>2. CASE jobs # <<>> /\ jobs' = Tail(jobs)
    BY <1>3, <2>2 DEF OrderInv
  <2>3. CASE jobs' = Append(jobs, CompactJob)
    <3>1. CompactJob.kind # "append" /\ jobs \in Seq(StoreJobs) /\ CompactJob \in StoreJobs
      BY DEF CompactJob, StoreJobs, RecordsInv
    <3>2. DOMAIN jobs' = 1 .. Len(jobs) + 1 /\ jobs'[Len(jobs) + 1] = CompactJob
          /\ \A i \in DOMAIN jobs : jobs'[i] = jobs[i]
      BY <2>3, <3>1
    <3> QED BY <1>3, <3>1, <3>2 DEF OrderInv
  <2>4. ASSUME NEW k \in Keys, NEW d \in BOOLEAN, jobs' = Append(jobs, AppendJob(Line(k, Issued, d)))
        PROVE  OrderInv'
    <3> DEFINE job == AppendJob(Line(k, Issued, d))
    <3>1. jobs \in Seq(StoreJobs) /\ job \in StoreJobs /\ job.line.op = Len(log) + 1 /\ job.line.key = k
      BY <1>2 DEF AppendJob, StoreJobs, StoreLines, RecordsInv, Issued, Line
    <3>2. DOMAIN jobs' = 1 .. Len(jobs) + 1 /\ jobs'[Len(jobs) + 1] = job
          /\ \A i \in DOMAIN jobs : jobs'[i] = jobs[i]
      BY <2>4, <3>1
    <3>3. \A i \in DOMAIN jobs : jobs[i].kind = "append" => jobs[i].line.op <= Len(log)
      BY DEF Recorded, RecordedIn, RecordsInv
    <3> HIDE DEF job
    <3>4. ASSUME NEW i \in DOMAIN jobs', jobs'[i].kind = "append"
          PROVE  acked'[jobs'[i].line.key] < jobs'[i].line.op
      BY <1>1, <1>2, <1>3, <3>1, <3>2, <3>4 DEF OrderInv
    <3>5. ASSUME NEW i \in DOMAIN jobs', jobs'[i].kind = "append",
                 NEW j \in DOMAIN jobs', j > i, jobs'[j].kind = "append"
          PROVE  jobs'[i].line.op < jobs'[j].line.op
      <4>1. CASE j = Len(jobs) + 1
        BY <1>2, <3>1, <3>2, <3>3, <3>5, <4>1
      <4>2. CASE j # Len(jobs) + 1
        BY <3>2, <3>5, <4>2 DEF OrderInv
      <4> QED BY <4>1, <4>2
    <3> QED BY <3>4, <3>5 DEF OrderInv
  <2> QED BY <2>1, <2>2, <2>3, <2>4, JobsStep
<1>4. CASE /\ jobs # <<>> /\ Head(jobs).kind = "append" /\ jobs' = Tail(jobs)
           /\ acked' = [acked EXCEPT ![Head(jobs).line.key] = Head(jobs).line.op]
  <2>1. /\ 1 \in DOMAIN jobs /\ Head(jobs) = jobs[1]
        /\ DOMAIN jobs' = 1 .. Len(jobs) - 1
        /\ \A i \in DOMAIN jobs' : i + 1 \in DOMAIN jobs /\ jobs'[i] = jobs[i + 1]
    BY <1>4
  <2>2. ASSUME NEW i \in DOMAIN jobs', jobs'[i].kind = "append"
        PROVE  acked'[jobs'[i].line.key] < jobs'[i].line.op
    <3>1. jobs[1].line.op < jobs[i + 1].line.op /\ acked[jobs[i + 1].line.key] < jobs[i + 1].line.op
      BY <1>4, <2>1, <2>2 DEF OrderInv
    <3> QED BY <1>2, <1>4, <2>1, <2>2, <3>1
  <2>3. ASSUME NEW i \in DOMAIN jobs', jobs'[i].kind = "append",
               NEW j \in DOMAIN jobs', j > i, jobs'[j].kind = "append"
        PROVE  jobs'[i].line.op < jobs'[j].line.op
    BY <2>1, <2>3 DEF OrderInv
  <2> QED BY <2>2, <2>3 DEF OrderInv
<1> QED BY <1>3, <1>4, AckedStep
\* The line at the head of the queue is that of an operation not acknowledged yet.
LEMMA HeadIsNews ==
  ASSUME RecordsInv, OrderInv, HonoursInv, jobs # <<>>, Head(jobs).kind = "append",
         NEW line, line = Head(jobs).line
  PROVE  /\ line.key \in Keys /\ line.op \in Nat /\ line \in FileLines
         /\ acked[line.key] < line.op
         /\ Recent(line.key, line.op) /\ Gives(line.op, LineEffect(line))
<1>1. /\ 1 \in DOMAIN jobs /\ Head(jobs) = jobs[1] /\ line \in StoreLines /\ line.key \in Keys
      /\ line.op \in Nat /\ line.del \in BOOLEAN /\ line \in FileLines /\ Recorded(line)
  BY JobsAre DEF CompactJob
<1>2. acked[line.key] < line.op
  BY <1>1 DEF OrderInv
<1>3. log \in Seq([key : Keys, del : BOOLEAN]) /\ acked \in [Keys -> Nat]
  BY DEF RecordsInv
<1>4. Recent(line.key, line.op)
  BY <1>1, <1>2, <1>3 DEF Recent, Recorded, RecordedIn
<1>5. Gives(line.op, LineEffect(line))
  BY <1>1, <1>3 DEF Gives, Yields, LineEffect, Recorded, RecordedIn
<1> QED BY <1>1, <1>2, <1>4, <1>5

\* Eviction takes what has expired.
LEMMA GivesEvicted ==
  ASSUME RecordsInv, NEW n \in Nat, NEW v, Gives(n, v),
         NEW w, w = v \/ (w = 0 /\ v \in expired)
  PROVE  Gives(n, w)
<1>1. 0 \notin expired
  BY DEF RecordsInv
<1> QED BY <1>1 DEF Gives, Yields

\* Whatever the disk does, the file honours what is acknowledged.
LEMMA HonoursKept ==
  ASSUME RecordsInv, PhaseInv, OrderInv, SnapshotInv, HonoursInv,
         "no_newline" \notin TornWrites, [Next]_vars
  PROVE  HonoursInv'
<1> SUFFICES ASSUME NEW k \in Keys
             PROVE  \E n \in Nat : Recent(k, n)' /\ Yields(log', expired', n, View(file')[k])
  BY DEF HonoursInv, Gives
<1> DEFINE Honoured == \E n \in Nat : Recent(k, n)' /\ Yields(log', expired', n, View(file')[k])
<1>0. file \in Seq(FileLines) /\ acked \in [Keys -> Nat] /\ Garbage \in FileLines
      /\ Garbage.key # k
  BY StoreAssumption DEF RecordsInv, FileLines, Garbage
<1>1. ASSUME View(file')[k] = View(file)[k], acked'[k] = acked[k] PROVE Honoured
  <2>1. PICK n \in Nat : Recent(k, n) /\ Gives(n, View(file)[k])
    BY DEF HonoursInv
  <2>2. n \in 0 .. Len(log)
    BY <1>0, <2>1 DEF Recent
  <2> QED BY <1>1, <2>1, <2>2, FactsStand
<1>2. ASSUME jobs # <<>>, Head(jobs).kind = "append", file' = Append(file, Head(jobs).line),
             acked' \in {acked, [acked EXCEPT ![Head(jobs).line.key] = Head(jobs).line.op]}
      PROVE  Honoured
  <2>0. PICK line : line = Head(jobs).line
    OBVIOUS
  <2>1. /\ line.key \in Keys /\ line.op \in Nat /\ line \in FileLines
        /\ acked[line.key] < line.op
        /\ Recent(line.key, line.op) /\ Gives(line.op, LineEffect(line))
    BY <1>2, <2>0, HeadIsNews
  <2>2. View(file')[k] = IF line.key = k THEN LineEffect(line) ELSE View(file)[k]
    BY <1>0, <1>2, <2>0, <2>1, ViewOfAppend
  <2>3. CASE line.key = k
    <3>1. line.op \in 0 .. Len(log) /\ acked'[k] \in {acked[k], line.op}
      BY <1>0, <1>2, <2>0, <2>1, <2>3 DEF Recent
    <3>2. Recent(k, line.op)'
      BY <1>0, <2>1, <2>3, <3>1, LogStep DEF Recent
    <3>3. Yields(log', expired', line.op, View(file')[k])
      BY <2>1, <2>2, <2>3, <3>1, FactsStand
    <3> QED BY <2>1, <3>2, <3>3
  <2>4. CASE line.key # k
    <3>1. acked'[k] = acked[k]
      BY <1>0, <1>2, <2>0, <2>4
    <3> QED BY <1>1, <2>2, <2>4, <3>1
  <2> QED BY <2>3, <2>4
<1>3. ASSUME snapshot # NoSnapshot, file' = snapshot,
             \/ acked' = acked
             \/ /\ jobs # <<>> /\ Head(jobs).kind = "append"
                /\ acked' = [acked EXCEPT ![Head(jobs).line.key] = Head(jobs).line.op]
      PROVE  Honoured
  <2>1. PICK n \in Nat : /\ Recent(k, n) /\ Gives(n, View(snapshot)[k])
                         /\ jobs # <<>> /\ 1 \in Pending(k) => Head(jobs).line.op <= n
    BY <1>3 DEF SnapshotInv
  <2>2. n \in 0 .. Len(log)
    BY <1>0, <2>1 DEF Recent
  <2>3. acked'[k] \in Nat /\ acked'[k] <= n
    <3>1. acked[k] \in Nat /\ acked[k] <= n
      BY <1>0, <2>1 DEF Recent
    <3>2. CASE acked' = acked
      BY <3>1, <3>2
    <3>3. CASE jobs # <<>> /\ Head(jobs).kind = "append" /\ acked' # acked
      <4>1. 1 \in DOMAIN jobs /\ Head(jobs) = jobs[1] /\ Head(jobs).line.op \in Nat
        BY <3>3, JobsAre DEF CompactJob
      <4>2. Head(jobs).line.key = k => 1 \in Pending(k)
        BY <3>3, <4>1 DEF Pending
      <4> QED BY <1>0, <1>3, <2>1, <3>1, <3>3, <4>1, <4>2
    <3> QED BY <1>3, <3>2, <3>3
  <2>4. Recent(k, n)'
    BY <2>1, <2>2, <2>3, LogStep DEF Recent
  <2> QED BY <1>3, <2>1, <2>2, <2>4, FactsStand
<1>4. CASE AppendDone
  <2>1. file' = Append(file, Head(jobs).line)
    BY <1>4, TailIsClosed DEF AppendDone, Outcome
  <2> QED BY <1>2, <1>4, <2>1 DEF AppendDone, Acknowledge
<1>5. CASE CompactDone
  BY <1>3, <1>5, AckedStep DEF CompactDone
<1>6. CASE ~(AppendDone \/ CompactDone)
  <2>1. acked' = acked
    BY <1>6 DEF Next, vars, historyVars, Put, Delete, Prune, Close, Expire, Disk,
       CompactStart, IoFails, Closed, Crash, Load, LoadFails
  <2>2. CASE file' = file
    BY <1>1, <2>1, <2>2
  <2>3. CASE file' = Append(file, Garbage)
    BY <1>0, <1>1, <2>1, <2>3, ViewOfAppend
  <2> QED BY <1>2, <1>3, <2>1, <2>2, <2>3, FileStep
<1> QED BY <1>4, <1>5, <1>6
LEMMA YieldsItself ==
  ASSUME NEW ops, NEW old, NEW n \in Nat, NEW v, Yields(ops, old, n, v)
  PROVE  v \in {0, n} /\ v <= n
BY DEF Yields

\* Another key's operation, the queue and the disk take from memory only what has
\* expired.
LEMMA MemoryElsewhere ==
  ASSUME RecordsInv, [Next]_vars, phase # "down", phase' # "down",
         NEW k \in Keys, ~(Put(k) \/ Delete(k))
  PROVE  memory'[k] = memory[k] \/ (memory'[k] = 0 /\ memory[k] \in expired)
<1>1. memory \in [Keys -> Nat] /\ Issued \in Nat
  BY DEF RecordsInv, Issued
<1>2. ASSUME NEW j \in Keys, Put(j)
      PROVE  memory'[k] = memory[k] \/ (memory'[k] = 0 /\ memory[k] \in expired)
  <2> DEFINE m == [memory EXCEPT ![j] = Issued]
  <2>1. m \in [Keys -> Nat] /\ m[k] = memory[k]
    BY <1>1, <1>2
  <2>2. memory' = m \/ memory' = Evicted(m)
    BY <1>2 DEF Put
  <2> HIDE DEF m
  <2> QED BY <2>1, <2>2, EvictedIs
<1>3. CASE \E j \in Keys : Delete(j)
  BY <1>1, <1>3 DEF Delete
<1>4. CASE ~(\E j \in Keys : Put(j) \/ Delete(j))
  <2>1. memory' \in {memory, Evicted(memory)}
    BY <1>4 DEF Next, vars, storeVars, Prune, Close, Expire, Disk, AppendDone, CompactStart,
       CompactDone, IoFails, Closed, Crash, Load, LoadFails
  <2> QED BY <1>1, <2>1, EvictedIs
<1> QED BY <1>2, <1>3, <1>4

\* What a restart would read of a key changes with its line at the head of the queue,
\* or with a compaction that returns.
LEMMA ViewStep ==
  ASSUME RecordsInv, PhaseInv, "no_newline" \notin TornWrites, [Next]_vars, NEW k \in Keys
  PROVE  \/ View(file')[k] = View(file)[k]
         \/ snapshot # NoSnapshot /\ View(file')[k] = View(snapshot)[k]
         \/ 1 \in Pending(k) /\ View(file')[k] = LineEffect(jobs[1].line)
<1>1. file \in Seq(FileLines) /\ Garbage \in FileLines /\ Garbage.key # k
  BY StoreAssumption DEF RecordsInv, FileLines, Garbage
<1>2. CASE file' = Append(file, Garbage)
  BY <1>1, <1>2, ViewOfAppend
<1>3. CASE jobs # <<>> /\ Head(jobs).kind = "append" /\ file' = Append(file, Head(jobs).line)
  <2>1. 1 \in DOMAIN jobs /\ Head(jobs) = jobs[1] /\ jobs[1].line \in FileLines
    BY <1>3, JobsAre DEF CompactJob
  <2>2. View(file')[k] = IF jobs[1].line.key = k THEN LineEffect(jobs[1].line) ELSE View(file)[k]
    BY <1>1, <1>3, <2>1, ViewOfAppend
  <2> QED BY <1>3, <2>1, <2>2 DEF Pending
<1> QED BY <1>2, <1>3, FileStep

\* No other line of a key joins the queue than those of its own operations.
LEMMA PendingElsewhere ==
  ASSUME RecordsInv, PhaseInv, [Next]_vars, NEW k \in Keys, ~(Put(k) \/ Delete(k))
  PROVE  \A i \in Pending(k)' : \E j \in Pending(k) : jobs'[i] = jobs[j]
<1>1. CASE jobs' = jobs \/ jobs' = <<>>
  BY <1>1 DEF Pending
<1>2. CASE jobs # <<>> /\ jobs' = Tail(jobs)
  BY <1>2, PendingLeaves DEF Pending
<1>3. ASSUME NEW job \in StoreJobs, jobs' = Append(jobs, job),
             ~(job.kind = "append" /\ job.line.key = k)
      PROVE  \A i \in Pending(k)' : \E j \in Pending(k) : jobs'[i] = jobs[j]
  <2>1. jobs \in Seq(StoreJobs)
    BY DEF RecordsInv
  <2> QED BY <1>3, <2>1, PendingJoins DEF Pending
<1>4. CASE jobs' = Append(jobs, CompactJob)
  <2>1. CompactJob \in StoreJobs /\ CompactJob.kind # "append"
    BY DEF StoreJobs, CompactJob
  <2> QED BY <1>3, <1>4, <2>1
<1>5. ASSUME NEW j \in Keys, NEW d \in BOOLEAN, jobs' = Append(jobs, AppendJob(Line(j, Issued, d))),
             log' = Append(log, [key |-> j, del |-> d])
      PROVE  \A i \in Pending(k)' : \E l \in Pending(k) : jobs'[i] = jobs[l]
  <2> DEFINE job == AppendJob(Line(j, Issued, d))
  <2>1. job \in StoreJobs /\ job.line.key = j
    BY DEF AppendJob, StoreJobs, StoreLines, RecordsInv, Issued, Line
  <2>2. log \in Seq([key : Keys, del : BOOLEAN])
    BY DEF RecordsInv
  <2>3. log' # log /\ log'[Len(log) + 1].key = j
    BY <1>5, <2>2
  <2>4. CASE \E h \in Keys : h # k /\ (Put(h) \/ Delete(h))
    <3>1. PICK h \in Keys : h # k /\ (Put(h) \/ Delete(h))
      BY <2>4
    <3>2. PICK e \in BOOLEAN : log' = Append(log, [key |-> h, del |-> e])
      BY <3>1 DEF Put, Delete
    <3>3. log'[Len(log) + 1].key = h
      BY <2>2, <3>2
    <3>4. j # k
      BY <2>3, <3>1, <3>3
    <3> HIDE DEF job
    <3> QED BY <1>3, <1>5, <2>1, <3>4 DEF job
  <2>5. CASE ~(\E h \in Keys : Put(h) \/ Delete(h))
    <3>1. log' = log
      BY <2>5 DEF Next, vars, historyVars, Prune, Close, Expire, Disk, AppendDone, CompactStart,
         CompactDone, IoFails, Closed, Crash, Load, LoadFails
    <3> QED BY <2>3, <3>1
  <2> QED BY <2>4, <2>5
<1> QED BY <1>1, <1>2, <1>4, <1>5, JobsStep
\* Memory stays ahead of everything queued, written and acknowledged.
LEMMA NewestKept ==
  ASSUME RecordsInv, PhaseInv, OrderInv, NewestInv, HonoursInv,
         "no_newline" \notin TornWrites, [Next]_vars
  PROVE  NewestInv'
<1> DEFINE Newest(k, n) ==
      /\ Recent(k, n)' /\ Yields(log', expired', n, memory'[k])
      /\ View(file')[k] <= n
      /\ snapshot' # NoSnapshot => View(snapshot')[k] <= n
      /\ \A i \in Pending(k)' : jobs'[i].line.op <= n
<1> SUFFICES ASSUME phase' # "down", persistence' = "active", NEW k \in Keys
             PROVE  \E n \in Nat : Newest(k, n)
  BY DEF NewestInv, Gives
<1>1. /\ acked \in [Keys -> Nat] /\ memory \in [Keys -> Nat] /\ Len(log) \in Nat
      /\ View(file) \in [Keys -> Nat] /\ acked[k] \in 0 .. Len(log)
  BY AckedIsIssued, StoreTypes
<1>2. snapshot' # NoSnapshot /\ snapshot' # snapshot => View(snapshot') = memory'
  BY SnapshotStep
<1>3. CASE Put(k) \/ Delete(k)
  <2>1. PICK n \in Nat : n = Issued
    BY <1>1 DEF Issued
  <2>2. PICK d \in BOOLEAN : log' = Append(log, [key |-> k, del |-> d])
    BY <1>3 DEF Put, Delete
  <2>3. n = Len(log) + 1 /\ n \in DOMAIN log' /\ log'[n].key = k /\ Len(log') = n
    BY <2>1, <2>2 DEF RecordsInv, Issued
  <2>4. UNCHANGED <<acked, file, snapshot, expired>>
    BY <1>3 DEF Put, Delete
  <2>5. Recent(k, n)'
    BY <1>1, <2>3, <2>4 DEF Recent
  <2>6. Yields(log', expired', n, memory'[k])
    <3>1. n \notin expired
      BY <2>3 DEF RecordsInv
    <3>2. CASE Put(k)
      <4> DEFINE m == [memory EXCEPT ![k] = Issued]
      <4>1. m \in [Keys -> Nat] /\ m[k] = n
        BY <1>1, <2>1
      <4>2. memory' = m \/ memory' = Evicted(m)
        BY <3>2 DEF Put
      <4> HIDE DEF m
      <4>3. memory'[k] = n
        BY <3>1, <4>1, <4>2, EvictedIs DEF Evicted
      <4>4. log'[n].del = FALSE /\ n # 0
        BY <1>1, <2>3, <3>2 DEF Put, RecordsInv
      <4> QED BY <4>3, <4>4 DEF Yields
    <3>3. CASE Delete(k)
      <4>1. memory'[k] = 0 /\ log'[n].del = TRUE
        BY <1>1, <2>3, <3>3 DEF Delete, RecordsInv
      <4> QED BY <4>1 DEF Yields
    <3> QED BY <1>3, <3>2, <3>3
  <2>7. View(file')[k] <= n
    <3>1. View(file)[k] # 0 => View(file)[k] \in DOMAIN log
      BY ViewIsRecorded DEF RecordsInv, Recorded, RecordedIn, Line
    <3> QED BY <1>1, <2>3, <2>4, <3>1 DEF RecordsInv
  <2>8. snapshot' # NoSnapshot => View(snapshot')[k] <= n
    <3> SUFFICES ASSUME snapshot # NoSnapshot PROVE View(snapshot)[k] <= n
      BY <2>4
    <3>1. snapshot \in Seq(FileLines) /\ \A i \in DOMAIN snapshot : Recorded(snapshot[i])
      BY DEF RecordsInv, FileLines
    <3>2. View(snapshot)[k] \in Nat /\ (View(snapshot)[k] # 0 => View(snapshot)[k] \in DOMAIN log)
      BY <3>1, ViewIsRecorded DEF Recorded, RecordedIn, Line
    <3> QED BY <1>1, <2>3, <3>2 DEF RecordsInv
  <2>9. \A i \in Pending(k)' : jobs'[i].line.op <= n
    <3>1. ASSUME NEW i \in Pending(k)', NEW o, o = jobs'[i].line.op PROVE o <= n
      <4>1. RecordsInv'
        BY RecordsKept
      <4>2. o \in DOMAIN log'
        BY <3>1, <4>1 DEF Pending, RecordsInv, Recorded, RecordedIn
      <4> QED BY <2>3, <4>1, <4>2 DEF RecordsInv
    <3> QED BY <3>1
  <2> QED BY <2>5, <2>6, <2>7, <2>8, <2>9
<1>4. CASE phase = "down" /\ ~(Put(k) \/ Delete(k))
  <2>1. Load
    <3>1. phase # phase' /\ ~(\E j \in Keys : Put(j) \/ Delete(j)) /\ snapshot = NoSnapshot /\ jobs = <<>>
      BY <1>4 DEF PhaseInv, Put, Delete
    <3> QED BY <1>4, <3>1 DEF Next, vars, storeVars, Prune, Close, Expire, Disk, AppendDone,
       CompactStart, CompactDone, IoFails, Closed, Crash, LoadFails
  <2>2. PICK n \in Nat : Recent(k, n) /\ Gives(n, View(file)[k])
    BY DEF HonoursInv
  <2>3. View(file)[k] <= n
    BY <2>2, YieldsItself DEF Gives
  <2>4. /\ memory' = Evicted(View(file)) /\ file' = file /\ jobs' = <<>> /\ acked' = acked
        /\ log' = log /\ expired' = expired
    BY <2>1 DEF Load, PhaseInv, historyVars
  <2>5. Recent(k, n)'
    BY <2>2, <2>4, FactsStand
  <2>6. Yields(log', expired', n, memory'[k])
    BY <1>1, <2>2, <2>4, EvictedIs, GivesEvicted DEF Gives
  <2>7. memory'[k] <= n
    BY <2>6, YieldsItself
  <2>8. snapshot' # NoSnapshot => View(snapshot')[k] <= n
    BY <1>2, <1>4, <2>7 DEF PhaseInv
  <2>9. Pending(k)' = {}
    BY <2>4 DEF Pending
  <2> QED BY <2>3, <2>4, <2>5, <2>6, <2>8, <2>9
<1>5. CASE phase # "down" /\ ~(Put(k) \/ Delete(k))
  <2>1. persistence = "active"
    BY <1>5 DEF Next, vars, storeVars, Put, Delete, Prune, Close, Expire, Disk, AppendDone,
       CompactStart, CompactDone, IoFails, Closed, Crash, Load, LoadFails
  <2>2. PICK n \in Nat :
          /\ Recent(k, n) /\ Gives(n, memory[k])
          /\ View(file)[k] <= n
          /\ snapshot # NoSnapshot => View(snapshot)[k] <= n
          /\ \A i \in Pending(k) : jobs[i].line.op <= n
    BY <1>5, <2>1 DEF NewestInv
  <2>3. n \in 0 .. Len(log) /\ acked[k] <= n
    BY <1>1, <2>2 DEF Recent
  <2>4. Recent(k, n)'
    <3>1. acked'[k] \in Nat /\ acked'[k] <= n
      <4>1. CASE acked' = acked
        BY <1>1, <2>3, <4>1
      <4>2. CASE jobs # <<>> /\ Head(jobs).kind = "append" /\
                 acked' = [acked EXCEPT ![Head(jobs).line.key] = Head(jobs).line.op]
        <5>1. 1 \in DOMAIN jobs /\ Head(jobs) = jobs[1] /\ Head(jobs).line.op \in Nat
          BY <4>2, JobsAre DEF CompactJob
        <5>2. Head(jobs).line.key = k => 1 \in Pending(k)
          BY <4>2, <5>1 DEF Pending
        <5> QED BY <1>1, <2>2, <2>3, <4>2, <5>1, <5>2
      <4> QED BY <4>1, <4>2, AckedStep
    <3> QED BY <2>2, <2>3, <3>1, LogStep DEF Recent
  <2>5. Yields(log', expired', n, memory'[k])
    <3>1. memory'[k] = memory[k] \/ (memory'[k] = 0 /\ memory[k] \in expired)
      BY <1>5, MemoryElsewhere
    <3>2. \A v : v = memory[k] \/ (v = 0 /\ memory[k] \in expired) => Gives(n, v)
      BY <2>2, GivesEvicted
    <3> QED BY <2>3, <3>1, <3>2, FactsStand
  <2>6. View(file')[k] <= n
    <3>1. CASE 1 \in Pending(k) /\ View(file')[k] = LineEffect(jobs[1].line)
      <4>1. jobs[1].line.op \in Nat /\ jobs[1].line.op <= n
        BY <2>2, <3>1, JobsAre DEF Pending, CompactJob
      <4> QED BY <3>1, <4>1 DEF LineEffect
    <3> QED BY <2>2, <3>1, ViewStep
  <2>7. snapshot' # NoSnapshot => View(snapshot')[k] <= n
    <3>1. memory'[k] <= n
      BY <2>5, YieldsItself
    <3> QED BY <1>2, <2>2, <3>1
  <2>8. \A i \in Pending(k)' : jobs'[i].line.op <= n
    BY <1>5, <2>2, PendingElsewhere
  <2> QED BY <2>4, <2>5, <2>6, <2>7, <2>8
<1> QED BY <1>3, <1>4, <1>5

\* A compaction writes what honours every acknowledgement, and the one it returns with.
LEMMA SnapshotKept ==
  ASSUME RecordsInv, PhaseInv, OrderInv, NewestInv, SnapshotInv, HonoursInv,
         "no_newline" \notin TornWrites, [Next]_vars
  PROVE  SnapshotInv'
<1> DEFINE Sound(k, n) ==
      /\ Recent(k, n)' /\ Yields(log', expired', n, View(snapshot')[k])
      /\ jobs' # <<>> /\ 1 \in Pending(k)' => Head(jobs').line.op <= n
<1> SUFFICES ASSUME snapshot' # NoSnapshot, NEW k \in Keys
             PROVE  \E n \in Nat : Sound(k, n)
  BY DEF SnapshotInv, Gives
<1>1. acked \in [Keys -> Nat] /\ memory \in [Keys -> Nat] /\ Len(log) \in Nat
      /\ View(file) \in [Keys -> Nat]
  BY StoreTypes
<1>2. CASE snapshot' = snapshot
  <2>1. acked' = acked
    BY <1>2 DEF Next, vars, historyVars, Put, Delete, Prune, Close, Expire, Disk, AppendDone,
       CompactStart, CompactDone, IoFails, Closed, Crash, Load, LoadFails
  <2>2. PICK n \in Nat : /\ Recent(k, n) /\ Gives(n, View(snapshot)[k])
                         /\ jobs # <<>> /\ 1 \in Pending(k) => Head(jobs).line.op <= n
    BY <1>2 DEF SnapshotInv
  <2>3. n \in 0 .. Len(log)
    BY <1>1, <2>2 DEF Recent
  <2>4. Recent(k, n)' /\ Yields(log', expired', n, View(snapshot')[k])
    BY <1>2, <2>1, <2>2, <2>3, FactsStand
  <2>5. jobs' # <<>> /\ 1 \in Pending(k)' => Head(jobs').line.op <= n
    <3>1. CASE jobs = <<>>
      <4>1. phase = "loading"
        BY <1>2, <3>1 DEF PhaseInv
      <4>2. jobs' = <<>>
        BY <3>1, <4>1 DEF Next, vars, storeVars, Put, Delete, Prune, Close, Expire, Disk,
           AppendDone, CompactStart, CompactDone, IoFails, Closed, Crash, Load, LoadFails
      <4> QED BY <4>2
    <3>2. CASE jobs # <<>>
      <4>1. \/ jobs' = jobs \/ jobs' = <<>>
            \/ \E job \in StoreJobs : jobs' = Append(jobs, job)
        <5>1. CompactJob \in StoreJobs
          BY DEF StoreJobs, CompactJob
        <5>2. \A j \in Keys, d \in BOOLEAN : AppendJob(Line(j, Issued, d)) \in StoreJobs
          BY <1>1 DEF AppendJob, StoreJobs, StoreLines, Issued, Line
        <5>3. CASE jobs' = Tail(jobs)
          <6>1. jobs' = jobs \/ jobs' = <<>> \/ (\E job \in StoreJobs : jobs' = Append(jobs, job))
            BY <1>2, <5>1, <5>2 DEF Next, vars, storeVars, Put, Delete, Prune, Close, Expire, Disk,
               AppendDone, CompactStart, CompactDone, IoFails, Closed, Crash, Load, LoadFails, Enqueue
          <6> QED BY <6>1
        <5> QED BY <5>1, <5>2, <5>3, JobsStep
      <4>2. CASE jobs' = jobs \/ jobs' = <<>>
        BY <2>2, <3>2, <4>2 DEF Pending
      <4>3. ASSUME NEW job \in StoreJobs, jobs' = Append(jobs, job)
            PROVE  jobs' # <<>> /\ 1 \in Pending(k)' => Head(jobs').line.op <= n
        <5>1. 1 \in DOMAIN jobs /\ Head(jobs) = jobs[1] /\ jobs' \in Seq(StoreJobs) /\ jobs \in Seq(StoreJobs)
          BY <3>2, <4>3, JobsAre DEF RecordsInv
        <5>2. Head(jobs') = Head(jobs) /\ (1 \in Pending(k)' => 1 \in Pending(k))
          BY <4>3, <5>1, PendingJoins
        <5> QED BY <2>2, <3>2, <5>2
      <4> QED BY <4>1, <4>2, <4>3
    <3> QED BY <3>1, <3>2
  <2> QED BY <2>4, <2>5
<1>3. CASE View(snapshot') = memory' /\ snapshot = NoSnapshot
  <2>1. AppendDone \/ CompactStart \/ Load
    <3>1. snapshot' # snapshot
      BY <1>3
    <3> QED BY <3>1 DEF Next, vars, storeVars, Put, Delete, Prune, Close, Expire, Disk,
       CompactDone, IoFails, Closed, Crash, LoadFails
  <2>2. /\ acked' = acked /\ jobs' = jobs /\ log' = log /\ expired' = expired
        /\ Load \/ memory' = Evicted(memory)
    BY <1>3, <2>1 DEF AppendDone, CompactStart, Load, historyVars
  <2>3. CASE Load
    <3>1. PICK n \in Nat : Recent(k, n) /\ Gives(n, View(file)[k])
      BY DEF HonoursInv
    <3>2. memory' = Evicted(View(file)) /\ jobs' = <<>>
      BY <2>2, <2>3 DEF Load, PhaseInv
    <3>3. Gives(n, Evicted(View(file))[k])
      BY <1>1, <3>1, EvictedIs, GivesEvicted
    <3> QED BY <1>3, <2>2, <3>1, <3>2, <3>3, FactsStand DEF Gives
  <2>4. CASE ~Load
    <3>1. jobs # <<>> /\ phase \in {"up", "closing"} /\ persistence = "active"
      BY <2>1, <2>4 DEF AppendDone, CompactStart, PhaseInv
    <3>2. PICK n \in Nat : /\ Recent(k, n) /\ Gives(n, memory[k])
                           /\ \A i \in Pending(k) : jobs[i].line.op <= n
      BY <3>1 DEF NewestInv
    <3>3. Gives(n, Evicted(memory)[k])
      BY <1>1, <3>2, EvictedIs, GivesEvicted
    <3>4. Head(jobs) = jobs[1] /\ Pending(k)' = Pending(k)
      BY <2>2, <3>1, JobsAre DEF Pending
    <3> QED BY <1>3, <2>2, <2>4, <3>2, <3>3, <3>4, FactsStand DEF Gives
  <2> QED BY <2>3, <2>4
<1> QED BY <1>2, <1>3, SnapshotStep
\* What memory and what the queue or the file give of a key agree, after as before.
LEMMA SyncStands ==
  ASSUME RecordsInv, [Next]_vars, phase # "down", phase' # "down",
         NEW k \in Keys, ~(Put(k) \/ Delete(k)), NEW v, v \in {memory[k]} \cup expired
  PROVE  v \in {memory'[k]} \cup expired'
BY MemoryElsewhere, LogStep

LEMMA PendingSame ==
  ASSUME RecordsInv, NEW k \in Keys,
         \/ jobs' = jobs
         \/ \E job \in StoreJobs :
              jobs' = Append(jobs, job) /\ ~(job.kind = "append" /\ job.line.key = k)
  PROVE  Pending(k)' = Pending(k) /\ \A i \in Pending(k) : jobs'[i] = jobs[i]
<1>1. CASE jobs' = jobs
  BY <1>1 DEF Pending
<1>2. ASSUME NEW job \in StoreJobs, jobs' = Append(jobs, job),
             ~(job.kind = "append" /\ job.line.key = k)
      PROVE  Pending(k)' = Pending(k) /\ \A i \in Pending(k) : jobs'[i] = jobs[i]
  <2>1. jobs \in Seq(StoreJobs)
    BY DEF RecordsInv
  <2>2. Pending(k)' \subseteq DOMAIN jobs' /\ Pending(k) \subseteq DOMAIN jobs
    BY DEF Pending
  <2> QED BY <1>2, <2>1, <2>2, PendingJoins
<1> QED BY <1>1, <1>2

\* The file follows memory: what is not pending is there.
LEMMA SyncKept ==
  ASSUME RecordsInv, PhaseInv, SyncInv, PhaseInv', "no_newline" \notin TornWrites, [Next]_vars
  PROVE  SyncInv'
<1> DEFINE
      FileHas(k) == phase' \in {"up", "closing"} /\ Pending(k)' = {} =>
                      View(file')[k] \in {memory'[k]} \cup expired'
      LineHas(k) == \A i \in Pending(k)' : (\A j \in Pending(k)' : j <= i) =>
                      LineEffect(jobs'[i].line) \in {memory'[k]} \cup expired'
      SnapshotHas(k) == snapshot' # NoSnapshot /\ Pending(k)' \subseteq {1} =>
                          View(snapshot')[k] \in {memory'[k]} \cup expired'
<1> SUFFICES ASSUME persistence' = "active", NEW k \in Keys
             PROVE  FileHas(k) /\ LineHas(k) /\ SnapshotHas(k)
  BY DEF SyncInv
<1>1. /\ memory \in [Keys -> Nat] /\ View(file) \in [Keys -> Nat] /\ Len(log) \in Nat
      /\ jobs \in Seq(StoreJobs) /\ file \in Seq(FileLines)
  BY StoreTypes DEF RecordsInv
<1>2. CASE phase' = "down"
  <2>1. jobs' = <<>> /\ snapshot' = NoSnapshot
    BY <1>2 DEF PhaseInv
  <2>2. Pending(k)' = {}
    BY <2>1 DEF Pending
  <2> QED BY <1>2, <2>1, <2>2
<1>3. CASE Load
  <2>1. /\ memory' = Evicted(View(file)) /\ file' = file /\ jobs' = <<>> /\ expired' = expired
        /\ snapshot = NoSnapshot
    BY <1>3 DEF Load, PhaseInv, historyVars
  <2>2. Pending(k)' = {}
    BY <2>1 DEF Pending
  <2>3. View(file)[k] \in {memory'[k]} \cup expired'
    BY <1>1, <2>1, EvictedIs
  <2>4. snapshot' # NoSnapshot => View(snapshot') = memory'
    BY <1>3, MemoryIs, ViewOfLines DEF Load
  <2> QED BY <2>1, <2>2, <2>3, <2>4
<1>4. CASE phase' # "down" /\ (Put(k) \/ Delete(k))
  <2>1. /\ phase \in {"up", "closing"} /\ persistence = "active" /\ snapshot' = snapshot
        /\ \E e \in BOOLEAN : /\ jobs' = Append(jobs, AppendJob(Line(k, Issued, e)))
                              /\ memory'[k] = IF e THEN 0 ELSE Issued
    <3>1. CASE Put(k)
      <4> DEFINE m == [memory EXCEPT ![k] = Issued]
      <4>1. m \in [Keys -> Nat] /\ m[k] = Issued /\ Issued \notin expired
        BY <1>1 DEF Issued, RecordsInv
      <4>2. memory' = m \/ memory' = Evicted(m)
        BY <3>1 DEF Put
      <4> HIDE DEF m
      <4>3. memory'[k] = Issued
        BY <4>1, <4>2, EvictedIs
      <4> QED BY <3>1, <4>3 DEF Put, Enqueue
    <3>2. CASE Delete(k)
      BY <1>1, <3>2 DEF Delete, Enqueue
    <3> QED BY <1>4, <3>1, <3>2
  <2>2. PICK e \in BOOLEAN : /\ jobs' = Append(jobs, AppendJob(Line(k, Issued, e)))
                             /\ memory'[k] = IF e THEN 0 ELSE Issued
    BY <2>1
  <2>3. PICK newest \in StoreJobs : /\ jobs' = Append(jobs, newest) /\ newest.kind = "append"
                                  /\ newest.line = Line(k, Issued, e) /\ newest.line.key = k
    <3> DEFINE job == AppendJob(Line(k, Issued, e))
    <3>1. Line(k, Issued, e) \in StoreLines
      BY <1>1 DEF StoreLines, Line, Issued
    <3>2. job \in StoreJobs /\ job.kind = "append" /\ job.line = Line(k, Issued, e)
      BY <3>1 DEF AppendJob, StoreJobs
    <3>3. Line(k, Issued, e).key = k
      BY DEF Line
    <3> QED BY <2>2, <3>2, <3>3
  <2>4. Len(jobs) + 1 \in Pending(k)' /\ jobs'[Len(jobs) + 1] = newest
        /\ Pending(k)' \subseteq 1 .. Len(jobs) + 1 /\ Len(jobs) \in Nat
    BY <1>1, <2>3 DEF Pending
  <2>5. LineEffect(newest.line) = memory'[k]
    BY <2>2, <2>3 DEF LineEffect, Line
  <2>6. LineHas(k)
    <3>1. ASSUME NEW i \in Pending(k)', \A j \in Pending(k)' : j <= i PROVE i = Len(jobs) + 1
      BY <2>4, <3>1
    <3> QED BY <2>4, <2>5, <3>1
  <2>7. SnapshotHas(k)
    <3>1. snapshot # NoSnapshot => jobs # <<>>
      BY <2>1 DEF PhaseInv
    <3>2. jobs # <<>> => Len(jobs) + 1 # 1
      BY <1>1
    <3> QED BY <2>1, <2>4, <3>1, <3>2
  <2> QED BY <2>4, <2>6, <2>7
<1>5. CASE phase' # "down" /\ ~Load /\ ~(Put(k) \/ Delete(k))
  <2>1. phase # "down" /\ persistence = "active" /\ ~IoFails /\ ~Crash /\ ~Closed /\ ~LoadFails
    <3>1. ~IoFails /\ ~Crash /\ ~Closed /\ ~LoadFails
      BY <1>5 DEF IoFails, Crash, Closed, LoadFails
    <3>2. phase = "down" => snapshot = NoSnapshot /\ jobs = <<>>
      BY DEF PhaseInv
    <3> QED BY <1>5, <3>1, <3>2 DEF Next, vars, storeVars, Put, Delete, Prune, Close, Expire,
       Disk, AppendDone, CompactStart, CompactDone
  <2>2. \A v : v \in {memory[k]} \cup expired => v \in {memory'[k]} \cup expired'
    BY <1>5, <2>1, SyncStands
  <2>3. /\ phase \in {"up", "closing"} /\ Pending(k) = {} =>
             View(file)[k] \in {memory'[k]} \cup expired'
        /\ \A i \in Pending(k) : (\A j \in Pending(k) : j <= i) =>
             LineEffect(jobs[i].line) \in {memory'[k]} \cup expired'
        /\ snapshot # NoSnapshot /\ Pending(k) \subseteq {1} =>
             View(snapshot)[k] \in {memory'[k]} \cup expired'
    BY <2>1, <2>2 DEF SyncInv
  <2>4. ASSUME jobs' = Tail(jobs), jobs # <<>> PROVE LineHas(k)
    <3>1. ASSUME NEW i \in Pending(k)', \A j \in Pending(k)' : j <= i
          PROVE  LineEffect(jobs'[i].line) \in {memory'[k]} \cup expired'
      <4>1. DOMAIN jobs' = 1 .. Len(jobs) - 1 /\ i \in DOMAIN jobs' /\ jobs'[i] = jobs[i + 1]
            /\ i + 1 \in Pending(k)
        BY <2>4, <3>1, PendingLeaves DEF Pending
      <4>2. ASSUME NEW j \in Pending(k) PROVE j <= i + 1
        <5>1. j \in 1 .. Len(jobs) /\ Len(jobs) \in Nat
          BY <1>1 DEF Pending
        <5>2. CASE j = 1
          BY <4>1, <5>2
        <5>3. CASE j > 1
          <6>1. j - 1 \in DOMAIN jobs' /\ (j - 1) + 1 = j
            BY <4>1, <5>1, <5>3
          <6>2. j - 1 \in Pending(k)'
            BY <2>4, <6>1, PendingLeaves
          <6> QED BY <3>1, <4>1, <5>1, <6>1, <6>2
        <5> QED BY <5>1, <5>2, <5>3
      <4> QED BY <2>3, <4>1, <4>2
    <3> QED BY <3>1
  <2>5. ASSUME jobs' = Tail(jobs), jobs # <<>>, Pending(k)' = {} PROVE Pending(k) \subseteq {1}
    <3>1. ASSUME NEW j \in Pending(k), j # 1 PROVE FALSE
      <4>1. j \in 1 .. Len(jobs) /\ Len(jobs) \in Nat
        BY <1>1 DEF Pending
      <4>2. j - 1 \in 1 .. Len(jobs) - 1 /\ (j - 1) + 1 = j
        BY <3>1, <4>1
      <4> QED BY <2>5, <4>2, PendingLeaves
    <3> QED BY <3>1
  <2>6. ASSUME \/ jobs' = jobs
               \/ \E job \in StoreJobs :
                    jobs' = Append(jobs, job) /\ ~(job.kind = "append" /\ job.line.key = k)
        PROVE  LineHas(k) /\ Pending(k)' = Pending(k)
    BY <2>3, <2>6, PendingSame
  <2>7. CASE AppendDone
    <3>1. /\ jobs # <<>> /\ Head(jobs).kind = "append" /\ snapshot = NoSnapshot
          /\ file' = Append(file, Head(jobs).line) /\ phase \in {"up", "closing"}
      BY <2>7, TailIsClosed DEF AppendDone, Outcome
    <3>2. 1 \in DOMAIN jobs /\ Head(jobs) = jobs[1] /\ jobs[1].line \in FileLines
      BY <3>1, JobsAre DEF CompactJob
    <3>3. View(file')[k] = IF jobs[1].line.key = k THEN LineEffect(jobs[1].line) ELSE View(file)[k]
      BY <1>1, <3>1, <3>2, ViewOfAppend
    <3>4. 1 \in Pending(k) <=> jobs[1].line.key = k
      BY <3>1, <3>2 DEF Pending
    <3>5. CASE snapshot' = NoSnapshot /\ jobs' = Tail(jobs)
      <4>1. FileHas(k)
        <5> SUFFICES ASSUME Pending(k)' = {} PROVE View(file')[k] \in {memory'[k]} \cup expired'
          OBVIOUS
        <5>1. Pending(k) \subseteq {1}
          BY <2>5, <3>1, <3>5
        <5>2. CASE 1 \in Pending(k)
          <6>1. \A j \in Pending(k) : j <= 1
            BY <5>1
          <6> QED BY <2>3, <3>3, <3>4, <5>2, <6>1
        <5>3. CASE 1 \notin Pending(k)
          <6>1. Pending(k) = {}
            BY <5>1, <5>3
          <6> QED BY <2>3, <3>1, <3>3, <3>4, <6>1
        <5> QED BY <5>2, <5>3
      <4> QED BY <2>4, <3>1, <3>5, <4>1
    <3>6. CASE snapshot' # NoSnapshot \/ jobs' # Tail(jobs)
      <4>1. jobs' = jobs /\ snapshot' = Lines(memory')
        BY <2>7, <3>1, <3>6 DEF AppendDone
      <4>2. View(snapshot') = memory'
        BY <4>1, MemoryIs, ViewOfLines
      <4> QED BY <2>3, <2>6, <3>1, <3>3, <3>4, <4>1, <4>2
    <3> QED BY <3>5, <3>6
  <2>8. CASE CompactDone
    <3>1. snapshot # NoSnapshot /\ file' = snapshot /\ snapshot' = NoSnapshot
      BY <2>8 DEF CompactDone
    <3>2. CASE phase = "loading"
      <4>1. jobs' = jobs /\ jobs = <<>>
        BY <2>8, <3>2 DEF CompactDone, PhaseInv
      <4>2. Pending(k) = {}
        BY <4>1 DEF Pending
      <4> QED BY <2>3, <2>6, <3>1, <4>1, <4>2
    <3>3. CASE phase # "loading"
      <4>1. jobs # <<>> /\ jobs' = Tail(jobs)
        BY <2>8, <3>1, <3>3 DEF CompactDone, PhaseInv
      <4> QED BY <2>3, <2>4, <2>5, <3>1, <4>1
    <3> QED BY <3>2, <3>3
  <2>9. CASE CompactStart
    <3>1. jobs' = jobs /\ file' = file /\ phase' = phase /\ snapshot' = Lines(memory')
      BY <2>9 DEF CompactStart
    <3>2. View(snapshot') = memory'
      BY <3>1, MemoryIs, ViewOfLines
    <3> QED BY <2>3, <2>6, <3>1, <3>2
  <2>10. CASE ~AppendDone /\ ~CompactDone /\ ~CompactStart
    <3>1. /\ snapshot' = snapshot /\ file' = file
          /\ phase' \in {"up", "closing"} => phase \in {"up", "closing"}
      BY <1>5, <2>1, <2>10 DEF Next, vars, storeVars, Put, Delete, Prune, Close, Expire, Disk
    <3>2. \/ jobs' = jobs
          \/ \E job \in StoreJobs :
               jobs' = Append(jobs, job) /\ ~(job.kind = "append" /\ job.line.key = k)
      <4>1. CompactJob \in StoreJobs /\ CompactJob.kind # "append"
        BY DEF StoreJobs, CompactJob
      <4>2. ASSUME NEW j \in Keys, j # k, NEW e \in BOOLEAN
            PROVE  /\ AppendJob(Line(j, Issued, e)) \in StoreJobs
                   /\ AppendJob(Line(j, Issued, e)).line.key # k
        BY <1>1, <4>2 DEF AppendJob, StoreJobs, StoreLines, Line, Issued
      <4>3. CASE \E j \in Keys : Put(j)
        BY <1>5, <4>2, <4>3 DEF Put, Enqueue
      <4>4. CASE \E j \in Keys : Delete(j)
        BY <1>5, <4>2, <4>4 DEF Delete, Enqueue
      <4>5. CASE ~(\E j \in Keys : Put(j) \/ Delete(j))
        BY <1>5, <2>1, <2>10, <4>1, <4>5 DEF Next, vars, storeVars, Prune, Close, Expire, Disk, Enqueue
      <4> QED BY <4>3, <4>4, <4>5
    <3> QED BY <2>3, <2>6, <3>1, <3>2
  <2> QED BY <2>7, <2>8, <2>9, <2>10
<1> QED BY <1>2, <1>3, <1>4, <1>5
-------------------------------------------------------------------------------
(* The theorems.                                                            *)

LEMMA StoreInvHolds ==
  ASSUME "no_newline" \notin TornWrites
  PROVE  Spec => []StoreInv
<1>1. Init => StoreInv
  <2> SUFFICES ASSUME Init PROVE StoreInv
    OBVIOUS
  <2> USE DEF Init
  <2>1. View(file) = Empty /\ Empty \in [Keys -> Nat] /\ \A k \in Keys : Empty[k] = 0
    BY ViewOfNothing DEF Empty
  <2>2. Len(log) = 0 /\ DOMAIN log = {} /\ \A k \in Keys : Pending(k) = {}
    BY DEF Pending
  <2>3. RecordsInv
    <3>1. /\ DOMAIN file = {} /\ DOMAIN jobs = {} /\ expired = {} /\ snapshot = NoSnapshot
          /\ log \in Seq([key : Keys, del : BOOLEAN]) /\ file \in Seq(FileLines)
          /\ jobs \in Seq(StoreJobs)
      OBVIOUS
    <3>2. /\ memory \in [Keys -> Nat] /\ acked \in [Keys -> Nat]
          /\ \A k \in Keys : memory[k] = 0
      BY <2>1
    <3>3. /\ phase \in {"down", "loading", "up", "closing"}
          /\ tailOpen \in BOOLEAN /\ persistence \in {"active", "disabled"}
          /\ appended \in Nat /\ sinceEvict \in Nat /\ crashes \in Nat
      OBVIOUS
    <3> QED BY <2>2, <3>1, <3>2, <3>3 DEF RecordsInv
  <2>4. PhaseInv /\ OrderInv /\ SnapshotInv
    BY DEF PhaseInv, OrderInv, SnapshotInv
  <2>5. \A k \in Keys : Recent(k, 0) /\ Gives(0, 0)
    BY <2>1, <2>2 DEF Recent, Gives, Yields
  <2>6. NewestInv /\ HonoursInv /\ SyncInv
    BY <2>1, <2>2, <2>5 DEF NewestInv, HonoursInv, SyncInv
  <2> QED BY <2>3, <2>4, <2>6 DEF StoreInv
<1>2. StoreInv /\ [Next]_vars => StoreInv'
  BY RecordsKept, PhaseKept, OrderKept, NewestKept, SnapshotKept, HonoursKept, SyncKept DEF StoreInv
<1> QED BY <1>1, <1>2, PTL DEF Spec

LEMMA FileHonours ==
  ASSUME RecordsInv, HonoursInv, NEW k \in Keys
  PROVE  Map!Honours(View(file), acked, k)
<1>1. PICK n \in Nat : Recent(k, n) /\ Gives(n, View(file)[k])
  BY DEF HonoursInv
<1> QED BY <1>1 DEF Map!Honours, Map!Effect, Recent, Gives, Yields

\* Every variable keeps its type: the file, after any tear, compaction and reload,
\* holds lines of operations that were issued and text that does not parse.
THEOREM StoreTypesHold ==
  ASSUME "no_newline" \notin TornWrites
  PROVE  Spec => []TypeOK
<1>1. StoreInv => TypeOK
  <2> SUFFICES ASSUME StoreInv PROVE TypeOK
    OBVIOUS
  <2>1. RecordsInv /\ HonoursInv
    BY DEF StoreInv
  <2>2. Len(log) \in Nat /\ DOMAIN log = 1 .. Len(log)
    BY <2>1 DEF RecordsInv
  <2>3. memory \in [Keys -> 0 .. Len(log)]
    <3>1. ASSUME NEW k \in Keys PROVE memory[k] \in 0 .. Len(log)
      <4>1. memory[k] # 0 => Recorded(Line(k, memory[k], FALSE))
        BY <2>1 DEF RecordsInv
      <4>2. memory[k] # 0 => memory[k] \in DOMAIN log
        BY <4>1 DEF Recorded, RecordedIn, Line
      <4> QED BY <2>2, <4>2
    <3> QED BY <2>1, <3>1 DEF RecordsInv
  <2>4. acked \in [Keys -> 0 .. Len(log)]
    BY <2>1, AckedIsIssued DEF RecordsInv
  <2>5. ASSUME NEW i \in DOMAIN file
        PROVE  file[i] = Garbage \/ file[i] \in [key : Keys, op : 1 .. Len(log), del : BOOLEAN]
    <3>1. file[i] = Garbage \/ (file[i] \in StoreLines /\ file[i].op \in 1 .. Len(log))
      BY <2>1, <2>2 DEF RecordsInv, FileLines, Recorded, RecordedIn
    <3> QED BY <3>1 DEF StoreLines
  <2> QED BY <2>1, <2>3, <2>4, <2>5 DEF TypeOK, RecordsInv
<1> QED BY <1>1, StoreInvHolds, PTL

\* The file a restart reads holds every acknowledged operation or a later one, provided
\* no append is cut short exactly before its newline.
THEOREM NothingAckedIsLost ==
  ASSUME "no_newline" \notin TornWrites
  PROVE  Spec => []AckedSurvives
<1>1. StoreInv => AckedSurvives
  BY FileHonours DEF StoreInv, AckedSurvives
<1> QED BY <1>1, StoreInvHolds, PTL

\* An idle, healthy store has on file what it serves, but for what has expired.
THEOREM FileFollowsMemory ==
  ASSUME "no_newline" \notin TornWrites
  PROVE  Spec => []IdleFileMatchesMemory
<1>1. StoreInv => IdleFileMatchesMemory
  <2> SUFFICES ASSUME StoreInv, phase = "up", persistence = "active", jobs = <<>>, NEW k \in Keys
               PROVE  View(file)[k] = memory[k] \/ View(file)[k] \in expired
    BY DEF IdleFileMatchesMemory
  <2>1. Pending(k) = {}
    BY DEF Pending
  <2> QED BY <2>1 DEF StoreInv, SyncInv
<1> QED BY <1>1, StoreInvHolds, PTL

\* With the disk healthy, no compaction brings back an older record than memory has.
THEOREM MemoryLeads ==
  ASSUME "no_newline" \notin TornWrites
  PROVE  Spec => []MemoryLeadsFile
<1>1. StoreInv => MemoryLeadsFile
  <2> SUFFICES ASSUME StoreInv, phase \in {"up", "closing"}, persistence = "active",
                      NEW k \in Keys, NEW v, v = View(file)[k]
               PROVE  v \in expired \/ v <= memory[k]
                      \/ \E n \in DOMAIN log : log[n].key = k /\ log[n].del /\ n > v
    BY DEF MemoryLeadsFile
  <2>1. RecordsInv
    BY DEF StoreInv
  <2>2. PICK n \in Nat : Recent(k, n) /\ Gives(n, memory[k]) /\ v <= n
    BY DEF StoreInv, NewestInv
  <2>3. /\ v \in Nat /\ memory[k] \in Nat /\ log \in Seq([key : Keys, del : BOOLEAN])
        /\ n \in 0 .. Len(log) /\ (n > 0 => log[n].key = k)
    <3>1. View(file) \in [Keys -> Nat] /\ memory \in [Keys -> Nat] /\ acked \in [Keys -> Nat]
          /\ log \in Seq([key : Keys, del : BOOLEAN])
      BY <2>1, StoreTypes DEF RecordsInv
    <3>2. n \in acked[k] .. Len(log) /\ (n > 0 => log[n].key = k)
      BY <2>2 DEF Recent
    <3> QED BY <3>1, <3>2
  <2>4. v # 0 => v \in DOMAIN log /\ log[v].key = k /\ log[v].del = FALSE
    <3>1. /\ file \in Seq(FileLines)
          /\ \A i \in DOMAIN file : file[i] = Garbage \/ Recorded(file[i])
      BY <2>1 DEF RecordsInv
    <3>2. v # 0 => Recorded(Line(k, v, FALSE))
      BY <3>1, ViewIsRecorded
    <3> QED BY <3>2 DEF Recorded, RecordedIn, Line
  <2>5. CASE v = 0
    BY <2>3, <2>5
  <2>6. CASE v # 0 /\ n \in expired
    BY <2>1, <2>2, <2>3, <2>4, <2>6 DEF RecordsInv
  <2>7. CASE v # 0 /\ n \notin expired
    <3>1. n > 0 /\ n \in DOMAIN log /\ (log[n].del \/ memory[k] = n)
      BY <2>2, <2>3, <2>7 DEF Gives, Yields
    <3> QED BY <2>2, <2>3, <2>4, <2>7, <3>1
  <2> QED BY <2>5, <2>6, <2>7
<1> QED BY <1>1, StoreInvHolds, PTL

\* What memory may drop, the map may.
LEMMA EvictionDrops ==
  ASSUME NEW m \in [Keys -> Nat], NEW w, w \in {m, Evicted(m)}
  PROVE  Map!Dropping(m, w)
BY EvictedIs DEF Map!Dropping

\* Every step of the store is one DurableMap allows, or changes nothing it sees.
LEMMA MapStep ==
  ASSUME StoreInv, StoreInv', "no_newline" \notin TornWrites, [Next]_vars
  PROVE  [Map!Next]_(Map!vars)
<1>1. RecordsInv /\ PhaseInv /\ HonoursInv
  BY DEF StoreInv
<1>2. /\ acked \in [Keys -> Nat] /\ memory \in [Keys -> Nat] /\ Len(log) \in Nat
      /\ View(file) \in [Keys -> Nat] /\ log \in Seq([key : Keys, del : BOOLEAN])
  BY <1>1, StoreTypes DEF RecordsInv
<1>3. ASSUME UNCHANGED <<log, expired>>, NEW k \in Keys
      PROVE  Map!Honours(View(file'), acked', k)
  <2>1. PICK n \in Nat : Recent(k, n)' /\ Yields(log', expired', n, View(file')[k])
    BY DEF StoreInv, HonoursInv, Gives
  <2> QED BY <1>3, <2>1 DEF Map!Honours, Map!Effect, Recent, Yields
<1>4. ASSUME NEW k \in Keys, Put(k) PROVE Map!Next
  <2> DEFINE m == [memory EXCEPT ![k] = Issued]
  <2>1. m \in [Keys -> Nat] /\ memory' \in {m, Evicted(m)}
    BY <1>2, <1>4 DEF Put, Issued
  <2>2. Map!Dropping(m, memory')
    BY <2>1, EvictionDrops
  <2>3. m = [memory EXCEPT ![k] = Len(log) + 1]
    BY DEF Issued
  <2>4. Map!Issue(k, FALSE)
    BY <1>4, <2>2, <2>3 DEF Map!Issue, Put
  <2> QED BY <2>4 DEF Map!Next
<1>5. ASSUME NEW k \in Keys, Delete(k) PROVE Map!Next
  <2>1. Map!Issue(k, TRUE)
    BY <1>2, <1>5 DEF Map!Issue, Map!Dropping, Delete
  <2> QED BY <2>1 DEF Map!Next
<1>6. ASSUME NEW n \in DOMAIN log, Expire(n) PROVE Map!Next
  <2>1. expired' \subseteq 1 .. Len(log)
    BY <1>1, <1>2, <1>6 DEF Expire, RecordsInv
  <2>2. Map!Expire
    BY <1>6, <2>1 DEF Map!Expire, Map!Ops, Expire, storeVars
  <2> QED BY <2>2 DEF Map!Next
<1>7. CASE Prune \/ Disk \/ IoFails
  <2>1. memory' \in {memory, Evicted(memory)} /\ UNCHANGED <<log, expired>>
    BY <1>7 DEF Prune, Disk, AppendDone, CompactStart, CompactDone, IoFails, historyVars
  <2>2. Map!Dropping(memory, memory')
    BY <1>2, <2>1, EvictionDrops
  <2>3. \A k \in Keys : acked'[k] \in acked[k] .. Len(log)
    <3>1. \A k \in Keys : acked[k] \in 0 .. Len(log)
      BY <1>1, AckedIsIssued
    <3>2. CASE acked' = acked
      BY <1>2, <3>1, <3>2
    <3>3. CASE /\ jobs # <<>> /\ Head(jobs).kind = "append" /\ jobs' = Tail(jobs)
               /\ acked' = [acked EXCEPT ![Head(jobs).line.key] = Head(jobs).line.op]
      <4>1. PICK line : line = Head(jobs).line
        OBVIOUS
      <4>2. acked[line.key] < line.op /\ Recent(line.key, line.op) /\ line.op \in Nat
        BY <1>1, <3>3, <4>1, HeadIsNews DEF StoreInv
      <4>3. line.op \in 0 .. Len(log)
        BY <1>2, <4>2 DEF Recent
      <4>4. ASSUME NEW k \in Keys PROVE acked'[k] \in acked[k] .. Len(log)
        <5>1. acked'[k] = IF k = line.key THEN line.op ELSE acked[k]
          BY <1>2, <3>3, <4>1
        <5> QED BY <1>2, <3>1, <4>2, <4>3, <5>1
      <4> QED BY <4>4
    <3> QED BY <1>1, <3>2, <3>3, AckedStep
  <2>4. Map!Write
    BY <1>3, <2>1, <2>2, <2>3 DEF Map!Write
  <2> QED BY <2>4 DEF Map!Next
<1>8. CASE Closed \/ Crash
  <2>1. memory' = Empty /\ UNCHANGED <<log, expired, acked>>
    BY <1>8 DEF Closed, Crash, historyVars
  <2>2. \A k \in Keys : Map!Honours(View(file'), acked, k)
    BY <1>3, <2>1
  <2>3. Map!Die
    BY <2>1, <2>2 DEF Map!Die, Empty
  <2> QED BY <2>3 DEF Map!Next
<1>9. CASE Load \/ LoadFails
  <2>1. \A k \in Keys : memory[k] = 0
    BY <1>1, <1>9 DEF Load, LoadFails, PhaseInv, Empty
  <2>2. Map!Dropping(View(file), memory') \/ memory' = memory
    BY <1>2, <1>9, EvictionDrops DEF Load, LoadFails
  <2>3. Map!Load
    BY <1>9, <2>1, <2>2 DEF Map!Load, Load, LoadFails, historyVars
  <2> QED BY <2>3 DEF Map!Next
<1>10. CASE Close \/ UNCHANGED vars
  BY <1>10 DEF Close, vars, storeVars, historyVars, Map!vars
<1> QED BY <1>4, <1>5, <1>6, <1>7, <1>8, <1>9, <1>10 DEF Next

\* The store implements DurableMap: a restart brings back, key by key, the last
\* acknowledged operation or a later one, provided no append is cut short exactly
\* before its newline.
THEOREM StoreIsDurableMap ==
  ASSUME "no_newline" \notin TornWrites
  PROVE  Spec => ImplementsMap
<1>1. Init => Map!Init
  BY ViewOfNothing DEF Init, Map!Init, Empty
<1>2. StoreInv /\ StoreInv' /\ [Next]_vars => [Map!Next]_(Map!vars)
  BY MapStep
<1> QED BY <1>1, <1>2, StoreInvHolds, PTL DEF Spec, ImplementsMap, Map!Spec
===============================================================================
