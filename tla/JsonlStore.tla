------------------------------ MODULE JsonlStore ------------------------------
(***************************************************************************)
(* The append-only JSONL store under the ledger, the dead-letter log and   *)
(* the cursors (src/store/jsonl-store.ts, src/store/store-io.ts): memory,  *)
(* the file, the queue that serialises writes, compaction, degradation on  *)
(* a failed write, and load after a crash.                                 *)
(*                                                                         *)
(* A record is the number of the operation that put it; a line of the file *)
(* is the key, that number and the tombstone flag, or Garbage: text that   *)
(* JSON.parse refuses.  The last line may lack its newline.                *)
(***************************************************************************)
EXTENDS Integers, Sequences, FiniteSets, SequencesExt

CONSTANTS
  Keys,
  Perishable,       \* keys whose records expire (running rows never do)
  CompactionFloor,  \* COMPACTION_FLOOR, 64 in the code
  CompactionRatio,  \* compactionRatio, 4 by default
  EvictInterval,    \* EVICT_INTERVAL, 256 in the code
  TornWrites,       \* what a write cut short may leave: see Outcome
  IoMayFail,        \* a write may fail without the process dying
  MaxOps,           \* bound: operations issued
  MaxCrashes        \* bound: crashes

ASSUME StoreAssumption ==
  /\ IsFiniteSet(Keys) /\ Perishable \subseteq Keys
  /\ "garbage" \notin Keys    \* the key of an unparsable line is none of them
  /\ {CompactionFloor, MaxOps, MaxCrashes} \subseteq Nat
  /\ {CompactionRatio, EvictInterval} \subseteq Nat \ {0}
  /\ TornWrites \subseteq {"partial", "no_newline"}
  /\ IoMayFail \in BOOLEAN

VARIABLES
  phase,        \* "down", "loading" (compacting what it read), "up", "closing"
  memory, file, tailOpen,
  jobs,         \* the promise queue
  snapshot,     \* the lines a compaction in progress is writing
  appended, sinceEvict, persistence,
  log, expired, acked,  \* history: operations, and the last acknowledged
  crashes

storeVars   == <<phase, memory, file, tailOpen, jobs, snapshot, appended,
                 sinceEvict, persistence>>
historyVars == <<log, expired, acked>>
vars == <<storeVars, historyVars, crashes>>

Garbage == [key |-> "garbage", op |-> 0, del |-> FALSE]
Line(k, n, del) == [key |-> k, op |-> n, del |-> del]
CompactJob == [kind |-> "compact"]
AppendJob(line) == [kind |-> "append", line |-> line]
NoSnapshot == <<Line("none", 0, FALSE)>>
Empty == [k \in Keys |-> 0]

Init ==
  /\ phase = "up" /\ memory = Empty /\ file = <<>> /\ tailOpen = FALSE
  /\ jobs = <<>> /\ snapshot = NoSnapshot
  /\ appended = 0 /\ sinceEvict = 0 /\ persistence = "active"
  /\ log = <<>> /\ expired = {} /\ acked = Empty /\ crashes = 0

-------------------------------------------------------------------------------
(* Memory.                                                                  *)

Live(m) == {k \in Keys : m[k] # 0}

\* Mutation: a record is dated by the first put of its key.
EvictedByKey(m) ==
  [k \in Keys |-> IF \E n \in expired : log[n].key = k THEN 0 ELSE m[k]]

Evicted(m) == [k \in Keys |-> IF m[k] \in expired THEN 0 ELSE m[k]]

\* Mutation: a rewrite that keeps the keys memory has dropped.
LinesOfAllKeys(m) == LET keys == SetToSeq(Keys)
                     IN  [i \in DOMAIN keys |-> Line(keys[i], m[keys[i]], FALSE)]

Lines(m) == LET keys == SetToSeq(Live(m))
            IN  [i \in DOMAIN keys |-> Line(keys[i], m[keys[i]], FALSE)]

ShouldCompact(count, m) ==
  count > CompactionFloor /\ count > Cardinality(Live(m)) * CompactionRatio

Enqueue(job) == jobs' = IF persistence = "active" THEN Append(jobs, job) ELSE jobs

-------------------------------------------------------------------------------
(* The file.  Appending to a line that lacks its newline joins the two into *)
(* one that does not parse.                                                 *)

Joined(line) == IF tailOpen THEN Append(Front(file), Garbage) ELSE Append(file, line)

\* The file and whether its last line is open, after a write of line that
\* stops where o says.
Outcome(line, o) ==
  CASE o = "nothing"    -> <<file, tailOpen>>
    [] o = "partial"    -> <<Joined(Garbage), TRUE>>
    [] o = "no_newline" -> <<Joined(line), TRUE>>
    [] o = "full"       -> <<Joined(line), FALSE>>

\* What load() makes of a file: the last parsable line of a key wins.
View(f) ==
  [k \in Keys |->
     LET at == {i \in DOMAIN f : f[i].key = k}
     IN  IF at = {} THEN 0
         ELSE LET last == f[Max(at)] IN IF last.del THEN 0 ELSE last.op]

-------------------------------------------------------------------------------
(* Operations.                                                              *)

Issued == Len(log) + 1

Put(k) ==
  /\ phase \in {"up", "closing"} /\ Len(log) < MaxOps
  /\ log' = Append(log, [key |-> k, del |-> FALSE])
  /\ LET m == [memory EXCEPT ![k] = Issued]
         sweep == sinceEvict + 1 >= EvictInterval
     IN  /\ memory' = IF sweep THEN Evicted(m) ELSE m
         /\ sinceEvict' = IF sweep THEN 0 ELSE sinceEvict + 1
  /\ Enqueue(AppendJob(Line(k, Issued, FALSE)))
  /\ UNCHANGED <<phase, file, tailOpen, snapshot, appended, persistence, expired,
                 acked, crashes>>

\* Mutation: the record leaves memory, and no tombstone reaches the file.
DeleteWithoutTombstone(k) ==
  /\ phase \in {"up", "closing"} /\ Len(log) < MaxOps
  /\ log' = Append(log, [key |-> k, del |-> TRUE])
  /\ memory' = [memory EXCEPT ![k] = 0]
  /\ UNCHANGED <<phase, file, tailOpen, jobs, snapshot, appended, sinceEvict,
                 persistence, expired, acked, crashes>>

Delete(k) ==
  /\ phase \in {"up", "closing"} /\ Len(log) < MaxOps
  /\ log' = Append(log, [key |-> k, del |-> TRUE])
  /\ memory' = [memory EXCEPT ![k] = 0]
  /\ Enqueue(AppendJob(Line(k, Issued, TRUE)))
  /\ UNCHANGED <<phase, file, tailOpen, snapshot, appended, sinceEvict,
                 persistence, expired, acked, crashes>>

\* prune() queues a compaction only when it evicted something.
Prune ==
  /\ phase = "up" /\ Evicted(memory) # memory
  /\ memory' = Evicted(memory)
  /\ Enqueue(CompactJob)
  /\ UNCHANGED <<phase, file, tailOpen, snapshot, appended, sinceEvict,
                 persistence, historyVars, crashes>>

Close ==
  /\ phase = "up"
  /\ phase' = "closing"
  /\ Enqueue(CompactJob)
  /\ UNCHANGED <<memory, file, tailOpen, snapshot, appended, sinceEvict,
                 persistence, historyVars, crashes>>

\* Time passes: a record outlives its time to live, and the older ones of its
\* key have before it.
Expire(n) ==
  /\ n \in DOMAIN log \ expired
  /\ log[n].key \in Perishable
  /\ expired' = expired \cup {m \in 1 .. n : log[m].key = log[n].key}
  /\ UNCHANGED <<storeVars, log, acked, crashes>>

-------------------------------------------------------------------------------
(* The queue runs one job at a time.                                        *)

Acknowledge(line) == acked' = [acked EXCEPT ![line.key] = line.op]

\* io.append has returned; a put may go on to compact before it resolves.
AppendDone ==
  /\ jobs # <<>> /\ Head(jobs).kind = "append" /\ snapshot = NoSnapshot
  /\ LET line == Head(jobs).line
     IN  /\ file' = Outcome(line, "full")[1] /\ tailOpen' = FALSE
         /\ appended' = appended + 1
         /\ IF ~line.del /\ ShouldCompact(appended + 1, memory)
            THEN /\ memory' = Evicted(memory)
                 /\ snapshot' = Lines(Evicted(memory))
                 /\ UNCHANGED <<jobs, acked>>
            ELSE /\ jobs' = Tail(jobs)
                 /\ Acknowledge(line)
                 /\ UNCHANGED <<memory, snapshot>>
  /\ UNCHANGED <<phase, sinceEvict, persistence, log, expired, crashes>>

CompactStart ==
  /\ jobs # <<>> /\ Head(jobs) = CompactJob /\ snapshot = NoSnapshot
  /\ memory' = Evicted(memory)
  /\ snapshot' = Lines(Evicted(memory))
  /\ UNCHANGED <<phase, file, tailOpen, jobs, appended, sinceEvict, persistence,
                 historyVars, crashes>>

\* writeAtomic has renamed the new file over the old one.
CompactDone ==
  /\ snapshot # NoSnapshot
  /\ file' = snapshot /\ tailOpen' = FALSE
  /\ appended' = 0 /\ snapshot' = NoSnapshot
  /\ IF phase = "loading"
     THEN phase' = "up" /\ UNCHANGED <<jobs, acked>>
     ELSE /\ phase' = phase /\ jobs' = Tail(jobs)
          /\ IF Head(jobs).kind = "append" THEN Acknowledge(Head(jobs).line)
                                           ELSE acked' = acked
  /\ UNCHANGED <<memory, sinceEvict, persistence, log, expired, crashes>>

\* What a write that does not return may have left in the file.
CutShort ==
  IF jobs # <<>> /\ Head(jobs).kind = "append" /\ snapshot = NoSnapshot
  THEN {Outcome(Head(jobs).line, o) : o \in {"nothing", "full"} \cup TornWrites}
  ELSE {<<file, tailOpen>>}

\* degrade(): persistence is off for the life of the process, queued jobs
\* do nothing, callers carry on.
IoFails ==
  /\ IoMayFail /\ persistence = "active"
  /\ jobs # <<>> \/ snapshot # NoSnapshot
  /\ \E left \in CutShort : file' = left[1] /\ tailOpen' = left[2]
  /\ persistence' = "disabled" /\ jobs' = <<>> /\ snapshot' = NoSnapshot
  /\ phase' = IF phase = "loading" THEN "up" ELSE phase
  /\ UNCHANGED <<memory, appended, sinceEvict, historyVars, crashes>>

Closed ==
  /\ phase = "closing" /\ jobs = <<>>
  /\ phase' = "down" /\ memory' = Empty
  /\ UNCHANGED <<file, tailOpen, jobs, snapshot, appended, sinceEvict,
                 persistence, historyVars, crashes>>

\* Mutation: the rewrite is done in place, not renamed over the file.
CrashInPlace ==
  /\ phase # "down" /\ crashes < MaxCrashes
  /\ crashes' = crashes + 1
  /\ snapshot # NoSnapshot
  /\ \E n \in 0 .. Len(snapshot) : file' = SubSeq(snapshot, 1, n)
  /\ tailOpen' = FALSE
  /\ phase' = "down" /\ memory' = Empty
  /\ jobs' = <<>> /\ snapshot' = NoSnapshot
  /\ UNCHANGED <<appended, sinceEvict, persistence, historyVars>>

Crash ==
  /\ phase # "down" /\ crashes < MaxCrashes
  /\ crashes' = crashes + 1
  /\ \/ \E left \in CutShort : file' = left[1] /\ tailOpen' = left[2]
     \/ snapshot # NoSnapshot /\ file' = snapshot /\ tailOpen' = FALSE
  /\ phase' = "down" /\ memory' = Empty
  /\ jobs' = <<>> /\ snapshot' = NoSnapshot
  /\ UNCHANGED <<appended, sinceEvict, persistence, historyVars>>

\* Mutation: a file with unparsable lines is left as it is.
LoadWithoutHealing ==
  /\ phase = "down"
  /\ memory' = Evicted(View(file))
  /\ appended' = Len(file) /\ sinceEvict' = 0 /\ persistence' = "active"
  /\ IF ShouldCompact(Len(file), memory')
     THEN phase' = "loading" /\ snapshot' = Lines(memory')
     ELSE phase' = "up" /\ snapshot' = NoSnapshot
  /\ UNCHANGED <<file, tailOpen, jobs, historyVars, crashes>>

\* The next process: unparsable lines are skipped, and a file with one, or
\* mostly dead, is compacted before load() returns.
Load ==
  /\ phase = "down"
  /\ memory' = Evicted(View(file))
  /\ appended' = Len(file) /\ sinceEvict' = 0 /\ persistence' = "active"
  /\ IF Garbage \in {file[i] : i \in DOMAIN file} \/ ShouldCompact(Len(file), memory')
     THEN phase' = "loading" /\ snapshot' = Lines(memory')
     ELSE phase' = "up" /\ snapshot' = NoSnapshot
  /\ UNCHANGED <<file, tailOpen, jobs, historyVars, crashes>>

\* The file cannot be read: the store starts empty and degraded.
LoadFails ==
  /\ IoMayFail /\ phase = "down"
  /\ phase' = "up" /\ persistence' = "disabled"
  /\ sinceEvict' = 0 /\ appended' = 0
  /\ UNCHANGED <<memory, file, tailOpen, jobs, snapshot, historyVars, crashes>>

Disk == AppendDone \/ CompactStart \/ CompactDone

Next ==
  \/ \E k \in Keys : Put(k) \/ Delete(k)
  \/ Prune \/ Close
  \/ \E n \in DOMAIN log : Expire(n)
  \/ Disk \/ IoFails \/ Closed \/ Crash \/ Load \/ LoadFails

Spec == Init /\ [][Next]_vars

-------------------------------------------------------------------------------
(* Properties.                                                              *)

\* Every variable has its type.
TypeOK ==
  /\ phase \in {"down", "loading", "up", "closing"}
  /\ memory \in [Keys -> 0 .. Len(log)]
  /\ \A i \in DOMAIN file :
       file[i] = Garbage \/ file[i] \in [key : Keys, op : 1 .. Len(log), del : BOOLEAN]
  /\ tailOpen \in BOOLEAN
  /\ {appended, sinceEvict, crashes} \subseteq Nat
  /\ persistence \in {"active", "disabled"}
  /\ expired \subseteq DOMAIN log
  /\ acked \in [Keys -> 0 .. Len(log)]

\* The store keeps DurableMap's promise: what was acknowledged while the disk
\* worked survives any crash, torn write, compaction and reload.
Map == INSTANCE DurableMap WITH current <- memory, stored <- View(file)

ImplementsMap == Map!Spec

\* The file a restart reads holds every acknowledged operation or a later one.
AckedSurvives == \A k \in Keys : Map!Honours(View(file), acked, k)

\* With the disk healthy, memory is never behind the file for a key that has
\* not expired: a compaction cannot bring an older record back.  Exempt is a key whose
\* deletion is under way: it has left memory and its line has yet to reach the file.
MemoryLeadsFile ==
  phase \in {"up", "closing"} /\ persistence = "active" =>
    \A k \in Keys : View(file)[k] \in expired \/ View(file)[k] <= memory[k]
                     \/ \E n \in DOMAIN log : log[n].key = k /\ log[n].del /\ n > View(file)[k]

\* An idle, healthy store has on file exactly what it serves: what a reader in
\* another process sees, and what a clean restart brings back.
IdleFileMatchesMemory ==
  /\ phase = "up" /\ persistence = "active" /\ jobs = <<>>
  => \A k \in Keys : View(file)[k] = memory[k] \/ View(file)[k] \in expired
===============================================================================
