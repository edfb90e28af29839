---------------------------- MODULE DeadLetterLog -----------------------------
(***************************************************************************)
(* src/store/deadletter.ts: the bounded log of what Hookdeck will not try  *)
(* again.  record() puts a row, which memory holds at once, and waits for  *)
(* the write; then it counts the overflow and deletes the oldest rows one  *)
(* write after the other.  Records overlap: whoever comes while another is *)
(* evicting counts what that one has not deleted yet.                      *)
(*                                                                         *)
(* A row's id is its place in the order of insertion, the order in which   *)
(* the store lists its rows.  Rows expire by age elsewhere.                *)
(***************************************************************************)
EXTENDS Integers, Sequences, FiniteSets

CONSTANTS Recorders,     \* what a row may be about; one record at a time of each
          MaxEntries     \* maxEntries, 500 in the code

ASSUME LogAssumption == MaxEntries \in Nat \ {0}

VARIABLES log,           \* the rows in memory
          recording,     \* recorder -> where its record() stands
          filed,         \* every row ever put
          clock          \* what now() answers

logVars == <<log, recording, filed, clock>>

NoRecord == [stage |-> "none", victims |-> << >>]

LogInit ==
  /\ log = {}
  /\ recording = [r \in Recorders |-> NoRecord]
  /\ filed = {}
  /\ clock = 0

\* sorted(): newest first; the sort is stable, so that rows of one millisecond
\* stay in the order they came.
Before(row, other) ==
  \/ row.createdAt > other.createdAt
  \/ row.createdAt = other.createdAt /\ row.id < other.id

Rank(row, rows) == Cardinality({other \in rows : Before(other, row)})

Sorted ==
  [place \in 1 .. Cardinality(log) |-> CHOOSE row \in log : Rank(row, log) = place - 1]

\* record() up to the write of its row; now() may not have moved since the last.
Put(r, entry) ==
  LET row == [entry |-> entry, id |-> Cardinality(filed) + 1, createdAt |-> clock'] IN
  /\ clock' \in {clock, clock + 1}
  /\ log' = log \cup {row}
  /\ filed' = filed \cup {row}
  /\ recording' = [recording EXCEPT ![r] = [stage |-> "put", victims |-> << >>]]

\* The deletion of the first victim is in memory at once, the next waits for its
\* write.
Evict(r, victims) ==
  IF victims = << >>
  THEN /\ recording' = [recording EXCEPT ![r] = NoRecord]
       /\ UNCHANGED log
  ELSE /\ recording' = [recording EXCEPT ![r] =
                          [stage |-> "evicting", victims |-> Tail(victims)]]
       /\ log' = {row \in log : row.id # Head(victims).id}

\* `.slice(-overflow)` of the rows newest first.  Mutation: unguarded, an overflow
\* of none is a slice of all.
VictimsUnguarded ==
  LET overflow == Cardinality(log) - MaxEntries IN
  SubSeq(Sorted, IF overflow > 0 THEN MaxEntries + 1 ELSE 1, Cardinality(log))

Victims == SubSeq(Sorted, MaxEntries + 1, Cardinality(log))

\* The write of the row is done.
PutReturns(r) ==
  /\ recording[r].stage = "put"
  /\ Evict(r, Victims)
  /\ UNCHANGED <<filed, clock>>

\* The write of a deletion is done.
DeleteReturns(r) ==
  /\ recording[r].stage = "evicting"
  /\ Evict(r, recording[r].victims)
  /\ UNCHANGED <<filed, clock>>

LogStep == \E r \in Recorders : PutReturns(r) \/ DeleteReturns(r)
===============================================================================
