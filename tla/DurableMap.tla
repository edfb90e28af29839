------------------------------ MODULE DurableMap ------------------------------
(***************************************************************************)
(* What a store of src/store/jsonl-store.ts promises its callers: a map    *)
(* served from memory, of which a restart brings back, key by key, the     *)
(* effect of the last acknowledged operation or of a later one.            *)
(*                                                                         *)
(* Operations are numbered in the order they are issued.  The value of a   *)
(* key is the number of the put that wrote it, 0 when it has none.         *)
(***************************************************************************)
EXTENDS Integers, Sequences

CONSTANT Keys

VARIABLES
  log,      \* the operations issued: the key and whether it deletes
  expired,  \* operations whose record has outlived its time to live
  acked,    \* the last acknowledged operation of each key, 0 for none
  current,  \* what get() answers
  stored    \* what a restart would load

vars == <<log, expired, acked, current, stored>>

Ops == 1 .. Len(log)
Effect(n) == IF n = 0 \/ log[n].del THEN 0 ELSE n

\* The map m gives k the effect of an operation at or after the acknowledged
\* one; a record that has expired may be gone.
Honours(m, acks, k) ==
  \E n \in acks[k] .. Len(log) :
    /\ n > 0 => log[n].key = k
    /\ m[k] = Effect(n) \/ (m[k] = 0 /\ n \in expired)

Init ==
  /\ log = <<>> /\ expired = {}
  /\ acked = [k \in Keys |-> 0]
  /\ current = [k \in Keys |-> 0] /\ stored = [k \in Keys |-> 0]

\* Expired records may be dropped from memory at any time.
Dropping(before, after) ==
  \A k \in Keys : after[k] = before[k] \/ (after[k] = 0 /\ before[k] \in expired)

Issue(k, del) ==
  /\ log' = Append(log, [key |-> k, del |-> del])
  /\ \E m \in {[current EXCEPT ![k] = IF del THEN 0 ELSE Len(log) + 1]} :
       Dropping(m, current')
  /\ UNCHANGED <<expired, acked, stored>>

Expire ==
  /\ expired \subseteq expired' /\ expired' \subseteq Ops
  /\ UNCHANGED <<log, acked, current, stored>>

\* The disk moves, operations may be acknowledged; what is acknowledged holds.
Write ==
  /\ \A k \in Keys : acked'[k] \in acked[k] .. Len(log)
  /\ \A k \in Keys : Honours(stored', acked', k)
  /\ Dropping(current, current')
  /\ UNCHANGED <<log, expired>>

\* The process dies, in the middle of a write perhaps: memory is gone.
Die ==
  /\ \A k \in Keys : Honours(stored', acked, k)
  /\ current' = [k \in Keys |-> 0]
  /\ UNCHANGED <<log, expired, acked>>

\* The next process loads what is stored, or finds it unreadable and starts
\* empty; what is stored stays as it is.
Load ==
  /\ \A k \in Keys : current[k] = 0
  /\ Dropping(stored, current') \/ current' = current
  /\ UNCHANGED <<log, expired, acked, stored>>

Next ==
  \/ \E k \in Keys, del \in BOOLEAN : Issue(k, del)
  \/ Expire \/ Write \/ Die \/ Load

Spec == Init /\ [][Next]_vars
===============================================================================
