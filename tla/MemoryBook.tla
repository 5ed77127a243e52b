------------------------------ MODULE MemoryBook ------------------------------
(***************************************************************************)
(* What the Memory facade promises: a set of memories to which store()     *)
(* adds one, atomically with its acknowledgement, and from which nothing   *)
(* is ever lost, whatever key lifecycle commands run in the meantime.      *)
(***************************************************************************)
CONSTANT Content

VARIABLES stored, acked

Init == stored = {} /\ acked = {}

\* A duplicate store is acknowledged as well and changes nothing.  The caller
\* may end before it learns that the memory was stored.
Store(x) ==
    /\ stored' = stored \cup {x}
    /\ acked' \in {acked, acked \cup {x}}

Next == \E x \in Content : Store(x)

Spec == Init /\ [][Next]_<<stored, acked>>
=============================================================================
