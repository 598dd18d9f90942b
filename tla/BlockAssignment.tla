-------------------------- MODULE BlockAssignment --------------------------
(***************************************************************************)
(* What block download promises, without queues, counters, timers or       *)
(* transports: a block is assigned to at most one connected peer at a      *)
(* time, only while it is missing, and never to more than Capacity at      *)
(* once; it changes hands only through being free.                         *)
(***************************************************************************)
EXTENDS Integers, FiniteSets

CONSTANTS
    Peers,      \* who can be asked
    NoPeer,     \* nobody
    Blocks,     \* what can be asked for
    Capacity    \* how much one peer can be asked for at once

VARIABLES
    present,    \* peers that are connected
    holder,     \* the peer each block is assigned to
    stored      \* blocks we have

vars == <<present, holder, stored>>

HeldBy(p) == {h \in Blocks : holder[h] = p}

Init ==
    /\ present = {}
    /\ holder = [h \in Blocks |-> NoPeer]
    /\ stored \in SUBSET Blocks

Join(p) ==
    /\ p \notin present
    /\ present' = present \cup {p}
    /\ UNCHANGED <<holder, stored>>

(* A peer that leaves gives back all it was assigned. *)
Leave(p) ==
    /\ p \in present
    /\ present' = present \ {p}
    /\ holder' = [h \in Blocks |-> IF holder[h] = p THEN NoPeer ELSE holder[h]]
    /\ UNCHANGED stored

(* A scheduling step for p gives up some of its blocks and takes on        *)
(* missing blocks that nobody holds, within the capacity.                  *)
Reschedule(p) ==
    /\ p \in present
    /\ holder' \in [Blocks -> Peers \cup {NoPeer}]
    /\ \A h \in Blocks : holder'[h] # holder[h] => {holder[h], holder'[h]} = {p, NoPeer}
    /\ LET taken == HeldBy(p)' \ HeldBy(p)
       IN  taken # {} => taken \cap stored = {} /\ Cardinality(HeldBy(p)') <= Capacity
    /\ UNCHANGED <<present, stored>>

Store(h) ==
    /\ stored' = stored \cup {h}
    /\ UNCHANGED <<present, holder>>

Next ==
    \/ \E p \in Peers : Join(p) \/ Leave(p) \/ Reschedule(p)
    \/ \E h \in Blocks : Store(h)

Spec == Init /\ [][Next]_vars
=============================================================================
