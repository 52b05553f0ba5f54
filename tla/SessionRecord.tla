--------------------------- MODULE SessionRecord ---------------------------
(***************************************************************************)
(* What the session store promises: a reader finds the last record that    *)
(* was saved whole, whatever interrupts a save.  If the record is damaged  *)
(* from outside, it finds the record before it, or learns of the damage if *)
(* there is none; a save that did not finish may have brought that earlier *)
(* record up to date.                                                      *)
(***************************************************************************)
CONSTANTS
    Records,
    Empty,      \* nothing was ever saved
    Unreadable  \* what a reader learns if no record can be read

VARIABLES
    durable,  \* what a reader finds
    previous  \* what it finds once the record is damaged

Init ==
    /\ durable = Empty
    /\ previous = Unreadable

Save(record) ==
    /\ durable' = record
    /\ previous' = IF durable \in Records THEN durable ELSE previous

Settle ==
    /\ durable \in Records
    /\ previous' = durable
    /\ UNCHANGED durable

Damage ==
    /\ durable' = previous
    /\ UNCHANGED previous

Next ==
    \/ \E record \in Records : Save(record)
    \/ Settle
    \/ Damage

Spec == Init /\ [][Next]_<<durable, previous>>
=============================================================================
