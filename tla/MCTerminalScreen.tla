-------------------------- MODULE MCTerminalScreen --------------------------
(***************************************************************************)
(* A screen of two rows and three columns that is resized once, to one     *)
(* with fewer rows or fewer columns.                                       *)
(***************************************************************************)
EXTENDS TerminalScreen

MCSizes ==
    {[rows |-> 2, columns |-> 3], [rows |-> 1, columns |-> 2], [rows |-> 2, columns |-> 1]}
MCInitialSize == [rows |-> 2, columns |-> 3]
=============================================================================
