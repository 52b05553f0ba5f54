-------------------------- MODULE MCOutputChannel --------------------------
(***************************************************************************)
(* A small channel for TLC: three slots and four bytes, reads of one or    *)
(* three bytes, so that either limit can be the one that blocks the reader.*)
(***************************************************************************)
EXTENDS OutputChannel

MCSizes == {1, 3}
=============================================================================
