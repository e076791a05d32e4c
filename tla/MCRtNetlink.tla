---------------------------- MODULE MCRtNetlink ----------------------------
(***************************************************************************)
(* RtNetlink with two interfaces that may exchange their names.            *)
(***************************************************************************)
EXTENDS RtNetlink

CONSTANTS i1, i2, n1, n2

MCIndexes == {i1, i2}
MCNames == {n1, n2}
=============================================================================
