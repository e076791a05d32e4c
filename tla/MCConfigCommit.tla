--------------------------- MODULE MCConfigCommit ---------------------------
(***************************************************************************)
(* ConfigCommit with two contents beside the empty one, two handlers of    *)
(* which only the first applies the configuration again when the agent     *)
(* starts, and versions up to MaxVersion.                                  *)
(***************************************************************************)
EXTENDS ConfigCommit

CONSTANTS c1, c2, blank

MCContents == {blank, c1, c2}
MCStartApplies == {1}
=============================================================================
