--------------------------- MODULE MCEnumeration ---------------------------
(***************************************************************************)
(* The enumeration loop over every set of models of a few assignments.     *)
(***************************************************************************)
EXTENDS Enumeration

CONSTANTS a1, a2, a3

AllFailures == {"cutOff", "neverStarts"}
=============================================================================
