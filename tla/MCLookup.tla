------------------------------- MODULE MCLookup -------------------------------
(***************************************************************************)
(* Model-checking instance of Lookup: three addresses, so that an object  *)
(* can be copied from a copy and an address reused after a destruction;   *)
(* two parameters and two values.                                         *)
(***************************************************************************)
EXTENDS Lookup

CONSTANTS a1, a2, a3, lma, rho, v0, v1, bogus, null

MCObjs == {a1, a2, a3}
MCKeys == {lma, rho}
MCVals == {v0, v1}
MCDefault == [k \in MCKeys |-> v0]
=============================================================================
