------------------------------ MODULE MCAbiCache ------------------------------
(***************************************************************************)
(* Instances of AbiCache for TLC.                                          *)
(***************************************************************************)
EXTENDS AbiCache, TLC

CONSTANTS c1, c2, t1, t2

OneEach == t1 :> c1 @@ t2 :> c2
=============================================================================
