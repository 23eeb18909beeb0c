------------------------------ MODULE MCPipeline ------------------------------
(***************************************************************************)
(* Instances of Pipeline for TLC.                                          *)
(***************************************************************************)
EXTENDS Pipeline, TLC

CONSTANTS r1, r2, r3, c1, c2, s1, s2

\* a full and a simulate-only request share a session, a validate-only request
\* has one managed by the pipeline
KindMixed == r1 :> "full" @@ r2 :> "simulate" @@ r3 :> "validate"
SessionMixed == r1 :> s1 @@ r2 :> s1 @@ r3 :> r3
OneClient3 == r1 :> c1 @@ r2 :> c1 @@ r3 :> c1

\* two requests
KindFullValidate == r1 :> "full" @@ r2 :> "validate"
SharedPair == r1 :> s1 @@ r2 :> s1
SharedOwn == r1 :> s1 @@ r2 :> r2
OneClient2 == r1 :> c1 @@ r2 :> c1
=============================================================================
