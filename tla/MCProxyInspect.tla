---------------------------- MODULE MCProxyInspect ----------------------------
(***************************************************************************)
(* Instances of ProxyInspect for TLC: a proxy that is upgraded and a plain *)
(* contract that shares the cache with it.                                 *)
(***************************************************************************)
EXTENDS ProxyInspect, TLC

CONSTANTS p, q, b, x, y

Plain == [admin |-> None, implementation |-> None, beacon |-> None, uups |-> None,
          facet |-> None]

TwoContracts ==
    {<<p :> c @@ q :> Plain, b :> x>> :
        c \in {[Plain EXCEPT !.beacon = b, !.uups = y], [Plain EXCEPT !.facet = x]}}

ItsSlots == {<<p, "implementation">>, <<p, "beacon">>}

Threads == Permutations(Inspectors)
=============================================================================
