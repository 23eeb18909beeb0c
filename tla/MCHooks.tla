-------------------------------- MODULE MCHooks --------------------------------
(***************************************************************************)
(* Hooks with two calls on one or two workers, a point that allows patches *)
(* and one that does not.                                                  *)
(***************************************************************************)
EXTENDS Hooks, TLC

CONSTANTS function, coroutine, stuck, c1, c2

MCCalls == {c1, c2}
MCPoints == {"pre_validate", "post_validate", "layer_l4_rpc"}
MCBare == {"layer_l4_rpc"}
MCPatchPoints == {"pre_validate"}
MCCallbacks == {function, coroutine, stuck}

MCReturns ==
    function :> {"patch", "junk", "error"} @@
    coroutine :> {"patch", "mistarget", "reject", "lirix"} @@
    stuck :> {"none"}

Kind(e, p, t, o) == [entry |-> e, point |-> p, timed |-> t, complete |-> o]

Two(k, l) == c1 :> k @@ c2 :> l

\* two requests; a request and a layer check next to it; callers of their own
MCPlans ==
    {Two(Kind("ainvoke_hooks_isolated", "pre_validate", TRUE, TRUE),
         Kind("ainvoke_hooks_isolated", "post_validate", TRUE, TRUE)),
     Two(Kind("ainvoke_hooks_isolated", "pre_validate", FALSE, TRUE),
         Kind("invoke_hooks_isolated", "layer_l4_rpc", TRUE, TRUE)),
     Two(Kind("invoke_hooks_isolated", "pre_validate", TRUE, FALSE),
         Kind("invoke_hooks", "post_validate", FALSE, TRUE)),
     Two(Kind("ainvoke_hooks_isolated", "post_validate", TRUE, TRUE),
         Kind("ainvoke_hooks", "pre_validate", FALSE, TRUE))}

Registry(a, b, d) ==
    [p \in MCPoints |-> CASE p = "pre_validate" -> a [] p = "post_validate" -> b [] OTHER -> d]

MCRegistries ==
    {Registry(<<coroutine, function>>, <<function>>, <<stuck, function>>),
     Registry(<<stuck, coroutine>>, <<function>>, <<function>>)}

MCAddable == {<<"post_validate", coroutine>>}
================================================================================
