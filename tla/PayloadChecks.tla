----------------------------- MODULE PayloadChecks -----------------------------
(***************************************************************************)
(* Lirix.chain_validate: the intent check L1, the schema check L2 and the  *)
(* calldata parser L3 of lirix/layers, one payload against one             *)
(* configuration.                                                          *)
(*                                                                         *)
(* Calldata is a tree: a call has a selector, an aggregate call holds the  *)
(* entries of a Multicall3 batch, each with a target and a call of its     *)
(* own.  _walk_multicall and _walk_multicall_value call each other; their  *)
(* Python stack is the variable stack.  Which of the checks refuses is     *)
(* left out, that it does is not.                                          *)
(***************************************************************************)
EXTENDS Configuration

CONSTANTS
    HandledBy,   \* HandledBy[n]: the selectors that decoder plugin n can_handle
    Hooked,      \* can a hook of L1, L2 or L3 refuse the payload?
    UintMax,     \* UINT256_MAX
    MaxDepth,    \* MAX_MULTICALL_RECURSION_DEPTH
    Trees        \* the calls that batches hold, with those they hold in turn

\* selectors; "none" stands for calldata of less than four bytes
Aggregates == {"aggregate3", "aggregate3Value"}
EthSwaps == {"swapExactTokensForETH", "swapExactETHForTokens"}
V2Swaps == EthSwaps \cup {"swapExactTokensForTokens"}
V3Swaps == {"exactInput", "exactOutput"}
Moe == "moeSwap"
Swaps == V2Swaps \cup V3Swaps \cup {Moe}

\* INTENT_TO_ALLOWED_SELECTORS
IntentSelectors ==
    [i \in {"swap", "transfer"} |->
        IF i = "swap" THEN Swaps \cup Aggregates ELSE {"transfer"}]

\* a list of entries, each with a call
Listed(entries) ==
    LET them == {entries[n] : n \in DOMAIN entries}
    IN  entries \in Seq(them) /\ \A e \in them : e.call \in Trees

Whole(c) == c.sel \in Aggregates => Listed(c.calls)

ASSUME ChecksAssumption ==
    /\ Hooked \in BOOLEAN
    /\ {UintMax, MaxDepth} \subseteq Nat
    /\ \A c \in Trees : Whole(c)

VARIABLES
    payload,   \* the draft: intent, function_name, to, to_form, value, extra, call
    stage,     \* "L1", "L2", "L3", "walk", "enforce", "accepted" or "refused"
    stack,     \* the frames of the walk: value variant, entries left, depth
    collected  \* the addresses met so far

checks == <<payload, stage, stack, collected>>

InitChecks(p) ==
    /\ payload = p
    /\ stage = "L1"
    /\ stack = <<>>
    /\ collected = {}

Refuse ==
    /\ stage' = "refused"
    /\ stack' = <<>>
    /\ collected' = {}
    /\ UNCHANGED payload

-----------------------------------------------------------------------------
(***************************************************************************)
(* L1 and L2                                                               *)
(***************************************************************************)

\* _reconcile_intent_with_method_id: an intent without a table is not reconciled
Reconciled ==
    payload.intent \in DOMAIN IntentSelectors =>
        payload.call.sel \in IntentSelectors[payload.intent] \cup {"none"}

MUT_Intended == Reconciled

\* IntentValidator.validate: an empty list allows nothing
Intended ==
    /\ payload.intent \in cfg.allowed_intents
    /\ payload.function_name \in cfg.allowed_function_names
    /\ payload.to_form \in {"checksum", "other case"}
    /\ payload.to \in cfg.allowed_to_addresses
    /\ {} \notin {cfg.allowed_intents, cfg.allowed_function_names, cfg.allowed_to_addresses}
    /\ Reconciled

\* a hook whose result is fatal refuses at L1; at L2 and L3 only one that raises
CheckIntent ==
    /\ stage = "L1"
    /\ \/ Intended /\ stage' = "L2" /\ UNCHANGED <<payload, stack, collected>>
       \/ (~Intended \/ Hooked) /\ Refuse

\* _TxDraftSchema
WellFormed ==
    /\ payload.to_form = "checksum"
    /\ payload.value \in 0..UintMax
    /\ ~payload.extra
    /\ payload.data_form = "hex"

CheckSchema ==
    /\ stage = "L2"
    /\ \/ WellFormed /\ stage' = "L3" /\ UNCHANGED <<payload, stack, collected>>
       \/ (~WellFormed \/ Hooked) /\ Refuse

-----------------------------------------------------------------------------
(***************************************************************************)
(* L3                                                                      *)
(***************************************************************************)

\* _router and _multicall: the configuration, the chain, the profile of the adapter
Target(k) ==
    IF cfg[k] # Absent THEN cfg[k]
    ELSE IF Inferred(cfg)[k] # Absent THEN Inferred(cfg)[k] ELSE FromProfile(cfg)[k]

Router == Target("uniswap_v2_router")

Multicall == Target("multicall3_address")

\* the selectors left to the plugins of the chain adapter
Handled == UNION {HandledBy[n] : n \in plugins}

\* _collect_v3_path_addresses: an address, then a fee and an address for every hop
PathOk(bytes) == bytes >= 20 /\ bytes % 23 = 20

MUT_SwapOk(c) == c.decodes /\ (c.sel \in V3Swaps => PathOk(c.path_bytes))

\* what _accumulate_swap, _accumulate_v3_swap and _accumulate_moe_swap accept
SwapOk(c) ==
    /\ c.decodes
    /\ c.min_out # 0
    /\ c.sel \in V3Swaps \cup {Moe} => c.amount_in # 0
    /\ c.sel \in V3Swaps => PathOk(c.path_bytes)

MUT_Touches(c) == c.path

\* what they add to the addresses collected
Touches(c) == c.path \cup {c.recipient}

Frame(c, depth) == [value |-> c.sel = "aggregate3Value", rest |-> c.calls, depth |-> depth]

CanEnter(c, depth) == c.decodes /\ depth <= MaxDepth

ToEnforce(addresses) ==
    /\ collected' = addresses
    /\ stage' = "enforce"
    /\ stack' = <<>>
    /\ UNCHANGED payload

\* calldata a plugin handles is left to it, and so is calldata without a selector:
\* only the outer target is collected
ParseOpaque ==
    LET c == payload.call
    IN  /\ stage = "L3"
        /\ c.sel \in Handled \cup {"none"}
        /\ \/ ToEnforce({payload.to})
           \/ c.sel \in Handled /\ Refuse       \* the plugin raises

\* a swap or an aggregate goes to its own contract, and nothing else goes there
Routed ==
    LET c == payload.call
    IN  /\ Absent \notin {Router, Multicall}
        /\ payload.to = Router => c.sel \in Swaps
        /\ payload.to = Multicall => c.sel \in Aggregates
        /\ c.sel \in Aggregates => payload.to = Multicall
        /\ c.sel \in Swaps \ EthSwaps => payload.to = Router

\* validate, the outer call; the swaps from or to the native coin are not decoded here
ParseOuter ==
    LET c == payload.call
    IN  /\ stage = "L3"
        /\ c.sel \notin Handled \cup {"none"}
        /\ \/ /\ ~Routed
              /\ Refuse
           \/ /\ Routed
              /\ c.sel \in Aggregates
              /\ \/ /\ CanEnter(c, 0)
                    /\ stage' = "walk"
                    /\ stack' = <<Frame(c, 0)>>
                    /\ collected' = {payload.to}
                    /\ UNCHANGED payload
                 \/ ~CanEnter(c, 0) /\ Refuse
           \/ /\ Routed
              /\ c.sel \in Swaps \ EthSwaps
              /\ \/ SwapOk(c) /\ ToEnforce({payload.to} \cup Touches(c))
                 \/ ~SwapOk(c) /\ Refuse
           \/ /\ Routed
              /\ c.sel \notin Aggregates \cup (Swaps \ EthSwaps)
              /\ ToEnforce({payload.to})

top == Head(stack)

Advanced == <<[top EXCEPT !.rest = Tail(@)]>> \o Tail(stack)

\* _walk_multicall and _walk_multicall_value, one entry
WalkEntry ==
    LET e == Head(top.rest)
        c == e.call
        nested == c.sel \in Aggregates /\ e.to = Multicall /\ CanEnter(c, top.depth + 1)
        swap == /\ \/ c.sel \in V2Swaps /\ e.to = Router
                   \/ c.sel \in V3Swaps \cup {Moe} /\ ~top.value
                /\ SwapOk(c)
    IN  /\ stage = "walk"
        /\ stack # <<>>
        /\ top.rest # <<>>
        /\ \/ /\ c.sel = "none" /\ c.empty
              /\ stack' = Advanced
              /\ collected' = collected \cup {e.to}
              /\ UNCHANGED <<payload, stage>>
           \/ /\ nested
              /\ stack' = <<Frame(c, top.depth + 1)>> \o Advanced
              /\ collected' = collected \cup {e.to}
              /\ UNCHANGED <<payload, stage>>
           \/ /\ swap
              /\ stack' = Advanced
              /\ collected' = collected \cup {e.to} \cup Touches(c)
              /\ UNCHANGED <<payload, stage>>
           \/ /\ ~(c.sel = "none" /\ c.empty) /\ ~nested /\ ~swap
              /\ Refuse

MUT_WalkReturns ==
    /\ stage = "walk"
    /\ Len(stack) > 1
    /\ top.rest = <<>>
    /\ stack' = Tail(stack)
    /\ UNCHANGED <<payload, stage, collected>>

\* the loop over the entries of a batch ends, and the call of the walk returns
WalkReturns ==
    /\ stage = "walk"
    /\ stack # <<>>
    /\ top.rest = <<>>
    /\ stack' = Tail(stack)
    /\ stage' = IF Len(stack) = 1 THEN "enforce" ELSE stage
    /\ UNCHANGED <<payload, collected>>

\* _enforce_addresses: an empty whitelist allows every address
Permitted(addresses) ==
    /\ addresses \cap cfg.blacklisted_addresses = {}
    /\ cfg.whitelisted_addresses = {} \/ addresses \subseteq cfg.whitelisted_addresses

Enforce ==
    /\ stage = "enforce"
    /\ \/ /\ Permitted(collected)
          /\ stage' = "accepted"
          /\ UNCHANGED <<payload, stack, collected>>
       \/ (~Permitted(collected) \/ Hooked) /\ Refuse

NextChecks ==
    \/ CheckIntent
    \/ CheckSchema
    \/ ParseOpaque
    \/ ParseOuter
    \/ WalkEntry
    \/ WalkReturns
    \/ Enforce

-----------------------------------------------------------------------------
(***************************************************************************)
(* Properties                                                              *)
(***************************************************************************)

\* a call of the tree: its target, its depth and the batch that holds it
Outer == [to |-> payload.to, call |-> payload.call, depth |-> 0, within |-> "nothing"]

HeldBy(n) ==
    IF n.call.sel \notin Aggregates THEN {}
    ELSE {[to |-> e.to, call |-> e.call, depth |-> n.depth + 1, within |-> n.call.sel] :
             e \in {n.call.calls[k] : k \in 1..Len(n.call.calls)}}

\* the calls down to a depth; those are all if the deepest ones hold none
DownTo[d \in 0..MaxDepth + 1] ==
    IF d = 0 THEN {Outer}
    ELSE LET above == DownTo[d - 1] IN above \cup UNION {HeldBy(n) : n \in above}

AllCalls == DownTo[MaxDepth + 1]

\* is this swap decoded, as all are but the outer ones from or to the native coin?
Decoded(n) == n.call.sel \in Swaps /\ (n.depth > 0 \/ n.call.sel \notin EthSwaps)

\* Nothing escapes the lists: when a payload without a plugin is accepted, every target
\* of every call however deeply nested, and every recipient and token of every decoded
\* swap, is off the blacklist and on the whitelist if there is one.
EveryAddressVetted ==
    stage = "accepted" /\ payload.call.sel \notin Handled =>
        \A n \in AllCalls :
            /\ Permitted({n.to})
            /\ Decoded(n) => Permitted(n.call.path \cup {n.call.recipient})

\* No decoded swap of an accepted payload is without a minimum, batches only go to
\* Multicall3, V2 swaps to the router, and no batch is nested deeper than the limit (so
\* that AllCalls is the whole tree), whatever the order in which the two walks entered each other.
EverySwapBounded ==
    stage = "accepted" /\ payload.call.sel \notin Handled =>
        \A n \in AllCalls :
            /\ Decoded(n) => n.call.min_out # 0
            /\ n.call.sel \in Aggregates => n.to = Multicall /\ n.depth <= MaxDepth
            /\ Decoded(n) /\ n.call.sel \in V2Swaps => n.to = Router
            /\ n.within = "aggregate3Value" => n.call.sel \notin V3Swaps \cup {Moe}

=============================================================================
