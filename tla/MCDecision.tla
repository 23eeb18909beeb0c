------------------------------ MODULE MCDecision ------------------------------
(***************************************************************************)
(* Instances of Decision for TLC: trees of calls, configurations, bundles  *)
(* of policies.                                                            *)
(***************************************************************************)
EXTENDS Decision, TLC

CONSTANTS rt, mc, ok, bad, mr, e1, e2

-----------------------------------------------------------------------------
(***************************************************************************)
(* Calls                                                                   *)
(***************************************************************************)

Swap(sel, min, in, recipient) ==
    [sel |-> sel, decodes |-> TRUE, min_out |-> min, amount_in |-> in, path_bytes |-> 43,
     recipient |-> recipient, path |-> {ok}]

NoCall == [sel |-> "none", empty |-> TRUE]
ShortCall == [sel |-> "none", empty |-> FALSE]

Leaves ==
    {NoCall, ShortCall, [sel |-> "transfer"], [sel |-> "other"],
     Swap("swapExactTokensForTokens", 1, 1, ok), Swap("swapExactTokensForTokens", 0, 1, ok),
     Swap("swapExactTokensForTokens", 1, 1, bad),
     [Swap("swapExactTokensForTokens", 1, 1, ok) EXCEPT !.decodes = FALSE],
     Swap("swapExactETHForTokens", 1, 1, ok), Swap("swapExactETHForTokens", 1, 1, bad),
     Swap("exactInput", 1, 1, ok), Swap("exactInput", 1, 1, bad), Swap("exactInput", 0, 1, ok),
     [Swap("exactInput", 1, 1, ok) EXCEPT !.path_bytes = 23],
     [Swap("exactInput", 1, 1, ok) EXCEPT !.path = {bad}, !.path_bytes = 20],
     Swap("moeSwap", 1, 1, ok), Swap("moeSwap", 1, 0, ok)}

Few == {NoCall, Swap("swapExactTokensForTokens", 1, 1, ok),
        Swap("swapExactTokensForTokens", 1, 1, bad), Swap("exactInput", 0, 1, ok)}

Batch(sel, calls) == [sel |-> sel, decodes |-> TRUE, calls |-> calls]

Entries(targets, calls) == [to : targets, call : calls]

OneEach(entries) == {Batch(sel, <<e>>) : sel \in Aggregates, e \in entries}

\* batches of one or two entries
Flat ==
    OneEach(Entries({rt, ok, bad}, Leaves))
    \cup {Batch(sel, <<e, f>>) : sel \in Aggregates,
                                 e \in Entries({rt}, Few), f \in Entries({rt, bad}, Few)}

\* batches in batches, with an entry after the inner one
Nested ==
    {Batch(sel, <<e, f>>) : sel \in Aggregates,
        e \in Entries({mc, ok}, OneEach(Entries({rt}, Leaves))), f \in Entries({rt}, Few)}

Deeper == OneEach(Entries({mc}, Nested))

\* as deep as the limit, and one too deep
Deepest == OneEach(Entries({mc}, OneEach(Entries({mc}, OneEach(Entries({rt}, Few))))))
TooDeep == OneEach(Entries({mc}, Deepest))

Undecodable == {[Batch("aggregate3", <<>>) EXCEPT !.decodes = FALSE], Batch("aggregate3", <<>>)}

\* what these batches hold
Held == Leaves \cup OneEach(Entries({rt}, Leaves)) \cup Nested
               \cup OneEach(Entries({mc}, OneEach(Entries({rt}, Few)))) \cup Deepest

Batches == Flat \cup Nested \cup Deeper \cup Deepest \cup TooDeep \cup Undecodable

-----------------------------------------------------------------------------
(***************************************************************************)
(* Payloads and configurations                                             *)
(***************************************************************************)

Payload(intent, to, call) ==
    [intent |-> intent, function_name |-> "f", to |-> to, to_form |-> "checksum", value |-> 0,
     extra |-> FALSE, data_form |-> "hex", call |-> call]

\* drafts that L1 or L2 may refuse
Odd ==
    LET good == Payload("swap", rt, Swap("swapExactTokensForTokens", 1, 1, ok))
    IN  {[good EXCEPT !.intent = i, !.function_name = f, !.to_form = t, !.value = v,
                      !.extra = x, !.data_form = d] :
            i \in {"swap", "transfer", "bridge", "stake"}, f \in {"f", "g"},
            t \in {"checksum", "other case", "invalid"}, v \in {-1, 0, 1, 2}, x \in BOOLEAN,
            d \in {"hex", "odd"}}

Payloads ==
    {Payload("swap", mc, c) : c \in Batches}
    \cup {Payload(i, to, c) : i \in {"swap", "transfer", "bridge"}, to \in {rt, mc, ok, bad},
                              c \in Leaves \cup {Batch("aggregate3", <<>>)}}
    \cup Odd

Config ==
    [Default EXCEPT !.allowed_intents = {"swap", "transfer", "bridge"},
                    !.allowed_function_names = {"f"},
                    !.allowed_to_addresses = {rt, mc, ok, bad}]

Call(cfg0, patch) == [config |-> cfg0, urls |-> Absent, patch |-> patch, unknown |-> FALSE]

NoPatch == [k \in {} |-> Absent]

Lax(c) == [c EXCEPT !.strict_mode = FALSE]

\* on mainnet, with a blacklist or a whitelist
Configs ==
    {Lax([Config EXCEPT !.blacklisted_addresses = {bad}]),
     [Config EXCEPT !.whitelisted_addresses = {rt, mc, ok}]}

Elsewhere(router, multicall) ==
    [Config EXCEPT !.chain_id = "other", !.uniswap_v2_router = router,
                   !.multicall3_address = multicall]

ItsProfile == [NoProfile EXCEPT !.uniswap_v2_router = rt]

\* on another chain, with what is missing missing or taken from a profile; a plugin
FewCalls ==
    {<<Call(c, NoPatch)>> :
        c \in {[Config EXCEPT !.allowed_intents = {}],
               [Config EXCEPT !.allowed_to_addresses = {mc}],
               Elsewhere(rt, Absent),
               [Elsewhere(Absent, mc) EXCEPT !.chain_profile = ItsProfile],
               [Config EXCEPT !.decoder_plugins = <<"a">>,
                              !.chain_profile = [NoProfile EXCEPT !.plugins = {"a"}]]}}
    \cup {<<Call(Elsewhere(Absent, mc), "chain_profile" :> ItsProfile)>>}

Requests ==
    ({<<Call(c, NoPatch)>> : c \in Configs} \X Payloads)
    \cup (FewCalls \X {Payload(i, to, c) : i \in {"swap"}, to \in {rt, mc, ok},
                                           c \in Leaves \cup OneEach(Entries({rt}, Few))})

-----------------------------------------------------------------------------
(***************************************************************************)
(* Clients                                                                 *)
(***************************************************************************)

Profiles ==
    {Absent, ItsProfile, [NoProfile EXCEPT !.uniswap_v2_router = Malformed],
     [NoProfile EXCEPT !.uniswap_v2_router = ok, !.registry = {rt, Malformed}],
     [NoProfile EXCEPT !.registry = {bad}], [NoProfile EXCEPT !.labels = FALSE],
     [NoProfile EXCEPT !.plugins = {}], [NoProfile EXCEPT !.plugins = {"a"}],
     [NoProfile EXCEPT !.plugins = {}, !.policy = "explicit_only"]}

Patches ==
    {NoPatch, "whitelisted_addresses" :> {bad}, "uniswap_v2_router" :> ok,
     "chain_profile" :> [NoProfile EXCEPT !.registry = {bad}],
     "runtime_patch_allowlist" :> {"uniswap_v2_router"} @@ "uniswap_v2_router" :> bad,
     "runtime_patch_allowlist" :> {"rpc_urls", "whitelisted_addresses"},
     "strict_mode" :> TRUE @@ "runtime_patch_allowlist" :> {}, "strict_mode" :> FALSE,
     "min_success" :> 1, "blacklisted_addresses" :> {rt}, "allowed_intents" :> {Malformed},
     "chain_profile" :> ItsProfile @@ "uniswap_v2_router" :> Malformed}

ClientConfigs(profiles, loaded) ==
    {[Default EXCEPT !.chain_id = i, !.strict_mode = m, !.chain_profile = p,
                     !.uniswap_v2_router = r, !.whitelisted_addresses = w,
                     !.runtime_patch_allowlist = l, !.decoder_plugins = d] :
        i \in {Mainnet, "other"}, m \in BOOLEAN, p \in profiles, r \in {Absent, bad},
        w \in {{}, {rt}},
        l \in {{}, {"strict_mode", "runtime_patch_allowlist"},
               {"uniswap_v2_router", "whitelisted_addresses"}}, d \in loaded}

FirstCalls(profiles, loaded) ==
    {Call(c, p) : c \in ClientConfigs(profiles, loaded), p \in Patches}

SecondCalls ==
    {[profile |-> p, urls |-> {}, patch |-> q, unknown |-> FALSE] :
        p \in {ItsProfile, [NoProfile EXCEPT !.registry = {bad}]}, q \in Patches}

WithoutConfig ==
    {[Call(Absent, p) EXCEPT !.urls = u, !.unknown = x] :
        p \in Patches, u \in {Absent, {}, {"u"}}, x \in BOOLEAN}

\* the presets, as they are or rebuilt for a profile
Presets == {Call(ForMantle(t, m), p) : t, m \in BOOLEAN, p \in Patches}

Clients ==
    {<<c>> : c \in Presets} \cup (Presets \X SecondCalls)
    \cup {<<[Call(Lax(Config), NoPatch) EXCEPT !.urls = u]>> : u \in {{"u"}, {Malformed}}} \cup
    {<<c>> : c \in FirstCalls(Profiles, {<<>>, <<"a", "b">>, <<"a", "a">>, <<Malformed>>})
                   \cup WithoutConfig}
    \cup (FirstCalls({Absent, [NoProfile EXCEPT !.uniswap_v2_router = ok]}, {<<>>}) \X SecondCalls)

-----------------------------------------------------------------------------
(***************************************************************************)
(* Batches for atomic_multicall                                            *)
(***************************************************************************)

Entry(to, value, call) ==
    [to |-> to, to_form |-> "other case", data_form |-> "hex", value |-> value, call |-> call]

SomeEntries ==
    {Entry(to, v, c) : to \in {rt, mc, bad}, v \in {0, 1},
        c \in {NoCall, Swap("swapExactTokensForTokens", 1, 1, ok),
               Swap("swapExactTokensForTokens", 0, 1, ok), Swap("exactInput", 1, 1, ok)}
              \cup OneEach(Entries({rt}, {NoCall}))}

OddEntries ==
    {[Entry(rt, v, NoCall) EXCEPT !.to_form = t, !.data_form = d] :
        v \in {-1, 0, 2}, t \in {"checksum", "invalid"}, d \in {"hex", "odd"}}

Transactions ==
    {<<>>} \cup {<<e>> : e \in SomeEntries \cup OddEntries} \cup (SomeEntries \X SomeEntries)

PackingConfig == [Config EXCEPT !.allowed_function_names = Aggregates]

\* with an address, without one, and with one that only the profile of a patch has
Packers ==
    {<<Call([PackingConfig EXCEPT !.blacklisted_addresses = {bad},
                                  !.allowed_to_addresses = {rt, mc, ok}], NoPatch)>>,
     <<Call([PackingConfig EXCEPT !.chain_id = "other", !.uniswap_v2_router = rt], NoPatch)>>,
     <<Call([PackingConfig EXCEPT !.chain_id = "other", !.uniswap_v2_router = rt],
            "chain_profile" :> [NoProfile EXCEPT !.multicall3_address = mc])>>,
     <<Call(ForMantle(FALSE, TRUE), NoPatch)>>}

BatchOf(entries, outer) == [intent |-> "swap", entries |-> entries, outer |-> outer]

Packings ==
    Packers \X {Absent} \X {BatchOf(t, o) : t \in Transactions, o \in {Absent, 0, 1, 2}}

ItsRewrites ==
    {"value" :> 1, "to" :> rt, "call" :> NoCall,
     "call" :> Batch("aggregate3", <<[to |-> ok, call |-> NoCall, value |-> 0]>>)}

AllCases ==
    {<<c[1], c[2], Absent>> : c \in Requests \cup (Clients \X {Absent})} \cup Packings

\* requests for one plain swap or transfer
PlainCases ==
    {<<<<Call(c, NoPatch)>>, Payload(i, rt, l), Absent>> :
        c \in Configs, i \in {"swap", "transfer"}, l \in Leaves}

ItsSelectors == "a" :> {"other"} @@ "b" :> {"transfer"}

-----------------------------------------------------------------------------
(***************************************************************************)
(* Policies                                                                *)
(***************************************************************************)

Policy(max, targets, forbidden) == [max |-> max, targets |-> targets, forbidden |-> forbidden]

TheDefault == Policy(1, {"ANY"}, {"transfer", "swapExactTokensForTokens"})
Strict == Policy(0, {ok, mc}, {"g"})

Version(names, rollbacks, digests) ==
    [version : names, environment : {e1, e2}, status : {"active", "retired"},
     rollback_to : rollbacks, digest : digests, policy : {Strict}]

Firsts ==
    Version({"v1"}, {NoValue, "v2"}, {NoValue, Strict, TheDefault})
    \cup {[version |-> "v1", environment |-> e2, status |-> "retired", rollback_to |-> NoValue,
           digest |-> NoValue, policy |-> Policy(0, {ok, BadEntry}, {})]}
Seconds == Version({"v1", "v2"}, {NoValue, "v1"}, {NoValue, Strict})

Bundles ==
    [active_version : {NoValue, "v2"},
     versions : {<<>>} \cup {<<v>> : v \in Firsts} \cup (Firsts \X Seconds)]

Mapping(bundle, environment, preferred, overrides) ==
    [kind |-> "mapping", restricted |-> FALSE, bundle |-> bundle, environment |-> environment,
     preferred |-> preferred, overrides |-> overrides]

NoOverride == [k \in {} |-> NoValue]

PlainArguments ==
    {[kind |-> "default"], [kind |-> "direct", direct |-> Strict],
     [Mapping(NoValue, e1, NoValue, NoOverride) EXCEPT !.restricted = TRUE],
     Mapping(NoValue, e1, NoValue, "max" :> NoValue),
     Mapping(NoValue, e1, NoValue, "max" :> 3), Mapping(NoValue, e1, NoValue, "max" :> -1),
     Mapping(NoValue, e1, NoValue, "targets" :> NoValue @@ "forbidden" :> NoValue),
     Mapping(NoValue, e1, NoValue, "forbidden" :> {BadEntry}),
     Mapping(NoValue, e1, NoValue, "forbidden" :> {} @@ "max" :> 1)}

AllArguments ==
    PlainArguments
    \cup {Mapping(b, e1, p, o) : b \in Bundles, p \in {NoValue, "v1"},
                                 o \in {NoOverride, "max" :> 1}}
    \cup {Mapping([active_version |-> NoValue, versions |-> <<v>>], e1, NoValue, o) :
             v \in Firsts, o \in {"targets" :> NoValue, "forbidden" :> {BadEntry}}}

SomeSubjects ==
    {[to |-> to, function_name |-> "f", sel |-> "transfer", slippage |-> s] :
        to \in {ok, bad}, s \in {NoValue, 99, 100, 199, 200}}
=============================================================================
