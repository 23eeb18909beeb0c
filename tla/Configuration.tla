---------------------------- MODULE Configuration ----------------------------
(***************************************************************************)
(* The constructor of Lirix (lirix/_facade.py): how resolve_config puts a  *)
(* LirixConfig together out of what the user, the chain profile, the chain *)
(* and a runtime patch say, what the governance checks refuse, and which   *)
(* decoder plugins the chain adapter ends up with.  A client's resolved    *)
(* configuration may be the base of another one, for another profile.      *)
(*                                                                         *)
(* Names, URLs and addresses are model values; of the fields of LirixConfig*)
(* those stay that a check or a later layer reads.                         *)
(***************************************************************************)
EXTENDS Integers, Sequences, FiniteSets

CONSTANTS
    Absent,         \* None
    Mainnet,        \* chain id 1
    MainRouter,     \* the router and the Multicall3 contract of Ethereum mainnet
    MainMulticall,
    Malformed,      \* a string that is no address or empty, an object that is no plugin
    MantleTargets,  \* MANTLE_ALLOWED_TO_ADDRESSES
    MantleRouter,   \* what for_mantle adds to them
    MantleWhite,
    MantleBlack

\* the fields, with what counts as empty in each
Nothing ==
    [chain_id |-> Absent, strict_mode |-> Absent, rpc_urls |-> {}, allowed_intents |-> {},
     allowed_function_names |-> {}, allowed_to_addresses |-> {}, whitelisted_addresses |-> {},
     blacklisted_addresses |-> {}, multicall3_address |-> Absent, uniswap_v2_router |-> Absent,
     min_success |-> Absent, chain_profile |-> Absent, decoder_plugins |-> <<>>,
     runtime_patch_allowlist |-> {}]

Fields == DOMAIN Nothing

\* LirixConfig(chain_id=1)
Default == [Nothing EXCEPT !.chain_id = Mainnet, !.strict_mode = TRUE]

PresetKeys == {"chain_id", "rpc_urls", "allowed_intents", "allowed_function_names",
               "allowed_to_addresses", "whitelisted_addresses", "blacklisted_addresses",
               "multicall3_address", "uniswap_v2_router"}

\* LirixConfig.for_mantle
ForMantle(testnet, strict) ==
    [Default EXCEPT
        !.chain_id = IF testnet THEN "mantle testnet" ELSE "mantle",
        !.rpc_urls = IF testnet THEN {"testnet url"} ELSE {"mainnet url"},
        !.strict_mode = strict,
        !.allowed_intents = {"swap", "transfer", "bridge", "simulate"},
        !.allowed_function_names = {"swap", "swapExactTokensForTokens", "swapExactETHForTokens",
                                    "swapExactTokensForETH", "exactInput", "exactOutput"},
        !.allowed_to_addresses = MantleTargets,
        !.whitelisted_addresses = MantleTargets \cup MantleWhite,
        !.blacklisted_addresses = {MantleBlack},
        !.multicall3_address = MainMulticall,
        !.uniswap_v2_router = MantleRouter]

ASSUME ConfigAssumption == Absent \notin BOOLEAN

\* what the constructor can be called with: first a LirixConfig or none, then, through
\* build_for_chain_profile, a profile
Callable(calls) ==
    /\ calls # <<>>
    /\ calls \in Seq({calls[n] : n \in DOMAIN calls})
    /\ "profile" \notin DOMAIN calls[1]
    /\ calls[1].config # Absent => calls[1].config = [k \in Fields |-> calls[1].config[k]]
    /\ \A n \in 2..Len(calls) : "profile" \in DOMAIN calls[n]

\* the tags a given configuration comes with: with_source_tags
TagsOf(c) ==
    [k \in Fields |-> IF c \in {ForMantle(t, s) : t, s \in BOOLEAN} /\ k \in PresetKeys
                      THEN "preset" ELSE "none"]

\* protected_runtime_override_fields
Protected == Fields \ {"chain_id", "rpc_urls", "min_success"}

NoProfile == [multicall3_address |-> Absent, uniswap_v2_router |-> Absent, registry |-> {},
              labels |-> TRUE, plugins |-> Absent, policy |-> Absent]

VARIABLES
    builds,      \* the constructor arguments to come, those of the build under way first
    step,        \* "merge", "patch", "validate", "guard", "register", "ready", "refused"
    base,        \* the configuration given, or the default
    cfg,         \* the configuration as it is merged
    tags,        \* config_source_tags
    registered,  \* DecoderRegistry._entries
    plugins,     \* ChainAdapter._decoder_plugins
    history      \* the bases and patches of the builds so far

config == <<builds, step, base, cfg, tags, registered, plugins, history>>

args == Head(builds)

\* a LirixConfig given or taken from a client, or none
BaseOf(a, resolved) ==
    IF "profile" \in DOMAIN a THEN [resolved EXCEPT !.chain_profile = a.profile]
    ELSE IF a.config = Absent
      THEN [Default EXCEPT !.rpc_urls = IF a.urls = Absent THEN {} ELSE a.urls]
      ELSE a.config

\* the constructor raises
RefuseConfig ==
    /\ step' = "refused"
    /\ UNCHANGED <<builds, base, cfg, tags, registered, plugins, history>>

-----------------------------------------------------------------------------
(***************************************************************************)
(* resolve_config                                                          *)
(***************************************************************************)

Empty(k, value) == value \in {Absent, Nothing[k]}

ProfileOf(c) == IF c.chain_profile = Absent THEN NoProfile ELSE c.chain_profile

Addresses == {"multicall3_address", "uniswap_v2_router"}

FromProfile(c) == [k \in Addresses |-> ProfileOf(c)[k]]

\* _l3_defaults_for_chain
Inferred(c) ==
    [k \in Addresses |-> IF c.chain_id # Mainnet THEN Absent
                         ELSE IF k = "uniswap_v2_router" THEN MainRouter ELSE MainMulticall]

\* _overlay_non_empty: the keys it fills
Overlaid(c, incoming) == {k \in DOMAIN incoming : Empty(k, c[k]) /\ incoming[k] # Absent}

Overlay(c, incoming) ==
    [k \in Fields |-> IF k \in Overlaid(c, incoming) THEN incoming[k] ELSE c[k]]

Tagged(t, keys, source) == [k \in Fields |-> IF k \in keys THEN source ELSE t[k]]

MUT_Layers(c) == <<[source |-> "inferred", values |-> Inferred(c)],
                   [source |-> "profile", values |-> FromProfile(c)]>>

\* what is laid over the explicit values, the first first
Layers(c) == <<[source |-> "profile", values |-> FromProfile(c)],
               [source |-> "inferred", values |-> Inferred(c)]>>

Merge ==
    LET first == Layers(base)[1]
        second == Layers(base)[2]
        over == Overlay(base, first.values)
        given == "profile" \in DOMAIN args \/ args.config # Absent
        urls == IF given /\ args.urls # Absent THEN args.urls ELSE base.rpc_urls
        told == Tagged(Tagged(tags, Overlaid(base, first.values), first.source),
                       Overlaid(over, second.values), second.source)
    IN  /\ step = "merge"
        /\ step' = "patch"
        /\ cfg' = [Overlay(over, second.values) EXCEPT !.rpc_urls = urls]
        /\ tags' = [told EXCEPT
              !.chain_id = IF given THEN IF @ = "none" THEN "explicit" ELSE @ ELSE "inferred",
              !.rpc_urls = IF given THEN IF args.urls = Absent /\ @ # "none" THEN @ ELSE "explicit"
                           ELSE IF urls = {} THEN "inferred" ELSE "explicit"]
        /\ history' = history \cup {[base |-> base, patch |-> args.patch]}
        /\ UNCHANGED <<builds, base, registered, plugins>>

\* the allowlist that holds is that of the configuration given
Allowlist == base.runtime_patch_allowlist

\* _apply_runtime_patch
Patch ==
    LET patch == args.patch
        filled == {k \in DOMAIN patch : Empty(k, cfg[k])}
        differing == {k \in DOMAIN patch \ filled : cfg[k] # patch[k]}
        overridden == differing \cap Allowlist
    IN  /\ step = "patch"
        /\ \/ /\ base.strict_mode /\ ~(differing \subseteq Allowlist)
              /\ RefuseConfig
           \/ /\ base.strict_mode => differing \subseteq Allowlist
              /\ cfg' = [k \in Fields |-> IF k \in filled \cup overridden THEN patch[k] ELSE cfg[k]]
              /\ tags' = Tagged(Tagged(tags, filled, "runtime"), overridden, "runtime_override")
              /\ step' = "validate"
              /\ UNCHANGED <<builds, base, registered, plugins, history>>

MUT_Governed(c) ==
    c.strict_mode =>
        /\ c.min_success = Absent
        /\ c.blacklisted_addresses \cap (c.whitelisted_addresses \cup c.allowed_to_addresses) = {}
        /\ c.decoder_plugins # <<>> => c.chain_profile # Absent

\* validate_governance_modes
Governed(c) ==
    c.strict_mode =>
        /\ c.min_success = Absent
        /\ c.runtime_patch_allowlist \cap Protected = {}
        /\ c.blacklisted_addresses \cap (c.whitelisted_addresses \cup c.allowed_to_addresses) = {}
        /\ c.decoder_plugins # <<>> => c.chain_profile # Absent

\* _normalize_rpc_urls, _normalize_intents and _normalize_function_names: no empty strings
UrlsOk(c) == Malformed \notin c.rpc_urls

NamesOk(c) == Malformed \notin c.allowed_intents \cup c.allowed_function_names

\* _optional_contract_address and _normalize_address_list: addresses are addresses
AddressesOk(c) ==
    Malformed \notin {c.multicall3_address, c.uniswap_v2_router}
                     \cup c.allowed_to_addresses \cup c.whitelisted_addresses
                     \cup c.blacklisted_addresses

WellTyped(c) == c.strict_mode \in BOOLEAN /\ UrlsOk(c) /\ NamesOk(c) /\ AddressesOk(c)

\* model_validate; a patch with an unknown key does not pass it
Validate ==
    /\ step = "validate"
    /\ \/ /\ WellTyped(cfg) /\ Governed(cfg) /\ ~args.unknown
          /\ step' = "guard"
          /\ UNCHANGED <<builds, base, cfg, tags, registered, plugins, history>>
       \/ ~(WellTyped(cfg) /\ Governed(cfg) /\ ~args.unknown) /\ RefuseConfig

-----------------------------------------------------------------------------
(***************************************************************************)
(* The registry guard, the decoder registry and the chain adapter          *)
(***************************************************************************)

Allowed(c) == c.allowed_to_addresses \cup c.whitelisted_addresses

\* validate_lirix_strict_registry: an entry that is no address is passed over
RegistryOk ==
    cfg.strict_mode => /\ ProfileOf(cfg).labels
                       /\ ProfileOf(cfg).registry \ {Malformed} \subseteq Allowed(cfg)

GuardRegistry ==
    /\ step = "guard"
    /\ \/ /\ RegistryOk
          /\ step' = "register"
          /\ UNCHANGED <<builds, base, cfg, tags, registered, plugins, history>>
       \/ ~RegistryOk /\ RefuseConfig

\* DecoderRegistry.register, one plugin after the other
Register ==
    LET next == cfg.decoder_plugins[Cardinality(registered) + 1]
    IN  /\ step = "register"
        /\ Cardinality(registered) < Len(cfg.decoder_plugins)
        /\ \/ next \in registered \cup {Malformed} /\ RefuseConfig
           \/ /\ next \notin registered \cup {Malformed}
              /\ registered' = registered \cup {next}
              /\ UNCHANGED <<builds, step, base, cfg, tags, plugins, history>>

\* DecoderRegistry.resolve: only strict mode minds names that nobody registered
Resolvable(names) == cfg.strict_mode => names \subseteq registered

\* ChainAdapter.__init__; naming plugins in a profile makes it an allowlist, which may not
\* be empty unless the profile says explicit_only
Adapt ==
    LET profile == ProfileOf(cfg)
        requested == IF profile.plugins = Absent THEN {} ELSE profile.plugins
        policy == IF profile.policy # Absent THEN profile.policy
                  ELSE IF profile.plugins = Absent THEN "explicit_only" ELSE "profile_allowlist"
        accepted == IF requested = {} THEN policy = "explicit_only" ELSE Resolvable(requested)
    IN  /\ step = "register"
        /\ Cardinality(registered) = Len(cfg.decoder_plugins)
        /\ \/ ~accepted /\ RefuseConfig
           \/ /\ accepted
              /\ plugins' = requested \cap registered
              /\ step' = "ready"
              /\ UNCHANGED <<builds, base, cfg, tags, registered, history>>

\* build_for_chain_profile with the configuration of this client as base_config: it
\* passes rpc_urls always, an empty list for none
Rebuild ==
    /\ step = "ready"
    /\ Len(builds) > 1
    /\ builds' = Tail(builds)
    /\ base' = BaseOf(builds[2], cfg)
    /\ cfg' = base'
    /\ step' = "merge"
    /\ registered' = {}
    /\ plugins' = {}
    /\ UNCHANGED <<tags, history>>

\* a LirixConfig that is given has passed its validators
InitConfig(calls) ==
    /\ builds = calls
    /\ step = "merge"
    /\ base = BaseOf(args, Nothing)
    /\ WellTyped(base)
    /\ Governed(base)
    /\ cfg = base
    /\ tags = TagsOf(base)
    /\ registered = {}
    /\ plugins = {}
    /\ history = {}

NextConfig ==
    \/ Merge
    \/ Patch
    \/ Validate
    \/ GuardRegistry
    \/ Register
    \/ Adapt
    \/ Rebuild

-----------------------------------------------------------------------------
(***************************************************************************)
(* Properties                                                              *)
(***************************************************************************)

Ready == step = "ready"

\* The tags tell where an address came from, over any number of rebuilds: what is tagged
\* "profile" or "inferred" was empty in a base, inferred only if that base's profile had
\* none either, what is tagged "runtime" came from a patch, and what is tagged "preset"
\* is what the preset says.
TagTellsSource ==
    Ready =>
        \A k \in Addresses :
            /\ tags[k] = "profile" =>
                  \E h \in history : Empty(k, h.base[k]) /\ cfg[k] = FromProfile(h.base)[k]
            /\ tags[k] = "inferred" =>
                  \E h \in history : /\ Empty(k, h.base[k])
                                     /\ FromProfile(h.base)[k] = Absent
                                     /\ cfg[k] = Inferred(h.base)[k]
            /\ tags[k] \in {"runtime", "runtime_override"} =>
                  \E h \in history : k \in DOMAIN h.patch /\ cfg[k] = h.patch[k]
            /\ tags[k] = "preset" => cfg[k] = ForMantle(FALSE, TRUE)[k]

\* what the user set in the first configuration
Critical == {"strict_mode", "allowed_to_addresses", "whitelisted_addresses",
             "blacklisted_addresses", "multicall3_address", "uniswap_v2_router"}

\* Patches stay in bounds.  A patch changes what was set only where the base of its build
\* allowed it, so it cannot let itself in by patching the allowlist along; what a strict
\* configuration says stays said, since no patch, and no sequence of rebuilds with patches
\* that first widen the allowlist, turns strict mode off or changes a critical field that a
\* base had set; and the registry of a strict client, also of a profile or with lists that
\* a patch brought in, is on its lists and off its blacklist.
PatchesStayInBounds ==
    Ready =>
        /\ \A k \in Fields \ {"rpc_urls"} :
              ~Empty(k, base[k]) /\ cfg[k] # base[k] => k \in base.runtime_patch_allowlist
        /\ \A h \in history : h.base.strict_mode =>
              \A k \in Critical : ~Empty(k, h.base[k]) => cfg[k] = h.base[k]
        /\ cfg.strict_mode =>
              LET registry == ProfileOf(cfg).registry \ {Malformed}
              IN  /\ registry \subseteq Allowed(cfg)
                  /\ registry \cap cfg.blacklisted_addresses = {}

=============================================================================
