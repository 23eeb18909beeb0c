---------------------------- MODULE DecisionProofs ----------------------------
(***************************************************************************)
(* Theorems about Decision, in three parts: how a client's configuration   *)
(* comes about; how the policy of an audit is resolved; what the checks L1 *)
(* to L3 accept, what a packed batch holds and what an approval stands on. *)
(* They hold for every list of constructor calls, patch, profile, bundle,  *)
(* tree of calls, batch and callback.                                      *)
(*                                                                         *)
(* The invariant of the configuration is ConfigOK, that of the audit       *)
(* AuditOK; neither needs the other.  Of the checks the walk is the heart. *)
(* Its invariant, WalkedTo, says that some set of calls was met that holds *)
(* the outer one, and of every call in it what it holds is in the set too  *)
(* or still to come on the stack.  When the stack is empty the set is      *)
(* closed, and every call down to any depth is in it.                      *)
(***************************************************************************)
EXTENDS Decision, SelectionProofs

\* the least element is the one that the operator takes
LEMMA MinIs ==
    ASSUME NEW T, T \subseteq Nat, T # {}
    PROVE  Min(T) \in T /\ \A n \in T : Min(T) <= n
BY LeastExists DEF Min

\* the fields by name
LEMMA FieldsAre ==
    Fields = {"chain_id", "strict_mode", "rpc_urls", "allowed_intents",
              "allowed_function_names", "allowed_to_addresses", "whitelisted_addresses",
              "blacklisted_addresses", "multicall3_address", "uniswap_v2_router",
              "min_success", "chain_profile", "decoder_plugins", "runtime_patch_allowlist"}
BY DEF Fields, Nothing

-----------------------------------------------------------------------------
(***************************************************************************)
(* The configuration: what the inductive invariant says                    *)
(***************************************************************************)

IsList(s) == \E S : s \in Seq(S)

IsConfig(c) == c = [k \in Fields |-> c[k]]

ConfigTyped ==
    /\ step \in {"merge", "patch", "validate", "guard", "register", "ready", "refused"}
    /\ IsConfig(base) /\ IsConfig(cfg) /\ IsConfig(tags)
    /\ IsList(builds) /\ builds # <<>>
    /\ \A n \in 2..Len(builds) : "profile" \in DOMAIN builds[n]
    /\ base.strict_mode \in BOOLEAN
    /\ step = "merge" => cfg = base
    /\ step # "merge" => [base |-> base, patch |-> args.patch] \in history

\* a patch has changed no field but those the base has empty or allows
PatchedInBounds ==
    \A k \in Fields \ {"rpc_urls"} :
        ~Empty(k, base[k]) /\ cfg[k] # base[k] => k \in Allowlist

BaseGoverned == base.strict_mode = TRUE => Allowlist \cap Protected = {}

\* what a strict base of this build or an earlier one had set is as it was
StrictStays ==
    \A h \in history : h.base.strict_mode =>
        \A k \in Critical : ~Empty(k, h.base[k]) => cfg[k] = h.base[k] /\ base[k] = h.base[k]

\* what the checks that the constructor has passed say
Passed ==
    /\ step \in {"guard", "register", "ready"} => WellTyped(cfg) /\ Governed(cfg)
    /\ step \in {"register", "ready"} => RegistryOk

\* TagTellsSource at every step of the constructor
SourceTold(k) ==
    /\ tags[k] = "profile" =>
          \E h \in history : Empty(k, h.base[k]) /\ cfg[k] = FromProfile(h.base)[k]
    /\ tags[k] = "inferred" =>
          \E h \in history : /\ Empty(k, h.base[k])
                             /\ FromProfile(h.base)[k] = Absent
                             /\ cfg[k] = Inferred(h.base)[k]
    /\ tags[k] \in {"runtime", "runtime_override"} =>
          \E h \in history : k \in DOMAIN h.patch /\ cfg[k] = h.patch[k]
    /\ tags[k] = "preset" => cfg[k] = ForMantle(FALSE, TRUE)[k]

SourcesTold == \A k \in Addresses : SourceTold(k)

ConfigOK == ConfigTyped /\ PatchedInBounds /\ BaseGoverned /\ StrictStays /\ Passed /\ SourcesTold

-----------------------------------------------------------------------------
(***************************************************************************)
(* The configuration: the steps                                            *)
(***************************************************************************)

LEMMA AddressFields ==
    /\ Addresses \subseteq Fields
    /\ Critical \subseteq Fields
    /\ Critical \subseteq Protected
    /\ "chain_profile" \notin Critical \cup Addresses
    /\ "rpc_urls" \notin Critical \cup Addresses
    /\ "strict_mode" \in Critical
    /\ \A k \in Addresses : \A v : Empty(k, v) <=> v = Absent
BY FieldsAre DEF Addresses, Critical, Protected, Empty, Nothing

LEMMA StrictIsSaid == \A v \in BOOLEAN : ~Empty("strict_mode", v)
BY ConfigAssumption DEF Empty, Nothing

\* the effect of the two layers on the two addresses
LEMMA MergeIs ==
    ASSUME ConfigTyped, Merge
    PROVE  /\ IsConfig(cfg') /\ IsConfig(tags')
           /\ \A k \in Fields \ (Addresses \cup {"rpc_urls"}) : cfg'[k] = base[k]
           /\ \A k \in Addresses :
                \/ base[k] # Absent /\ cfg'[k] = base[k] /\ tags'[k] = tags[k]
                \/ /\ base[k] = Absent /\ FromProfile(base)[k] # Absent
                   /\ cfg'[k] = FromProfile(base)[k] /\ tags'[k] = "profile"
                \/ /\ base[k] = Absent /\ FromProfile(base)[k] = Absent
                   /\ Inferred(base)[k] # Absent
                   /\ cfg'[k] = Inferred(base)[k] /\ tags'[k] = "inferred"
                \/ /\ base[k] = Absent /\ FromProfile(base)[k] = Absent
                   /\ Inferred(base)[k] = Absent
                   /\ cfg'[k] = base[k] /\ tags'[k] = tags[k]
<1> DEFINE first == Layers(base)[1]
           second == Layers(base)[2]
           over == Overlay(base, first.values)
           merged == Overlay(over, second.values)
           told == Tagged(Tagged(tags, Overlaid(base, first.values), first.source),
                          Overlaid(over, second.values), second.source)
<1>1. /\ first.source = "profile" /\ first.values = FromProfile(base)
      /\ second.source = "inferred" /\ second.values = Inferred(base)
  BY DEF Layers
<1>2. PICK urls, tag1, tag2 :
         /\ cfg' = [merged EXCEPT !.rpc_urls = urls]
         /\ tags' = [told EXCEPT !.chain_id = tag1, !.rpc_urls = tag2]
  BY DEF Merge
<1>3. DOMAIN FromProfile(base) = Addresses /\ DOMAIN Inferred(base) = Addresses
  BY DEF FromProfile, Inferred
<1>4. /\ Overlaid(base, first.values) =
            {k \in Addresses : base[k] = Absent /\ FromProfile(base)[k] # Absent}
      /\ Overlaid(over, second.values) =
            {k \in Addresses : over[k] = Absent /\ Inferred(base)[k] # Absent}
  BY <1>1, <1>3, AddressFields DEF Overlaid
<1>5. over = [k \in Fields |-> IF k \in Overlaid(base, first.values)
                               THEN FromProfile(base)[k] ELSE base[k]]
  BY <1>1 DEF Overlay
<1>6. merged = [k \in Fields |-> IF k \in Overlaid(over, second.values)
                                 THEN Inferred(base)[k] ELSE over[k]]
  BY <1>1 DEF Overlay
<1>7. told = [k \in Fields |-> IF k \in Overlaid(over, second.values) THEN "inferred"
                               ELSE IF k \in Overlaid(base, first.values) THEN "profile"
                               ELSE tags[k]]
  BY <1>1 DEF Tagged
<1> HIDE DEF over, merged, told, first, second
<1>8. IsConfig(cfg') /\ IsConfig(tags')
  BY <1>2, <1>6, <1>7, FieldsAre DEF IsConfig
<1>9. \A k \in Fields \ {"rpc_urls"} : cfg'[k] = merged[k]
  BY <1>2, <1>6
<1>10. \A k \in Addresses : tags'[k] = told[k]
  BY <1>2, <1>7, FieldsAre DEF Addresses
<1>11. \A k \in Addresses :
          /\ k \in Fields \ {"rpc_urls"}
          /\ k \in Overlaid(base, first.values) <=>
                base[k] = Absent /\ FromProfile(base)[k] # Absent
          /\ k \in Overlaid(over, second.values) <=>
                over[k] = Absent /\ Inferred(base)[k] # Absent
  BY <1>4, AddressFields
<1> QED
  BY <1>4, <1>5, <1>6, <1>7, <1>8, <1>9, <1>10, <1>11

\* a step that checks, and changes nothing but how far the constructor is
LEMMA CheckStep ==
    ASSUME ConfigOK, UNCHANGED <<builds, base, cfg, tags, history>>, Passed',
           step # "merge",
           step' \in {"patch", "validate", "guard", "register", "ready", "refused"}
    PROVE  ConfigOK'
<1>1. ConfigTyped'
  BY DEF ConfigOK, ConfigTyped, IsConfig, args
<1>2. PatchedInBounds' /\ BaseGoverned'
  BY DEF ConfigOK, PatchedInBounds, BaseGoverned, Allowlist
<1>3. StrictStays'
  BY DEF ConfigOK, StrictStays
<1>4. SourcesTold'
  BY DEF ConfigOK, SourcesTold, SourceTold
<1> QED
  BY <1>1, <1>2, <1>3, <1>4 DEF ConfigOK

LEMMA MergeStep == ASSUME ConfigOK, Merge PROVE ConfigOK'
<1>1. /\ step = "merge" /\ step' = "patch" /\ cfg = base
      /\ history' = history \cup {[base |-> base, patch |-> args.patch]}
      /\ UNCHANGED <<builds, base, registered, plugins>>
  BY DEF Merge, ConfigOK, ConfigTyped
<1>2. /\ IsConfig(cfg') /\ IsConfig(tags')
      /\ \A k \in Fields \ (Addresses \cup {"rpc_urls"}) : cfg'[k] = base[k]
      /\ \A k \in Addresses :
           \/ base[k] # Absent /\ cfg'[k] = base[k] /\ tags'[k] = tags[k]
           \/ /\ base[k] = Absent /\ FromProfile(base)[k] # Absent
              /\ cfg'[k] = FromProfile(base)[k] /\ tags'[k] = "profile"
           \/ /\ base[k] = Absent /\ FromProfile(base)[k] = Absent
              /\ Inferred(base)[k] # Absent
              /\ cfg'[k] = Inferred(base)[k] /\ tags'[k] = "inferred"
           \/ /\ base[k] = Absent /\ FromProfile(base)[k] = Absent
              /\ Inferred(base)[k] = Absent
              /\ cfg'[k] = base[k] /\ tags'[k] = tags[k]
  BY MergeIs DEF ConfigOK
<1>3. ConfigTyped'
  BY <1>1, <1>2 DEF ConfigOK, ConfigTyped, IsConfig, args
<1>4. \A k \in Fields \ {"rpc_urls"} : ~Empty(k, base[k]) => cfg'[k] = base[k]
  BY <1>2, AddressFields
<1>5. PatchedInBounds'
  BY <1>1, <1>4 DEF PatchedInBounds
<1>6. BaseGoverned'
  BY <1>1 DEF ConfigOK, BaseGoverned, Allowlist
<1>7. StrictStays'
  <2> SUFFICES ASSUME NEW h \in history', h.base.strict_mode, NEW k \in Critical,
                      ~Empty(k, h.base[k])
               PROVE  cfg'[k] = h.base[k] /\ base'[k] = h.base[k]
    BY DEF StrictStays
  <2>1. k \in Fields \ {"rpc_urls"}
    BY AddressFields
  <2>2. base[k] = h.base[k]
    BY <1>1 DEF ConfigOK, StrictStays
  <2> QED
    BY <1>1, <1>4, <2>1, <2>2
<1>8. SourcesTold'
  <2> SUFFICES ASSUME NEW k \in Addresses PROVE SourceTold(k)'
    BY DEF SourcesTold
  <2> DEFINE now == [base |-> base, patch |-> args.patch]
  <2>1. now \in history' /\ now.base = base
    BY <1>1
  <2>2. base[k] = Absent => Empty(k, base[k])
    BY AddressFields
  <2>3. SourceTold(k)
    BY DEF ConfigOK, SourcesTold
  <2>4. CASE cfg'[k] = base[k] /\ tags'[k] = tags[k]
    <3>1. cfg'[k] = cfg[k] /\ history \subseteq history'
      BY <1>1, <2>4
    <3> QED
      BY <2>3, <2>4, <3>1 DEF SourceTold
  <2>5. CASE /\ base[k] = Absent /\ cfg'[k] = FromProfile(base)[k] /\ tags'[k] = "profile"
    <3> HIDE DEF now
    <3> QED
      BY <2>1, <2>2, <2>5 DEF SourceTold
  <2>6. CASE /\ base[k] = Absent /\ FromProfile(base)[k] = Absent
             /\ cfg'[k] = Inferred(base)[k] /\ tags'[k] = "inferred"
    <3> HIDE DEF now
    <3> QED
      BY <2>1, <2>2, <2>6 DEF SourceTold
  <2> QED
    BY <1>2, <2>4, <2>5, <2>6
<1> QED
  BY <1>1, <1>3, <1>5, <1>6, <1>7, <1>8 DEF ConfigOK, Passed

LEMMA PatchStep == ASSUME ConfigOK, Patch PROVE ConfigOK'
<1> DEFINE patch == args.patch
           filled == {k \in DOMAIN patch : Empty(k, cfg[k])}
           differing == {k \in DOMAIN patch \ filled : cfg[k] # patch[k]}
           overridden == differing \cap Allowlist
<1>1. step = "patch"
  BY DEF Patch
<1>2. CASE RefuseConfig
  BY <1>1, <1>2, CheckStep DEF RefuseConfig, Passed
<1>3. CASE /\ base.strict_mode => differing \subseteq Allowlist
           /\ cfg' = [k \in Fields |-> IF k \in filled \cup overridden THEN patch[k] ELSE cfg[k]]
           /\ tags' = Tagged(Tagged(tags, filled, "runtime"), overridden, "runtime_override")
           /\ step' = "validate"
           /\ UNCHANGED <<builds, base, registered, plugins, history>>
  <2>1. \A k \in Fields :
           \/ k \notin filled /\ k \notin overridden /\ cfg'[k] = cfg[k] /\ tags'[k] = tags[k]
           \/ k \in overridden /\ cfg'[k] = patch[k] /\ tags'[k] = "runtime_override"
           \/ k \in filled /\ cfg'[k] = patch[k] /\ tags'[k] = "runtime"
    BY <1>3 DEF Tagged
  <2>2. ConfigTyped'
    <3>1. IsConfig(cfg') /\ IsConfig(tags') /\ IsConfig(base')
      BY <1>3 DEF Tagged, IsConfig, ConfigOK, ConfigTyped
    <3> HIDE DEF patch, filled, differing, overridden
    <3> QED
      BY <1>1, <1>3, <3>1 DEF ConfigOK, ConfigTyped, args
  <2>3. PatchedInBounds'
    <3> SUFFICES ASSUME NEW k \in Fields \ {"rpc_urls"}, ~Empty(k, base[k]), cfg'[k] # base[k]
                 PROVE  k \in Allowlist
      BY <1>3 DEF PatchedInBounds, Allowlist
    <3>1. CASE cfg[k] = base[k]
      BY <2>1, <3>1
    <3>2. CASE cfg[k] # base[k]
      BY <3>2 DEF ConfigOK, PatchedInBounds
    <3> QED
      BY <3>1, <3>2
  <2>4. BaseGoverned'
    BY <1>3 DEF ConfigOK, BaseGoverned, Allowlist
  <2>5. StrictStays'
    <3> SUFFICES ASSUME NEW h \in history, h.base.strict_mode, NEW k \in Critical,
                        ~Empty(k, h.base[k])
                 PROVE  cfg'[k] = h.base[k] /\ base'[k] = h.base[k]
      BY <1>3 DEF StrictStays
    <3>1. k \in Fields /\ k \in Protected
      BY AddressFields
    <3>2. cfg[k] = h.base[k] /\ base[k] = h.base[k]
      BY DEF ConfigOK, StrictStays
    <3>3. base.strict_mode = TRUE
      <4>1. h.base.strict_mode = TRUE => base.strict_mode = h.base.strict_mode
        BY StrictIsSaid, AddressFields DEF ConfigOK, StrictStays
      <4> QED
        BY <4>1
    <3>4. k \notin filled /\ k \notin overridden
      BY <3>1, <3>2, <3>3 DEF ConfigOK, BaseGoverned
    <3> QED
      BY <1>3, <2>1, <3>1, <3>2, <3>4
  <2>6. SourcesTold'
    <3> SUFFICES ASSUME NEW k \in Addresses PROVE SourceTold(k)'
      BY DEF SourcesTold
    <3>1. SourceTold(k) /\ k \in Fields /\ UNCHANGED history
      BY <1>3, AddressFields DEF ConfigOK, SourcesTold
    <3>2. CASE cfg'[k] = cfg[k] /\ tags'[k] = tags[k]
      BY <3>1, <3>2 DEF SourceTold
    <3>3. CASE k \in DOMAIN patch /\ cfg'[k] = patch[k] /\ tags'[k] \in {"runtime", "runtime_override"}
      <4>1. PICK h \in history : h.patch = patch
        BY <1>1 DEF ConfigOK, ConfigTyped
      <4> HIDE DEF patch
      <4> QED
        BY <3>1, <3>3, <4>1 DEF SourceTold
    <3> QED
      BY <2>1, <3>1, <3>2, <3>3
  <2> QED
    BY <1>3, <2>2, <2>3, <2>4, <2>5, <2>6 DEF ConfigOK, Passed
<1> QED
  BY <1>2, <1>3 DEF Patch

LEMMA RebuildStep == ASSUME ConfigOK, Rebuild PROVE ConfigOK'
<1>1. /\ step = "ready" /\ step' = "merge" /\ Len(builds) > 1 /\ builds' = Tail(builds)
      /\ base' = BaseOf(builds[2], cfg) /\ cfg' = base'
      /\ UNCHANGED <<tags, history>>
  BY DEF Rebuild
<1>2. base' = [cfg EXCEPT !.chain_profile = builds[2].profile]
  BY <1>1 DEF BaseOf, ConfigOK, ConfigTyped, IsList
<1>3. IsConfig(cfg) /\ "chain_profile" \in Fields
  BY FieldsAre DEF ConfigOK, ConfigTyped
<1>4. IsConfig(base') /\ \A k \in Fields \ {"chain_profile"} : base'[k] = cfg[k]
  BY <1>2, <1>3 DEF IsConfig
<1>5. base'.strict_mode = cfg.strict_mode /\ WellTyped(cfg) /\ Governed(cfg)
  BY <1>1, <1>4, FieldsAre DEF ConfigOK, Passed
<1>6. ConfigTyped'
  <2>1. IsList(builds') /\ builds' # <<>>
    BY <1>1 DEF ConfigOK, ConfigTyped, IsList
  <2>2. \A n \in 2..Len(builds') : "profile" \in DOMAIN builds'[n]
    <3>1. PICK S : builds \in Seq(S)
      BY DEF ConfigOK, ConfigTyped, IsList
    <3>2. Len(builds') = Len(builds) - 1 /\ \A n \in 1..Len(builds') : builds'[n] = builds[n + 1]
      BY <1>1, <3>1
    <3>3. ASSUME NEW n \in 2..Len(builds') PROVE n + 1 \in 2..Len(builds)
      BY <3>1, <3>2, <3>3
    <3> QED
      BY <3>2, <3>3 DEF ConfigOK, ConfigTyped
  <2>3. IsConfig(tags')
    BY <1>1 DEF ConfigOK, ConfigTyped, IsConfig
  <2>4. IsConfig(cfg')
    BY <1>1, <1>4
  <2>5. base'.strict_mode \in BOOLEAN
    BY <1>5 DEF WellTyped
  <2> QED
    BY <1>1, <1>4, <2>1, <2>2, <2>3, <2>4, <2>5 DEF ConfigTyped
<1>7. PatchedInBounds'
  BY <1>1 DEF PatchedInBounds
<1>8. BaseGoverned'
  <2>1. base'.runtime_patch_allowlist = cfg.runtime_patch_allowlist
    BY <1>4, FieldsAre
  <2> QED
    BY <1>5, <2>1 DEF BaseGoverned, Allowlist, Governed
<1>9. StrictStays'
  <2> SUFFICES ASSUME NEW h \in history, h.base.strict_mode, NEW k \in Critical,
                      ~Empty(k, h.base[k])
               PROVE  cfg'[k] = h.base[k] /\ base'[k] = h.base[k]
    BY <1>1 DEF StrictStays
  <2>1. k \in Fields \ {"chain_profile"}
    BY AddressFields
  <2>2. cfg[k] = h.base[k]
    BY DEF ConfigOK, StrictStays
  <2> QED
    BY <1>1, <1>4, <2>1, <2>2
<1>10. SourcesTold'
  <2> SUFFICES ASSUME NEW k \in Addresses PROVE SourceTold(k)'
    BY DEF SourcesTold
  <2>1. cfg'[k] = cfg[k]
    BY <1>1, <1>4, AddressFields
  <2> QED
    BY <1>1, <2>1 DEF ConfigOK, SourcesTold, SourceTold
<1> QED
  BY <1>1, <1>6, <1>7, <1>8, <1>9, <1>10 DEF ConfigOK, Passed

LEMMA ConfigStep == ASSUME ConfigOK, [NextConfig]_config PROVE ConfigOK'
<1>1. CASE UNCHANGED config
  <2>1. UNCHANGED <<builds, step, base, cfg, tags, registered, plugins, history>>
    BY <1>1 DEF config
  <2>2. ConfigTyped'
    BY <2>1 DEF ConfigOK, ConfigTyped, IsConfig, args
  <2>3. PatchedInBounds' /\ BaseGoverned' /\ StrictStays'
    BY <2>1 DEF ConfigOK, PatchedInBounds, BaseGoverned, Allowlist, StrictStays
  <2>4. Passed' /\ SourcesTold'
    BY <2>1 DEF ConfigOK, Passed, RegistryOk, SourcesTold, SourceTold
  <2> QED
    BY <2>2, <2>3, <2>4 DEF ConfigOK
<1>2. CASE Merge
  BY <1>2, MergeStep
<1>3. CASE Patch
  BY <1>3, PatchStep
<1>4. CASE Validate
  BY <1>4, CheckStep DEF Validate, RefuseConfig, Passed
<1>5. CASE GuardRegistry
  BY <1>5, CheckStep DEF GuardRegistry, RefuseConfig, Passed, ConfigOK, RegistryOk
<1>6. CASE Register
  BY <1>6, CheckStep DEF Register, RefuseConfig, Passed, ConfigOK, RegistryOk
<1>7. CASE Adapt
  BY <1>7, CheckStep DEF Adapt, RefuseConfig, Passed, ConfigOK, RegistryOk
<1>8. CASE Rebuild
  BY <1>8, RebuildStep
<1> QED
  BY <1>1, <1>2, <1>3, <1>4, <1>5, <1>6, <1>7, <1>8 DEF NextConfig

LEMMA PresetAddresses ==
    \A t, s \in BOOLEAN : \A k \in Addresses : ForMantle(t, s)[k] = ForMantle(FALSE, TRUE)[k]
BY DEF Addresses, ForMantle, Default, Nothing

LEMMA InitConfigOK ==
    ASSUME NEW calls, Callable(calls), InitConfig(calls)
    PROVE  ConfigOK
<1>1. /\ builds = calls /\ step = "merge" /\ base = BaseOf(args, Nothing)
      /\ WellTyped(base) /\ Governed(base) /\ cfg = base /\ tags = TagsOf(base) /\ history = {}
  BY DEF InitConfig
<1>2. args = calls[1]
  BY <1>1 DEF Callable, args
<1>3. IsConfig(base)
  <2>1. CASE calls[1].config = Absent
    <3>1. base = [Default EXCEPT !.rpc_urls = IF args.urls = Absent THEN {} ELSE args.urls]
      BY <1>1, <1>2, <2>1 DEF BaseOf, Callable
    <3>2. IsConfig(Default)
      BY DEF IsConfig, Default, Fields, Nothing
    <3> QED
      BY <3>1, <3>2 DEF IsConfig
  <2>2. CASE calls[1].config # Absent
    BY <1>1, <1>2, <2>2 DEF BaseOf, Callable, IsConfig
  <2> QED
    BY <2>1, <2>2
<1>4. IsConfig(tags)
  BY <1>1 DEF TagsOf, IsConfig
<1>5. ConfigTyped
  BY <1>1, <1>3, <1>4 DEF ConfigTyped, Callable, IsList, WellTyped
<1>6. PatchedInBounds /\ StrictStays /\ Passed
  BY <1>1 DEF PatchedInBounds, StrictStays, Passed
<1>7. BaseGoverned
  BY <1>1 DEF BaseGoverned, Governed, Allowlist
<1>8. SourcesTold
  <2> SUFFICES ASSUME NEW k \in Addresses PROVE SourceTold(k)
    BY DEF SourcesTold
  <2>1. tags[k] = "none" \/ (tags[k] = "preset" /\ \E t, s \in BOOLEAN : base = ForMantle(t, s))
    BY <1>1, AddressFields DEF TagsOf
  <2>2. tags[k] = "preset" => cfg[k] = ForMantle(FALSE, TRUE)[k]
    BY <1>1, <2>1, PresetAddresses
  <2> QED
    BY <2>1, <2>2 DEF SourceTold
<1> QED
  BY <1>5, <1>6, <1>7, <1>8 DEF ConfigOK

\* the one client of an audit on its own
LEMMA AloneIsCallable ==
    Callable(<<[config |-> Absent, urls |-> Absent, patch |-> <<>>, unknown |-> FALSE]>>)
<1> DEFINE one == [config |-> Absent, urls |-> Absent, patch |-> <<>>, unknown |-> FALSE]
<1>1. "profile" \notin DOMAIN one /\ one.config = Absent
  OBVIOUS
<1> HIDE DEF one
<1>2. Callable(<<one>>)
  BY <1>1 DEF Callable
<1> QED
  BY <1>2 DEF one

LEMMA NextConfigs == [Next]_vars => [NextConfig]_config
<1> SUFFICES ASSUME [Next]_vars PROVE NextConfig \/ UNCHANGED config
  OBVIOUS
<1> QED
  BY DEF Next, Simulate, AuditRequest, vars

LEMMA InitCases ==
    ASSUME Init
    PROVE  \E calls : Callable(calls) /\ InitConfig(calls)
<1>1. CASE \E c \in Cases : InitConfig(c[1]) /\ InitChecks(c[2]) /\ InitPacking(c[3])
  BY <1>1, DecisionAssumption
<1> QED
  BY <1>1, AloneIsCallable DEF Init

LEMMA ConfigHolds == Spec => []ConfigOK
<1>1. Init => ConfigOK
  BY InitCases, InitConfigOK
<1>2. ConfigOK /\ [Next]_vars => ConfigOK'
  BY NextConfigs, ConfigStep
<1> QED
  BY <1>1, <1>2, PTL DEF Spec

\* However often a client is rebuilt, and whatever the profiles and patches, the tags of its
\* addresses tell where they came from: resolve_config and with_source_tags.
THEOREM TagTellsSourceHolds == Spec => []TagTellsSource
<1>1. ConfigOK => TagTellsSource
  BY DEF ConfigOK, SourcesTold, SourceTold, TagTellsSource
<1> QED
  BY <1>1, ConfigHolds, PTL

\* No patch, and no sequence of rebuilds with patches, gets around the allowlist of the base
\* or loosens a strict configuration: _apply_runtime_patch and validate_governance_modes.
THEOREM PatchesStayInBoundsHolds == Spec => []PatchesStayInBounds
<1>1. ASSUME ConfigOK, Ready PROVE PatchesStayInBounds
  <2>1. \A k \in Fields \ {"rpc_urls"} :
           ~Empty(k, base[k]) /\ cfg[k] # base[k] => k \in base.runtime_patch_allowlist
    BY <1>1 DEF ConfigOK, PatchedInBounds, Allowlist
  <2>2. \A h \in history : h.base.strict_mode =>
           \A k \in Critical : ~Empty(k, h.base[k]) => cfg[k] = h.base[k]
    BY <1>1 DEF ConfigOK, StrictStays
  <2>3. ASSUME cfg.strict_mode
        PROVE  LET registry == ProfileOf(cfg).registry \ {Malformed}
               IN  /\ registry \subseteq Allowed(cfg)
                   /\ registry \cap cfg.blacklisted_addresses = {}
    BY <1>1, <2>3 DEF ConfigOK, Passed, Ready, RegistryOk, Governed, Allowed
  <2> QED
    BY <2>1, <2>2, <2>3 DEF PatchesStayInBounds
<1>2. ConfigOK => PatchesStayInBounds
  BY <1>1 DEF PatchesStayInBounds
<1> QED
  BY <1>2, ConfigHolds, PTL

-----------------------------------------------------------------------------
(***************************************************************************)
(* The audit of a policy                                                   *)
(***************************************************************************)

\* what a resolution starts from
AuditTyped ==
    /\ phase \in {"none", "resolve", "enforce", "report", "approved", "blocked"}
    /\ phase # "none" => IsArgument(job.arg)
    /\ phase \in {"none", "resolve"} => selected = NoValue

\* what EnforcePolicy lets through
Enforced == phase \in {"report", "approved"} => TargetAllowed /\ MethodAllowed

AuditOK == AuditTyped /\ Enforced /\ BundlePolicyIsSound /\ ReportTellsAll

\* a bundle yields a version of the environment asked for, or its first one
LEMMA SelectIs ==
    ASSUME NEW b, IsList(b.versions), b.versions # <<>>, NEW environment, NEW preferred
    PROVE  LET v == Select(b, environment, preferred)
           IN  /\ v \in ToSet(b.versions)
               /\ \/ v.environment = environment
                  \/ /\ \A w \in ToSet(b.versions) : w.environment # environment
                     /\ v = b.versions[1]
<1> DEFINE There == {n \in DOMAIN b.versions : b.versions[n].environment = environment}
           Named(name) == {n \in There : name # NoValue /\ b.versions[n].version = name}
           Or(S, T) == IF S # {} THEN S ELSE T
           choice == Or(Or(Named(preferred), Named(b.active_version)), Or(There, {1}))
<1>1. Select(b, environment, preferred) = b.versions[Min(choice)]
  BY DEF Select
<1>2. DOMAIN b.versions \subseteq Nat /\ 1 \in DOMAIN b.versions
  BY DEF IsList
<1>3. choice # {} /\ (choice \subseteq There \/ (There = {} /\ choice = {1}))
  OBVIOUS
<1>4. choice \subseteq DOMAIN b.versions
  BY <1>2, <1>3
<1> HIDE DEF choice, Or, Named
<1>5. Min(choice) \in choice
  BY <1>2, <1>3, <1>4, MinIs
<1>6. b.versions[Min(choice)] \in ToSet(b.versions)
  BY <1>4, <1>5 DEF ToSet
<1>7. CASE choice \subseteq There
  BY <1>1, <1>5, <1>6, <1>7
<1>8. CASE There = {} /\ choice = {1}
  BY <1>1, <1>5, <1>6, <1>8 DEF ToSet
<1> QED
  BY <1>3, <1>7, <1>8

\* a rollback stays among the versions and in the environment
LEMMA RolledBackIs ==
    ASSUME NEW b, IsList(b.versions), NEW v, RolledBack(b, v) # {}
    PROVE  LET w == b.versions[Min(RolledBack(b, v))]
           IN  w \in ToSet(b.versions) /\ w.environment = v.environment
<1>1. RolledBack(b, v) \subseteq DOMAIN b.versions /\ DOMAIN b.versions \subseteq Nat
  BY DEF RolledBack, IsList
<1>2. Min(RolledBack(b, v)) \in RolledBack(b, v)
  BY <1>1, MinIs
<1> QED
  BY <1>1, <1>2 DEF RolledBack, ToSet

\* what is enforced differs from a policy in what the overrides say only
LEMMA NormalIs ==
    ASSUME NEW p, IsPolicy(p), NEW o
    PROVE  \A k \in Keys :
              Normal(WithOverrides(p, o))[k] = IF k \in DOMAIN o THEN Normalized(k, o[k]) ELSE p[k]
<1>1. DOMAIN p = Keys
  BY DEF IsPolicy
<1>2. \A k \in Keys : Normalized(k, p[k]) = p[k]
  BY DEF IsPolicy, Normalized, Keys
<1> QED
  BY <1>1, <1>2 DEF Normal, WithOverrides

LEMMA IsPolicyKept ==
    ASSUME NEW p, IsPolicy(p)
    PROVE  \A k \in Keys : Normalized(k, p[k]) = p[k]
BY DEF IsPolicy, Normalized, Keys

\* the overrides that the report tells are those that count
LEMMA OverridesTold ==
    ASSUME NEW p, IsPolicy(p), NEW o, DOMAIN o \subseteq Keys
    PROVE  LET q == Normal(WithOverrides(p, o))
               told == Overridden(p, o)
           IN  /\ \A k \in Keys : q[k] # p[k] => \E c \in told : c.key = k
               /\ \A c \in told : /\ c.key \in Keys
                                 /\ c.reason = "override_applied"
                                 /\ c.expected = p[c.key]
                                 /\ Normalized(c.key, c.observed) = q[c.key]
<1> DEFINE q == Normal(WithOverrides(p, o))
           told == Overridden(p, o)
<1>1. \A k \in Keys : q[k] = IF k \in DOMAIN o THEN Normalized(k, o[k]) ELSE p[k]
  BY NormalIs
<1>2. \A c : c \in told <=> \E k \in DOMAIN o :
               p[k] # o[k] /\ c = [key |-> k, expected |-> p[k], observed |-> o[k],
                                   reason |-> "override_applied"]
  BY DEF Overridden, Conflict
<1> HIDE DEF q, told
<1>3. ASSUME NEW k \in Keys, q[k] # p[k] PROVE \E c \in told : c.key = k
  <2>1. k \in DOMAIN o /\ p[k] # o[k]
    BY <1>1, <1>3, IsPolicyKept
  <2> DEFINE c == [key |-> k, expected |-> p[k], observed |-> o[k], reason |-> "override_applied"]
  <2>2. c \in told
    BY <1>2, <2>1
  <2>3. c.key = k
    OBVIOUS
  <2> QED
    BY <2>2, <2>3
<1>4. ASSUME NEW c \in told
      PROVE  /\ c.key \in Keys
             /\ c.reason = "override_applied"
             /\ c.expected = p[c.key]
             /\ Normalized(c.key, c.observed) = q[c.key]
  <2>1. PICK k \in DOMAIN o : c = [key |-> k, expected |-> p[k], observed |-> o[k],
                                  reason |-> "override_applied"]
    BY <1>2, <1>4
  <2> QED
    BY <1>1, <2>1
<1> QED
  BY <1>3, <1>4 DEF q, told

Decided == {"enforce", "report", "approved"}

\* the body of the two properties, of a policy that was resolved
SoundBundle ==
    LET versions == job.arg.bundle.versions
    IN  /\ selected.status = "active"
        /\ selected.digest = selected.policy
        /\ selected \in ToSet(versions)
        /\ \A k \in Keys \ DOMAIN job.arg.overrides : policy[k] = selected.policy[k]
        /\ \/ selected.environment = job.arg.environment
           \/ /\ \A v \in ToSet(versions) : v.environment # job.arg.environment
              /\ selected.environment = versions[1].environment

AllTold ==
    LET base0 == IF selected = NoValue THEN DefaultPolicy ELSE selected.policy
        told == {c \in report.conflicts : c.reason = "override_applied"}
    IN  /\ \A k \in Keys : policy[k] # base0[k] => \E c \in told : c.key = k
        /\ \A c \in told : /\ c.expected = base0[c.key]
                          /\ Normalized(c.key, c.observed) = policy[c.key]
        /\ selected # NoValue =>
              /\ selected.environment # job.arg.environment <=>
                    \E c \in report.conflicts : c.key = "environment"
              /\ report.rollback <=> \E c \in report.conflicts : c.key = "policy_version"

LEMMA AuditBodies ==
    /\ BundlePolicyIsSound <=> (phase \in Decided /\ report.source = "bundle" => SoundBundle)
    /\ ReportTellsAll <=>
          (phase \in Decided /\ report.source \in {"bundle", "mapping_override"} => AllTold)
BY DEF BundlePolicyIsSound, ReportTellsAll, SoundBundle, AllTold, Decided

LEMMA BlockStep == ASSUME AuditOK, phase # "none", Block PROVE AuditOK'
<1>1. phase' = "blocked" /\ job' = job
  BY DEF Block
<1>2. BundlePolicyIsSound' /\ ReportTellsAll'
  BY <1>1 DEF BundlePolicyIsSound, ReportTellsAll
<1>3. AuditTyped' /\ Enforced'
  BY <1>1 DEF AuditOK, AuditTyped, Enforced
<1> QED
  BY <1>2, <1>3 DEF AuditOK

LEMMA ResolveDirectStep == ASSUME AuditOK, ResolveDirect PROVE AuditOK'
<1>1. report'.source \in {"default", "direct"}
  BY DEF ResolveDirect, NoReport
<1>2. phase' = "enforce" /\ job' = job /\ phase = "resolve"
  BY DEF ResolveDirect
<1>3. BundlePolicyIsSound' /\ ReportTellsAll'
  BY <1>1 DEF BundlePolicyIsSound, ReportTellsAll
<1> QED
  BY <1>2, <1>3 DEF AuditOK, AuditTyped, Enforced

LEMMA ResolveMappingStep == ASSUME AuditOK, ResolveMapping PROVE AuditOK'
<1>1. CASE Block
  BY <1>1, BlockStep DEF ResolveMapping
<1>2. CASE /\ policy' = Normal(Merged(DefaultPolicy))
           /\ report' = [source |-> "mapping_override", rollback |-> FALSE,
                         conflicts |-> Overridden(DefaultPolicy, job.arg.overrides)]
           /\ phase' = "enforce"
           /\ UNCHANGED <<job, selected>>
  <2>1. phase = "resolve" /\ job.arg.kind = "mapping" /\ IsArgument(job.arg) /\ selected = NoValue
    BY DEF ResolveMapping, AuditOK, AuditTyped
  <2>2. DOMAIN job.arg.overrides \subseteq Keys
    BY <2>1 DEF IsArgument
  <2>3. IsPolicy(DefaultPolicy)
    BY AuditAssumption
  <2> DEFINE told == Overridden(DefaultPolicy, job.arg.overrides)
  <2>4. /\ \A k \in Keys : policy'[k] # DefaultPolicy[k] => \E c \in told : c.key = k
        /\ \A c \in told : /\ c.reason = "override_applied"
                          /\ c.expected = DefaultPolicy[c.key]
                          /\ Normalized(c.key, c.observed) = policy'[c.key]
    BY <1>2, <2>2, <2>3, OverridesTold DEF Merged
  <2>5. report'.conflicts = told /\ report'.source = "mapping_override"
    BY <1>2
  <2> HIDE DEF told
  <2>6. AllTold'
    BY <1>2, <2>1, <2>4, <2>5 DEF AllTold
  <2>7. AuditTyped' /\ Enforced'
    BY <1>2, <2>1 DEF AuditTyped, Enforced
  <2>8. BundlePolicyIsSound' /\ ReportTellsAll'
    BY <2>5, <2>6 DEF BundlePolicyIsSound, ReportTellsAll, AllTold
  <2> QED
    BY <2>7, <2>8 DEF AuditOK
<1> QED
  BY <1>1, <1>2 DEF ResolveMapping

LEMMA ResolveBundleStep == ASSUME AuditOK, ResolveBundle PROVE AuditOK'
<1> DEFINE b == job.arg.bundle
           wanted == Select(b, job.arg.environment, job.arg.preferred)
           rolled == RolledBack(b, wanted)
           chosen == IF rolled = {} THEN wanted ELSE b.versions[Min(rolled)]
           rollback == When(rolled # {},
                            Conflict("policy_version", wanted.version, chosen.version,
                                     "rollback_applied"))
           fallback == When(chosen.environment # job.arg.environment,
                            Conflict("environment", job.arg.environment,
                                     chosen.environment, "fallback_used"))
           told == Overridden(chosen.policy, job.arg.overrides)
<1>1. CASE Block
  BY <1>1, BlockStep DEF ResolveBundle
<1>2. CASE /\ Sound(chosen) /\ PolicyOk(Merged(chosen.policy))
           /\ selected' = chosen
           /\ policy' = Normal(Merged(chosen.policy))
           /\ report' = [source |-> "bundle", rollback |-> rolled # {},
                         conflicts |-> rollback \cup fallback \cup told]
           /\ phase' = "enforce"
           /\ UNCHANGED job
  <2>1. /\ phase = "resolve" /\ job.arg.kind = "mapping" /\ IsArgument(job.arg)
        /\ b # NoValue
    BY DEF ResolveBundle, AuditOK, AuditTyped
  <2>2. /\ DOMAIN job.arg.overrides \subseteq Keys
        /\ IsList(b.versions)
        /\ \A v \in ToSet(b.versions) : v # NoValue /\ IsPolicy(v.policy)
    BY <2>1 DEF IsArgument, IsList
  <2>3. b.versions # <<>>
    <3>1. SUFFICES ASSUME b.versions = <<>> PROVE FALSE
      OBVIOUS
    <3>2. wanted = Placeholder
      BY <3>1 DEF Select
    <3>3. rolled = {}
      BY <3>1 DEF RolledBack
    <3>4. chosen.digest = NoValue
      BY <3>2, <3>3 DEF Placeholder
    <3> QED
      BY <1>2, <3>4 DEF Sound
  <2>4. /\ wanted \in ToSet(b.versions)
        /\ \/ wanted.environment = job.arg.environment
           \/ /\ \A w \in ToSet(b.versions) : w.environment # job.arg.environment
              /\ wanted = b.versions[1]
    BY <2>2, <2>3, SelectIs
  <2>5. rolled # {} => /\ b.versions[Min(rolled)] \in ToSet(b.versions)
                       /\ b.versions[Min(rolled)].environment = wanted.environment
    BY <2>2, RolledBackIs
  <2>6. /\ chosen \in ToSet(b.versions)
        /\ chosen.environment = wanted.environment
    BY <2>4, <2>5
  <2> HIDE DEF wanted, rolled
  <2>7. /\ chosen # NoValue /\ IsPolicy(chosen.policy)
        /\ \/ chosen.environment = job.arg.environment
           \/ /\ \A w \in ToSet(b.versions) : w.environment # job.arg.environment
              /\ chosen.environment = b.versions[1].environment
    BY <2>2, <2>4, <2>6
  <2> HIDE DEF chosen
  <2>8. /\ \A k \in Keys : policy'[k] # chosen.policy[k] => \E c \in told : c.key = k
        /\ \A c \in told : /\ c.key \in Keys
                          /\ c.reason = "override_applied"
                          /\ c.expected = chosen.policy[c.key]
                          /\ Normalized(c.key, c.observed) = policy'[c.key]
    BY <1>2, <2>2, <2>7, OverridesTold DEF Merged
  <2>9. \A k \in Keys \ DOMAIN job.arg.overrides : policy'[k] = chosen.policy[k]
    BY <1>2, <2>7, NormalIs DEF Merged
  <2>10. SoundBundle'
    BY <1>2, <2>6, <2>7, <2>9 DEF SoundBundle, Sound
  <2>11. /\ \A c \in rollback : c.key = "policy_version" /\ c.reason = "rollback_applied"
         /\ rolled # {} <=> rollback # {}
         /\ \A c \in fallback : c.key = "environment" /\ c.reason = "fallback_used"
         /\ chosen.environment # job.arg.environment <=> fallback # {}
    <3> DEFINE again == Conflict("policy_version", wanted.version, chosen.version,
                                 "rollback_applied")
               other == Conflict("environment", job.arg.environment,
                                 chosen.environment, "fallback_used")
    <3>1. /\ again.key = "policy_version" /\ again.reason = "rollback_applied"
          /\ other.key = "environment" /\ other.reason = "fallback_used"
      BY DEF Conflict
    <3> HIDE DEF again, other
    <3>2. rollback = IF rolled # {} THEN {again} ELSE {}
      BY DEF When, again
    <3>3. fallback = IF chosen.environment # job.arg.environment THEN {other} ELSE {}
      BY DEF When, other
    <3> HIDE DEF rollback, fallback
    <3> QED
      BY <3>1, <3>2, <3>3
  <2>12. /\ report'.conflicts = rollback \cup fallback \cup told
         /\ report'.source = "bundle" /\ report'.rollback = (rolled # {})
         /\ selected' = chosen /\ job' = job /\ phase' = "enforce"
    BY <1>2
  <2> HIDE DEF told, rollback, fallback
  <2>13. {"policy_version", "environment"} \cap Keys = {}
    BY DEF Keys
  <2>14. {c \in report'.conflicts : c.reason = "override_applied"} = told
    BY <2>8, <2>11, <2>12
  <2>15. /\ (\E c \in report'.conflicts : c.key = "environment") <=> fallback # {}
         /\ (\E c \in report'.conflicts : c.key = "policy_version") <=> rollback # {}
    BY <2>8, <2>11, <2>12, <2>13
  <2>16. AllTold'
    <3>1. /\ selected' = NoValue <=> FALSE
          /\ selected'.policy = chosen.policy
          /\ selected'.environment # job'.arg.environment <=> fallback # {}
          /\ report'.rollback <=> rollback # {}
      BY <2>7, <2>11, <2>12
    <3> QED
      BY <2>8, <2>14, <2>15, <3>1 DEF AllTold
  <2>17. AuditTyped' /\ Enforced'
    BY <2>1, <2>12 DEF AuditTyped, Enforced
  <2>18. BundlePolicyIsSound' /\ ReportTellsAll'
    BY <2>10, <2>16 DEF BundlePolicyIsSound, ReportTellsAll, SoundBundle, AllTold
  <2> QED
    BY <2>17, <2>18 DEF AuditOK
<1> QED
  BY <1>1, <1>2 DEF ResolveBundle

LEMMA InitAuditOK == ASSUME InitAudit PROVE AuditOK
<1>1. phase \in {"none", "resolve"} /\ selected = NoValue
  BY DEF InitAudit
<1>2. phase # "none" => IsArgument(job.arg)
  BY AuditAssumption DEF InitAudit
<1> QED
  BY <1>1, <1>2 DEF AuditOK, AuditTyped, Enforced, BundlePolicyIsSound, ReportTellsAll

LEMMA BeginStep == ASSUME AuditOK, AuditRequest PROVE AuditOK'
<1>1. PICK a \in PipelineArguments :
        BeginAudit(a, [to |-> payload.to, function_name |-> payload.function_name,
                       sel |-> payload.call.sel, slippage |-> NoValue])
  BY DEF AuditRequest
<1>2. phase = "none" /\ phase' = "resolve" /\ selected' = selected /\ job'.arg = a
  BY <1>1 DEF BeginAudit
<1>3. IsArgument(job'.arg)
  BY <1>2, DecisionAssumption, AuditAssumption
<1> QED
  BY <1>2, <1>3 DEF AuditOK, AuditTyped, Enforced, BundlePolicyIsSound, ReportTellsAll

\* a step of the audit that resolves nothing
LEMMA EnforceStep ==
    ASSUME AuditOK, UNCHANGED <<job, selected, policy, report>>,
           \/ phase = "enforce" /\ phase' = "report" /\ TargetAllowed /\ MethodAllowed
           \/ phase = "report" /\ phase' = "approved"
           \/ phase' = phase
    PROVE  AuditOK'
<1>1. AuditTyped'
  BY DEF AuditOK, AuditTyped
<1>2. Enforced'
  BY DEF AuditOK, Enforced, TargetAllowed, MethodAllowed
<1>3. BundlePolicyIsSound' /\ ReportTellsAll'
  BY DEF AuditOK, BundlePolicyIsSound, ReportTellsAll
<1> QED
  BY <1>1, <1>2, <1>3 DEF AuditOK

LEMMA AuditStep == ASSUME AuditOK, [NextAudit \/ AuditRequest]_audit PROVE AuditOK'
<1>1. CASE UNCHANGED audit
  BY <1>1, EnforceStep DEF audit
<1>2. CASE ResolveDirect
  BY <1>2, ResolveDirectStep
<1>3. CASE ResolveRefused
  BY <1>3, BlockStep DEF ResolveRefused
<1>4. CASE ResolveMapping
  BY <1>4, ResolveMappingStep
<1>5. CASE ResolveBundle
  BY <1>5, ResolveBundleStep
<1>6. CASE EnforcePolicy
  BY <1>6, BlockStep, EnforceStep DEF EnforcePolicy
<1>7. CASE Report
  BY <1>7, EnforceStep DEF Report
<1>8. CASE AuditRequest
  BY <1>8, BeginStep
<1> QED
  BY <1>1, <1>2, <1>3, <1>4, <1>5, <1>6, <1>7, <1>8 DEF NextAudit

LEMMA AuditHolds == Spec => []AuditOK
<1>1. Init => AuditOK
  BY InitAuditOK DEF Init
<1>2. ASSUME [Next]_vars PROVE [NextAudit \/ AuditRequest]_audit
  BY <1>2 DEF Next, Simulate, vars
<1>3. AuditOK /\ [Next]_vars => AuditOK'
  BY <1>2, AuditStep
<1> QED
  BY <1>1, <1>3, PTL DEF Spec

\* Whatever the bundle, its rollbacks and its overrides, the policy enforced is one of its own
\* active versions with the right digest: _select_bundle_version and _resolve_policy_with_report.
THEOREM BundlePolicyIsSoundHolds == Spec => []BundlePolicyIsSound
<1>1. AuditOK => BundlePolicyIsSound
  BY DEF AuditOK
<1> QED
  BY <1>1, AuditHolds, PTL

\* Whatever is overridden, replaced or rolled back, the report says so: PolicyConflict and
\* PolicyDecisionReport.
THEOREM ReportTellsAllHolds == Spec => []ReportTellsAll
<1>1. AuditOK => ReportTellsAll
  BY DEF AuditOK
<1> QED
  BY <1>1, AuditHolds, PTL

-----------------------------------------------------------------------------
(***************************************************************************)
(* The checks: what the inductive invariant says                           *)
(***************************************************************************)

\* the call that an entry of a frame holds, as HeldBy names it
NodeOf(f, e) ==
    [to |-> e.to, call |-> e.call, depth |-> f.depth + 1,
     within |-> IF f.value THEN "aggregate3Value" ELSE "aggregate3"]

\* a call that a frame of the stack has yet to come to
Pending(frames, m) ==
    \E i \in 1..Len(frames) : \E j \in 1..Len(frames[i].rest) :
        m = NodeOf(frames[i], frames[i].rest[j])

\* what EveryAddressVetted and EverySwapBounded ask of a call, its addresses collected
Met(n, addresses) ==
    /\ n.to \in addresses
    /\ Decoded(n) => n.call.path \cup {n.call.recipient} \subseteq addresses
    /\ Decoded(n) => n.call.min_out # 0
    /\ n.call.sel \in Aggregates => n.to = Multicall /\ n.depth <= MaxDepth
    /\ Decoded(n) /\ n.call.sel \in V2Swaps => n.to = Router
    /\ n.within = "aggregate3Value" => n.call.sel \notin V3Swaps \cup {Moe}

\* some set of calls was met, and what they hold is in it or still to come
WalkedTo(addresses, frames) ==
    \E S : /\ Outer \in S
           /\ \A n \in S : /\ Met(n, addresses)
                           /\ \A m \in HeldBy(n) : m \in S \/ Pending(frames, m)

FrameOK(f) ==
    /\ f = [value |-> f.value, rest |-> f.rest, depth |-> f.depth]
    /\ f.value \in BOOLEAN
    /\ f.depth \in Nat
    /\ Listed(f.rest)

FramesOK(frames) == IsList(frames) /\ \A i \in 1..Len(frames) : FrameOK(frames[i])

AfterL1 == {"L2", "L3", "walk", "enforce", "accepted"}

AfterL2 == AfterL1 \ {"L2"}

AfterL3 == AfterL2 \ {"L3"}

ChecksOK ==
    /\ stage \in {"L1", "refused"} \cup AfterL1
    /\ payload # Absent => Whole(payload.call)
    /\ stage \in AfterL1 => payload # Absent /\ Intended
    /\ stage \in AfterL2 => WellFormed
    /\ stage = "accepted" => Permitted(collected)
    /\ FramesOK(stack)
    /\ stage # "walk" => stack = <<>>
    /\ stage \in AfterL3 => payload.to \in collected
    /\ stage \in AfterL3 /\ payload.call.sel \notin Handled => WalkedTo(collected, stack)

-----------------------------------------------------------------------------
(***************************************************************************)
(* The stack of the walk                                                   *)
(***************************************************************************)

\* a sequence is one of its own elements
LEMMA OwnElements == ASSUME NEW T, NEW s \in Seq(T) PROVE s \in Seq({s[n] : n \in DOMAIN s})
<1> DEFINE own == {s[n] : n \in DOMAIN s}
<1>1. s = [n \in 1..Len(s) |-> s[n]] /\ Len(s) \in Nat /\ \A n \in 1..Len(s) : s[n] \in own
  OBVIOUS
<1> HIDE DEF own
<1>2. s \in Seq(own)
  BY <1>1
<1> QED
  BY <1>2 DEF own

LEMMA EmptyFrames == FramesOK(<<>>)
BY DEF FramesOK, IsList

\* the stack when the first entry of its first frame is taken
LEMMA AdvancedIs ==
    ASSUME FramesOK(stack), stack # <<>>, top.rest # <<>>
    PROVE  /\ FramesOK(Advanced)
           /\ FrameOK(top)
           /\ Head(top.rest).call \in Trees
           /\ \A m : Pending(stack, m) =>
                 m = NodeOf(top, Head(top.rest)) \/ Pending(Advanced, m)
<1> DEFINE rest == Tail(top.rest)
           left == [top EXCEPT !.rest = Tail(@)]
<1>1. PICK S : stack \in Seq(S)
  BY DEF FramesOK, IsList
<1>2. Len(stack) >= 1 /\ top = stack[1] /\ FrameOK(top)
  BY <1>1 DEF top, FramesOK
<1>3. PICK T : top.rest \in Seq(T) /\ \A e \in T : e.call \in Trees
  BY <1>2 DEF FrameOK, Listed
<1>4. /\ Len(top.rest) >= 1 /\ Head(top.rest) = top.rest[1] /\ Head(top.rest) \in T
      /\ rest \in Seq(T) /\ Len(rest) = Len(top.rest) - 1
      /\ \A j \in 1..Len(rest) : rest[j] = top.rest[j + 1]
  BY <1>3
<1>5. Listed(rest)
  <2>1. \A n \in DOMAIN rest : rest[n] \in T
    BY <1>4
  <2> QED
    BY <1>3, <1>4, <2>1, OwnElements DEF Listed
<1>6. left = [value |-> top.value, rest |-> rest, depth |-> top.depth]
  BY <1>2 DEF FrameOK
<1>7. FrameOK(left)
  BY <1>2, <1>5, <1>6 DEF FrameOK
<1>8. Advanced = <<left>> \o Tail(stack)
  BY DEF Advanced
<1> HIDE DEF left, rest
<1>9. /\ Advanced \in Seq(S \cup {left}) /\ Len(Advanced) = Len(stack)
      /\ Advanced[1] = left
      /\ \A i \in 2..Len(stack) : Advanced[i] = stack[i]
  BY <1>1, <1>2, <1>8
<1>10. FramesOK(Advanced)
  BY <1>2, <1>7, <1>9 DEF FramesOK, IsList
<1>11. ASSUME NEW m, Pending(stack, m), m # NodeOf(top, Head(top.rest))
       PROVE  Pending(Advanced, m)
  <2>0. PICK i \in 1..Len(stack) :
           \E j \in 1..Len(stack[i].rest) : m = NodeOf(stack[i], stack[i].rest[j])
    BY <1>11 DEF Pending
  <2>1. PICK j \in 1..Len(stack[i].rest) : m = NodeOf(stack[i], stack[i].rest[j])
    BY <2>0
  <2>2. CASE i = 1
    <3>0. j \in 1..Len(top.rest) /\ m = NodeOf(top, top.rest[j])
      BY <1>2, <2>1, <2>2
    <3>1. j # 1 /\ j - 1 \in 1..Len(rest) /\ rest[j - 1] = top.rest[j]
      <4>1. j # 1
        BY <1>4, <1>11, <3>0
      <4> QED
        BY <1>4, <3>0, <4>1
    <3>2. m = NodeOf(left, left.rest[j - 1])
      BY <1>2, <1>6, <2>1, <2>2, <3>1 DEF NodeOf
    <3>3. left.rest = rest
      BY <1>6
    <3>4. /\ 1 \in 1..Len(Advanced)
          /\ j - 1 \in 1..Len(Advanced[1].rest)
          /\ m = NodeOf(Advanced[1], Advanced[1].rest[j - 1])
      BY <1>1, <1>2, <1>9, <3>1, <3>2, <3>3
    <3> QED
      BY <3>4 DEF Pending
  <2>3. CASE i # 1
    BY <1>1, <1>9, <2>1, <2>3 DEF Pending
  <2> QED
    BY <2>2, <2>3
<1> QED
  BY <1>2, <1>3, <1>4, <1>10, <1>11

\* a batch is entered with all it holds still to come, and nothing that was is lost
LEMMA EnterIs ==
    ASSUME NEW n, n.call.sel \in Aggregates, Whole(n.call), n.depth \in Nat,
           NEW frames, FramesOK(frames)
    PROVE  LET entered == <<Frame(n.call, n.depth)>> \o frames
           IN  /\ FramesOK(entered)
               /\ \A m \in HeldBy(n) : Pending(entered, m)
               /\ \A m : Pending(frames, m) => Pending(entered, m)
<1> DEFINE f == Frame(n.call, n.depth)
           entered == <<f>> \o frames
<1>1. /\ f = [value |-> f.value, rest |-> f.rest, depth |-> f.depth]
      /\ f.value = (n.call.sel = "aggregate3Value")
      /\ f.rest = n.call.calls /\ f.depth = n.depth
  BY DEF Frame
<1> HIDE DEF f
<1>2. FrameOK(f)
  BY <1>1 DEF FrameOK, Whole
<1>3. PICK S : frames \in Seq(S)
  BY DEF FramesOK, IsList
<1>4. /\ entered \in Seq(S \cup {f}) /\ Len(entered) = Len(frames) + 1 /\ entered[1] = f
      /\ \A i \in 1..Len(frames) : entered[i + 1] = frames[i]
  BY <1>3
<1> HIDE DEF entered
<1>5. FramesOK(entered)
  <2>1. ASSUME NEW i \in 1..Len(entered), i # 1
        PROVE  i - 1 \in 1..Len(frames) /\ entered[i] = frames[i - 1]
    BY <1>3, <1>4, <2>1
  <2> QED
    BY <1>2, <1>4, <2>1 DEF FramesOK, IsList
<1>6. ASSUME NEW m \in HeldBy(n) PROVE Pending(entered, m)
  <2>1. PICK k \in 1..Len(n.call.calls) :
           LET e == n.call.calls[k]
           IN  m = [to |-> e.to, call |-> e.call, depth |-> n.depth + 1, within |-> n.call.sel]
    BY DEF HeldBy
  <2>2. n.call.sel = IF f.value THEN "aggregate3Value" ELSE "aggregate3"
    BY <1>1 DEF Aggregates
  <2>3. m = NodeOf(f, f.rest[k])
    BY <1>1, <2>1, <2>2 DEF NodeOf
  <2> QED
    BY <1>1, <1>3, <1>4, <2>1, <2>3 DEF Pending
<1>7. ASSUME NEW m, Pending(frames, m) PROVE Pending(entered, m)
  <2>0. PICK i \in 1..Len(frames) :
           \E j \in 1..Len(frames[i].rest) : m = NodeOf(frames[i], frames[i].rest[j])
    BY <1>7 DEF Pending
  <2>1. PICK j \in 1..Len(frames[i].rest) : m = NodeOf(frames[i], frames[i].rest[j])
    BY <2>0
  <2>2. i + 1 \in 1..Len(entered) /\ entered[i + 1] = frames[i]
    BY <1>3, <1>4
  <2> QED
    BY <2>1, <2>2 DEF Pending
<1> QED
  BY <1>5, <1>6, <1>7 DEF entered, f

-----------------------------------------------------------------------------
(***************************************************************************)
(* The checks: the steps                                                   *)
(***************************************************************************)

\* what was found out of a payload stays true of it
LEMMA SamePayload ==
    ASSUME UNCHANGED <<payload, config>>
    PROVE  /\ Intended' = Intended /\ WellFormed' = WellFormed /\ Handled' = Handled
           /\ \A a, st : WalkedTo(a, st) /\ collected' = a /\ stack' = st
                            => WalkedTo(collected, stack)'
<1>1. cfg' = cfg /\ plugins' = plugins /\ payload' = payload
  BY DEF config
<1>2. Intended' = Intended
  BY <1>1 DEF Intended, Reconciled
<1>3. WellFormed' = WellFormed /\ Handled' = Handled
  BY <1>1 DEF WellFormed, Handled
<1>4. Router' = Router /\ Multicall' = Multicall /\ Outer' = Outer
  BY <1>1 DEF Router, Multicall, Target, Outer
<1>5. ASSUME NEW a, NEW st, WalkedTo(a, st), collected' = a, stack' = st
      PROVE  WalkedTo(collected, stack)'
  BY <1>4, <1>5 DEF WalkedTo, Met
<1> QED
  BY <1>2, <1>3, <1>5

LEMMA RefuseStep == ASSUME ChecksOK, Refuse PROVE ChecksOK'
<1>1. stage' = "refused" /\ stack' = <<>> /\ payload' = payload
  BY DEF Refuse
<1>2. FramesOK(stack)'
  BY <1>1, EmptyFrames DEF FramesOK
<1> QED
  BY <1>1, <1>2 DEF ChecksOK, AfterL1, AfterL2, AfterL3

\* a check before the walk is passed
LEMMA PassStep ==
    ASSUME ChecksOK, UNCHANGED <<payload, stack, collected, config>>, payload # Absent,
           \/ stage = "L1" /\ stage' = "L2" /\ Intended
           \/ stage = "L2" /\ stage' = "L3" /\ WellFormed
           \/ stage = "enforce" /\ stage' = "accepted" /\ Permitted(collected)
    PROVE  ChecksOK'
<1>1. FramesOK(stack)'
  BY DEF ChecksOK, FramesOK
<1>2. cfg' = cfg
  BY DEF config
<1>3. (stage = "accepted" => Permitted(collected))'
  BY <1>2 DEF Permitted
<1>4. CASE stage \in {"L1", "L2"}
  BY <1>1, <1>3, <1>4, SamePayload DEF ChecksOK, AfterL1, AfterL2, AfterL3
<1>5. CASE stage = "enforce" /\ stage' = "accepted"
  <2>1. (payload.call.sel \notin Handled => WalkedTo(collected, stack))'
    BY <1>5, SamePayload DEF ChecksOK, AfterL3, AfterL2, AfterL1
  <2> QED
    BY <1>1, <1>3, <1>5, <2>1, SamePayload DEF ChecksOK, AfterL1, AfterL2, AfterL3
<1> QED
  BY <1>4, <1>5

\* L3 begins to walk, or is done with the payload
LEMMA WalkStep ==
    ASSUME ChecksOK, UNCHANGED <<payload, config>>,
           stage \in AfterL2, stage' \in {"walk", "enforce"},
           NEW a, NEW st, collected' = a, stack' = st,
           FramesOK(st), stage' = "enforce" => st = <<>>, payload.to \in a,
           payload.call.sel \notin Handled => WalkedTo(a, st)
    PROVE  ChecksOK'
<1>1. FramesOK(stack)'
  BY DEF FramesOK
<1>2. (payload.call.sel \notin Handled => WalkedTo(collected, stack))'
  BY SamePayload
<1> QED
  BY <1>1, <1>2, SamePayload DEF ChecksOK, AfterL1, AfterL2, AfterL3

\* the outer call is met, and what it holds comes next
LEMMA OuterIsMet ==
    ASSUME NEW a, NEW frames, Met(Outer, a), \A m \in HeldBy(Outer) : Pending(frames, m)
    PROVE  WalkedTo(a, frames)
<1> DEFINE S == {Outer}
<1>1. \A n \in S : Met(n, a) /\ \A m \in HeldBy(n) : m \in S \/ Pending(frames, m)
  OBVIOUS
<1> QED
  BY <1>1 DEF WalkedTo

LEMMA OpaqueStep == ASSUME ChecksOK, UNCHANGED config, ParseOpaque PROVE ChecksOK'
<1>1. CASE Refuse
  BY <1>1, RefuseStep
<1>2. CASE ToEnforce({payload.to})
  <2>1. stage = "L3" /\ payload.call.sel \in Handled \cup {"none"}
    BY DEF ParseOpaque
  <2>2. ASSUME payload.call.sel = "none" PROVE WalkedTo({payload.to}, <<>>)
    <3>1. Met(Outer, {payload.to})
      BY <2>2 DEF Met, Outer, Decoded, Swaps, V2Swaps, V3Swaps, EthSwaps, Moe, Aggregates
    <3>2. HeldBy(Outer) = {}
      BY <2>2 DEF HeldBy, Outer, Aggregates
    <3> QED
      BY <3>1, <3>2, OuterIsMet
  <2> QED
    BY <1>2, <2>1, <2>2, WalkStep, EmptyFrames DEF ToEnforce, AfterL2, AfterL1
<1> QED
  BY <1>1, <1>2 DEF ParseOpaque

LEMMA OuterStep == ASSUME ChecksOK, payload # Absent, UNCHANGED config, ParseOuter PROVE ChecksOK'
<1> DEFINE c == payload.call
<1>1. stage = "L3" /\ stage \in AfterL2
  BY DEF ParseOuter, AfterL2, AfterL1
<1>2. CASE Refuse
  BY <1>2, RefuseStep
<1>3. CASE /\ Routed /\ c.sel \in Aggregates /\ CanEnter(c, 0)
           /\ stage' = "walk" /\ stack' = <<Frame(c, 0)>> /\ collected' = {payload.to}
           /\ UNCHANGED payload
  <2>1. Outer.to = payload.to /\ Outer.call = c /\ Outer.depth = 0 /\ Outer.within = "nothing"
    BY DEF Outer
  <2>2. Met(Outer, {payload.to})
    BY <1>3, <2>1, ChecksAssumption
    DEF Met, Decoded, Swaps, V2Swaps, V3Swaps, EthSwaps, Moe, Aggregates, Routed
  <2>3. <<Frame(c, 0)>> \o <<>> = <<Frame(c, 0)>>
    OBVIOUS
  <2>4. FramesOK(<<Frame(c, 0)>>) /\ \A m \in HeldBy(Outer) : Pending(<<Frame(c, 0)>>, m)
    <3>1. Outer.call.sel \in Aggregates /\ Whole(Outer.call) /\ Outer.depth \in Nat
      BY <1>3, <2>1 DEF ChecksOK
    <3> DEFINE entered == <<Frame(Outer.call, Outer.depth)>> \o <<>>
    <3>2. FramesOK(entered) /\ \A m \in HeldBy(Outer) : Pending(entered, m)
      BY <3>1, EmptyFrames, EnterIs
    <3>3. entered = <<Frame(c, 0)>>
      BY <2>1, <2>3
    <3> QED
      BY <3>2, <3>3
  <2>5. WalkedTo({payload.to}, <<Frame(c, 0)>>)
    BY <2>2, <2>4, OuterIsMet
  <2> QED
    BY <1>1, <1>3, <2>4, <2>5, WalkStep
<1>4. CASE \E a : /\ ToEnforce(a) /\ Met(Outer, a) /\ c.sel \notin Aggregates
  <2>1. PICK a : ToEnforce(a) /\ Met(Outer, a) /\ c.sel \notin Aggregates
    BY <1>4
  <2>2. HeldBy(Outer) = {}
    BY <2>1 DEF HeldBy, Outer
  <2>3. WalkedTo(a, <<>>) /\ payload.to \in a
    BY <2>1, <2>2, OuterIsMet DEF Met, Outer
  <2> QED
    BY <1>1, <2>1, <2>3, WalkStep, EmptyFrames DEF ToEnforce
<1>5. CASE /\ Routed /\ c.sel \in Swaps \ EthSwaps /\ SwapOk(c)
           /\ ToEnforce({payload.to} \cup Touches(c))
  <2>1. Met(Outer, {payload.to} \cup Touches(c)) /\ c.sel \notin Aggregates
    BY <1>5 DEF Met, Outer, Routed, SwapOk, Touches, Aggregates, Swaps, V2Swaps, V3Swaps,
                EthSwaps, Moe
  <2> QED
    BY <1>4, <1>5, <2>1
<1>6. CASE /\ Routed /\ c.sel \notin Aggregates \cup (Swaps \ EthSwaps)
           /\ ToEnforce({payload.to})
  <2>1. Met(Outer, {payload.to})
    BY <1>6 DEF Met, Outer, Decoded
  <2> QED
    BY <1>4, <1>6, <2>1
<1> QED
  BY <1>2, <1>3, <1>5, <1>6 DEF ParseOuter

LEMMA EntryStep == ASSUME ChecksOK, UNCHANGED config, WalkEntry PROVE ChecksOK'
<1> DEFINE e == Head(top.rest)
           c == e.call
           n == NodeOf(top, e)
           nested == c.sel \in Aggregates /\ e.to = Multicall /\ CanEnter(c, top.depth + 1)
           swap == /\ \/ c.sel \in V2Swaps /\ e.to = Router
                      \/ c.sel \in V3Swaps \cup {Moe} /\ ~top.value
                   /\ SwapOk(c)
<1>1. stage = "walk" /\ stage \in AfterL2 /\ stage \in AfterL3 /\ stack # <<>> /\ top.rest # <<>>
  BY DEF WalkEntry, AfterL3, AfterL2, AfterL1
<1>2. /\ FramesOK(Advanced) /\ FrameOK(top) /\ c \in Trees
      /\ \A m : Pending(stack, m) => m = n \/ Pending(Advanced, m)
  BY <1>1, AdvancedIs DEF ChecksOK
<1>3. /\ n.to = e.to /\ n.call = c /\ n.depth = top.depth + 1
      /\ n.within = IF top.value THEN "aggregate3Value" ELSE "aggregate3"
      /\ top.depth \in Nat /\ top.value \in BOOLEAN
  BY <1>2 DEF NodeOf, FrameOK
<1> HIDE DEF n
<1>4. ASSUME NEW a, NEW frames, UNCHANGED <<payload, stage>>, collected' = a, stack' = frames,
             collected \subseteq a, Met(n, a), FramesOK(frames),
             \A m : Pending(Advanced, m) => Pending(frames, m),
             \A m \in HeldBy(n) : Pending(frames, m)
      PROVE  ChecksOK'
  <2>1. ASSUME WalkedTo(collected, stack) PROVE WalkedTo(a, frames)
    <3>1. PICK S : /\ Outer \in S
                   /\ \A s \in S : /\ Met(s, collected)
                                   /\ \A m \in HeldBy(s) : m \in S \/ Pending(stack, m)
      BY <2>1 DEF WalkedTo
    <3>2. \A s \in S : Met(s, a)
      BY <1>4, <3>1 DEF Met
    <3> DEFINE T == S \cup {n}
    <3>3. \A s \in T : Met(s, a) /\ \A m \in HeldBy(s) : m \in T \/ Pending(frames, m)
      BY <1>2, <1>4, <3>1, <3>2
    <3>4. Outer \in T
      BY <3>1
    <3> QED
      BY <3>3, <3>4 DEF WalkedTo
  <2>2. payload.call.sel \notin Handled => WalkedTo(a, frames)
    BY <1>1, <2>1 DEF ChecksOK
  <2> QED
    BY <1>1, <1>4, <2>2, WalkStep DEF ChecksOK
<1>5. ASSUME c.sel \notin Aggregates PROVE HeldBy(n) = {}
  BY <1>3, <1>5 DEF HeldBy
<1>6. CASE /\ c.sel = "none" /\ stack' = Advanced
           /\ collected' = collected \cup {e.to} /\ UNCHANGED <<payload, stage>>
  <2>1. Met(n, collected \cup {e.to}) /\ c.sel \notin Aggregates
    BY <1>3, <1>6 DEF Met, Decoded, Swaps, V2Swaps, V3Swaps, EthSwaps, Moe, Aggregates
  <2> QED
    BY <1>2, <1>4, <1>5, <1>6, <2>1
<1>7. CASE /\ nested /\ stack' = <<Frame(c, top.depth + 1)>> \o Advanced
           /\ collected' = collected \cup {e.to} /\ UNCHANGED <<payload, stage>>
  <2>1. Met(n, collected \cup {e.to})
    BY <1>3, <1>7
    DEF Met, Decoded, Swaps, V2Swaps, V3Swaps, EthSwaps, Moe, Aggregates, CanEnter
  <2>2. Whole(c) /\ n.depth \in Nat
    BY <1>2, <1>3, ChecksAssumption
  <2>3. /\ FramesOK(stack')
        /\ \A m \in HeldBy(n) : Pending(stack', m)
        /\ \A m : Pending(Advanced, m) => Pending(stack', m)
    BY <1>2, <1>3, <1>7, <2>2, EnterIs
  <2> QED
    BY <1>4, <1>7, <2>1, <2>3
<1>8. CASE /\ swap /\ stack' = Advanced
           /\ collected' = collected \cup {e.to} \cup Touches(c) /\ UNCHANGED <<payload, stage>>
  <2>1. Met(n, collected \cup {e.to} \cup Touches(c)) /\ c.sel \notin Aggregates
    BY <1>3, <1>8
    DEF Met, SwapOk, Touches, Aggregates, Swaps, V2Swaps, V3Swaps, EthSwaps, Moe
  <2> QED
    BY <1>2, <1>4, <1>5, <1>8, <2>1
<1>9. CASE Refuse
  BY <1>9, RefuseStep
<1> QED
  BY <1>6, <1>7, <1>8, <1>9 DEF WalkEntry

LEMMA ReturnStep == ASSUME ChecksOK, UNCHANGED config, WalkReturns PROVE ChecksOK'
<1>1. /\ stage = "walk" /\ stack # <<>> /\ top.rest = <<>> /\ stack' = Tail(stack)
      /\ stage' = IF Len(stack) = 1 THEN "enforce" ELSE stage
      /\ UNCHANGED <<payload, collected>>
  BY DEF WalkReturns
<1>2. stage \in AfterL2 /\ stage \in AfterL3
  BY <1>1 DEF AfterL3, AfterL2, AfterL1
<1>3. PICK S : stack \in Seq(S)
  BY DEF ChecksOK, FramesOK, IsList
<1>4. /\ Tail(stack) \in Seq(S) /\ Len(Tail(stack)) = Len(stack) - 1 /\ Len(stack) \in Nat \ {0}
      /\ \A i \in 1..Len(Tail(stack)) : Tail(stack)[i] = stack[i + 1]
      /\ top = stack[1]
  BY <1>1, <1>3 DEF top
<1>5. FramesOK(Tail(stack))
  BY <1>3, <1>4 DEF FramesOK, ChecksOK, IsList
<1>6. ASSUME NEW m, Pending(stack, m) PROVE Pending(Tail(stack), m)
  <2>1. PICK i \in 1..Len(stack) :
           \E j \in 1..Len(stack[i].rest) : m = NodeOf(stack[i], stack[i].rest[j])
    BY <1>6 DEF Pending
  <2>2. i # 1
    BY <1>1, <1>4, <2>1
  <2>3. i - 1 \in 1..Len(Tail(stack)) /\ Tail(stack)[i - 1] = stack[i]
    BY <1>4, <2>2
  <2> QED
    BY <2>1, <2>3 DEF Pending
<1>7. WalkedTo(collected, stack) => WalkedTo(collected, Tail(stack))
  BY <1>6 DEF WalkedTo
<1>8. payload.call.sel \notin Handled => WalkedTo(collected, Tail(stack))
  BY <1>2, <1>7 DEF ChecksOK
<1>9. stage' \in {"walk", "enforce"} /\ (stage' = "enforce" => Tail(stack) = <<>>)
  BY <1>1, <1>3, <1>4
<1>10. /\ collected' = collected /\ stack' = Tail(stack) /\ UNCHANGED <<payload, config>>
       /\ payload.to \in collected
  BY <1>1, <1>2 DEF ChecksOK
<1> QED
  BY <1>2, <1>5, <1>8, <1>9, <1>10, WalkStep

LEMMA ChecksStep ==
    ASSUME ChecksOK, payload # Absent, UNCHANGED config, NextChecks
    PROVE  ChecksOK'
<1>1. CASE CheckIntent
  BY <1>1, RefuseStep, PassStep DEF CheckIntent
<1>2. CASE CheckSchema
  BY <1>2, RefuseStep, PassStep DEF CheckSchema
<1>3. CASE Enforce
  BY <1>3, RefuseStep, PassStep DEF Enforce
<1> QED
  BY <1>1, <1>2, <1>3, OpaqueStep, OuterStep, EntryStep, ReturnStep DEF NextChecks

-----------------------------------------------------------------------------
(***************************************************************************)
(* The checks: the properties                                              *)
(***************************************************************************)

Deeper(above) == above \cup UNION {HeldBy(n) : n \in above}

\* there is a function down to every depth that its equation defines
LEMMA LevelsExist ==
    ASSUME NEW limit \in Nat
    PROVE  \E f : f = [d \in 0..limit |-> IF d = 0 THEN {Outer} ELSE Deeper(f[d - 1])]
<1> DEFINE Levels(k, f) == f = [d \in 0..k |-> IF d = 0 THEN {Outer} ELSE Deeper(f[d - 1])]
           Without == {k \in Nat : ~\E f : Levels(k, f)}
<1>1. SUFFICES ASSUME Without # {} PROVE FALSE
  OBVIOUS
<1>2. PICK k \in Without : \A n \in Without : k <= n
  <2>1. Without \subseteq Nat
    OBVIOUS
  <2> HIDE DEF Without
  <2> QED
    BY <1>1, <2>1, LeastExists
<1>3. CASE k = 0
  <2> DEFINE g == [d \in 0..0 |-> {Outer}]
  <2>1. Levels(0, g)
    OBVIOUS
  <2> QED
    BY <1>2, <1>3, <2>1
<1>4. CASE k # 0
  <2>1. k - 1 \in Nat /\ k - 1 \notin Without
    <3>1. k \in Nat
      OBVIOUS
    <3> HIDE DEF Without
    <3> QED
      BY <1>2, <1>4, <3>1
  <2>2. PICK f : Levels(k - 1, f)
    BY <2>1
  <2> DEFINE g == [d \in 0..k |-> IF d = k THEN Deeper(f[k - 1]) ELSE f[d]]
  <2>3. \A d \in 0..k : g[d] = IF d = 0 THEN {Outer} ELSE Deeper(g[d - 1])
    <3> SUFFICES ASSUME NEW d \in 0..k PROVE g[d] = IF d = 0 THEN {Outer} ELSE Deeper(g[d - 1])
      OBVIOUS
    <3> HIDE DEF Deeper
    <3>1. CASE d = k
      BY <1>4, <2>1, <3>1
    <3>2. CASE d # k
      <4>1. d \in 0..(k - 1) /\ g[d] = f[d] /\ (d # 0 => g[d - 1] = f[d - 1])
        BY <2>1, <3>2
      <4> QED
        BY <2>2, <4>1
    <3> QED
      BY <3>1, <3>2
  <2>4. Levels(k, g)
    <3> HIDE DEF Deeper
    <3>1. g = [d \in 0..k |-> g[d]]
      OBVIOUS
    <3> QED
      BY <2>3, <3>1
  <2> QED
    BY <1>2, <2>4
<1> QED
  BY <1>3, <1>4

LEMMA DownToIs ==
    /\ DownTo[0] = {Outer}
    /\ \A d \in 1..MaxDepth + 1 : DownTo[d] = Deeper(DownTo[d - 1])
<1> DEFINE Levels(f) ==
              f = [d \in 0..MaxDepth + 1 |-> IF d = 0 THEN {Outer} ELSE Deeper(f[d - 1])]
<1>1. MaxDepth + 1 \in Nat
  BY ChecksAssumption
<1>2. \E f : Levels(f)
  BY <1>1, LevelsExist
<1>3. DownTo = CHOOSE f : Levels(f)
  BY DEF DownTo, Deeper
<1>4. Levels(DownTo)
  BY <1>2, <1>3
<1>5. \A d \in 0..MaxDepth + 1 : DownTo[d] = IF d = 0 THEN {Outer} ELSE Deeper(DownTo[d - 1])
  BY <1>4
<1> HIDE DEF Levels
<1>6. 0 \in 0..MaxDepth + 1 /\ \A d \in 1..MaxDepth + 1 : d \in 0..MaxDepth + 1 /\ d # 0
  BY <1>1
<1> QED
  BY <1>5, <1>6

\* when the walk is over, every call was met
LEMMA AllAreMet ==
    ASSUME NEW a, WalkedTo(a, <<>>)
    PROVE  \A n \in AllCalls : Met(n, a)
<1>1. PICK S : Outer \in S /\ \A n \in S : Met(n, a) /\ HeldBy(n) \subseteq S
  BY DEF WalkedTo, Pending
<1> DEFINE Escaped == {d \in 0..MaxDepth + 1 : ~(DownTo[d] \subseteq S)}
<1>2. Escaped = {}
  <2>1. SUFFICES ASSUME Escaped # {} PROVE FALSE
    OBVIOUS
  <2>2. PICK d \in Escaped : \A k \in Escaped : d <= k
    <3>1. Escaped \subseteq Nat
      BY ChecksAssumption
    <3> HIDE DEF Escaped
    <3> QED
      BY <2>1, <3>1, LeastExists
  <2>3. d # 0
    BY <1>1, <2>2, DownToIs
  <2>4. d \in 1..MaxDepth + 1 /\ d - 1 \in 0..MaxDepth + 1 /\ d - 1 \notin Escaped
    <3>1. d \in 0..MaxDepth + 1 /\ MaxDepth \in Nat
      BY ChecksAssumption
    <3> HIDE DEF Escaped
    <3> QED
      BY <2>2, <2>3, <3>1
  <2>5. DownTo[d - 1] \subseteq S /\ DownTo[d] = Deeper(DownTo[d - 1])
    BY <2>4, DownToIs
  <2>6. DownTo[d] \subseteq S
    BY <1>1, <2>5 DEF Deeper
  <2> QED
    BY <2>2, <2>6
<1>3. AllCalls \subseteq S
  BY <1>2, ChecksAssumption DEF AllCalls
<1> QED
  BY <1>1, <1>3

LEMMA VettedWhenAccepted == ChecksOK => EveryAddressVetted /\ EverySwapBounded
<1> SUFFICES ASSUME ChecksOK, stage = "accepted", payload.call.sel \notin Handled
             PROVE  EveryAddressVetted /\ EverySwapBounded
  BY DEF EveryAddressVetted, EverySwapBounded
<1>1. stack = <<>> /\ WalkedTo(collected, stack) /\ Permitted(collected)
  BY DEF ChecksOK, AfterL3, AfterL2, AfterL1
<1>2. \A n \in AllCalls : Met(n, collected)
  BY <1>1, AllAreMet
<1>3. \A T : T \subseteq collected => Permitted(T)
  BY <1>1 DEF Permitted
<1>4. EveryAddressVetted
  <2> SUFFICES ASSUME NEW n \in AllCalls
               PROVE  /\ Permitted({n.to})
                      /\ Decoded(n) => Permitted(n.call.path \cup {n.call.recipient})
    BY DEF EveryAddressVetted
  <2> QED
    BY <1>2, <1>3 DEF Met
<1>5. EverySwapBounded
  BY <1>2 DEF EverySwapBounded, Met
<1> QED
  BY <1>4, <1>5

-----------------------------------------------------------------------------
(***************************************************************************)
(* Packing a batch                                                         *)
(***************************************************************************)

\* what the dictionary holds that nobody wrote to, and what a payload of it holds
Untouched(call, value) == call = Encoded(batch).call /\ value = Total(batch.entries)

PackKeys == {"to", "value", "call"}

PackingOK ==
    /\ pack \in {"idle", "encode", "hook", "sent", "refused"}
    /\ pack = "idle" <=> batch = Absent
    /\ batch # Absent => Listed(batch.entries)
    /\ pack \in {"encode", "hook"} => payload = Absent /\ stage = "L1"
    /\ pack = "refused" => stage = "refused"
    /\ pack \in {"hook", "sent"} =>
          /\ encoded = [k \in PackKeys |-> encoded[k]]
          /\ Whole(encoded.call)
    /\ pack = "hook" /\ ~written => Untouched(encoded.call, encoded.value)
    /\ pack = "sent" =>
          /\ ~written => Untouched(payload.call, payload.value)
          /\ ~overrun => \A k \in PackKeys : encoded[k] = payload[k]

\* the call of a batch holds what the batch holds
LEMMA EncodedIs ==
    ASSUME NEW b, Listed(b.entries)
    PROVE  LET c == Encoded(b).call
           IN  /\ Whole(c)
               /\ Len(c.calls) = Len(b.entries)
               /\ \A n \in DOMAIN b.entries :
                     \A k \in {"to", "call", "value"} : c.calls[n][k] = b.entries[n][k]
<1> DEFINE c == Encoded(b).call
           entry(n) == [to |-> b.entries[n].to, call |-> b.entries[n].call,
                        value |-> IF Plain(b.entries) THEN 0 ELSE b.entries[n].value]
<1>1. c.calls = [n \in DOMAIN b.entries |-> entry(n)]
  BY DEF Encoded
<1>2. PICK T : b.entries \in Seq(T) /\ \A e \in T : e.call \in Trees
  BY DEF Listed
<1> HIDE DEF c
<1> DEFINE E == {entry(n) : n \in DOMAIN b.entries}
<1>3. \A e \in E : e.call \in Trees
  BY <1>2
<1>4. c.calls \in Seq(E) /\ Len(c.calls) = Len(b.entries)
  <2>1. DOMAIN b.entries = 1..Len(b.entries) /\ Len(b.entries) \in Nat
    BY <1>2
  <2>2. \A n \in DOMAIN b.entries : entry(n) \in E
    OBVIOUS
  <2> HIDE DEF E, entry
  <2> QED
    BY <1>1, <2>1, <2>2
<1>5. Listed(c.calls)
  <2>1. \A n \in DOMAIN c.calls : c.calls[n] \in E
    BY <1>4
  <2> HIDE DEF E
  <2> QED
    BY <1>3, <1>4, <2>1, OwnElements DEF Listed
<1>6. ASSUME NEW n \in DOMAIN b.entries
      PROVE  \A k \in {"to", "call", "value"} : c.calls[n][k] = b.entries[n][k]
  <2>1. c.calls[n] = entry(n)
    BY <1>1
  <2>2. Plain(b.entries) => b.entries[n].value = 0
    BY DEF Plain
  <2> QED
    BY <2>1, <2>2
<1> QED
  BY <1>4, <1>5, <1>6 DEF Whole, c

\* what is known of the dictionary and the batch while both are as they were
LEMMA PackingKept ==
    ASSUME PackingOK, UNCHANGED <<packing, payload>>,
           pack \in {"encode", "hook"} => stage' = stage,
           pack = "refused" => stage' = stage
    PROVE  PackingOK'
<1>1. UNCHANGED <<batch, encoded, pack, written, overrun, payload>>
  BY DEF packing
<1>2. Encoded(batch)'.call = Encoded(batch).call
  BY <1>1 DEF Encoded
<1> QED
  BY <1>1, <1>2 DEF PackingOK, Untouched

LEMMA PackingStep ==
    ASSUME PackingOK, UNCHANGED config, NextPacking
    PROVE  PackingOK'
<1>1. cfg' = cfg
  BY DEF config
<1>2. CASE RefusePack /\ pack \in {"encode", "hook"}
  BY <1>2 DEF RefusePack, Refuse, PackingOK
<1>3. CASE /\ pack = "encode" /\ encoded' = Encoded(batch) /\ pack' = "hook"
           /\ UNCHANGED <<batch, written, overrun, checks>>
  <2>1. Listed(batch.entries) /\ batch # Absent /\ payload = Absent /\ stage = "L1"
    BY <1>3 DEF PackingOK
  <2>2. Whole(encoded'.call)
    BY <1>3, <2>1, EncodedIs
  <2>3. /\ encoded' = [k \in PackKeys |-> encoded'[k]]
        /\ encoded'.call = Encoded(batch).call /\ encoded'.value = Total(batch.entries)
    BY <1>3 DEF Encoded, PackKeys
  <2>4. Encoded(batch)'.call = Encoded(batch).call /\ batch' = batch
    BY <1>3 DEF Encoded
  <2>5. UNCHANGED <<payload, stage>>
    BY <1>3 DEF checks
  <2> QED
    BY <1>3, <2>1, <2>2, <2>3, <2>4, <2>5 DEF PackingOK, Untouched
<1>4. CASE PackWrite
  <2>1. PICK r \in PackRewrites :
           encoded' = [k \in DOMAIN encoded |-> IF k \in DOMAIN r THEN r[k] ELSE encoded[k]]
    BY <1>4 DEF PackWrite
  <2>2. /\ pack \in {"hook", "sent"} /\ (pack = "sent" => overrun) /\ written'
        /\ UNCHANGED <<batch, pack, overrun, payload, stage>>
    BY <1>4 DEF PackWrite, CanWrite, checks
  <2>3. encoded' = [k \in PackKeys |-> IF k \in DOMAIN r THEN r[k] ELSE encoded[k]]
    BY <2>1, <2>2 DEF PackingOK
  <2>4. encoded' = [k \in PackKeys |-> encoded'[k]] /\ Whole(encoded'.call)
    BY <2>2, <2>3, DecisionAssumption DEF PackingOK, PackKeys
  <2> QED
    BY <2>2, <2>4 DEF PackingOK
<1>5. CASE /\ pack = "hook" /\ overrun' = TRUE
           /\ UNCHANGED <<batch, encoded, pack, written, checks>>
  <2>1. Encoded(batch)'.call = Encoded(batch).call
    BY <1>1, <1>5 DEF Encoded
  <2> QED
    BY <1>5, <2>1 DEF PackingOK, Untouched, checks
<1>6. CASE /\ pack = "hook"
           /\ payload' = [intent |-> batch.intent, function_name |-> encoded.call.sel,
                          to |-> encoded.to, to_form |-> "checksum", value |-> encoded.value,
                          extra |-> FALSE, data_form |-> "hex", call |-> encoded.call]
           /\ pack' = "sent"
           /\ UNCHANGED <<stage, stack, collected, batch, encoded, written, overrun>>
  <2>1. Encoded(batch)'.call = Encoded(batch).call
    BY <1>1, <1>6 DEF Encoded
  <2>2. \A k \in PackKeys : encoded'[k] = payload'[k]
    BY <1>6 DEF PackKeys
  <2>3. payload'.call = encoded.call /\ payload'.value = encoded.value
    BY <1>6
  <2> QED
    BY <1>6, <2>1, <2>2, <2>3 DEF PackingOK, Untouched
<1> QED
  BY <1>2, <1>3, <1>4, <1>5, <1>6 DEF NextPacking, Encode, PackOverrun, Send

\* and the payload that is sent is one that the checks know how to walk
LEMMA ChecksOnPacking ==
    ASSUME ChecksOK, PackingOK, UNCHANGED config, NextPacking
    PROVE  ChecksOK'
<1>1. CASE Refuse
  BY <1>1, RefuseStep
<1>2. CASE UNCHANGED checks
  <2>1. FramesOK(stack)'
    BY <1>2 DEF checks, ChecksOK, FramesOK
  <2>2. cfg' = cfg
    BY DEF config
  <2> QED
    BY <1>2, <2>1, <2>2, SamePayload
    DEF checks, ChecksOK, Permitted, AfterL1, AfterL2, AfterL3
<1>3. CASE Send /\ ~Refuse
  <2>1. stage = "L1" /\ stage' = "L1" /\ stack' = stack /\ payload'.call = encoded.call
    BY <1>3 DEF Send, RefusePack, PackingOK
  <2>2. FramesOK(stack)'
    BY <2>1 DEF ChecksOK, FramesOK
  <2>3. Whole(payload'.call)
    BY <1>3, <2>1 DEF PackingOK, Send
  <2> QED
    BY <2>1, <2>2, <2>3 DEF ChecksOK, AfterL1, AfterL2, AfterL3
<1> QED
  BY <1>1, <1>2, <1>3 DEF NextPacking, Encode, PackWrite, PackOverrun, Send, RefusePack

-----------------------------------------------------------------------------
(***************************************************************************)
(* The request as a whole                                                  *)
(***************************************************************************)

\* the policy of a request is audited on the payload that was simulated
RequestOK ==
    /\ simulation \notin {"none", "alone"} => stage = "accepted" /\ batch = Absent
    /\ phase # "none" /\ simulation # "alone" =>
          /\ simulation # "none"
          /\ job.subject.to = payload.to
          /\ job.subject.function_name = payload.function_name
          /\ job.subject.sel = payload.call.sel

WholeOK == ChecksOK /\ PackingOK /\ RequestOK

LEMMA InitWholeOK == Init => WholeOK
<1> SUFFICES ASSUME Init PROVE WholeOK
  OBVIOUS
<1>1. \E p, b : /\ InitChecks(p) /\ InitPacking(b)
                /\ p # Absent => Whole(p.call)
                /\ b # Absent => Listed(b.entries)
                /\ Absent \in {p, b}
  <2>1. CASE \E c \in Cases : InitConfig(c[1]) /\ InitChecks(c[2]) /\ InitPacking(c[3])
    BY <2>1, DecisionAssumption
  <2> QED
    BY <2>1 DEF Init
<1>2. PICK p, b : /\ InitChecks(p) /\ InitPacking(b)
                  /\ p # Absent => Whole(p.call)
                  /\ b # Absent => Listed(b.entries)
                  /\ Absent \in {p, b}
  BY <1>1
<1>3. payload = p /\ stage = "L1" /\ stack = <<>>
  BY <1>2 DEF InitChecks
<1>4. ChecksOK
  BY <1>2, <1>3, EmptyFrames DEF ChecksOK, AfterL1, AfterL2, AfterL3
<1>5. PackingOK
  BY <1>2, <1>3 DEF InitPacking, PackingOK
<1>6. RequestOK
  BY DEF Init, RequestOK
<1> QED
  BY <1>4, <1>5, <1>6 DEF WholeOK

LEMMA UnchangedChecksOK == ASSUME ChecksOK, UNCHANGED <<config, checks>> PROVE ChecksOK'
<1>1. FramesOK(stack)' /\ UNCHANGED <<payload, stage, stack, collected>>
  BY DEF checks, ChecksOK, FramesOK
<1>2. cfg' = cfg
  BY DEF config
<1> QED
  BY <1>1, <1>2, SamePayload DEF ChecksOK, Permitted

\* a step of the constructor, before anything is checked
LEMMA OnConfig ==
    ASSUME WholeOK, simulation = "none", stage = "L1", UNCHANGED <<checks, packing, audit, simulation>>
    PROVE  WholeOK'
<1>1. UNCHANGED <<payload, stage, stack, collected>>
  BY DEF checks
<1>2. ChecksOK'
  <2>1. FramesOK(stack)'
    BY <1>1 DEF WholeOK, ChecksOK, FramesOK
  <2> QED
    BY <1>1, <2>1 DEF WholeOK, ChecksOK, AfterL1, AfterL2, AfterL3
<1>3. PackingOK'
  BY <1>1, PackingKept DEF WholeOK
<1>4. RequestOK'
  BY <1>1 DEF WholeOK, RequestOK, audit, packing
<1> QED
  BY <1>2, <1>3, <1>4 DEF WholeOK

LEMMA OnChecks ==
    ASSUME WholeOK, payload # Absent, NextChecks, UNCHANGED <<config, packing, audit, simulation>>
    PROVE  WholeOK'
<1>1. /\ payload' = payload
      /\ stage \in {"L1", "L2", "L3", "walk", "enforce"}
  BY DEF NextChecks, CheckIntent, CheckSchema, ParseOpaque, ParseOuter, WalkEntry, WalkReturns,
         Enforce, Refuse, ToEnforce
<1>2. ChecksOK'
  BY ChecksStep DEF WholeOK
<1>3. PackingOK'
  BY <1>1, PackingKept DEF WholeOK, PackingOK
<1>4. RequestOK'
  BY <1>1 DEF WholeOK, RequestOK, audit, packing
<1> QED
  BY <1>2, <1>3, <1>4 DEF WholeOK

LEMMA OnPacking ==
    ASSUME WholeOK, NextPacking, UNCHANGED <<config, audit, simulation>>
    PROVE  WholeOK'
<1>1. ChecksOK' /\ PackingOK'
  BY ChecksOnPacking, PackingStep DEF WholeOK
<1>2. batch # Absent /\ batch' = batch
  BY DEF WholeOK, PackingOK, NextPacking, Encode, PackWrite, CanWrite, PackOverrun, Send, RefusePack
<1>3. RequestOK'
  BY <1>2 DEF WholeOK, RequestOK, audit
<1> QED
  BY <1>1, <1>3 DEF WholeOK

\* a step that leaves the payload and what was found out of it
LEMMA OnTheRest ==
    ASSUME WholeOK, UNCHANGED <<config, checks, packing>>, RequestOK'
    PROVE  WholeOK'
<1>1. ChecksOK'
  BY UnchangedChecksOK DEF WholeOK
<1>2. PackingOK'
  BY PackingKept DEF WholeOK, checks
<1> QED
  BY <1>1, <1>2 DEF WholeOK

LEMMA WholeStep == WholeOK /\ [Next]_vars => WholeOK'
<1> SUFFICES ASSUME WholeOK, [Next]_vars PROVE WholeOK'
  OBVIOUS
<1>1. CASE /\ simulation = "none" /\ stage = "L1"
           /\ NextConfig
           /\ UNCHANGED <<checks, packing, audit, simulation>>
  BY <1>1, OnConfig
<1>2. CASE /\ step = "ready" /\ payload # Absent
           /\ NextChecks
           /\ UNCHANGED <<config, packing, audit, simulation>>
  BY <1>2, OnChecks
<1>3. CASE /\ step = "ready"
           /\ NextPacking
           /\ UNCHANGED <<config, audit, simulation>>
  BY <1>3, OnPacking
<1>4. CASE Simulate
  <2>1. stage = "accepted" /\ batch = Absent /\ simulation = "none"
    BY <1>4 DEF Simulate
  <2>2. UNCHANGED <<config, checks, packing, audit>>
    BY <1>4 DEF Simulate
  <2>3. RequestOK'
    BY <2>1, <2>2 DEF WholeOK, RequestOK, checks, packing, audit
  <2> QED
    BY <2>2, <2>3, OnTheRest
<1>5. CASE AuditRequest
  <2>1. simulation = "ok" /\ UNCHANGED <<config, checks, packing, simulation>>
    BY <1>5 DEF AuditRequest
  <2>2. /\ job'.subject.to = payload.to
        /\ job'.subject.function_name = payload.function_name
        /\ job'.subject.sel = payload.call.sel
    BY <1>5 DEF AuditRequest, BeginAudit
  <2>3. RequestOK'
    BY <2>1, <2>2 DEF WholeOK, RequestOK, checks, packing
  <2> QED
    BY <2>1, <2>3, OnTheRest
<1>6. CASE NextAudit /\ UNCHANGED <<config, checks, packing, simulation>>
  <2>1. phase # "none" /\ job' = job
    BY <1>6 DEF NextAudit, ResolveDirect, ResolveRefused, ResolveMapping, ResolveBundle,
                EnforcePolicy, Report, Block
  <2>2. RequestOK'
    BY <1>6, <2>1 DEF WholeOK, RequestOK, checks, packing
  <2> QED
    BY <1>6, <2>2, OnTheRest
<1>7. CASE UNCHANGED vars
  <2>1. UNCHANGED <<config, checks, packing, audit, simulation>>
    BY <1>7 DEF vars
  <2>2. RequestOK'
    BY <2>1 DEF WholeOK, RequestOK, checks, packing, audit
  <2> QED
    BY <2>1, <2>2, OnTheRest
<1> QED
  BY <1>1, <1>2, <1>3, <1>4, <1>5, <1>6, <1>7 DEF Next

LEMMA WholeHolds == Spec => []WholeOK
BY InitWholeOK, WholeStep, PTL DEF Spec

\* However the two walks enter each other, no target, recipient or token of an accepted
\* payload escapes the lists: DefiParser.validate and _enforce_addresses.
THEOREM EveryAddressVettedHolds == Spec => []EveryAddressVetted
<1>1. WholeOK => EveryAddressVetted
  BY VettedWhenAccepted DEF WholeOK
<1> QED
  BY <1>1, WholeHolds, PTL

\* However deeply it is nested, no decoded swap goes unbounded and no batch elsewhere than to
\* Multicall3: _walk_multicall, _walk_multicall_value and the accumulators.
THEOREM EverySwapBoundedHolds == Spec => []EverySwapBounded
<1>1. WholeOK => EverySwapBounded
  BY VettedWhenAccepted DEF WholeOK
<1> QED
  BY <1>1, WholeHolds, PTL

\* Whatever the batch and its callbacks, what is accepted is the whole batch and what is
\* returned is what was checked: atomic_multicall and encode_transactions.
THEOREM BatchIsWholeHolds == Spec => []BatchIsWhole
<1>1. ASSUME WholeOK, Packed PROVE BatchIsWhole
  <2>1. stage = "accepted" /\ batch # Absent /\ pack = "sent" /\ Listed(batch.entries)
    BY <1>1 DEF Packed, WholeOK, PackingOK
  <2>2. payload.value <= UintMax
    BY <1>1, <2>1, ChecksAssumption DEF WholeOK, ChecksOK, WellFormed, AfterL2, AfterL1
  <2>3. /\ ~written => Untouched(payload.call, payload.value)
        /\ ~overrun => \A k \in PackKeys : encoded[k] = payload[k]
    BY <1>1, <2>1 DEF WholeOK, PackingOK
  <2>4. LET c == Encoded(batch).call
        IN  /\ Len(c.calls) = Len(batch.entries)
            /\ \A n \in DOMAIN batch.entries :
                  \A k \in {"to", "call", "value"} : c.calls[n][k] = batch.entries[n][k]
    BY <2>1, EncodedIs
  <2> QED
    BY <2>2, <2>3, <2>4 DEF BatchIsWhole, Untouched, PackKeys
<1>2. WholeOK => BatchIsWhole
  BY <1>1 DEF BatchIsWhole
<1> QED
  BY <1>2, WholeHolds, PTL

\* What is approved went through every layer on one payload: _facade.py from
\* chain_validate to ShadowAuditor.audit.
THEOREM ApprovedByAllHolds == Spec => []ApprovedByAll
<1>1. ASSUME WholeOK, AuditOK, phase = "approved", simulation # "alone" PROVE ApprovedByAll
  <2>1. /\ stage = "accepted"
        /\ job.subject.to = payload.to
        /\ job.subject.function_name = payload.function_name
        /\ job.subject.sel = payload.call.sel
    BY <1>1 DEF WholeOK, RequestOK
  <2>2. Intended /\ Permitted(collected) /\ payload.to \in collected
    BY <1>1, <2>1 DEF WholeOK, ChecksOK, AfterL3, AfterL2, AfterL1
  <2>3. payload.to \in cfg.allowed_to_addresses \ cfg.blacklisted_addresses
    BY <2>2 DEF Intended, Permitted
  <2>4. TargetAllowed /\ MethodAllowed
    BY <1>1 DEF AuditOK, Enforced
  <2>5. DOMAIN IntentSelectors \cap {payload.intent} # {} =>
           payload.call.sel \in IntentSelectors[payload.intent] \cup {"none"}
    BY <2>2 DEF Intended, Reconciled
  <2> QED
    BY <2>1, <2>3, <2>4, <2>5 DEF ApprovedByAll, TargetAllowed, MethodAllowed
<1>2. WholeOK /\ AuditOK => ApprovedByAll
  BY <1>1 DEF ApprovedByAll
<1> QED
  BY <1>2, WholeHolds, AuditHolds, PTL

===============================================================================
