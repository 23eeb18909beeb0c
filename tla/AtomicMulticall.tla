---------------------------- MODULE AtomicMulticall ----------------------------
(***************************************************************************)
(* atomic_multicall of lirix/_multicall_facade.py and the encoder of       *)
(* lirix/core/multicall.py: several transactions packed into one call of   *)
(* Multicall3, shown to the callbacks of HOOK_MULTICALL_PACK, and checked  *)
(* by L1 to L3 like any other payload.                                     *)
(*                                                                         *)
(* The callbacks get the encoded dictionary itself, and one that is cut    *)
(* off by its timeout keeps it.                                            *)
(***************************************************************************)
EXTENDS PayloadChecks

CONSTANT PackRewrites   \* the entries a callback may set in the dictionary

Fun == INSTANCE Functions

VARIABLES
    batch,    \* intent, transactions and outer_value_wei, or Absent
    encoded,  \* what encode_transactions returned, or Absent
    pack,     \* "idle", "encode", "hook", "sent" or "refused"
    written,  \* has a callback written to it? (bound: one does, once)
    overrun   \* does a callback run on after its timeout?

packing == <<batch, encoded, pack, written, overrun>>

InitPacking(b) ==
    /\ batch = b
    /\ encoded = Absent
    /\ pack = IF b = Absent THEN "idle" ELSE "encode"
    /\ written = FALSE
    /\ overrun = FALSE

\* _resolve_multicall3_address: the parser also asks the profile of the chain adapter
PackAddress ==
    IF cfg.multicall3_address # Absent THEN cfg.multicall3_address
    ELSE IF cfg.chain_id = Mainnet THEN MainMulticall ELSE Absent

Total(entries) ==
    Fun!FoldFunction(LAMBDA v, sum : v + sum, 0, [n \in DOMAIN entries |-> entries[n].value])

\* does it take no aggregate3Value?
Plain(entries) == \A n \in DOMAIN entries : entries[n].value = 0

\* what encode_transactions accepts; the sum of the values may exceed a uint256
Encodable(b) ==
    /\ b.entries # <<>>
    /\ \A n \in DOMAIN b.entries :
          LET e == b.entries[n]
          IN  e.to_form # "invalid" /\ e.data_form = "hex" /\ e.value \in 0..UintMax
    /\ b.outer \in {Absent, Total(b.entries)}

Encoded(b) ==
    [to |-> PackAddress,
     value |-> Total(b.entries),
     call |-> [sel |-> IF Plain(b.entries) THEN "aggregate3" ELSE "aggregate3Value",
               decodes |-> TRUE,
               calls |-> [n \in DOMAIN b.entries |->
                            [to |-> b.entries[n].to, call |-> b.entries[n].call,
                             value |-> IF Plain(b.entries) THEN 0 ELSE b.entries[n].value]]]]

RefusePack ==
    /\ pack' = "refused"
    /\ Refuse
    /\ UNCHANGED <<batch, encoded, written, overrun>>

\* encode_transactions
Encode ==
    /\ pack = "encode"
    /\ \/ /\ PackAddress # Absent /\ Encodable(batch)
          /\ encoded' = Encoded(batch)
          /\ pack' = "hook"
          /\ UNCHANGED <<batch, written, overrun, checks>>
       \/ ~(PackAddress # Absent /\ Encodable(batch)) /\ RefusePack

MUT_CanWrite == pack \in {"hook", "sent"}

\* while atomic_multicall waits for the callbacks, and later if it gave up waiting
CanWrite == pack = "hook" \/ (pack = "sent" /\ overrun)

\* a callback sets entries of the dictionary
PackWrite ==
    /\ CanWrite
    /\ ~written
    /\ \E r \in PackRewrites :
          encoded' = [k \in DOMAIN encoded |-> IF k \in DOMAIN r THEN r[k] ELSE encoded[k]]
    /\ written' = TRUE
    /\ UNCHANGED <<batch, pack, overrun, checks>>

\* invoke_hooks_isolated gives up a callback, or one raises LirixSecurityException
PackOverrun ==
    /\ pack = "hook"
    /\ PackRewrites # {}
    /\ ~overrun
    /\ \/ overrun' = TRUE /\ UNCHANGED <<batch, encoded, pack, written, checks>>
       \/ RefusePack

\* the payload is read from the dictionary, and validate_only called on it
Send ==
    /\ pack = "hook"
    /\ \/ /\ encoded.call.sel \in Aggregates
          /\ payload' = [intent |-> batch.intent, function_name |-> encoded.call.sel,
                         to |-> encoded.to, to_form |-> "checksum", value |-> encoded.value,
                         extra |-> FALSE, data_form |-> "hex", call |-> encoded.call]
          /\ pack' = "sent"
          /\ UNCHANGED <<stage, stack, collected, batch, encoded, written, overrun>>
       \/ encoded.call.sel \notin Aggregates /\ RefusePack

NextPacking ==
    \/ Encode
    \/ PackWrite
    \/ PackOverrun
    \/ Send

-----------------------------------------------------------------------------
(***************************************************************************)
(* Properties                                                              *)
(***************************************************************************)

Packed == stage = "accepted" /\ batch # Absent

\* A batch is checked and returned whole.  Unless a callback wrote to it, an accepted
\* payload holds every transaction asked for, in its order, and carries the sum of their
\* values, no more, no less, and no more than a uint256 holds; and what is returned to be
\* signed is what was checked, whatever the callbacks wrote, unless one of them overran
\* its timeout.
BatchIsWhole ==
    Packed =>
        /\ ~written =>
              /\ Len(payload.call.calls) = Len(batch.entries)
              /\ \A n \in DOMAIN batch.entries :
                    \A k \in {"to", "call", "value"} :
                        payload.call.calls[n][k] = batch.entries[n][k]
              /\ payload.value = Total(batch.entries)
              /\ payload.value <= UintMax
        /\ ~overrun => \A k \in {"to", "value", "call"} : encoded[k] = payload[k]

=============================================================================
