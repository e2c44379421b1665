---------------------------- MODULE LaunchConfigs ----------------------------
(***************************************************************************)
(* OpenLaunchConfigsWithOptions of adapters/pons/client.go: the number of  *)
(* launch configurations is read first, then each configuration by a task  *)
(* of its own, with a limit on how many run at once, and those that are    *)
(* enabled are listed.  Governance adds and toggles configurations         *)
(* meanwhile.                                                              *)
(*                                                                         *)
(* Task t reads configuration t - 1 into its own slot of all; the slot is  *)
(* known by the block it was read from, got[t].  The values of LimitArgs   *)
(* are those of query.Concurrency after its default.  What the chain holds *)
(* in each block is settled at the start and shown block by block.         *)
(***************************************************************************)
EXTENDS SnapshotRead

CONSTANT MaxConfigs   \* query.MaxConfigs, or its default

ASSUME ConfigsAssumption == MaxConfigs \in Nat /\ MaxConfigs <= MaxTasks

VARIABLES
    chain,     \* chain[b]: how many configurations block b has, and the
               \* set of those that are enabled
    counted,   \* LaunchConfigCount has returned
    listed     \* the configurations returned

enumVars == <<chain, counted, listed>>
enumerationVars == <<allVars, enumVars>>

(* One more than may be enumerated.                                        *)
Ids == 1..MaxConfigs + 1

Configurations == {c \in [count : 0..MaxConfigs + 1, enabled : SUBSET Ids] :
                     c.enabled \subseteq 1..c.count}

(* A block adds a configuration, toggles one, or leaves them: the factory  *)
(* removes none.                                                           *)
Governs(c, d) ==
    \/ d = c
    \/ d.count = c.count + 1 /\ d.enabled \ {d.count} = c.enabled
    \/ d.count = c.count /\ \E t \in 1..c.count : d.enabled \ {t} = c.enabled \ {t}

Chains == {h \in [1..MaxHead -> Configurations] :
             \A b \in 1..MaxHead - 1 : Governs(h[b], h[b + 1])}

EnumerationInit ==
    /\ Init
    /\ n = 0
    /\ CallInit
    /\ chain \in Chains
    /\ counted = FALSE
    /\ listed = {}
-----------------------------------------------------------------------------
PinBlock ==
    /\ Refuse \/ KeepExplicitBlock \/ PinLatestBlock \/ ReadUnpinned \/ PinFails
    /\ UNCHANGED enumVars

(* Wrong: the loop over the configurations stops one short.                *)
EnumerationStopsShort(count) == IF count = 0 THEN 0 ELSE count - 1

EnumerationSize(count) == count

Count ==
    /\ phase \in {"pinned", "latest"}
    /\ ~counted
    /\ chain[FieldBlock].count <= MaxConfigs
    /\ n' = EnumerationSize(chain[FieldBlock].count)
    /\ counted' = TRUE
    /\ UNCHANGED <<pc, next, worker, job, ctx, closed, errCh, outcome, result>>
    /\ UNCHANGED <<readVars, chain, listed>>

(* LaunchConfigCount fails, or there are more than the caller will have.   *)
CountRefused ==
    /\ phase \in {"pinned", "latest"}
    /\ ~counted
    /\ phase' = "refused"
    /\ reply' = "error"
    /\ UNCHANGED <<vars, wanted, tag, head, asked, got, enumVars>>

GetLaunchConfig(w) ==
    /\ counted
    /\ ReadField(w)
    /\ UNCHANGED enumVars

Enumerate ==
    /\ counted
    /\ PoolStep
    /\ UNCHANGED enumVars

Enabled(t) == t \in chain[got[t]].enabled

OpenLaunchConfigs ==
    /\ Replies({"fields"})
    /\ listed' = IF reply' = "fields" THEN {t \in 1..n : Enabled(t)} ELSE {}
    /\ UNCHANGED <<chain, counted>>

Meanwhile == (NewBlock \/ CallerCancels \/ Answered) /\ UNCHANGED enumVars

EnumerationNext ==
    \/ PinBlock
    \/ Count \/ CountRefused
    \/ \E w \in Workers : GetLaunchConfig(w)
    \/ Enumerate
    \/ OpenLaunchConfigs
    \/ Meanwhile

EnumerationSpec == EnumerationInit /\ [][EnumerationNext]_enumerationVars
-----------------------------------------------------------------------------
(* A pinned enumeration is the state of one block: exactly the             *)
(* configurations enabled in it, although the count and every              *)
(* configuration were read by separate calls while governance acted.       *)
ListIsOneBlock ==
    FromFields /\ phase = "pinned" => listed = chain[tag].enabled

(* Unpinned, the list may match no block at all, but it never misses a     *)
(* configuration that was enabled from the call to the answer, and never   *)
(* has one that was not enabled at any time between them.                  *)
ListIsOfThisTime ==
    FromFields /\ wanted = 0 =>
        /\ \A t \in listed : \E b \in asked..head : t \in chain[b].enabled
        /\ \A t \in Ids : (\A b \in asked..head : t \in chain[b].enabled) => t \in listed
=============================================================================
