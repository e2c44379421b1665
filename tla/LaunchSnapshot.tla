--------------------------- MODULE LaunchSnapshot ---------------------------
(***************************************************************************)
(* A launch is predicted from a local snapshot of what governance decided: *)
(* adapters/pons/governance.go tells its owner which events and which      *)
(* pending calls make the snapshot void, and launch_predict.go builds the  *)
(* launch from it, against the economics the caller expects.               *)
(*                                                                         *)
(* The snapshot's owner does what the comments there ask of him: he drops  *)
(* the snapshot for such an event or pending call, and reads a new one     *)
(* (the whole of it from one block) once no such call he knows of is       *)
(* pending.  Events are delivered late, and a call may be mined unseen.    *)
(* A value of the snapshot is the number of changes it has seen.  Bound:   *)
(* MaxCalls calls to the contracts; two equal calls that are pending and   *)
(* were both seen count as one.                                            *)
(***************************************************************************)
EXTENDS Integers, Sequences, TLC

CONSTANT MaxCalls

ASSUME CallsAssumption == MaxCalls \in Nat

(* What a launch depends on: the launch configurations, the economics of   *)
(* pair tokens, the shares of the fee policy, its recipient, the contracts *)
(* that work together, and the terms on which launches are accepted.       *)
Pieces == {"config", "pair", "policy", "recipient", "wiring", "terms"}

(* The calls of the contracts, the event each emits and what it changes.   *)
Call(to, method, event, piece) ==
    [to |-> to, method |-> method, event |-> event, piece |-> piece]

FactoryGovernance == {
    Call("factory", "addLaunchConfig", "LaunchConfigAdded", "config"),
    Call("factory", "updateLaunchConfig", "LaunchConfigUpdated", "config"),
    Call("factory", "setLaunchFee", "LaunchFeeUpdated", "terms"),
    Call("factory", "setLaunchEnabled", "LaunchEnabledUpdated", "terms"),
    Call("factory", "setWhitelistedLauncher", "WhitelistedLauncherUpdated", "terms"),
    Call("factory", "setMaxCreatorTaxBps", "MaxCreatorTaxUpdated", "terms"),
    Call("factory", "setSnipeTaxStartBps", "SnipeTaxStartBpsUpdated", "terms"),
    Call("factory", "setSnipeTaxSeconds", "SnipeTaxSecondsUpdated", "terms"),
    Call("factory", "setGraduationExecutor", "GraduationExecutorSet", "wiring"),
    Call("factory", "setLaunchDeployer", "LaunchDeployerSet", "wiring"),
    Call("factory", "setLaunchForwarder", "LaunchForwarderSet", "wiring"),
    Call("factory", "setPairTokenApproved", "PairTokenApprovalUpdated", "pair"),
    Call("factory", "setPairTokenEconomics", "PairTokenEconomicsUpdated", "pair")}

(* FactoryABI declares the functions and events of the factory.  HookABI   *)
(* declares the events of the hook but none of its setters, so these are   *)
(* written down from the names of the events and of the setters that the   *)
(* SDK knows: that its list of hook calls is complete is not shown here.   *)
HookGovernance == {
    Call("hook", "setFactory", "FactorySet", "wiring"),
    Call("hook", "setBuybackVault", "BuybackVaultSet", "wiring"),
    Call("hook", "setProtocolFeeShareBps", "ProtocolFeeShareUpdated", "policy"),
    Call("hook", "setBuybackBurnBps", "BuybackBurnBpsUpdated", "policy"),
    Call("hook", "setHookFeeBps", "HookFeeBpsUpdated", "policy"),
    Call("hook", "setMaxInternalPriceImpactBps", "MaxInternalPriceImpactUpdated", "policy"),
    Call("hook", "setProtocolFeeRecipient", "ProtocolFeeRecipientUpdated", "recipient"),
    Call("hook", "setFeeSweepOperator", "FeeSweepOperatorUpdated", "recipient")}

GovernanceCalls == FactoryGovernance \cup HookGovernance

(* Launches, graduations, sweeps, and the same words of another contract.  *)
OperationalCalls == {
    Call("factory", "launchToken", "TokenLaunched", "none"),
    Call("factory", "graduate", "PoolGraduated", "none"),
    Call("hook", "sweepPoolFees", "PoolFeesSwept", "none"),
    Call("other", "setHookFeeBps", "HookFeeBpsUpdated", "none")}
-----------------------------------------------------------------------------
(* The events that FactoryABI and HookABI declare.                         *)
FactoryEvents == {call.event : call \in FactoryGovernance} \cup {
    "TokenLaunched", "LaunchSwept", "LaunchForceSwept", "PoolGraduated",
    "CreatorFeeRecipientUpdated", "CreatorFeeRecipientChangeProposed",
    "CreatorFeeRecipientChangeCancelled", "BuybackEnabledUpdated",
    "GraduationTokensPermanentlyLocked", "LaunchGraduationRescued"}

HookEvents == {call.event : call \in HookGovernance} \cup {
    "PoolRegistered", "CreatorFeeRecipientUpdated", "HookFeeCollected", "PoolFeesSwept",
    "PoolFeesRescued", "PoolBuybackSkipped", "PoolConversionSkipped",
    "BuybackEnabledUpdated"}

(* Topics and selectors are hashes: other names have other ones.  A name   *)
(* that the ABI does not declare is a panic when the program starts.       *)
Topic(event) == <<"topic", event>>
Selector(method) == <<"selector", method>>

eventIDs(abi, names) ==
    IF names \subseteq abi THEN {Topic(n) : n \in names}
                           ELSE Assert(FALSE, "Pons ABI event is missing")

methodIDs(abi, names) ==
    IF names \subseteq abi THEN {Selector(n) : n \in names}
                           ELSE Assert(FALSE, "Pons ABI method is missing")

signatureIDs(names) == {Selector(n) : n \in names}

factoryLaunchEconomicsEvents == eventIDs(FactoryEvents, {
    "LaunchConfigAdded", "LaunchConfigUpdated", "LaunchFeeUpdated",
    "LaunchEnabledUpdated", "WhitelistedLauncherUpdated", "MaxCreatorTaxUpdated",
    "SnipeTaxStartBpsUpdated", "SnipeTaxSecondsUpdated", "GraduationExecutorSet",
    "LaunchDeployerSet", "LaunchForwarderSet", "PairTokenApprovalUpdated",
    "PairTokenEconomicsUpdated"})

(* Wrong: the recipient of the fees is not a matter of economics.          *)
hookEventsWithoutRecipient == eventIDs(HookEvents, {
    "FactorySet", "BuybackVaultSet", "ProtocolFeeShareUpdated", "BuybackBurnBpsUpdated",
    "HookFeeBpsUpdated", "MaxInternalPriceImpactUpdated", "FeeSweepOperatorUpdated"})

hookLaunchEconomicsEvents == eventIDs(HookEvents, {
    "FactorySet", "BuybackVaultSet", "ProtocolFeeShareUpdated", "BuybackBurnBpsUpdated",
    "HookFeeBpsUpdated", "MaxInternalPriceImpactUpdated",
    "ProtocolFeeRecipientUpdated", "FeeSweepOperatorUpdated"})

factoryLaunchEconomicsCalls == methodIDs({call.method : call \in FactoryGovernance}, {
    "addLaunchConfig", "updateLaunchConfig", "setLaunchFee", "setLaunchEnabled",
    "setWhitelistedLauncher", "setPairTokenEconomics", "setPairTokenApproved",
    "setMaxCreatorTaxBps", "setSnipeTaxStartBps", "setSnipeTaxSeconds",
    "setGraduationExecutor", "setLaunchDeployer", "setLaunchForwarder"})

hookLaunchEconomicsCalls == signatureIDs({
    "setFactory", "setBuybackVault", "setProtocolFeeShareBps", "setBuybackBurnBps",
    "setHookFeeBps", "setMaxInternalPriceImpactBps",
    "setProtocolFeeRecipient", "setFeeSweepOperator"})

IsLaunchEconomicsEvent(address, topic) ==
    \/ address = "factory" /\ topic \in factoryLaunchEconomicsEvents
    \/ address = "hook" /\ topic \in hookLaunchEconomicsEvents

IsLaunchEconomicsCall(address, selector) ==
    \/ address = "factory" /\ selector \in factoryLaunchEconomicsCalls
    \/ address = "hook" /\ selector \in hookLaunchEconomicsCalls
-----------------------------------------------------------------------------
VARIABLES
    gov,        \* what governance has decided: value of each piece, and
                \* whether the launch configuration in use is enabled
    submitted,  \* how many calls were submitted
    pending,    \* the calls not mined yet, and whether the owner saw them
    events,     \* the events not delivered yet
    snap,       \* the owner's snapshot, or NoSnapshot
    expected,   \* params.ExpectedEconomics, Zero for none
    launch      \* the owner's launch: [stage, ...]

vars == <<gov, submitted, pending, events, snap, expected, launch>>

NoSnapshot == [enabled |-> FALSE]
Zero == <<>>
Pairs == {"native", "token"}

Init ==
    /\ gov = [enabled |-> TRUE, value |-> [p \in Pieces |-> 0]]
    /\ submitted = 0
    /\ pending = {}
    /\ events = <<>>
    /\ snap = NoSnapshot
    /\ expected = Zero
    /\ launch = [stage |-> "none"]
-----------------------------------------------------------------------------
(* The contracts and the owner of the snapshot                             *)

Submit ==
    /\ submitted < MaxCalls
    /\ submitted' = submitted + 1
    /\ \E call \in GovernanceCalls \cup OperationalCalls :
         pending' = pending \cup {[call |-> call, seen |-> FALSE]}
    /\ UNCHANGED <<gov, events, snap, expected, launch>>

SeeCall ==
    /\ \E p \in pending :
         /\ ~p.seen
         /\ pending' = (pending \ {p}) \cup {[p EXCEPT !.seen = TRUE]}
         /\ snap' = IF IsLaunchEconomicsCall(p.call.to, Selector(p.call.method))
                    THEN NoSnapshot ELSE snap
    /\ UNCHANGED <<gov, submitted, events, expected, launch>>

(* An update of a configuration may also switch it off or on.              *)
Mine ==
    /\ \E p \in pending :
         /\ pending' = pending \ {p}
         /\ events' = Append(events, p.call)
         /\ \E on \in IF p.call.event = "LaunchConfigUpdated" THEN BOOLEAN
                                                            ELSE {gov.enabled} :
              gov' = [enabled |-> on,
                      value |-> [x \in Pieces |-> gov.value[x]
                                   + IF x = p.call.piece THEN 1 ELSE 0]]
    /\ UNCHANGED <<submitted, snap, expected, launch>>

DeliverEvent ==
    /\ events # <<>>
    /\ events' = Tail(events)
    /\ snap' = IF IsLaunchEconomicsEvent(Head(events).to, Topic(Head(events).event))
               THEN NoSnapshot ELSE snap
    /\ UNCHANGED <<gov, submitted, pending, expected, launch>>

ReadSnapshot ==
    /\ snap = NoSnapshot
    /\ \A p \in pending :
         p.seen => ~IsLaunchEconomicsCall(p.call.to, Selector(p.call.method))
    /\ snap' = gov
    /\ UNCHANGED <<gov, submitted, pending, events, expected, launch>>
-----------------------------------------------------------------------------
(* What the chain or the SDK makes of a launch: the economics of a token   *)
(* pair replace those of the configuration.                                *)
Deployment(g, pairToken) ==
    [pairToken |-> pairToken,
     quote |-> IF pairToken = "native" THEN <<"config", g.value["config"]>>
                                       ELSE <<"pair", g.value["pair"]>>,
     config |-> g.value["config"],
     policy |-> g.value["policy"],
     recipient |-> g.value["recipient"],
     wiring |-> g.value["wiring"]]

(* The commitment leaves out the recipient of the policy and the wiring.   *)
LaunchEconomicsDigest(d) == <<d.quote, d.config, d.policy>>

(* Wrong: the digest is computed and not compared.                         *)
AnyEconomics(d) == expected \in {Zero, expected}

(* The caller expects nothing, or what the snapshot amounts to.            *)
EconomicsAsExpected(d) == expected \in {Zero, LaunchEconomicsDigest(d)}

(* The chain computes the commitment for the caller.                       *)
PreviewLaunchEconomics(pairToken) ==
    /\ launch.stage = "none"
    /\ expected' = LaunchEconomicsDigest(Deployment(gov, pairToken))
    /\ UNCHANGED <<gov, submitted, pending, events, snap, launch>>

NewLaunchDeployment(pairToken) ==
    /\ launch.stage = "none"
    /\ snap # NoSnapshot
    /\ snap.enabled
    /\ EconomicsAsExpected(Deployment(snap, pairToken))
    /\ launch' = [stage |-> "sent", predicted |-> Deployment(snap, pairToken)]
    /\ UNCHANGED <<gov, submitted, pending, events, snap, expected>>

(* The configuration is disabled, the economics are others than expected,  *)
(* or a field of the deployment is not valid.                              *)
RefuseDeployment ==
    /\ launch.stage = "none"
    /\ snap # NoSnapshot
    /\ launch' = [stage |-> "refused"]
    /\ UNCHANGED <<gov, submitted, pending, events, snap, expected>>

(* The factory executes the launch, if it has the expected economics.      *)
Execute ==
    /\ launch.stage = "sent"
    /\ LET actual == Deployment(gov, launch.predicted.pairToken)
       IN launch' = IF gov.enabled /\ expected \in {Zero, LaunchEconomicsDigest(actual)}
                    THEN [stage |-> "launched", predicted |-> launch.predicted,
                          actual |-> actual]
                    ELSE [stage |-> "reverted"]
    /\ UNCHANGED <<gov, submitted, pending, events, snap, expected>>

(* The launch is over; nothing more happens on the chain.                  *)
Over ==
    /\ launch.stage \in {"refused", "launched", "reverted"}
    /\ UNCHANGED vars

Next ==
    \/ Submit \/ SeeCall \/ Mine \/ DeliverEvent
    \/ ReadSnapshot
    \/ \E pairToken \in Pairs :
         PreviewLaunchEconomics(pairToken) \/ NewLaunchDeployment(pairToken)
    \/ RefuseDeployment
    \/ Execute
    \/ Over

Spec == Init /\ [][Next]_vars
-----------------------------------------------------------------------------
(* The owner's signals are enough: once he has seen what is pending and    *)
(* has had every event, his snapshot is what governance decided, and no    *)
(* call under way will change it.  The lists are held against the ABI,     *)
(* that of the calls of the hook against HookGovernance only.              *)
SnapshotFollowsGovernance ==
    snap # NoSnapshot /\ events = <<>> /\ (\A p \in pending : p.seen) =>
        /\ snap = gov
        /\ \A p \in pending : p.call.piece = "none"

(* A launch that commits to its economics never has others than the owner  *)
(* computed, although preview, snapshot and execution are of three         *)
(* different times.                                                        *)
LaunchedAsExpected ==
    launch.stage = "launched" /\ expected # Zero =>
        LaunchEconomicsDigest(launch.actual) = LaunchEconomicsDigest(launch.predicted)
=============================================================================
