----------------------- MODULE LaunchSnapshot_proofs -----------------------
(***************************************************************************)
(* That the lists of governance.go are enough to keep a snapshot, and the  *)
(* comparison of launch_predict.go to keep a launch's economics, for any   *)
(* number of calls, mined and seen in any order.                           *)
(***************************************************************************)
EXTENDS LaunchSnapshot, TLAPS

(* The tables that IsLaunchEconomicsEvent looks into.                      *)
LEMMA EventTables ==
    /\ factoryLaunchEconomicsEvents
         = {Topic(n) : n \in {call.event : call \in FactoryGovernance}}
    /\ hookLaunchEconomicsEvents
         = {Topic(n) : n \in {call.event : call \in HookGovernance}}
  <1>1. {call.event : call \in FactoryGovernance} = {
    "LaunchConfigAdded", "LaunchConfigUpdated", "LaunchFeeUpdated",
    "LaunchEnabledUpdated", "WhitelistedLauncherUpdated", "MaxCreatorTaxUpdated",
    "SnipeTaxStartBpsUpdated", "SnipeTaxSecondsUpdated", "GraduationExecutorSet",
    "LaunchDeployerSet", "LaunchForwarderSet", "PairTokenApprovalUpdated",
    "PairTokenEconomicsUpdated"}
    BY DEF FactoryGovernance, Call
  <1>2. {call.event : call \in HookGovernance} = {
    "FactorySet", "BuybackVaultSet", "ProtocolFeeShareUpdated", "BuybackBurnBpsUpdated",
    "HookFeeBpsUpdated", "MaxInternalPriceImpactUpdated",
    "ProtocolFeeRecipientUpdated", "FeeSweepOperatorUpdated"}
    BY DEF HookGovernance, Call
  <1>3. factoryLaunchEconomicsEvents
         = {Topic(n) : n \in {call.event : call \in FactoryGovernance}}
    BY <1>1 DEF factoryLaunchEconomicsEvents, eventIDs, FactoryEvents
  <1>4. hookLaunchEconomicsEvents
         = {Topic(n) : n \in {call.event : call \in HookGovernance}}
    BY <1>2 DEF hookLaunchEconomicsEvents, eventIDs, HookEvents
  <1>5. QED BY <1>3, <1>4

(* The lists of call selectors are those of the governance calls.          *)
LEMMA CallTables ==
    /\ factoryLaunchEconomicsCalls
         = {Selector(n) : n \in {call.method : call \in FactoryGovernance}}
    /\ hookLaunchEconomicsCalls
         = {Selector(n) : n \in {call.method : call \in HookGovernance}}
  <1>1. {call.method : call \in FactoryGovernance} = {
    "addLaunchConfig", "updateLaunchConfig", "setLaunchFee", "setLaunchEnabled",
    "setWhitelistedLauncher", "setPairTokenEconomics", "setPairTokenApproved",
    "setMaxCreatorTaxBps", "setSnipeTaxStartBps", "setSnipeTaxSeconds",
    "setGraduationExecutor", "setLaunchDeployer", "setLaunchForwarder"}
    BY DEF FactoryGovernance, Call
  <1>2. {call.method : call \in HookGovernance} = {
    "setFactory", "setBuybackVault", "setProtocolFeeShareBps", "setBuybackBurnBps",
    "setHookFeeBps", "setMaxInternalPriceImpactBps",
    "setProtocolFeeRecipient", "setFeeSweepOperator"}
    BY DEF HookGovernance, Call
  <1>3. factoryLaunchEconomicsCalls
         = {Selector(n) : n \in {call.method : call \in FactoryGovernance}}
    BY <1>1 DEF factoryLaunchEconomicsCalls, methodIDs
  <1>4. hookLaunchEconomicsCalls
         = {Selector(n) : n \in {call.method : call \in HookGovernance}}
    BY <1>2 DEF hookLaunchEconomicsCalls, signatureIDs
  <1>5. QED BY <1>3, <1>4

(* Every governance call goes to the contract its list is for, and none of *)
(* the operational ones carries an event of the lists.                     *)
LEMMA Receivers ==
    /\ \A call \in FactoryGovernance : call.to = "factory"
    /\ \A call \in HookGovernance : call.to = "hook"
    /\ \A call \in OperationalCalls :
         call.piece = "none" /\ call.event # "LaunchConfigUpdated"
  BY DEF FactoryGovernance, HookGovernance, OperationalCalls, Call

(* The lists are complete: every governance call is recognised while it is *)
(* pending, and by the event that it leaves behind.  For the calls to the  *)
(* factory that is said of the functions in its ABI; the setters of the    *)
(* hook are those that HookGovernance assumes.                             *)
LEMMA ListsComplete ==
    \A call \in GovernanceCalls :
        /\ IsLaunchEconomicsCall(call.to, Selector(call.method))
        /\ IsLaunchEconomicsEvent(call.to, Topic(call.event))
  BY EventTables, CallTables, Receivers
     DEF GovernanceCalls, IsLaunchEconomicsCall, IsLaunchEconomicsEvent
-----------------------------------------------------------------------------
(* The inductive invariant                                                 *)

Calls == GovernanceCalls \cup OperationalCalls

Known ==
    /\ gov \in [enabled : BOOLEAN, value : [Pieces -> Nat]]
    /\ pending \subseteq [call : Calls, seen : BOOLEAN]
    /\ events \in Seq(Calls)

Telling(call) == IsLaunchEconomicsEvent(call.to, Topic(call.event))
Watched(call) == IsLaunchEconomicsCall(call.to, Selector(call.method))

(* A snapshot that governance has overtaken has an event on its way that   *)
(* will void it, and no snapshot outlives a call that the owner has seen.  *)
Overtaken ==
    snap # NoSnapshot =>
        /\ (\A i \in 1..Len(events) : ~Telling(events[i])) => snap = gov
        /\ \A p \in pending : p.seen => ~Watched(p.call)

(* A launch on its way commits to what its owner computed.                 *)
Committed ==
    launch.stage \in {"sent", "launched"} /\ expected # Zero =>
        expected = LaunchEconomicsDigest(launch.predicted)

SnapshotInv == Known /\ Overtaken /\ Committed /\ LaunchedAsExpected

(* At first there is no snapshot, no launch and nothing to be told.        *)
LEMMA SnapshotStarts == Init => SnapshotInv
  BY DEF Init, SnapshotInv, Known, Overtaken, Committed, LaunchedAsExpected, NoSnapshot, Zero

(* Mining a call of governance leaves its event behind, and mining another *)
(* call changes nothing that a snapshot holds.                             *)
LEMMA MinedCall ==
    ASSUME Known, NEW p \in pending,
           NEW on \in IF p.call.event = "LaunchConfigUpdated" THEN BOOLEAN
                                                            ELSE {gov.enabled},
           gov' = [enabled |-> on,
                   value |-> [x \in Pieces |-> gov.value[x]
                                + IF x = p.call.piece THEN 1 ELSE 0]]
    PROVE  /\ gov' \in [enabled : BOOLEAN, value : [Pieces -> Nat]]
           /\ Telling(p.call) \/ gov' = gov
  <1>1. p.call \in Calls
    BY DEF Known
  <1>2. gov' \in [enabled : BOOLEAN, value : [Pieces -> Nat]]
    BY DEF Known
  <1>3. CASE p.call \in GovernanceCalls
    BY <1>2, <1>3, ListsComplete DEF Telling
  <1>4. CASE p.call \in OperationalCalls
    <2>1. "none" \notin Pieces
      BY DEF Pieces
    <2>2. on = gov.enabled
      BY <1>4, Receivers
    <2>3. \A x \in Pieces : gov'.value[x] = gov.value[x]
      BY <1>4, <2>1, Receivers DEF Known
    <2>4. gov'.value = gov.value
      BY <1>2, <2>3 DEF Known
    <2>5. QED BY <1>2, <2>2, <2>4 DEF Known
  <1>5. QED BY <1>1, <1>3, <1>4 DEF Calls

(* Submitting, seeing, mining, telling, reading and launching keep it: a   *)
(* snapshot that is behind has a telling event on its way.                 *)
LEMMA SnapshotSteps ==
    ASSUME SnapshotInv, [Next]_vars
    PROVE  SnapshotInv'
  <1>. USE DEF SnapshotInv
  <1>1. CASE Submit
    <2>1. Known'
      <3>1. PICK call \in Calls : pending' = pending \cup {[call |-> call, seen |-> FALSE]}
        BY <1>1 DEF Submit, Calls
      <3>2. [call |-> call, seen |-> FALSE] \in [call : Calls, seen : BOOLEAN]
        OBVIOUS
      <3>3. QED BY <1>1, <3>1, <3>2 DEF Submit, Known
    <2>2. Overtaken'
      BY <1>1 DEF Submit, Overtaken, Telling, Watched
    <2>3. (Committed /\ LaunchedAsExpected)'
      BY <1>1 DEF Submit, Committed, LaunchedAsExpected
    <2>4. QED BY <2>1, <2>2, <2>3
  <1>2. CASE SeeCall
    <2>1. Known'
      BY <1>2 DEF SeeCall, Known
    <2>2. Overtaken'
      BY <1>2 DEF SeeCall, Overtaken, Telling, Watched, Known
    <2>3. (Committed /\ LaunchedAsExpected)'
      BY <1>2 DEF SeeCall, Committed, LaunchedAsExpected
    <2>4. QED BY <2>1, <2>2, <2>3
  <1>3. CASE Mine
    <2>1. PICK p \in pending :
            /\ pending' = pending \ {p}
            /\ events' = Append(events, p.call)
            /\ \E on \in IF p.call.event = "LaunchConfigUpdated" THEN BOOLEAN
                                                               ELSE {gov.enabled} :
                 gov' = [enabled |-> on,
                         value |-> [x \in Pieces |-> gov.value[x]
                                      + IF x = p.call.piece THEN 1 ELSE 0]]
      BY <1>3 DEF Mine
    <2>2. /\ gov' \in [enabled : BOOLEAN, value : [Pieces -> Nat]]
          /\ Telling(p.call) \/ gov' = gov
      BY <2>1, MinedCall
    <2>3. p.call \in Calls
      BY DEF Known
    <2>4. Known'
      BY <2>1, <2>2, <2>3 DEF Known
    <2>5. /\ Len(events') = Len(events) + 1
          /\ events'[Len(events) + 1] = p.call
          /\ \A i \in 1..Len(events) : events'[i] = events[i]
      BY <2>1, <2>3 DEF Known
    <2>6. Len(events) \in Nat
      BY DEF Known
    <2>7. Overtaken'
      BY <1>3, <2>1, <2>2, <2>5, <2>6 DEF Mine, Overtaken
    <2>8. (Committed /\ LaunchedAsExpected)'
      BY <1>3 DEF Mine, Committed, LaunchedAsExpected
    <2>9. QED BY <2>4, <2>7, <2>8
  <1>4. CASE DeliverEvent
    <2>1. Known'
      BY <1>4 DEF DeliverEvent, Known
    <2>2. ASSUME Telling(Head(events)) PROVE Overtaken'
      BY <1>4, <2>2 DEF DeliverEvent, Overtaken, Telling
    <2>3. ASSUME ~Telling(Head(events)) PROVE Overtaken'
      <3>1. /\ Len(events') = Len(events) - 1
            /\ \A i \in 1..Len(events') : events'[i] = events[i + 1]
            /\ events[1] = Head(events)
            /\ Len(events) \in Nat \ {0}
        BY <1>4 DEF DeliverEvent, Known
      <3>2. (\A i \in 1..Len(events') : ~Telling(events'[i]))
              => \A i \in 1..Len(events) : ~Telling(events[i])
        <4>1. SUFFICES ASSUME \A i \in 1..Len(events') : ~Telling(events'[i]),
                              NEW i \in 1..Len(events), i # 1
                       PROVE  ~Telling(events[i])
          BY <2>3, <3>1
        <4>2. i - 1 \in 1..Len(events') /\ events'[i - 1] = events[i]
          BY <3>1, <4>1
        <4>3. QED BY <4>1, <4>2
      <3>3. QED BY <1>4, <2>3, <3>2 DEF DeliverEvent, Overtaken, Telling, Watched
    <2>4. (Committed /\ LaunchedAsExpected)'
      BY <1>4 DEF DeliverEvent, Committed, LaunchedAsExpected
    <2>5. Overtaken'
      BY <2>2, <2>3
    <2>6. QED BY <2>1, <2>4, <2>5
  <1>5. CASE ReadSnapshot
    <2>1. Known'
      BY <1>5 DEF ReadSnapshot, Known
    <2>2. Overtaken'
      BY <1>5 DEF ReadSnapshot, Overtaken, Watched
    <2>3. (Committed /\ LaunchedAsExpected)'
      BY <1>5 DEF ReadSnapshot, Committed, LaunchedAsExpected
    <2>4. QED BY <2>1, <2>2, <2>3
  <1>6. ASSUME NEW pairToken \in Pairs, PreviewLaunchEconomics(pairToken)
        PROVE  SnapshotInv'
    BY <1>6 DEF PreviewLaunchEconomics, Known, Overtaken, Telling, Watched, Committed,
                LaunchedAsExpected
  <1>7. ASSUME NEW pairToken \in Pairs, NewLaunchDeployment(pairToken)
        PROVE  SnapshotInv'
    <2>1. Known' /\ Overtaken'
      BY <1>7 DEF NewLaunchDeployment, Known, Overtaken, Telling, Watched
    <2>2. /\ launch'.stage = "sent"
          /\ launch'.predicted = Deployment(snap, pairToken)
          /\ expected' \in {Zero, LaunchEconomicsDigest(Deployment(snap, pairToken))}
      BY <1>7 DEF NewLaunchDeployment, EconomicsAsExpected
    <2>3. (Committed /\ LaunchedAsExpected)'
      BY <2>2 DEF Committed, LaunchedAsExpected
    <2>4. QED BY <2>1, <2>3
  <1>8. CASE RefuseDeployment
    BY <1>8 DEF RefuseDeployment, Known, Overtaken, Telling, Watched, Committed,
                LaunchedAsExpected
  <1>9. CASE Execute
    <2>1. Known' /\ Overtaken'
      BY <1>9 DEF Execute, Known, Overtaken, Telling, Watched
    <2>2. \/ launch'.stage = "reverted"
          \/ /\ launch'.stage = "launched"
             /\ launch'.predicted = launch.predicted
             /\ expected \in {Zero, LaunchEconomicsDigest(launch'.actual)}
      BY <1>9 DEF Execute
    <2>3. launch.stage = "sent" /\ expected' = expected
      BY <1>9 DEF Execute
    <2>4. (Committed /\ LaunchedAsExpected)'
      BY <2>2, <2>3 DEF Committed, LaunchedAsExpected
    <2>5. QED BY <2>1, <2>4
  <1>10. CASE UNCHANGED vars
    BY <1>10 DEF vars, Known, Overtaken, Telling, Watched, Committed, LaunchedAsExpected
  <1>11. QED
    BY <1>1, <1>2, <1>3, <1>4, <1>5, <1>6, <1>7, <1>8, <1>9, <1>10 DEF Next, Over

(* So it holds always.                                                     *)
LEMMA SnapshotAlways == Spec => []SnapshotInv
  BY SnapshotStarts, SnapshotSteps, PTL DEF Spec

(* A snapshot is what governance decided as soon as its owner has seen     *)
(* what is pending and has had every event, however many calls there were  *)
(* and however late their events came.                                     *)
THEOREM SnapshotCurrent == Spec => []SnapshotFollowsGovernance
  <1>1. SnapshotInv => SnapshotFollowsGovernance
    <2>1. SUFFICES ASSUME SnapshotInv, snap # NoSnapshot, events = <<>>,
                          \A p \in pending : p.seen
                   PROVE  snap = gov /\ \A p \in pending : p.call.piece = "none"
      BY DEF SnapshotFollowsGovernance
    <2>2. snap = gov
      BY <2>1 DEF SnapshotInv, Overtaken
    <2>3. ASSUME NEW p \in pending PROVE p.call.piece = "none"
      <3>1. p.call \in Calls /\ ~Watched(p.call)
        BY <2>1 DEF SnapshotInv, Known, Overtaken
      <3>2. QED BY <3>1, ListsComplete, Receivers DEF Watched, Calls
    <2>4. QED BY <2>2, <2>3
  <1>2. QED BY <1>1, SnapshotAlways, PTL

(* A launch that commits to its economics never has others than its owner  *)
(* computed, whatever governance does between preview, snapshot and        *)
(* execution.                                                              *)
THEOREM LaunchesCommitted == Spec => []LaunchedAsExpected
  <1>1. SnapshotInv => LaunchedAsExpected
    BY DEF SnapshotInv
  <1>2. QED BY <1>1, SnapshotAlways, PTL
=============================================================================
