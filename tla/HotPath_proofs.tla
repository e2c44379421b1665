--------------------------- MODULE HotPath_proofs ---------------------------
(***************************************************************************)
(* Proofs about the hot path: Broadcast for any finite set of relays, and  *)
(* HotPath for any callers, any width of the counter and any number of     *)
(* transactions signed with one nonce.                                     *)
(***************************************************************************)
EXTENDS HotPath, Broadcast, FiniteSetTheorems, TLAPS

(***************************************************************************)
(* One broadcast.                                                          *)
(***************************************************************************)
USE DEF Answers

(* The number of slots of the channel is a natural number.                 *)
LEMMA BufferSize == Cardinality(Relays) \in Nat
BY BroadcastAssumption, FS_CardinalityType

(* The answer at the head of a channel that is not empty is a relay's, and *)
(* what is left of the channel is one shorter.                             *)
LEMMA ChannelHead ==
  ASSUME TypeOK, results # <<>>
  PROVE  /\ Head(results) \in Relays
         /\ Tail(results) \in Seq(Relays)
         /\ Len(Tail(results)) <= Cardinality(Relays)
         /\ \A i \in 1..Len(Tail(results)) : Tail(results)[i] = results[i + 1]
                                             /\ i + 1 \in 1..Len(results)
         /\ 1 \in 1..Len(results) /\ Head(results) = results[1]
BY BufferSize DEF TypeOK

(* The types are preserved; the channel never holds more answers than it   *)
(* has slots.                                                              *)
THEOREM TypeCorrect == Spec => []TypeOK
<1>1. Init => TypeOK
  BY BufferSize DEF Init, TypeOK
<1>2. TypeOK /\ [Next]_vars => TypeOK'
  <2> SUFFICES ASSUME TypeOK, [Next]_vars PROVE TypeOK'
    OBVIOUS
  <2> USE BufferSize DEF callerVars, relayVars
  <2>1. ASSUME RefuseInput \/ SpawnAll \/ Conclude \/ CallerStops PROVE TypeOK'
    BY <2>1 DEF RefuseInput, SpawnAll, Conclude, CallerStops, TypeOK
  <2>2. ASSUME TakeAcceptance PROVE TypeOK'
    BY <2>2, ChannelHead DEF TakeAcceptance, TypeOK
  <2>3. ASSUME TakeFailure PROVE TypeOK'
    <3>1. allRejected' \in BOOLEAN
      BY <2>3 DEF TakeFailure, TypeOK
    <3>. QED
      BY <2>3, <3>1, ChannelHead DEF TakeFailure, TypeOK
  <2>4. ASSUME NEW r \in Relays, Send(r) PROVE TypeOK'
    BY <2>4 DEF Send, TypeOK
  <2>5. ASSUME NEW r \in Relays, AnswerArrives(r) \/ TransportFails(r) \/ CallAbandoned(r)
        PROVE TypeOK'
    BY <2>5 DEF AnswerArrives, TransportFails, CallAbandoned, CallReturns, TypeOK
  <2>6. ASSUME NEW r \in Relays, Post(r) PROVE TypeOK'
    <3>1. results' \in Seq(Relays) /\ Len(results') <= Cardinality(Relays)
      BY <2>6 DEF Post, TypeOK
    <3>. QED
      BY <2>6, <3>1 DEF Post, TypeOK
  <2>7. ASSUME NEW r \in Relays, RelayHandles(r) PROVE TypeOK'
    <3>1. pool' \in [Relays -> BOOLEAN]
      BY <2>7 DEF RelayHandles, TypeOK
    <3>2. response' \in [Relays -> Answers \cup {"none"}] /\ request' \in [Relays -> {"none", "pending", "handled"}]
      BY <2>7 DEF RelayHandles, TypeOK
    <3>. QED
      BY <2>7, <3>1, <3>2 DEF RelayHandles, TypeOK
  <2>8. ASSUME NEW r \in Relays, NEW s \in Relays, Gossip(r, s) PROVE TypeOK'
    BY <2>8 DEF Gossip, TypeOK
  <2>9. CASE UNCHANGED vars
    BY <2>9 DEF vars, TypeOK
  <2>. QED
    BY <2>1, <2>2, <2>3, <2>4, <2>5, <2>6, <2>7, <2>8, <2>9 DEF Next, CallerStep, Finished
<1>. QED
  BY <1>1, <1>2, PTL DEF Spec
-----------------------------------------------------------------------------
(* An answer other than a failure of transport is what the relay replied,  *)
(* a relay that replied that it has the transaction has it, and a          *)
(* goroutine has an answer exactly from the return of its call on.         *)
Honest ==
    \A r \in Relays :
      /\ answer[r] \notin {"none", "otherError"} =>
           request[r] = "handled" /\ response[r] = answer[r]
      /\ Proves(response[r]) => pool[r]
      /\ request[r] = "handled" => response[r] # "none"
      /\ answer[r] = "none" <=> rpc[r] \in {"none", "spawned", "flight"}

(* A relay that rejected the transaction did not have it then; so as long  *)
(* as somebody has it, somebody who never rejected it has it.              *)
Traceable ==
    (\E r \in Relays : pool[r]) => \E r \in Relays : pool[r] /\ response[r] # "rejection"

(* What the caller knows of the answers it took.                           *)
Tally ==
    /\ \A i \in 1..Len(results) : rpc[results[i]] = "posted"
    /\ \A r \in seen : rpc[r] = "posted"
    /\ allRejected => \A r \in seen : verdict = "accepted" \/ answer[r] = "rejection"
    /\ verdict # "accepted" => \A r \in seen : ~Proves(answer[r])
    /\ (verdict = "none") = (pc # "done")
    /\ verdict \in {"rejected", "unknown"} => seen = Relays
    /\ verdict = "rejected" => allRejected
    /\ pc = "call" => \A r \in Relays : rpc[r] = "none"

BroadcastInv == TypeOK /\ Honest /\ Traceable /\ Tally /\ AcceptedIsInAPool

(* The inductive invariant holds when BroadcastRaw is called.              *)
LEMMA InvInit == Init => BroadcastInv
<1> SUFFICES ASSUME Init PROVE BroadcastInv
  OBVIOUS
<1>1. TypeOK
  BY BufferSize DEF Init, TypeOK
<1>2. Honest /\ Traceable
  BY DEF Init, Honest, Traceable, Proves, IsAlreadyKnownError
<1>3. Tally /\ AcceptedIsInAPool
  BY DEF Init, Tally, AcceptedIsInAPool
<1>. QED
  BY <1>1, <1>2, <1>3 DEF BroadcastInv

(* Every step of caller, goroutines, connections and relays preserves it.  *)
LEMMA InvStep == BroadcastInv /\ TypeOK' /\ [Next]_vars => BroadcastInv'
<1> SUFFICES ASSUME BroadcastInv, TypeOK', [Next]_vars PROVE BroadcastInv'
  OBVIOUS
<1> USE DEF BroadcastInv, Proves, IsAlreadyKnownError, callerVars, relayVars
<1>1. ASSUME RefuseInput \/ CallerStops PROVE BroadcastInv'
  BY <1>1 DEF RefuseInput, CallerStops, TypeOK, Honest, Traceable, Tally, AcceptedIsInAPool
<1>2. ASSUME SpawnAll PROVE BroadcastInv'
  <2>1. results = results' /\ seen = {} /\ \A i \in 1..Len(results) : FALSE
    BY <1>2 DEF SpawnAll, Tally, TypeOK
  <2>2. Honest' /\ Traceable' /\ AcceptedIsInAPool'
    BY <1>2 DEF SpawnAll, Honest, Traceable, AcceptedIsInAPool, Tally, TypeOK
  <2>. QED
    BY <1>2, <2>1, <2>2 DEF SpawnAll, Tally
<1>3. ASSUME TakeAcceptance PROVE BroadcastInv'
  <2> DEFINE r == Head(results)
  <2>1. r \in Relays /\ rpc[r] = "posted" /\ Proves(answer[r])
    BY <1>3, ChannelHead DEF TakeAcceptance, Tally
  <2>2. pool[r]
    BY <2>1 DEF Honest
  <2>3. AcceptedIsInAPool' /\ Honest' /\ Traceable'
    BY <1>3, <2>1, <2>2 DEF TakeAcceptance, AcceptedIsInAPool, Honest, Traceable
  <2>4. Tally'
    BY <1>3, <2>1, ChannelHead DEF TakeAcceptance, Tally
  <2>. QED
    BY <2>3, <2>4
<1>4. ASSUME TakeFailure PROVE BroadcastInv'
  <2> DEFINE r == Head(results)
  <2>1. r \in Relays /\ rpc[r] = "posted" /\ ~Proves(answer[r])
    BY <1>4, ChannelHead DEF TakeFailure, Tally
  <2>2. Honest' /\ Traceable' /\ AcceptedIsInAPool'
    BY <1>4 DEF TakeFailure, Honest, Traceable, AcceptedIsInAPool
  <2>3. allRejected' => allRejected /\ answer[r] = "rejection"
    BY <1>4 DEF TakeFailure, IsDefinitiveBroadcastRejection
  <2>4. Tally'
    BY <1>4, <2>1, <2>3, ChannelHead DEF TakeFailure, Tally
  <2>. QED
    BY <2>2, <2>4
<1>5. ASSUME Conclude PROVE BroadcastInv'
  BY <1>5 DEF Conclude, Honest, Traceable, Tally, AcceptedIsInAPool
<1>6. ASSUME NEW r \in Relays, Send(r) PROVE BroadcastInv'
  <2>1. answer[r] = "none"
    BY <1>6 DEF Send, Honest
  <2>2. Honest'
    BY <1>6, <2>1 DEF Send, Honest, TypeOK
  <2>3. Traceable' /\ Tally' /\ AcceptedIsInAPool'
    BY <1>6 DEF Send, Traceable, Tally, AcceptedIsInAPool, TypeOK
  <2>. QED
    BY <2>2, <2>3
<1>7. ASSUME NEW r \in Relays, AnswerArrives(r) \/ TransportFails(r) \/ CallAbandoned(r)
      PROVE BroadcastInv'
  <2>1. rpc[r] # "posted" /\ rpc[r] # "none" /\ r \notin seen
    BY <1>7 DEF AnswerArrives, TransportFails, CallAbandoned, Tally
  <2>2. Honest'
    <3>1. AnswerArrives(r) => Honest'
      BY <2>1 DEF AnswerArrives, CallReturns, Honest, TypeOK
    <3>2. TransportFails(r) \/ CallAbandoned(r) => Honest'
      BY <2>1 DEF TransportFails, CallAbandoned, CallReturns, Honest, TypeOK
    <3>. QED
      BY <1>7, <3>1, <3>2
  <2>3. Traceable' /\ AcceptedIsInAPool'
    BY <1>7 DEF AnswerArrives, TransportFails, CallAbandoned, CallReturns, Traceable, AcceptedIsInAPool
  <2>4. Tally'
    BY <1>7, <2>1 DEF AnswerArrives, TransportFails, CallAbandoned, CallReturns, Tally, TypeOK
  <2>. QED
    BY <2>2, <2>3, <2>4
<1>8. ASSUME NEW r \in Relays, Post(r) PROVE BroadcastInv'
  <2>1. Honest' /\ Traceable' /\ AcceptedIsInAPool'
    BY <1>8 DEF Post, Honest, Traceable, AcceptedIsInAPool, TypeOK
  <2>2. \A i \in 1..Len(results') : rpc'[results'[i]] = "posted"
    BY <1>8 DEF Post, Tally, TypeOK
  <2>3. Tally'
    BY <1>8, <2>2 DEF Post, Tally, TypeOK
  <2>. QED
    BY <2>1, <2>3
<1>9. ASSUME NEW r \in Relays, RelayHandles(r) PROVE BroadcastInv'
  <2>1. Honest'
    BY <1>9 DEF RelayHandles, Honest, TypeOK
  <2>2. Traceable'
    BY <1>9 DEF RelayHandles, Traceable, TypeOK
  <2>3. Tally' /\ AcceptedIsInAPool'
    BY <1>9 DEF RelayHandles, Tally, AcceptedIsInAPool, TypeOK
  <2>. QED
    BY <2>1, <2>2, <2>3
<1>10. ASSUME NEW r \in Relays, NEW s \in Relays, Gossip(r, s) PROVE BroadcastInv'
  BY <1>10 DEF Gossip, Honest, Traceable, Tally, AcceptedIsInAPool, TypeOK
<1>11. CASE UNCHANGED vars
  BY <1>11 DEF vars, Honest, Traceable, Tally, AcceptedIsInAPool
<1>. QED
  BY <1>1, <1>2, <1>3, <1>4, <1>5, <1>6, <1>7, <1>8, <1>9, <1>10, <1>11
     DEF Next, CallerStep, Finished

(* The inductive invariant holds in every reachable state.                 *)
LEMMA InvHolds == Spec => []BroadcastInv
BY InvInit, InvStep, TypeCorrect, PTL DEF Spec
-----------------------------------------------------------------------------
(* For any set of relays: a returned hash is in somebody's mempool.        *)
THEOREM AcceptedSound == Spec => []AcceptedIsInAPool
BY InvHolds, PTL DEF BroadcastInv

(* For any set of relays and any losses and delays: a broadcast reported   *)
(* as rejected is in no relay's mempool and none of its requests is out.   *)
THEOREM RejectedSound == Spec => []RejectedIsNowhere
<1>1. BroadcastInv => RejectedIsNowhere
  <2> SUFFICES ASSUME BroadcastInv, verdict = "rejected"
               PROVE \A r \in Relays : ~pool[r] /\ request[r] = "handled"
    BY DEF RejectedIsNowhere
  <2>1. \A r \in Relays : answer[r] = "rejection"
    BY DEF BroadcastInv, Tally
  <2>2. \A r \in Relays : request[r] = "handled" /\ response[r] = "rejection"
    BY <2>1 DEF BroadcastInv, Honest
  <2>. QED
    BY <2>2 DEF BroadcastInv, Traceable
<1>. QED
  BY <1>1, InvHolds, PTL

(* A failure is never reported while an answer is missing, nor against an  *)
(* answer that proved an acceptance.                                       *)
THEOREM FailureSound == Spec => []FailureHeardEveryone
<1>1. BroadcastInv => FailureHeardEveryone
  BY DEF BroadcastInv, Tally, FailureHeardEveryone
<1>. QED
  BY <1>1, InvHolds, PTL
-----------------------------------------------------------------------------
(* A relay has no request of a goroutine that has not made its call.       *)
Unsent == \A r \in Relays : rpc[r] \in {"none", "spawned"} => request[r] = "none"

(* Requests are made by Send alone; SpawnAll meets no goroutine, which the *)
(* Tally knows.                                                            *)
LEMMA UnsentStep == BroadcastInv /\ Unsent /\ [Next]_vars => Unsent'
<1> SUFFICES ASSUME BroadcastInv, Unsent, [Next]_vars PROVE Unsent'
  OBVIOUS
<1> USE DEF BroadcastInv, Unsent, TypeOK, callerVars, relayVars
<1>1. ASSUME SpawnAll PROVE Unsent'
  BY <1>1 DEF SpawnAll, Tally
<1>2. ASSUME RefuseInput \/ TakeAcceptance \/ TakeFailure \/ Conclude \/ CallerStops
      PROVE Unsent'
  BY <1>2 DEF RefuseInput, TakeAcceptance, TakeFailure, Conclude, CallerStops
<1>3. ASSUME NEW r \in Relays, Send(r) \/ Post(r) PROVE Unsent'
  BY <1>3 DEF Send, Post
<1>4. ASSUME NEW r \in Relays, AnswerArrives(r) \/ TransportFails(r) \/ CallAbandoned(r)
      PROVE Unsent'
  BY <1>4 DEF AnswerArrives, TransportFails, CallAbandoned, CallReturns
<1>5. ASSUME NEW r \in Relays, RelayHandles(r) PROVE Unsent'
  BY <1>5 DEF RelayHandles
<1>6. ASSUME NEW r \in Relays, NEW s \in Relays, Gossip(r, s) PROVE Unsent'
  BY <1>6 DEF Gossip
<1>7. CASE UNCHANGED vars
  BY <1>7 DEF vars
<1>. QED
  BY <1>1, <1>2, <1>3, <1>4, <1>5, <1>6, <1>7 DEF Next, CallerStep, Finished

(* A broadcast starts as a submission does.                                *)
LEMMA StartsAsSubmission == Init => Promise!SubmissionInit
BY DEF Init, Promise!SubmissionInit

(* A rejection is given while nobody has the transaction and nothing is    *)
(* under way.                                                              *)
LEMMA RejectionIsFinal ==
  ASSUME BroadcastInv, Conclude, allRejected
  PROVE  ~(\E r \in Relays : pool[r]) /\ ~(\E r \in Relays : rpc[r] = "spawned" \/ request[r] = "pending")
<1>1. \A r \in Relays : rpc[r] = "posted" /\ answer[r] = "rejection"
  BY DEF Conclude, BroadcastInv, Tally
<1>2. \A r \in Relays : request[r] = "handled" /\ response[r] = "rejection"
  BY <1>1 DEF BroadcastInv, Honest
<1>. QED
  BY <1>1, <1>2 DEF BroadcastInv, Traceable

(* Each step of a broadcast is a step of a submission or none.             *)
LEMMA StepsAsSubmission ==
  BroadcastInv /\ BroadcastInv' /\ Unsent /\ [Next]_vars
    => [Promise!SubmissionNext]_(Promise!submissionVars)
<1> DEFINE inAPool == \E r \in Relays : pool[r]
           sending == \E r \in Relays : rpc[r] = "spawned" \/ request[r] = "pending"
           Stutter == verdict' = verdict /\ inAPool' = inAPool /\ sending' = sending
           Arrival == verdict' = verdict /\ sending /\ inAPool' \in {inAPool, TRUE} /\ sending' \in BOOLEAN
<1> SUFFICES ASSUME BroadcastInv, BroadcastInv', Unsent, [Next]_vars
             PROVE  [Promise!SubmissionNext]_(Promise!submissionVars)
  OBVIOUS
<1> USE DEF callerVars, relayVars
<1>1. Stutter => [Promise!SubmissionNext]_(Promise!submissionVars)
  BY DEF Promise!submissionVars
<1>2. Arrival => [Promise!SubmissionNext]_(Promise!submissionVars)
  BY DEF Promise!SubmissionNext, Promise!Arrives
<1>3. ASSUME RefuseInput PROVE Promise!Refuse
  <2>1. ~sending /\ verdict = "none"
    BY <1>3 DEF RefuseInput, BroadcastInv, Tally, Unsent
  <2>. QED
    BY <1>3, <2>1 DEF RefuseInput, Promise!Refuse, Promise!Returns
<1>4. ASSUME SpawnAll PROVE Promise!Submit
  <2>1. ~sending /\ verdict = "none"
    BY <1>4 DEF SpawnAll, BroadcastInv, Tally, Unsent
  <2>2. sending'
    BY <1>4, BroadcastAssumption DEF SpawnAll
  <2>. QED
    BY <1>4, <2>1, <2>2 DEF SpawnAll, Promise!Submit
<1>5. ASSUME TakeAcceptance PROVE Promise!Accept
  <2>1. verdict = "none" /\ inAPool
    BY <1>5 DEF TakeAcceptance, BroadcastInv, Tally, AcceptedIsInAPool
  <2>. QED
    BY <1>5, <2>1 DEF TakeAcceptance, Promise!Accept, Promise!Returns
<1>6. ASSUME Conclude PROVE Promise!Reject \/ Promise!GiveUp
  <2>1. verdict = "none"
    BY <1>6 DEF Conclude, BroadcastInv, Tally
  <2>2. CASE allRejected
    BY <1>6, <2>1, <2>2, RejectionIsFinal DEF Conclude, Promise!Reject, Promise!Returns
  <2>3. CASE ~allRejected
    BY <1>6, <2>1, <2>3 DEF Conclude, Promise!GiveUp, Promise!Returns
  <2>. QED
    BY <2>2, <2>3
<1>7. ASSUME TakeFailure \/ CallerStops PROVE Stutter
  BY <1>7 DEF TakeFailure, CallerStops
<1>8. ASSUME NEW r \in Relays, Send(r) PROVE Stutter
  <2>1. sending /\ sending'
    BY <1>8 DEF Send, BroadcastInv, TypeOK
  <2>. QED
    BY <1>8, <2>1 DEF Send
<1>9. ASSUME NEW r \in Relays, AnswerArrives(r) \/ TransportFails(r) \/ Post(r) PROVE Stutter
  <2>1. sending' = sending
    BY <1>9 DEF AnswerArrives, TransportFails, Post, CallReturns, BroadcastInv, TypeOK
  <2>. QED
    BY <1>9, <2>1 DEF AnswerArrives, TransportFails, Post, CallReturns
<1>10. ASSUME NEW r \in Relays, CallAbandoned(r) PROVE Stutter \/ Arrival
  <2>1. CASE rpc[r] = "spawned"
    <3>1. sending /\ sending' \in BOOLEAN
      BY <2>1
    <3>. QED
      BY <1>10, <3>1 DEF CallAbandoned, CallReturns
  <2>2. CASE rpc[r] # "spawned"
    <3>1. sending' = sending
      BY <1>10, <2>2 DEF CallAbandoned, CallReturns, BroadcastInv, TypeOK
    <3>. QED
      BY <1>10, <3>1 DEF CallAbandoned, CallReturns
  <2>. QED
    BY <2>1, <2>2
<1>11. ASSUME NEW r \in Relays, RelayHandles(r) PROVE Arrival
  <2>1. sending /\ sending' \in BOOLEAN
    BY <1>11 DEF RelayHandles
  <2>2. inAPool' \in {inAPool, TRUE}
    BY <1>11 DEF RelayHandles, BroadcastInv, TypeOK
  <2>. QED
    BY <1>11, <2>1, <2>2 DEF RelayHandles
<1>12. ASSUME NEW r \in Relays, NEW s \in Relays, Gossip(r, s) PROVE Stutter
  <2>1. inAPool /\ inAPool'
    BY <1>12 DEF Gossip, BroadcastInv, TypeOK
  <2>. QED
    BY <1>12, <2>1 DEF Gossip
<1>13. CASE UNCHANGED vars
  BY <1>13 DEF vars, Promise!submissionVars
<1>. HIDE DEF Stutter, Arrival
<1>. QED
  BY <1>1, <1>2, <1>3, <1>4, <1>5, <1>6, <1>7, <1>8, <1>9, <1>10, <1>11, <1>12, <1>13
     DEF Next, CallerStep, Finished, Promise!SubmissionNext

(* For any set of relays and whatever networks and relays do, a broadcast  *)
(* is a submission: who believes in Submission is never disappointed.      *)
THEOREM SubmissionImplemented == Spec => ImplementsSubmission
<1>1. Init => Unsent
  BY DEF Init, Unsent
<1>2. Spec => []Unsent
  BY <1>1, UnsentStep, InvHolds, PTL DEF Spec
<1>. QED
  BY <1>2, InvHolds, StartsAsSubmission, StepsAsSubmission, PTL
     DEF Spec, ImplementsSubmission, Promise!SubmissionSpec

HIDE DEF Answers

(***************************************************************************)
(* Many broadcasts of one account.                                         *)
(***************************************************************************)
USE HotPathAssumption DEF Nonces, Transactions

Busy(c) == stage[c] # "idle"

(* What nodes have or may be offered without the caller's doing.           *)
Abroad == stray \cup waiting \cup mined

(* Nonces of busy callers and of transactions abroad lie below the         *)
(* sequence, and two callers never have the same.                          *)
NoncesApart ==
    /\ \A c \in Callers : Busy(c) => signed[c].nonce < next
    /\ \A t \in Abroad : t.nonce < next
    /\ \A c, d \in Callers :
         Busy(c) /\ Busy(d) /\ signed[c].nonce = signed[d].nonce => c = d

(* Of the transactions abroad no two share a nonce; one with the nonce of  *)
(* a busy caller is the caller's own, which it can only have sent.         *)
OneAbroad ==
    /\ \A t, u \in Abroad : t.nonce = u.nonce => t = u
    /\ \A c \in Callers : \A t \in Abroad :
         Busy(c) /\ t.nonce = signed[c].nonce => t = signed[c] /\ stage[c] # "reserved"

(* A caller without doubts has no request abroad but those of its          *)
(* broadcast.                                                              *)
NoStrays ==
    /\ \A c \in Callers : stage[c] \in {"signed", "sending"} /\ ~doubt[c] => signed[c] \notin stray
    /\ \A c \in Callers : underway[c] => stage[c] = "sending"

(* A reported nonce is not beyond what the chain or the sequence has used. *)
NotAhead ==
    /\ \A c \in Callers : pending[c] <= next \/ pending[c] <= height
    /\ \A t \in mined : t.nonce < height

HotInv == HotTypeOK /\ NoncesApart /\ OneAbroad /\ NoStrays /\ NotAhead /\ NoNonceLost

(* All goroutines idle, nothing abroad.                                    *)
LEMMA HotStarts == HotInit => HotInv
<1> SUFFICES ASSUME HotInit PROVE HotInv
  OBVIOUS
<1>1. HotTypeOK
  BY DEF HotInit, CounterInit, HotTypeOK
<1>2. NoncesApart /\ OneAbroad /\ NoStrays
  BY DEF HotInit, CounterInit, NoncesApart, OneAbroad, NoStrays, Busy, Abroad
<1>3. NotAhead /\ NoNonceLost
  BY DEF HotInit, CounterInit, NotAhead, NoNonceLost
<1>. QED
  BY <1>1, <1>2, <1>3 DEF HotInv

(* The types are preserved.                                                *)
LEMMA HotTypes == HotTypeOK /\ NoncesApart /\ [HotNext]_hotVars => HotTypeOK'
<1> SUFFICES ASSUME HotTypeOK, NoncesApart, [HotNext]_hotVars PROVE HotTypeOK'
  OBVIOUS
<1> USE DEF HotTypeOK, counterVars, accountVars, chainVars
<1>1. ASSUME NEW c \in Callers, Reserve(c) PROVE HotTypeOK'
  BY <1>1 DEF Reserve, Take
<1>2. ASSUME NEW c \in Callers, Reconcile(c) PROVE HotTypeOK'
  BY <1>2 DEF Reconcile, Ask
<1>3. ASSUME NEW c \in Callers, AdvanceTo(c) PROVE HotTypeOK'
  BY <1>3 DEF AdvanceTo, Raise
<1>4. ASSUME NEW c \in Callers, SignDynamicFee(c) PROVE HotTypeOK'
  BY <1>4 DEF SignDynamicFee
<1>5. ASSUME NEW c \in Callers, Broadcast(c) \/ Overtaken(c) PROVE HotTypeOK'
  BY <1>5 DEF Broadcast, Overtaken
<1>6. ASSUME NEW c \in Callers, Accepted(c) \/ Rejected(c) \/ Unknown(c) PROVE HotTypeOK'
  <2>1. PICK then \in {"idle", "reserved", "signed"}, unsure \in BOOLEAN : Returns(c, then, unsure)
    BY <1>6 DEF Accepted, Rejected, Unknown
  <2>. QED
    BY <2>1 DEF Returns
<1>7. ASSUME NEW c \in Callers, RequestArrives(c) PROVE HotTypeOK'
  BY <1>7 DEF RequestArrives, Offered
<1>8. ASSUME NEW t \in stray, StrayArrives(t) PROVE HotTypeOK'
  BY <1>8 DEF StrayArrives, Offered
<1>9. ASSUME NEW t \in waiting, Mine(t) PROVE HotTypeOK'
  <2>1. height < next
    BY <1>9 DEF Mine, NoncesApart, Abroad
  <2>. QED
    BY <1>9, <2>1 DEF Mine
<1>10. CASE UNCHANGED hotVars
  BY <1>10 DEF hotVars
<1>. QED
  BY <1>1, <1>2, <1>3, <1>4, <1>5, <1>6, <1>7, <1>8, <1>9, <1>10 DEF HotNext, GoroutineStep

(* What an arriving request changes: one transaction may join those that   *)
(* wait, with a nonce the chain has not used, and push out its namesake.   *)
LEMMA Arrival ==
  ASSUME NEW t \in Abroad \cup {signed[c] : c \in {d \in Callers : Busy(d)}}, Offered(t)
  PROVE  /\ waiting' \subseteq waiting \cup {t}
         /\ \A u \in waiting : \E v \in waiting' : v.nonce = u.nonce
         /\ \A k : (\E u \in waiting : u.nonce = k) => \E v \in waiting' : v.nonce = k
BY DEF Offered

(* Every step of callers and chain preserves the invariant.                *)
LEMMA HotSteps == HotInv /\ [HotNext]_hotVars => HotInv'
<1> SUFFICES ASSUME HotInv, [HotNext]_hotVars PROVE HotInv'
  OBVIOUS
<1> USE DEF HotInv, counterVars, accountVars, chainVars
<1>0. HotTypeOK'
  BY HotTypes
<1>1. ASSUME NEW c \in Callers, Reserve(c) PROVE HotInv'
  <2>1. NoncesApart'
    BY <1>0, <1>1 DEF Reserve, Take, NoncesApart, Busy, Abroad, HotTypeOK
  <2>2. OneAbroad'
    BY <1>1 DEF Reserve, Take, NoncesApart, OneAbroad, Busy, Abroad, HotTypeOK
  <2>3. NoStrays' /\ NotAhead'
    BY <1>1 DEF Reserve, Take, NoStrays, NotAhead, HotTypeOK
  <2>4. NoNonceLost'
    BY <1>1 DEF Reserve, Take, NoNonceLost, HotTypeOK
  <2>. QED
    BY <1>0, <2>1, <2>2, <2>3, <2>4
<1>2. ASSUME NEW c \in Callers, Reconcile(c) PROVE HotInv'
  <2>1. NoncesApart' /\ OneAbroad' /\ NoStrays' /\ NoNonceLost'
    BY <1>2 DEF Reconcile, Ask, NoncesApart, OneAbroad, NoStrays, NoNonceLost, Busy, Abroad
  <2>2. pending'[c] <= next \/ pending'[c] <= height
    <3>1. PICK v \in Nonces : pending' = [pending EXCEPT ![c] = v]
      BY <1>2 DEF Reconcile, Ask
    <3>2. Reported(v)
      BY <1>2, <3>1 DEF Reconcile, HotTypeOK
    <3>3. ASSUME v > next, v > height PROVE FALSE
      <4>. DEFINE k == IF next >= height THEN next ELSE height
      <4>1. k \in height..v - 1 /\ k >= next /\ k \in Int
        BY <3>3 DEF HotTypeOK
      <4>2. PICK t \in waiting : t.nonce = k
        BY <3>2, <4>1 DEF Reported
      <4>. QED
        BY <4>1, <4>2 DEF NoncesApart, Abroad, HotTypeOK
    <3>. QED
      BY <3>1, <3>3 DEF HotTypeOK
  <2>3. NotAhead'
    BY <1>2, <2>2 DEF Reconcile, Ask, NotAhead, HotTypeOK
  <2>. QED
    BY <1>0, <2>1, <2>3
<1>3. ASSUME NEW c \in Callers, AdvanceTo(c) PROVE HotInv'
  <2>1. /\ next' >= next /\ (next' # next => next' <= height)
        /\ next \in Int /\ next' \in Int /\ height \in Int
        /\ \A t \in Transactions : t.nonce \in Int
        /\ UNCHANGED <<stage, signed, doubt, underway, stray, waiting, mined, height>>
    BY <1>0, <1>3 DEF AdvanceTo, Raise, NotAhead, HotTypeOK
  <2>2. NoncesApart'
    BY <2>1 DEF NoncesApart, Busy, Abroad, HotTypeOK
  <2>5. OneAbroad' /\ NoStrays'
    BY <2>1 DEF OneAbroad, NoStrays, Busy, Abroad
  <2>3. NotAhead'
    BY <1>3, <2>1 DEF AdvanceTo, Raise, NotAhead, HotTypeOK
  <2>4. NoNonceLost'
    BY <2>1 DEF NoNonceLost
  <2>. QED
    BY <1>0, <2>2, <2>3, <2>4, <2>5
<1>4. ASSUME NEW c \in Callers, SignDynamicFee(c) PROVE HotInv'
  <2>1. \A d \in Callers : signed'[d].nonce = signed[d].nonce /\ (d # c => signed'[d] = signed[d])
    BY <1>4 DEF SignDynamicFee, HotTypeOK
  <2>2. \A d \in Callers : Busy(d)' <=> Busy(d)
    BY <1>4 DEF SignDynamicFee, Busy, HotTypeOK
  <2>3. NoncesApart'
    BY <1>4, <2>1, <2>2 DEF SignDynamicFee, NoncesApart, Abroad, HotTypeOK
  <2>4. \A t \in Abroad : t.nonce # signed[c].nonce
    BY <1>4 DEF SignDynamicFee, OneAbroad, Busy
  <2>5. OneAbroad'
    BY <1>4, <2>1, <2>2, <2>4 DEF SignDynamicFee, OneAbroad, Abroad, HotTypeOK
  <2>6. NoStrays'
    BY <1>4, <2>1, <2>4 DEF SignDynamicFee, NoStrays, Abroad, HotTypeOK
  <2>7. NotAhead'
    BY <1>4 DEF SignDynamicFee, NotAhead
  <2>8. NoNonceLost'
    BY <1>4, <2>1, <2>2 DEF SignDynamicFee, NoNonceLost, Busy
  <2>. QED
    BY <1>0, <2>3, <2>5, <2>6, <2>7, <2>8
<1>5. ASSUME NEW c \in Callers, Broadcast(c) PROVE HotInv'
  <2>1. NoncesApart' /\ OneAbroad'
    BY <1>5 DEF Broadcast, NoncesApart, OneAbroad, Busy, Abroad, HotTypeOK
  <2>2. NoStrays' /\ NotAhead' /\ NoNonceLost'
    BY <1>5 DEF Broadcast, NoStrays, NotAhead, NoNonceLost, HotTypeOK
  <2>. QED
    BY <1>0, <2>1, <2>2
<1>6. ASSUME NEW c \in Callers, Accepted(c) PROVE HotInv'
  <2>1. /\ stage[c] = "sending" /\ stage' = [stage EXCEPT ![c] = "idle"]
        /\ signed[c] \in waiting \cup mined
        /\ stray' \subseteq stray \cup {signed[c]}
        /\ UNCHANGED <<next, pending, signed, waiting, mined, height>>
        /\ doubt' = [doubt EXCEPT ![c] = FALSE] /\ underway' = [underway EXCEPT ![c] = FALSE]
    BY <1>6 DEF Accepted, Returns, InPool
  <2>2. Abroad' \subseteq Abroad
    BY <2>1 DEF Abroad
  <2>3. NoncesApart'
    BY <2>1, <2>2 DEF NoncesApart, Busy, HotTypeOK
  <2>4. OneAbroad'
    BY <2>1, <2>2 DEF OneAbroad, Busy, HotTypeOK
  <2>5. NoStrays'
    BY <2>1 DEF NoStrays, NoncesApart, Busy, HotTypeOK
  <2>6. NotAhead'
    BY <2>1 DEF NotAhead
  <2>7. NoNonceLost'
    BY <2>1 DEF NoNonceLost, NotAhead, HotTypeOK
  <2>. QED
    BY <1>0, <2>3, <2>4, <2>5, <2>6, <2>7
<1>7. ASSUME NEW c \in Callers, Rejected(c) PROVE HotInv'
  <2>1. /\ stage[c] = "sending" /\ ~underway[c] /\ signed[c] \notin waiting \cup mined
        /\ stage' = [stage EXCEPT ![c] = IF doubt[c] THEN "signed" ELSE "reserved"]
        /\ UNCHANGED <<next, pending, signed, stray, waiting, mined, height>>
        /\ doubt' = doubt /\ underway' = underway
    BY <1>7 DEF Rejected, Returns, InPool, HotTypeOK
  <2>2. ~doubt[c] => signed[c] \notin Abroad
    BY <2>1 DEF NoStrays, Abroad
  <2>3. NoncesApart' /\ OneAbroad'
    BY <2>1, <2>2 DEF NoncesApart, OneAbroad, Busy, Abroad, HotTypeOK
  <2>4. NoStrays' /\ NotAhead' /\ NoNonceLost'
    BY <2>1 DEF NoStrays, NotAhead, NoNonceLost, HotTypeOK
  <2>. QED
    BY <1>0, <2>3, <2>4
<1>8. ASSUME NEW c \in Callers, Unknown(c) PROVE HotInv'
  <2>1. /\ stage[c] = "sending" /\ stage' = [stage EXCEPT ![c] = "signed"]
        /\ stray' \subseteq stray \cup {signed[c]}
        /\ UNCHANGED <<next, pending, signed, waiting, mined, height>>
        /\ doubt' = [doubt EXCEPT ![c] = TRUE] /\ underway' = [underway EXCEPT ![c] = FALSE]
    BY <1>8 DEF Unknown, Returns
  <2>2. Abroad' \subseteq Abroad \cup {signed[c]} /\ Busy(c)
    BY <2>1 DEF Abroad, Busy
  <2>3. NoncesApart'
    BY <2>1, <2>2 DEF NoncesApart, Busy, HotTypeOK
  <2>4. OneAbroad'
    BY <2>1, <2>2 DEF OneAbroad, NoncesApart, Busy, HotTypeOK
  <2>5. NoStrays'
    BY <2>1, <2>2 DEF NoStrays, NoncesApart, Busy, HotTypeOK
  <2>6. NotAhead' /\ NoNonceLost'
    BY <2>1 DEF NotAhead, NoNonceLost, HotTypeOK
  <2>. QED
    BY <1>0, <2>3, <2>4, <2>5, <2>6
<1>9. ASSUME NEW c \in Callers, Overtaken(c) PROVE HotInv'
  <2>1. NoncesApart' /\ OneAbroad' /\ NoStrays' /\ NotAhead'
    BY <1>9 DEF Overtaken, NoncesApart, OneAbroad, NoStrays, NotAhead, Busy, Abroad, HotTypeOK
  <2>2. NoNonceLost'
    BY <1>9 DEF Overtaken, NoNonceLost, HotTypeOK
  <2>. QED
    BY <1>0, <2>1, <2>2
<1>10. ASSUME NEW c \in Callers, RequestArrives(c) PROVE HotInv'
  <2>1. /\ underway[c] /\ Busy(c) /\ Offered(signed[c])
        /\ \A d \in Callers : underway'[d] => underway[d]
        /\ UNCHANGED <<next, pending, stage, signed, doubt, stray, mined, height>>
    BY <1>10 DEF RequestArrives, NoStrays, Busy, HotTypeOK
  <2>2. Abroad' \subseteq Abroad \cup {signed[c]}
    BY <2>1, Arrival DEF Abroad
  <2>3. NoncesApart'
    BY <2>1, <2>2 DEF NoncesApart, Busy
  <2>4. stage[c] # "reserved"
    BY <2>1 DEF NoStrays
  <2>5. OneAbroad'
    BY <2>1, <2>2, <2>4 DEF OneAbroad, NoncesApart, Busy, HotTypeOK
  <2>6. NoStrays' /\ NotAhead'
    BY <2>1 DEF NoStrays, NotAhead
  <2>7. NoNonceLost'
    BY <2>1, Arrival DEF NoNonceLost
  <2>. QED
    BY <1>0, <2>3, <2>5, <2>6, <2>7
<1>11. ASSUME NEW t \in stray, StrayArrives(t) PROVE HotInv'
  <2>1. /\ t \in Abroad /\ Offered(t) /\ stray' \subseteq stray
        /\ UNCHANGED <<next, pending, stage, signed, doubt, underway, mined, height>>
    BY <1>11 DEF StrayArrives, Abroad
  <2>2. Abroad' \subseteq Abroad
    BY <2>1, Arrival DEF Abroad
  <2>3. NoncesApart' /\ OneAbroad'
    BY <2>1, <2>2 DEF NoncesApart, OneAbroad, Busy
  <2>4. NoStrays' /\ NotAhead'
    BY <2>1 DEF NoStrays, NotAhead
  <2>5. NoNonceLost'
    BY <2>1, Arrival DEF NoNonceLost
  <2>. QED
    BY <1>0, <2>3, <2>4, <2>5
<1>12. ASSUME NEW t \in waiting, Mine(t) PROVE HotInv'
  <2>1. /\ t.nonce = height /\ height' = height + 1
        /\ waiting' = waiting \ {t} /\ mined' = mined \cup {t}
        /\ UNCHANGED <<next, pending, stage, signed, doubt, underway, stray>>
    BY <1>12 DEF Mine
  <2>2. Abroad' = Abroad
    BY <2>1 DEF Abroad
  <2>3. NoncesApart' /\ OneAbroad' /\ NoStrays'
    BY <2>1, <2>2 DEF NoncesApart, OneAbroad, NoStrays, Busy
  <2>4. NotAhead'
    BY <2>1 DEF NotAhead, HotTypeOK
  <2>5. ASSUME NEW n \in height + 1..next - 1
        PROVE  \/ \E u \in waiting \ {t} : u.nonce = n
               \/ \E c \in Callers : stage[c] # "idle" /\ signed[c].nonce = n
    <3>1. n \in height..next - 1 /\ n # t.nonce
      BY <2>1 DEF HotTypeOK
    <3>. QED
      BY <3>1 DEF NoNonceLost
  <2>6. NoNonceLost'
    BY <2>1, <2>5 DEF NoNonceLost
  <2>. QED
    BY <1>0, <2>3, <2>4, <2>6
<1>13. CASE UNCHANGED hotVars
  BY <1>0, <1>13 DEF hotVars, NoncesApart, OneAbroad, NoStrays, NotAhead, NoNonceLost, Busy, Abroad
<1>. QED
  BY <1>1, <1>2, <1>3, <1>4, <1>5, <1>6, <1>7, <1>8, <1>9, <1>10, <1>11, <1>12, <1>13
     DEF HotNext, GoroutineStep

(* The inductive invariant holds in every reachable state.                 *)
LEMMA HotInvHolds == HotSpec => []HotInv
BY HotStarts, HotSteps, PTL DEF HotSpec

(* For any number of goroutines: the account never competes with itself    *)
(* for a nonce, whatever is lost, late or stale.                           *)
THEOREM NoncesNotContested == HotSpec => []OneTransactionPerNonce
<1>1. HotInv => OneTransactionPerNonce
  <2> SUFFICES ASSUME HotInv, NEW t \in Alive, NEW u \in Alive, t.nonce = u.nonce
               PROVE  t = u
    BY DEF OneTransactionPerNonce
  <2>. QED
    BY DEF HotInv, Alive, Abroad, NoncesApart, OneAbroad, Busy
<1>. QED
  BY <1>1, HotInvHolds, PTL

(* For any number of goroutines: reconciling with stale answers opens no   *)
(* gap, and neither does any verdict of a broadcast.                       *)
THEOREM NoncesFilled == HotSpec => []NoNonceLost
BY HotInvHolds, PTL DEF HotInv
=============================================================================
