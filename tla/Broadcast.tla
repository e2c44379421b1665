----------------------------- MODULE Broadcast -----------------------------
(***************************************************************************)
(* Broadcaster.BroadcastRaw of rbhtrade/broadcast.go: one goroutine per    *)
(* relay sends the same signed transaction and posts the answer on a       *)
(* buffered channel; the caller takes answers until one proves that the    *)
(* transaction is in a mempool, then cancels the others and returns.       *)
(*                                                                         *)
(* The relays are external: each keeps a mempool, answers a request at     *)
(* some later time or never, may have its answer lost, may know the        *)
(* transaction already (an earlier attempt, or gossip from another node),  *)
(* and may handle a request whose client has given up.                     *)
(***************************************************************************)
EXTENDS Integers, Sequences, FiniteSets

CONSTANT Relays   \* b.relays; NewBroadcaster refuses an empty list

ASSUME BroadcastAssumption == IsFiniteSet(Relays) /\ Relays # {}

VARIABLES
    pc,          \* the caller: "call", "recv" or "done"
    ctx,         \* derived context: "live" or "done"
    rpc,         \* rpc[r]: goroutine of r: "none", "spawned", "flight",
                 \* "answered" (about to post) or "posted"
    answer,      \* answer[r]: what CallContext returned to it
    results,     \* the channel: relays whose answer is waiting
    seen,        \* relays whose answer the caller has taken
    allRejected, \* the local variable of the loop
    verdict,     \* "none", "invalid", "accepted", "rejected" or "unknown"
    request,     \* request[r]: at the relay: "none", "pending", "handled"
    response,    \* response[r]: what the relay answered
    pool         \* pool[r]: the transaction is in r's mempool

callerVars == <<pc, ctx, seen, allRejected, verdict>>
relayVars == <<request, response, pool>>
vars == <<callerVars, rpc, answer, results, relayVars>>

(* Classes of answers: the expected hash, another hash, a message saying   *)
(* that the relay has this transaction, one of the listed rejections, and  *)
(* everything else: transport errors, timeouts, "nonce too low".           *)
Answers == {"expectedHash", "otherHash", "alreadyKnown", "rejection", "otherError"}

(* The channel never holds more answers than its buffer has slots, so no   *)
(* goroutine of the broadcast can block on its post.                       *)
TypeOK ==
    /\ pc \in {"call", "recv", "done"}
    /\ ctx \in {"live", "done"}
    /\ rpc \in [Relays -> {"none", "spawned", "flight", "answered", "posted"}]
    /\ answer \in [Relays -> Answers \cup {"none"}]
    /\ results \in Seq(Relays)
    /\ Len(results) <= Cardinality(Relays)
    /\ seen \subseteq Relays
    /\ allRejected \in BOOLEAN
    /\ verdict \in {"none", "invalid", "accepted", "rejected", "unknown"}
    /\ request \in [Relays -> {"none", "pending", "handled"}]
    /\ response \in [Relays -> Answers \cup {"none"}]
    /\ pool \in [Relays -> BOOLEAN]

Init ==
    /\ pc = "call"
    /\ ctx \in {"live", "done"}
    /\ rpc = [r \in Relays |-> "none"]
    /\ answer = [r \in Relays |-> "none"]
    /\ results = <<>>
    /\ seen = {}
    /\ allRejected = TRUE
    /\ verdict = "none"
    /\ request = [r \in Relays |-> "none"]
    /\ response = [r \in Relays |-> "none"]
    /\ pool \in [Relays -> BOOLEAN]
-----------------------------------------------------------------------------
(* The caller.                                                             *)

IsAlreadyKnownError(a) == a = "alreadyKnown"

(* Wrong: any error an endpoint answers with is taken for a rejection.     *)
AnyErrorIsDefinitive(a) == a \in {"rejection", "otherError"}

IsDefinitiveBroadcastRejection(a) == a = "rejection"

RefuseInput ==
    /\ pc = "call"
    /\ verdict' = "invalid"
    /\ pc' = "done"
    /\ UNCHANGED <<ctx, seen, allRejected, rpc, answer, results, relayVars>>

SpawnAll ==
    /\ pc = "call"
    /\ rpc' = [r \in Relays |-> "spawned"]
    /\ pc' = "recv"
    /\ UNCHANGED <<ctx, seen, allRejected, verdict, answer, results, relayVars>>

Proves(a) == a = "expectedHash" \/ IsAlreadyKnownError(a)

(* Wrong: whatever hash comes back is taken for an acceptance.             *)
TakeAnyHash ==
    /\ pc = "recv"
    /\ results # <<>>
    /\ answer[Head(results)] \in {"expectedHash", "otherHash", "alreadyKnown"}
    /\ results' = Tail(results)
    /\ seen' = seen \cup {Head(results)}
    /\ ctx' = "done"
    /\ verdict' = "accepted"
    /\ pc' = "done"
    /\ UNCHANGED <<allRejected, rpc, answer, relayVars>>

(* Wrong: the answers are judged once all of them are in.                  *)
TakeAcceptanceLast ==
    /\ pc = "recv"
    /\ results # <<>>
    /\ \A r \in Relays : rpc[r] = "posted"
    /\ Proves(answer[Head(results)])
    /\ results' = Tail(results)
    /\ seen' = seen \cup {Head(results)}
    /\ ctx' = "done"
    /\ verdict' = "accepted"
    /\ pc' = "done"
    /\ UNCHANGED <<allRejected, rpc, answer, relayVars>>

(* cancel() and return of the expected hash.                               *)
TakeAcceptance ==
    /\ pc = "recv"
    /\ results # <<>>
    /\ Proves(answer[Head(results)])
    /\ results' = Tail(results)
    /\ seen' = seen \cup {Head(results)}
    /\ ctx' = "done"
    /\ verdict' = "accepted"
    /\ pc' = "done"
    /\ UNCHANGED <<allRejected, rpc, answer, relayVars>>

(* An error, or a hash that is not the expected one, is kept for the       *)
(* report; the loop goes on.                                               *)
TakeFailure ==
    /\ pc = "recv"
    /\ results # <<>>
    /\ ~Proves(answer[Head(results)])
    /\ results' = Tail(results)
    /\ seen' = seen \cup {Head(results)}
    /\ allRejected' = (allRejected /\ IsDefinitiveBroadcastRejection(answer[Head(results)]))
    /\ UNCHANGED <<pc, ctx, verdict, rpc, answer, relayVars>>

(* Wrong: the call gives up as soon as no answer is waiting.               *)
ConcludeEarly ==
    /\ pc = "recv"
    /\ seen # {}
    /\ results = <<>>
    /\ verdict' = IF allRejected THEN "rejected" ELSE "unknown"
    /\ ctx' = "done"
    /\ pc' = "done"
    /\ UNCHANGED <<seen, allRejected, rpc, answer, results, relayVars>>

(* One answer per relay has been taken and none proved anything; each      *)
(* goroutine posts once, so the loop's count is a set of relays here.      *)
Conclude ==
    /\ pc = "recv"
    /\ seen = Relays
    /\ verdict' = IF allRejected THEN "rejected" ELSE "unknown"
    /\ ctx' = "done"
    /\ pc' = "done"
    /\ UNCHANGED <<seen, allRejected, rpc, answer, results, relayVars>>

(* The context passed in is cancelled or reaches its deadline.             *)
CallerStops ==
    /\ ctx = "live"
    /\ ctx' = "done"
    /\ UNCHANGED <<pc, seen, allRejected, verdict, rpc, answer, results, relayVars>>
-----------------------------------------------------------------------------
(* The goroutine of one relay.                                             *)

Send(r) ==
    /\ rpc[r] = "spawned"
    /\ ctx = "live"
    /\ rpc' = [rpc EXCEPT ![r] = "flight"]
    /\ request' = [request EXCEPT ![r] = "pending"]
    /\ UNCHANGED <<callerVars, answer, results, response, pool>>

CallReturns(r, a) ==
    /\ rpc' = [rpc EXCEPT ![r] = "answered"]
    /\ answer' = [answer EXCEPT ![r] = a]
    /\ UNCHANGED <<callerVars, results, relayVars>>

AnswerArrives(r) ==
    /\ rpc[r] = "flight"
    /\ request[r] = "handled"
    /\ CallReturns(r, response[r])

(* The connection fails, whether or not the relay got the transaction.     *)
TransportFails(r) ==
    /\ rpc[r] = "flight"
    /\ CallReturns(r, "otherError")

(* CallContext returns the context's error once the context is done.       *)
CallAbandoned(r) ==
    /\ rpc[r] \in {"spawned", "flight"}
    /\ ctx = "done"
    /\ CallReturns(r, "otherError")

(* Wrong: make(chan result), without a slot for each relay.                *)
PostUnbuffered(r) ==
    /\ rpc[r] = "answered"
    /\ pc = "recv"
    /\ results' = Append(results, r)
    /\ rpc' = [rpc EXCEPT ![r] = "posted"]
    /\ UNCHANGED <<callerVars, answer, relayVars>>

(* results <- result{...}: blocks while the buffer, one slot per relay, is *)
(* full.                                                                   *)
Post(r) ==
    /\ rpc[r] = "answered"
    /\ Len(results) < Cardinality(Relays)
    /\ results' = Append(results, r)
    /\ rpc' = [rpc EXCEPT ![r] = "posted"]
    /\ UNCHANGED <<callerVars, answer, relayVars>>
-----------------------------------------------------------------------------
(* The relays.                                                             *)

(* A node says it knows the transaction only if it does, and rejects for a *)
(* listed reason only what it does not have; a node that answers with the  *)
(* expected hash has it from then on, and one that answers with another    *)
(* hash may have kept it.  Any other answer can come from either kind.     *)
RelayHandles(r) ==
    /\ request[r] = "pending"
    /\ request' = [request EXCEPT ![r] = "handled"]
    /\ \E a \in Answers :
         /\ a = "alreadyKnown" => pool[r]
         /\ a = "rejection" => ~pool[r]
         /\ response' = [response EXCEPT ![r] = a]
         /\ \/ a = "expectedHash" /\ pool' = [pool EXCEPT ![r] = TRUE]
            \/ a = "otherHash" /\ \E kept \in BOOLEAN : pool' = [pool EXCEPT ![r] = @ \/ kept]
            \/ a \notin {"expectedHash", "otherHash"} /\ UNCHANGED pool
    /\ UNCHANGED <<callerVars, rpc, answer, results>>

Gossip(r, s) ==
    /\ pool[r]
    /\ ~pool[s]
    /\ pool' = [pool EXCEPT ![s] = TRUE]
    /\ UNCHANGED <<callerVars, rpc, answer, results, request, response>>

Finished ==
    /\ pc = "done"
    /\ UNCHANGED vars
-----------------------------------------------------------------------------
CallerStep == RefuseInput \/ SpawnAll \/ TakeAcceptance \/ TakeFailure \/ Conclude

Next ==
    \/ CallerStep
    \/ CallerStops
    \/ \E r \in Relays :
         \/ Send(r) \/ AnswerArrives(r) \/ TransportFails(r) \/ CallAbandoned(r) \/ Post(r)
         \/ RelayHandles(r)
         \/ \E s \in Relays : Gossip(r, s)
    \/ Finished

(* Goroutines that can run do run; a call whose context is done returns.   *)
(* Nothing is assumed of relays or networks: a request may hang for ever.  *)
Fairness ==
    /\ WF_vars(CallerStep)
    /\ \A r \in Relays : WF_vars(CallAbandoned(r)) /\ WF_vars(Post(r))

Spec == Init /\ [][Next]_vars /\ Fairness
-----------------------------------------------------------------------------
(* A returned hash is backed by a mempool: some relay has the transaction. *)
AcceptedIsInAPool == verdict = "accepted" => \E r \in Relays : pool[r]

(* ErrBroadcastRejected frees the caller to reuse the nonce: no relay has  *)
(* the transaction, none of its requests is still on its way, and none     *)
(* lost an answer that might have been an acceptance.                      *)
RejectedIsNowhere ==
    verdict = "rejected" => \A r \in Relays : ~pool[r] /\ request[r] = "handled"

(* A failure is reported only after every relay was heard, and never when  *)
(* one of the answers proved that the transaction was taken.               *)
FailureHeardEveryone ==
    verdict \in {"rejected", "unknown"} =>
        \A r \in Relays : rpc[r] = "posted" /\ ~Proves(answer[r])

(* A broadcast is a submission: whatever relays, gossip, lost answers and  *)
(* the caller's context do, each step of it is one that a program which    *)
(* believes in Submission expects.  In particular a transaction that was   *)
(* reported as rejected stays out of every mempool for good.               *)
Promise == INSTANCE Submission WITH
    inPool <- \E r \in Relays : pool[r],
    underway <- \E r \in Relays : rpc[r] = "spawned" \/ request[r] = "pending"
ImplementsSubmission == Promise!SubmissionSpec

(* "returns as soon as one endpoint accepts it": one proof of acceptance   *)
(* ends the call although every other request may hang.                    *)
AcceptanceReturns ==
    (pc = "recv" /\ \E r \in Relays : Proves(answer[r])) ~> (verdict = "accepted")

(* The goroutines end after the caller has gone: none stays blocked on the *)
(* channel nobody reads, and none on a relay that never answers.           *)
GoroutinesEnd ==
    (pc = "done") ~> \A r \in Relays : rpc[r] \in {"none", "posted"}

(* The comment on Broadcast: the transaction is sent "to every warm relay". *)
(* Stated of a call that succeeded and whose goroutines have all ended.    *)
EveryRelayReached ==
    (verdict = "accepted" /\ \A r \in Relays : rpc[r] = "posted")
        => \A r \in Relays : request[r] # "none"
=============================================================================
