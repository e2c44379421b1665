----------------------------- MODULE ClientInit -----------------------------
(***************************************************************************)
(* The start of a program: Dial of adapters/pons/client.go opens a         *)
(* connection, and NewClientChecked of rbhtrade/client.go checks over it   *)
(* that every contract of the address book has code, with one goroutine    *)
(* and one error slot per contract.                                        *)
(*                                                                         *)
(* The contracts are 1..Deployments in the order of the address book.  A   *)
(* call of the node may hang as long as the caller's context is live.      *)
(***************************************************************************)
EXTENDS Integers

CONSTANT Deployments   \* 32 in the code

ASSUME DeploymentAssumption == Deployments \in Nat

VARIABLES
    pc,       \* "dial", "chainid", "options", "dialled", "wait" or "done"
    conn,     \* the connection: "none", "open" or "closed"
    ctx,      \* the caller's context: "live" or "done"
    check,    \* check[d]: "idle", "reading" or "ended"
    errs,     \* errs[d]: the error slot, "nil", "unread" or "nocode"
    running,  \* the counter of the wait group
    verdict,  \* "none" yet, the "client", or the error of "Dial", of
              \* "NewClient" or of a "contract"
    named     \* the contract that the error names, 0 for none

vars == <<pc, conn, ctx, check, errs, running, verdict, named>>

Contracts == 1..Deployments

Init ==
    /\ pc = "dial"
    /\ conn = "none"
    /\ ctx \in {"live", "done"}
    /\ check = [d \in Contracts |-> "idle"]
    /\ errs = [d \in Contracts |-> "nil"]
    /\ running = 0
    /\ verdict = "none"
    /\ named = 0
-----------------------------------------------------------------------------
(* Dial                                                                    *)

(* A nil context, or DialContext fails: there is no connection to close.   *)
DialFails ==
    /\ pc = "dial"
    /\ pc' = "done"
    /\ verdict' = "Dial"
    /\ UNCHANGED <<conn, ctx, check, errs, running, named>>

DialContext ==
    /\ pc = "dial"
    /\ conn' = "open"
    /\ pc' = "chainid"
    /\ UNCHANGED <<ctx, check, errs, running, verdict, named>>

(* Wrong: the connection outlives a failed Dial.                           *)
GiveUpOpen ==
    /\ pc' = "done"
    /\ verdict' = "Dial"
    /\ UNCHANGED <<conn, ctx, check, errs, running, named>>

GiveUp ==
    /\ conn' = "closed"
    /\ pc' = "done"
    /\ verdict' = "Dial"
    /\ UNCHANGED <<ctx, check, errs, running, named>>

(* The chain id cannot be read, or is not that of Robinhood Chain.         *)
WrongChain == pc = "chainid" /\ GiveUp

ReadChainID ==
    /\ pc = "chainid"
    /\ pc' = "options"
    /\ UNCHANGED <<conn, ctx, check, errs, running, verdict, named>>

(* The addresses that the options set are not valid.                       *)
InvalidAddresses == pc = "options" /\ GiveUp

Dialled ==
    /\ pc = "options"
    /\ pc' = "dialled"
    /\ UNCHANGED <<conn, ctx, check, errs, running, verdict, named>>
-----------------------------------------------------------------------------
(* NewClientChecked                                                        *)

(* NewClient fails: no context, or again the chain id.                     *)
NewClientFails ==
    /\ pc = "dialled"
    /\ pc' = "done"
    /\ verdict' = "NewClient"
    /\ UNCHANGED <<conn, ctx, check, errs, running, named>>

SpawnChecks ==
    /\ pc = "dialled"
    /\ pc' = "wait"
    /\ check' = [d \in Contracts |-> "reading"]
    /\ running' = Deployments
    /\ UNCHANGED <<conn, ctx, errs, verdict, named>>

(* Wrong: wg.Done is not deferred, and the early return skips it.          *)
CodeUnreadNotDone(d) ==
    /\ check[d] = "reading"
    /\ check' = [check EXCEPT ![d] = "ended"]
    /\ errs' = [errs EXCEPT ![d] = "unread"]
    /\ UNCHANGED <<pc, conn, ctx, running, verdict, named>>

CodeUnread(d) ==
    /\ check[d] = "reading"
    /\ check' = [check EXCEPT ![d] = "ended"]
    /\ errs' = [errs EXCEPT ![d] = "unread"]
    /\ running' = running - 1
    /\ UNCHANGED <<pc, conn, ctx, verdict, named>>

NoCode(d) ==
    /\ check[d] = "reading"
    /\ check' = [check EXCEPT ![d] = "ended"]
    /\ errs' = [errs EXCEPT ![d] = "nocode"]
    /\ running' = running - 1
    /\ UNCHANGED <<pc, conn, ctx, verdict, named>>

HasCode(d) ==
    /\ check[d] = "reading"
    /\ check' = [check EXCEPT ![d] = "ended"]
    /\ running' = running - 1
    /\ UNCHANGED <<pc, conn, ctx, errs, verdict, named>>

Errors == {d \in Contracts : errs[d] # "nil"}

(* Wrong: the slots are looked at while checks are still under way.        *)
AcceptEarly ==
    /\ pc = "wait"
    /\ Errors = {}
    /\ pc' = "done"
    /\ verdict' = "client"
    /\ UNCHANGED <<conn, ctx, check, errs, running, named>>

Accept ==
    /\ pc = "wait"
    /\ running = 0
    /\ Errors = {}
    /\ pc' = "done"
    /\ verdict' = "client"
    /\ UNCHANGED <<conn, ctx, check, errs, running, named>>

(* The first slot with an error, in the order of the address book.         *)
Reject ==
    /\ pc = "wait"
    /\ running = 0
    /\ \E d \in Errors :
         /\ \A e \in Errors : d <= e
         /\ named' = d
    /\ verdict' = "contract"
    /\ pc' = "done"
    /\ UNCHANGED <<conn, ctx, check, errs, running>>

CallerStops ==
    /\ ctx = "live"
    /\ ctx' = "done"
    /\ UNCHANGED <<pc, conn, check, errs, running, verdict, named>>

(* The program has its client, or has given up.                            *)
Started == pc = "done" /\ UNCHANGED vars

Dial == DialFails \/ DialContext \/ WrongChain \/ ReadChainID
          \/ InvalidAddresses \/ Dialled
NewClientChecked == NewClientFails \/ SpawnChecks \/ Accept \/ Reject
Check(d) == CodeUnread(d) \/ NoCode(d) \/ HasCode(d)

Next ==
    \/ Dial
    \/ NewClientChecked
    \/ \E d \in Contracts : Check(d)
    \/ CallerStops
    \/ Started

(* A call to the node returns once its context is done; what needs no      *)
(* answer of the node happens in any case.                                 *)
Fairness ==
    /\ WF_vars(ctx = "done" /\ (Dial \/ NewClientChecked))
    /\ WF_vars(Accept \/ Reject)
    /\ \A d \in Contracts : WF_vars(ctx = "done" /\ Check(d))

Spec == Init /\ [][Next]_vars /\ Fairness
-----------------------------------------------------------------------------
(* What the program is told agrees with what the goroutines found, in      *)
(* whatever order they ended: it has a client only if every contract was   *)
(* checked and has code, and an error names the first contract that has    *)
(* not, with nothing left under way.                                       *)
VerdictOfAllChecks ==
    /\ verdict = "client" =>
         \A d \in Contracts : check[d] = "ended" /\ errs[d] = "nil"
    /\ verdict = "contract" =>
         /\ \A d \in Contracts : check[d] = "ended"
         /\ named \in Contracts /\ errs[named] # "nil"
         /\ \A d \in 1..named - 1 : errs[d] = "nil"

(* A connection that was opened has an owner: a failed Dial leaves none    *)
(* behind, whichever of its steps failed, and one that succeeded never     *)
(* hands over a connection that is closed.                                 *)
ConnectionHasOwner ==
    /\ verdict = "Dial" => conn # "open"
    /\ pc \in {"dialled", "wait"} \/ verdict \in {"NewClient", "contract", "client"}
         => conn = "open"

(* The start ends once the caller's context is done, however many of the   *)
(* checks hang: each ends with an error of its own and is counted.         *)
StartEnds == ctx = "done" ~> pc = "done"
=============================================================================
