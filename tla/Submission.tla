----------------------------- MODULE Submission -----------------------------
(***************************************************************************)
(* What a program may believe of one broadcast of a signed transaction.    *)
(* The transaction is in some mempool or in none, and a request may be on  *)
(* its way that can still put it into one.  A verdict is given once:       *)
(*   - "invalid": nothing was sent;                                        *)
(*   - "accepted": it is in a mempool;                                     *)
(*   - "rejected": it is in none, and nothing of this broadcast can put it *)
(*     there any more;                                                     *)
(*   - "unknown": nothing is claimed.                                      *)
(***************************************************************************)
VARIABLES
    verdict,   \* "none" until the broadcast returns
    inPool,    \* some node has the transaction
    underway   \* a request is on its way to a node, or about to be

submissionVars == <<verdict, inPool, underway>>

SubmissionInit ==
    /\ verdict = "none"
    /\ inPool \in BOOLEAN
    /\ underway = FALSE

Submit ==
    /\ verdict = "none"
    /\ ~underway
    /\ underway' = TRUE
    /\ UNCHANGED <<verdict, inPool>>

(* A request reaches its node or is lost; another may still be under way.  *)
Arrives ==
    /\ underway
    /\ inPool' \in {inPool, TRUE}
    /\ underway' \in BOOLEAN
    /\ UNCHANGED verdict

Returns(v) ==
    /\ verdict = "none"
    /\ verdict' = v
    /\ UNCHANGED <<inPool, underway>>

Refuse == ~underway /\ Returns("invalid")
Accept == inPool /\ Returns("accepted")
Reject == ~inPool /\ ~underway /\ Returns("rejected")
GiveUp == Returns("unknown")

SubmissionNext == Submit \/ Arrives \/ Refuse \/ Accept \/ Reject \/ GiveUp

SubmissionSpec == SubmissionInit /\ [][SubmissionNext]_submissionVars
=============================================================================
