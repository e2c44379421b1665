------------------------------ MODULE HotPath ------------------------------
(***************************************************************************)
(* The hot path of rbhtrade: goroutines of one account reserve a nonce,    *)
(* sign a transaction with it and broadcast the bytes, while any of them   *)
(* may reconcile the sequence with the pending nonce a node reports.       *)
(*                                                                         *)
(* The parts are taken at their word: the sequence is a NonceCounter,      *)
(* which NonceSequence implements, and each broadcast is a Submission,     *)
(* which Broadcast implements.  The chain and its mempools are external:   *)
(* they mine the account's transactions in the order of their nonces, may  *)
(* replace a waiting transaction by another one of its nonce, and report   *)
(* pending nonces that may be out of date, at the start as well.           *)
(*                                                                         *)
(* What a caller does with a verdict is its own, as the README says (note  *)
(* 6 of its security notes).  This one follows what the verdicts mean: it  *)
(* sends the same bytes again while the outcome is unknown, and signs      *)
(* another transaction with its nonce only after a rejection, and only if  *)
(* no earlier broadcast of the rejected bytes ended unknown.               *)
(*                                                                         *)
(* Bounds: the account reserves the nonces below Modulus - 1 and signs at  *)
(* most MaxVersions transactions with one of them.                         *)
(***************************************************************************)
EXTENDS NonceCounter

CONSTANT MaxVersions

ASSUME HotPathAssumption ==
    /\ Modulus \in Nat \ {0}
    /\ MaxVersions \in Nat

VARIABLES
    stage,      \* stage[c]: "idle", "reserved", "signed" or "sending"
    signed,     \* signed[c]: the transaction c signed last, with its nonce
    doubt,      \* doubt[c]: a broadcast of these bytes ended unknown
    underway,   \* underway[c]: a request of c's broadcast is on its way
    stray,      \* transactions with requests of broadcasts that have returned
    waiting,    \* transactions in a mempool
    mined,      \* transactions of this program in the chain
    height      \* nonces of the account the chain has used

accountVars == <<stage, signed, doubt, underway>>
chainVars == <<waiting, mined, height>>
hotVars == <<counterVars, accountVars, stray, chainVars>>

(* Version 0 of a nonce stands for the nonce alone, before it is signed.   *)
Transactions == [nonce : Nonces, by : Callers, version : 0..MaxVersions]

HotTypeOK ==
    /\ next \in Nonces
    /\ held \in [Callers -> SUBSET Nonces]
    /\ pending \in [Callers -> Nonces \cup {-1}]
    /\ stage \in [Callers -> {"idle", "reserved", "signed", "sending"}]
    /\ signed \in [Callers -> Transactions]
    /\ doubt \in [Callers -> BOOLEAN]
    /\ underway \in [Callers -> BOOLEAN]
    /\ stray \subseteq Transactions
    /\ waiting \subseteq Transactions
    /\ mined \subseteq Transactions
    /\ height \in Nonces

(* NewNonceSequence: the pending nonce of the warmup may be out of date;   *)
(* the transactions below height are those of an earlier run.              *)
HotInit ==
    /\ CounterInit
    /\ height \in next..Modulus - 1
    /\ stage = [c \in Callers |-> "idle"]
    /\ signed \in [Callers -> {t \in Transactions : t.nonce = 0 /\ t.version = 0}]
    /\ \A c \in Callers : signed[c].by = c
    /\ doubt = [c \in Callers |-> FALSE]
    /\ underway = [c \in Callers |-> FALSE]
    /\ stray = {}
    /\ waiting = {}
    /\ mined = {}
-----------------------------------------------------------------------------
(* The nonce sequence.                                                     *)

Reserve(c) ==
    /\ stage[c] = "idle"
    /\ next < Modulus - 1
    /\ Take(c)
    /\ signed' = [signed EXCEPT ![c] = [nonce |-> next, by |-> c, version |-> 0]]
    /\ stage' = [stage EXCEPT ![c] = "reserved"]
    /\ UNCHANGED <<doubt, underway, stray, chainVars>>

(* The pending nonce of a node is the first that is neither mined nor that *)
(* of a waiting transaction lined up behind the mined ones.  A node that   *)
(* lags, or an answer that travels, reports a pending nonce of before.     *)
Reported(v) == \A k \in height..v - 1 : \E t \in waiting : t.nonce = k

(* AdvanceTo(c) is called with what a node reports.                        *)
Reconcile(c) ==
    /\ Ask(c)
    /\ Reported(pending'[c])
    /\ UNCHANGED <<accountVars, stray, chainVars>>

(* Wrong: the pending nonce is taken for the last one in use.              *)
AdvancePast(c) ==
    /\ pending[c] # -1
    /\ next' = IF pending[c] >= next /\ next < Modulus - 1 THEN pending[c] + 1 ELSE next
    /\ pending' = [pending EXCEPT ![c] = -1]
    /\ UNCHANGED <<held, accountVars, stray, chainVars>>

AdvanceTo(c) ==
    /\ Raise(c)
    /\ UNCHANGED <<accountVars, stray, chainVars>>
-----------------------------------------------------------------------------
(* Signing and broadcasting.                                               *)

(* A call or fees that validateHotTransaction refuses leave everything as  *)
(* it is: the nonce stays reserved for the next attempt.  What is signed   *)
(* is a copy: it does not change with the caller's buffers.                *)
SignDynamicFee(c) ==
    /\ stage[c] = "reserved"
    /\ signed[c].version < MaxVersions
    /\ signed' = [signed EXCEPT ![c].version = @ + 1]
    /\ doubt' = [doubt EXCEPT ![c] = FALSE]
    /\ stage' = [stage EXCEPT ![c] = "signed"]
    /\ UNCHANGED <<counterVars, underway, stray, chainVars>>

(* Every broadcast of signed[c] sends the same RawBytes.                   *)
Broadcast(c) ==
    /\ stage[c] = "signed"
    /\ stage' = [stage EXCEPT ![c] = "sending"]
    /\ underway' = [underway EXCEPT ![c] = TRUE]
    /\ UNCHANGED <<counterVars, signed, doubt, stray, chainVars>>

InPool(t) == t \in waiting \cup mined

(* The broadcast returns; its requests may stay under way without it.      *)
Returns(c, then, unsure) ==
    /\ stage[c] = "sending"
    /\ stage' = [stage EXCEPT ![c] = then]
    /\ doubt' = [doubt EXCEPT ![c] = unsure]
    /\ underway' = [underway EXCEPT ![c] = FALSE]
    /\ stray' = IF underway[c] THEN stray \cup {signed[c]} ELSE stray
    /\ UNCHANGED <<counterVars, signed, chainVars>>

Accepted(c) ==
    /\ InPool(signed[c])
    /\ Returns(c, "idle", FALSE)

(* Wrong: a rejection does not wait for the requests still under way.      *)
RejectedInPart(c) ==
    /\ ~InPool(signed[c])
    /\ Returns(c, IF doubt[c] THEN "signed" ELSE "reserved", doubt[c])

Rejected(c) ==
    /\ ~InPool(signed[c])
    /\ ~underway[c]
    /\ Returns(c, IF doubt[c] THEN "signed" ELSE "reserved", doubt[c])

Unknown(c) == Returns(c, "signed", TRUE)

(* A caller that is not in a broadcast finds that the chain has gone past  *)
(* its nonce, with its transaction or, after a stale start, without.       *)
Overtaken(c) ==
    /\ stage[c] \in {"reserved", "signed"}
    /\ signed[c].nonce < height
    /\ stage' = [stage EXCEPT ![c] = "idle"]
    /\ UNCHANGED <<counterVars, signed, doubt, underway, stray, chainVars>>
-----------------------------------------------------------------------------
(* The chain.                                                              *)

(* A request reaches a node, which takes the transaction, in place of one  *)
(* it may have of the same nonce, or does not take it.                     *)
Offered(t) ==
    \/ /\ t.nonce >= height
       /\ waiting' = {u \in waiting : u.nonce # t.nonce} \cup {t}
    \/ UNCHANGED waiting

RequestArrives(c) ==
    /\ underway[c]
    /\ \E more \in BOOLEAN : underway' = [underway EXCEPT ![c] = more]
    /\ Offered(signed[c])
    /\ UNCHANGED <<counterVars, stage, signed, doubt, stray, mined, height>>

StrayArrives(t) ==
    /\ t \in stray
    /\ stray' \in {stray, stray \ {t}}
    /\ Offered(t)
    /\ UNCHANGED <<counterVars, accountVars, mined, height>>

Mine(t) ==
    /\ t \in waiting
    /\ t.nonce = height
    /\ waiting' = waiting \ {t}
    /\ mined' = mined \cup {t}
    /\ height' = height + 1
    /\ UNCHANGED <<counterVars, accountVars, stray>>
-----------------------------------------------------------------------------
GoroutineStep(c) ==
    \/ Reserve(c) \/ Reconcile(c) \/ AdvanceTo(c)
    \/ SignDynamicFee(c) \/ Broadcast(c)
    \/ Accepted(c) \/ Rejected(c) \/ Unknown(c)
    \/ Overtaken(c)

HotNext ==
    \/ \E c \in Callers : GoroutineStep(c) \/ RequestArrives(c)
    \/ \E t \in stray : StrayArrives(t)
    \/ \E t \in waiting : Mine(t)

HotSpec == HotInit /\ [][HotNext]_hotVars
-----------------------------------------------------------------------------
(* The transactions that a node has or may still be offered.               *)
Alive == stray \cup waiting \cup mined
           \cup {signed[c] : c \in {d \in Callers : stage[d] \in {"signed", "sending"}}}

(* No transaction of the account is ever pushed out by another one of its  *)
(* own: among all that were broadcast and not rejected, no two have the    *)
(* same nonce, however late their requests arrive and however stale the    *)
(* nonces the sequence is reconciled with.                                 *)
OneTransactionPerNonce ==
    \A t, u \in Alive : t.nonce = u.nonce => t = u

(* No gap opens below the sequence: each nonce that the chain has not used *)
(* is that of a waiting transaction, or of a caller that still has to get  *)
(* one there.  A nonce nobody is responsible for would block every later   *)
(* transaction of the account for good.                                    *)
NoNonceLost ==
    \A n \in height..next - 1 :
        \/ \E t \in waiting : t.nonce = n
        \/ \E c \in Callers : stage[c] # "idle" /\ signed[c].nonce = n
=============================================================================
