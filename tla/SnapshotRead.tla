---------------------------- MODULE SnapshotRead ----------------------------
(***************************************************************************)
(* The composite reads of adapters/pons (QuoteBuy, QuoteSell, CurveState,  *)
(* TokenMetadata, VestState): snapshotCallOpts settles which block the     *)
(* call reads, then every field is a task of parallelCalls.  The chain     *)
(* grows meanwhile, so two fields of one answer may come from two blocks   *)
(* unless the call options name the block.                                 *)
(*                                                                         *)
(* The pool of workers is ParallelCalls; a task that succeeds also reads   *)
(* its field.  The five operations read alike, so which of them was called *)
(* is settled when the batch has returned.  Bound: the chain grows up to   *)
(* block MaxHead.  A block read by number is taken to keep its content: no *)
(* reorganisation; pending state, for which go-ethereum ignores the number *)
(* of a block, is taken for the newest block.                              *)
(***************************************************************************)
EXTENDS ParallelCalls

CONSTANT MaxHead

ASSUME SnapshotAssumption == MaxHead \in Nat \ {0}

VARIABLES
    phase,    \* "opts", "pinned", "latest" or "refused"
    wanted,   \* the block the caller's options name, 0 if none
    tag,      \* BlockNumber of the call options, 0 for none (or Pending)
    head,     \* the newest block of the chain
    asked,    \* history: the head when the call was made
    got,      \* got[t]: the block field t was read from, 0 if it was not
    reply     \* "none", "error", "closed" (ErrCurveClosed), "quote" or "fields"

callVars == <<phase, wanted, tag, head, asked, got>>
readVars == <<callVars, reply>>
allVars == <<vars, readVars>>

CallInit ==
    /\ phase = "opts"
    /\ head \in 1..MaxHead
    /\ asked = head
    /\ wanted \in 0..head
    /\ tag = wanted
    /\ got = [t \in Tasks |-> 0]
    /\ reply = "none"

ReadInit == Init /\ n = MaxTasks /\ CallInit
-----------------------------------------------------------------------------
(* snapshotCallOpts                                                        *)

(* A nil context, or a nil backend, or an argument refused beforehand.     *)
Refuse ==
    /\ phase = "opts"
    /\ phase' = "refused"
    /\ reply' = "error"
    /\ UNCHANGED <<vars, wanted, tag, head, asked, got>>

KeepExplicitBlock ==
    /\ phase = "opts"
    /\ ctx # "absent"
    /\ tag > 0
    /\ phase' = "pinned"
    /\ UNCHANGED <<vars, wanted, tag, head, asked, got, reply>>

(* Wrong: the head is read one block behind, from a cache.                 *)
PinCached ==
    /\ phase = "opts"
    /\ ctx # "absent"
    /\ tag = 0
    /\ head > 1
    /\ phase' = "pinned"
    /\ tag' = head - 1
    /\ UNCHANGED <<vars, wanted, head, asked, got, reply>>

(* reader.BlockNumber succeeds.                                            *)
PinLatestBlock ==
    /\ phase = "opts"
    /\ ctx # "absent"
    /\ tag = 0
    /\ phase' = "pinned"
    /\ tag' = head
    /\ UNCHANGED <<vars, wanted, head, asked, got, reply>>

(* The caller asked for the pending state, or the backend cannot tell its  *)
(* block number: the options stay without a block.                         *)
ReadUnpinned ==
    /\ phase = "opts"
    /\ ctx # "absent"
    /\ tag = 0
    /\ phase' = "latest"
    /\ UNCHANGED <<vars, wanted, tag, head, asked, got, reply>>

(* reader.BlockNumber fails.                                               *)
PinFails ==
    /\ phase = "opts"
    /\ ctx # "absent"
    /\ tag = 0
    /\ phase' = "refused"
    /\ reply' = "error"
    /\ UNCHANGED <<vars, wanted, tag, head, asked, got>>
-----------------------------------------------------------------------------
(* Wrong: the task's call options lose the block of the batch.             *)
FieldAtHead == head

(* taskCallOpts copies the options of the batch, the block included.       *)
FieldBlock == IF phase = "pinned" THEN tag ELSE head

ReadField(w) ==
    /\ phase \in {"pinned", "latest"}
    /\ TaskSucceeds(w)
    /\ got' = [got EXCEPT ![job[w]] = FieldBlock]
    /\ UNCHANGED <<phase, wanted, tag, head, asked, reply>>

PoolStep ==
    /\ phase \in {"pinned", "latest"}
    /\ \/ Scheduler
       \/ \E w \in Workers : TaskFails(w) \/ TaskAborts(w) \/ WorkerStep(w)
    /\ UNCHANGED readVars

(* The operation looks at the batch's error first, then at its fields.     *)
Replies(answers) ==
    /\ pc = "done"
    /\ reply = "none"
    /\ reply' \in IF result.kind = "nil" THEN answers ELSE {"error"}
    /\ UNCHANGED <<vars, callVars>>

(* A quote is refused for a curve that is closed, or priced by             *)
(* QuoteBuyFromState or QuoteSellFromState, which may refuse it.           *)
QuoteBuy == Replies({"closed", "quote", "error"})
QuoteSell == Replies({"closed", "quote", "error"})
CurveState == Replies({"fields"})
TokenMetadata == Replies({"fields"})
VestState == Replies({"fields"})

NewBlock ==
    /\ head < MaxHead
    /\ head' = head + 1
    /\ UNCHANGED <<vars, phase, wanted, tag, asked, got, reply>>

CallerCancels == ParentDone /\ UNCHANGED readVars

Answered == reply # "none" /\ UNCHANGED allVars

ReadNext ==
    \/ Refuse \/ KeepExplicitBlock \/ PinLatestBlock \/ ReadUnpinned \/ PinFails
    \/ \E w \in Workers : ReadField(w)
    \/ PoolStep
    \/ QuoteBuy \/ QuoteSell \/ CurveState \/ TokenMetadata \/ VestState
    \/ NewBlock
    \/ CallerCancels
    \/ Answered

ReadSpec == ReadInit /\ [][ReadNext]_allVars
-----------------------------------------------------------------------------
FromFields == reply \in {"closed", "quote", "fields"}

(* A pinned answer is a snapshot: every field was read from one block, the *)
(* one the caller named if it named one, although the chain grew between   *)
(* the reads and the reads ran in any order.                               *)
SnapshotIsOneBlock ==
    FromFields /\ phase = "pinned" =>
        /\ \A t \in 1..n : got[t] = tag
        /\ wanted # 0 => tag = wanted

(* No answer is older than the question: unless the caller named a block,  *)
(* no field comes from before the head at the time of the call, and no     *)
(* answer is made from a field that was not read.                          *)
AnswerIsNotStale ==
    FromFields /\ wanted = 0 => \A t \in 1..n : got[t] \in asked..head
=============================================================================
