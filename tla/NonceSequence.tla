--------------------------- MODULE NonceSequence ---------------------------
(***************************************************************************)
(* NonceSequence of rbhtrade/hotpath.go, shared by goroutines that reserve *)
(* nonces (one atomic add) while others reconcile it with the pending      *)
(* nonce an RPC node reported (AdvanceTo: a load, then a compare-and-swap  *)
(* that is retried from a fresh load when it loses).  The reported nonce   *)
(* may be arbitrarily stale or ahead.                                      *)
(*                                                                         *)
(* The counter is an atomic.Uint64: it wraps at Modulus, 2^64 in the code. *)
(* Bound: nothing is reserved after the wrap, which no chain reaches; what *)
(* the properties claim, they claim up to it.  The receiver is not nil.    *)
(***************************************************************************)
EXTENDS Integers

CONSTANTS
    Callers,   \* goroutines sharing the sequence
    Modulus    \* number of values of the counter

ASSUME NonceAssumption == Modulus \in Nat /\ Modulus > 1

VARIABLES
    next,      \* NonceSequence.next
    pc,        \* pc[c]: "idle", or inside AdvanceTo: "load" or "cas"
    target,    \* target[c]: the argument of AdvanceTo, 0 outside the call
    current,   \* current[c]: the value it loaded, 0 outside the swap
    held,      \* history: held[c] is the set of nonces Reserve gave to c
    skipped,   \* history: the nonces AdvanceTo jumped over
    start,     \* history: the value NewNonceSequence stored
    floor,     \* history: the largest target an AdvanceTo returned for
    wrapped    \* history: the counter went from Modulus - 1 to 0

vars == <<next, pc, target, current, held, skipped, start, floor, wrapped>>

Nonces == 0..Modulus - 1

(* The counter, the values loaded from it and every nonce handed out are   *)
(* values of the counter's width: an addition that overflows wraps.        *)
TypeOK ==
    /\ next \in Nonces
    /\ pc \in [Callers -> {"idle", "load", "cas"}]
    /\ target \in [Callers -> Nonces]
    /\ current \in [Callers -> Nonces]
    /\ held \in [Callers -> SUBSET Nonces]
    /\ skipped \in SUBSET Nonces
    /\ start \in Nonces
    /\ floor \in Nonces
    /\ wrapped \in BOOLEAN

(* NewNonceSequence: the counter starts at the pending nonce of the warmup. *)
Init ==
    /\ start \in Nonces
    /\ next = start
    /\ pc = [c \in Callers |-> "idle"]
    /\ target = [c \in Callers |-> 0]
    /\ current = [c \in Callers |-> 0]
    /\ held = [c \in Callers |-> {}]
    /\ skipped = {}
    /\ floor = 0
    /\ wrapped = FALSE

(* Wrong: the value after the add is returned.                             *)
ReserveAddAndGet(c) ==
    /\ pc[c] = "idle"
    /\ ~wrapped
    /\ next' = IF next = Modulus - 1 THEN 0 ELSE next + 1
    /\ held' = [held EXCEPT ![c] = @ \cup {next'}]
    /\ wrapped' = (next = Modulus - 1)
    /\ UNCHANGED <<pc, target, current, skipped, start, floor>>

(* s.next.Add(1) - 1                                                       *)
Reserve(c) ==
    /\ pc[c] = "idle"
    /\ ~wrapped
    /\ held' = [held EXCEPT ![c] = @ \cup {next}]
    /\ next' = IF next = Modulus - 1 THEN 0 ELSE next + 1
    /\ wrapped' = (next = Modulus - 1)
    /\ UNCHANGED <<pc, target, current, skipped, start, floor>>

AdvanceTo(c) ==
    /\ pc[c] = "idle"
    /\ \E v \in Nonces : target' = [target EXCEPT ![c] = v]
    /\ pc' = [pc EXCEPT ![c] = "load"]
    /\ UNCHANGED <<next, current, held, skipped, start, floor, wrapped>>

AtLeast(a, b) == IF a > b THEN a ELSE b

(* current := s.next.Load(), and the loop condition on it.                 *)
Load(c) ==
    /\ pc[c] = "load"
    /\ \/ /\ target[c] > next
          /\ current' = [current EXCEPT ![c] = next]
          /\ pc' = [pc EXCEPT ![c] = "cas"]
          /\ UNCHANGED <<target, floor>>
       \/ /\ target[c] <= next
          /\ pc' = [pc EXCEPT ![c] = "idle"]
          /\ floor' = AtLeast(floor, target[c])
          /\ target' = [target EXCEPT ![c] = 0]
          /\ UNCHANGED current
    /\ UNCHANGED <<next, held, skipped, start, wrapped>>

(* Wrong: a plain store in place of the compare-and-swap.                  *)
StoreTarget(c) ==
    /\ pc[c] = "cas"
    /\ next' = target[c]
    /\ skipped' = skipped \cup current[c]..target[c] - 1
    /\ floor' = AtLeast(floor, target[c])
    /\ pc' = [pc EXCEPT ![c] = "idle"]
    /\ target' = [target EXCEPT ![c] = 0]
    /\ current' = [current EXCEPT ![c] = 0]
    /\ UNCHANGED <<held, start, wrapped>>

(* s.next.CompareAndSwap(current, next) succeeds.                          *)
CasSucceeds(c) ==
    /\ pc[c] = "cas"
    /\ next = current[c]
    /\ next' = target[c]
    /\ skipped' = skipped \cup current[c]..target[c] - 1
    /\ floor' = AtLeast(floor, target[c])
    /\ pc' = [pc EXCEPT ![c] = "idle"]
    /\ target' = [target EXCEPT ![c] = 0]
    /\ current' = [current EXCEPT ![c] = 0]
    /\ UNCHANGED <<held, start, wrapped>>

(* Wrong: the retry does not load the counter again.                       *)
CasRetriesStale(c) ==
    /\ pc[c] = "cas"
    /\ next # current[c]
    /\ pc' = pc
    /\ UNCHANGED <<next, target, current, held, skipped, start, floor, wrapped>>

(* The swap lost: somebody moved the counter, the loop loads it again.     *)
CasFails(c) ==
    /\ pc[c] = "cas"
    /\ next # current[c]
    /\ pc' = [pc EXCEPT ![c] = "load"]
    /\ current' = [current EXCEPT ![c] = 0]
    /\ UNCHANGED <<next, target, held, skipped, start, floor, wrapped>>

AdvanceStep(c) == Load(c) \/ CasSucceeds(c) \/ CasFails(c)

Next == \E c \in Callers : Reserve(c) \/ AdvanceTo(c) \/ AdvanceStep(c)

(* A goroutine inside AdvanceTo is eventually scheduled; nobody has to     *)
(* call Reserve or AdvanceTo.                                              *)
Spec == Init /\ [][Next]_vars /\ \A c \in Callers : WF_vars(AdvanceStep(c))
-----------------------------------------------------------------------------
(* No two goroutines are ever given the same nonce, whatever stale or early *)
(* values AdvanceTo is called with meanwhile ("stale RPC responses cannot   *)
(* reuse a nonce").                                                         *)
DistinctNonces ==
    wrapped \/ \A c, d \in Callers : c # d => held[c] \cap held[d] = {}

(* Every nonce between the start and the counter was handed out or was     *)
(* jumped over by an AdvanceTo that had seen it unused, never both: a      *)
(* nonce that fell through would block every later transaction.            *)
NoncesAccounted ==
    wrapped \/ /\ (UNION {held[c] : c \in Callers}) \cup skipped = start..next - 1
               /\ \A c \in Callers : held[c] \cap skipped = {}

(* Once an AdvanceTo(v) has returned, no nonce below v is handed out, even *)
(* when its compare-and-swap lost races against other goroutines.          *)
AdvanceTakesEffect ==
    [][\A c \in Callers : \A v \in held'[c] \ held[c] : wrapped \/ v >= floor]_vars

(* Reserve and AdvanceTo behave as if each took effect at one instant.     *)
Counter == INSTANCE NonceCounter WITH
    pending <- [c \in Callers |-> IF pc[c] = "idle" THEN -1 ELSE target[c]]
ImplementsCounter == Counter!CounterSpec

(* AdvanceTo returns although other goroutines keep making it lose: each   *)
(* lost race has moved the counter closer to its target.                   *)
AdvanceReturns ==
    \A c \in Callers : (pc[c] # "idle") ~> (pc[c] = "idle" \/ wrapped)
=============================================================================
