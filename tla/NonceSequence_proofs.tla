------------------------ MODULE NonceSequence_proofs ------------------------
(***************************************************************************)
(* Proofs about NonceSequence for any set of callers and any modulus.      *)
(***************************************************************************)
EXTENDS NonceSequence, TLAPS

USE DEF Nonces

(* The types are preserved: in particular the counter and the value an     *)
(* AdvanceTo loaded stay within the modulus.                               *)
THEOREM TypeCorrect == Spec => []TypeOK
<1>1. Init => TypeOK
  <2> SUFFICES ASSUME Init PROVE TypeOK
    OBVIOUS
  <2>1. 0 \in Nonces /\ {} \in SUBSET Nonces
    BY NonceAssumption
  <2>2. held \in [Callers -> SUBSET Nonces]
    BY DEF Init
  <2>3. pc \in [Callers -> {"idle", "load", "cas"}]
    BY DEF Init
  <2>4. target \in [Callers -> Nonces] /\ current \in [Callers -> Nonces]
    BY <2>1 DEF Init
  <2>. QED
    BY <2>1, <2>2, <2>3, <2>4 DEF Init, TypeOK
<1>2. TypeOK /\ [Next]_vars => TypeOK'
  <2> SUFFICES ASSUME TypeOK, [Next]_vars PROVE TypeOK'
    OBVIOUS
  <2> USE NonceAssumption DEF TypeOK
  <2>1. ASSUME NEW c \in Callers, Reserve(c) PROVE TypeOK'
    BY <2>1 DEF Reserve
  <2>2. ASSUME NEW c \in Callers, AdvanceTo(c) PROVE TypeOK'
    BY <2>2 DEF AdvanceTo
  <2>3. ASSUME NEW c \in Callers, Load(c) PROVE TypeOK'
    BY <2>3 DEF Load, AtLeast
  <2>4. ASSUME NEW c \in Callers, CasSucceeds(c) PROVE TypeOK'
    <3>1. skipped' \in SUBSET Nonces
      <4>1. current[c] \in Nonces /\ target[c] \in Nonces
        OBVIOUS
      <4>2. \A v \in current[c]..target[c] - 1 : v \in Nonces
        BY <4>1
      <4>. QED
        BY <2>4, <4>2 DEF CasSucceeds
    <3>2. floor' \in Nonces
      BY <2>4 DEF CasSucceeds, AtLeast
    <3>3. pc' \in [Callers -> {"idle", "load", "cas"}]
      BY <2>4 DEF CasSucceeds
    <3>4. target' \in [Callers -> Nonces] /\ current' \in [Callers -> Nonces]
      BY <2>4 DEF CasSucceeds
    <3>. QED
      BY <2>4, <3>1, <3>2, <3>3, <3>4 DEF CasSucceeds
  <2>5. ASSUME NEW c \in Callers, CasFails(c) PROVE TypeOK'
    BY <2>5 DEF CasFails
  <2>6. CASE UNCHANGED vars
    BY <2>6 DEF vars
  <2>. QED
    BY <2>1, <2>2, <2>3, <2>4, <2>5, <2>6 DEF Next, AdvanceStep
<1>. QED
  BY <1>1, <1>2, PTL DEF Spec

(* What an AdvanceTo knows between its load and its swap: the value it     *)
(* loaded was below its target.                                            *)
CasRises == \A c \in Callers : pc[c] = "cas" => current[c] < target[c]

(* Until the wrap, everything handed out or skipped lies between the start *)
(* and the counter, and the counter is past every completed AdvanceTo.     *)
Behind ==
    ~wrapped =>
      /\ start <= next
      /\ floor <= next
      /\ \A c \in Callers : \A v \in held[c] : start <= v /\ v < next
      /\ \A v \in skipped : start <= v /\ v < next

NonceInv == TypeOK /\ CasRises /\ Behind /\ DistinctNonces /\ NoncesAccounted

(* The inductive invariant holds in every reachable state: an addition     *)
(* keeps the handed-out nonces an interval, a successful swap extends it   *)
(* by the nonces it jumps over.                                            *)
LEMMA NonceInvHolds == Spec => []NonceInv
<1>1. Init /\ TypeOK => NonceInv
  <2> SUFFICES ASSUME Init, TypeOK PROVE NonceInv
    OBVIOUS
  <2>1. CasRises /\ Behind /\ DistinctNonces
    BY DEF Init, TypeOK, CasRises, Behind, DistinctNonces
  <2>2. (UNION {held[c] : c \in Callers}) = {}
    BY DEF Init
  <2>3. start..next - 1 = {}
    BY DEF Init, TypeOK
  <2>4. NoncesAccounted
    BY <2>2, <2>3 DEF Init, NoncesAccounted
  <2>. QED
    BY <2>1, <2>4 DEF NonceInv
<1>2. NonceInv /\ TypeOK' /\ [Next]_vars => NonceInv'
  <2> SUFFICES ASSUME NonceInv, TypeOK', [Next]_vars PROVE NonceInv'
    OBVIOUS
  <2> USE NonceAssumption DEF NonceInv
  <2>1. ASSUME NEW c \in Callers, Reserve(c) PROVE NonceInv'
    <3>1. wrapped' \/ next' = next + 1
      BY <2>1 DEF Reserve, TypeOK
    <3>2. CasRises'
      BY <2>1 DEF Reserve, CasRises
    <3>3. Behind'
      BY <2>1, <3>1 DEF Reserve, Behind, TypeOK
    <3>4. DistinctNonces'
      BY <2>1 DEF Reserve, Behind, DistinctNonces, TypeOK
    <3>5. NoncesAccounted'
      <4>1. CASE wrapped'
        BY <4>1 DEF NoncesAccounted
      <4>2. CASE ~wrapped'
        <5>1. ~wrapped /\ next' = next + 1 /\ start' = start /\ skipped' = skipped
          BY <2>1, <3>1, <4>2 DEF Reserve
        <5>2. (UNION {held'[d] : d \in Callers}) = (UNION {held[d] : d \in Callers}) \cup {next}
          <6>1. \A d \in Callers : held'[d] = IF d = c THEN held[d] \cup {next} ELSE held[d]
            BY <2>1 DEF Reserve, TypeOK
          <6>. QED
            BY <6>1
        <5>3. start..next' - 1 = (start..next - 1) \cup {next}
          BY <5>1 DEF TypeOK, Behind
        <5>4. \A d \in Callers : held'[d] \cap skipped' = {}
          BY <2>1, <5>1 DEF Reserve, NoncesAccounted, Behind, TypeOK
        <5>. QED
          BY <5>1, <5>2, <5>3, <5>4 DEF NoncesAccounted
      <4>. QED
        BY <4>1, <4>2
    <3>. QED
      BY <3>2, <3>3, <3>4, <3>5
  <2>2. ASSUME NEW c \in Callers, AdvanceTo(c) PROVE NonceInv'
    BY <2>2 DEF AdvanceTo, TypeOK, CasRises, Behind, DistinctNonces, NoncesAccounted
  <2>3. ASSUME NEW c \in Callers, Load(c) PROVE NonceInv'
    <3>1. CasRises'
      BY <2>3 DEF Load, CasRises, TypeOK
    <3>2. Behind'
      BY <2>3 DEF Load, AtLeast, Behind, TypeOK
    <3>3. DistinctNonces' /\ NoncesAccounted'
      BY <2>3 DEF Load, DistinctNonces, NoncesAccounted
    <3>. QED
      BY <3>1, <3>2, <3>3
  <2>4. ASSUME NEW c \in Callers, CasSucceeds(c) PROVE NonceInv'
    <3>1. current[c] = next /\ next < target[c] /\ next' = target[c]
      BY <2>4 DEF CasSucceeds, CasRises
    <3>2. CasRises'
      BY <2>4 DEF CasSucceeds, CasRises, TypeOK
    <3>3. Behind'
      BY <2>4, <3>1 DEF CasSucceeds, AtLeast, Behind, TypeOK
    <3>4. DistinctNonces'
      BY <2>4 DEF CasSucceeds, DistinctNonces
    <3>5. NoncesAccounted'
      <4>1. CASE wrapped
        BY <2>4, <4>1 DEF CasSucceeds, NoncesAccounted
      <4>2. CASE ~wrapped
        <5>1. skipped' = skipped \cup next..next' - 1
          BY <2>4, <3>1 DEF CasSucceeds
        <5>2. start..next' - 1 = (start..next - 1) \cup (next..next' - 1)
          BY <3>1, <4>2 DEF TypeOK, Behind
        <5>3. \A d \in Callers : held[d] \cap (next..next' - 1) = {}
          BY <3>1, <4>2 DEF TypeOK, Behind
        <5>. QED
          BY <2>4, <4>2, <5>1, <5>2, <5>3 DEF CasSucceeds, NoncesAccounted
      <4>. QED
        BY <4>1, <4>2
    <3>. QED
      BY <3>2, <3>3, <3>4, <3>5
  <2>5. ASSUME NEW c \in Callers, CasFails(c) PROVE NonceInv'
    BY <2>5 DEF CasFails, TypeOK, CasRises, Behind, DistinctNonces, NoncesAccounted
  <2>6. CASE UNCHANGED vars
    BY <2>6 DEF vars, TypeOK, CasRises, Behind, DistinctNonces, NoncesAccounted
  <2>. QED
    BY <2>1, <2>2, <2>3, <2>4, <2>5, <2>6 DEF Next, AdvanceStep
<1>. QED
  BY <1>1, <1>2, TypeCorrect, PTL DEF Spec

(* For any number of goroutines: no nonce is given to two of them, however *)
(* Reserve and the steps of AdvanceTo interleave.                          *)
THEOREM NoncesDistinct == Spec => []DistinctNonces
BY NonceInvHolds, PTL DEF NonceInv

(* For any number of goroutines: between the start and the counter no      *)
(* nonce is lost, and none is both handed out and skipped.                 *)
THEOREM NoNonceLost == Spec => []NoncesAccounted
BY NonceInvHolds, PTL DEF NonceInv

(* Once AdvanceTo(v) has returned, nothing below v is handed out.          *)
THEOREM AdvanceEffective == Spec => AdvanceTakesEffect
<1> DEFINE Fresh == \A c \in Callers : \A v \in held'[c] \ held[c] : wrapped \/ v >= floor
<1>1. NonceInv /\ [Next]_vars => [Fresh]_vars
  <2> SUFFICES ASSUME NonceInv, Next PROVE Fresh
    OBVIOUS
  <2> USE DEF NonceInv
  <2>1. ASSUME NEW d \in Callers, Reserve(d) PROVE Fresh
    BY <2>1, NonceAssumption DEF Reserve, Behind, TypeOK
  <2>2. ASSUME NEW d \in Callers, AdvanceTo(d) \/ AdvanceStep(d) PROVE Fresh
    BY <2>2 DEF AdvanceTo, AdvanceStep, Load, CasSucceeds, CasFails
  <2>. QED
    BY <2>1, <2>2 DEF Next
<1>. QED
  BY <1>1, NonceInvHolds, PTL DEF Spec, AdvanceTakesEffect

(* NonceSequence implements the instantaneous counter: a successful swap,  *)
(* or the load that finds the target behind, is where AdvanceTo happens.   *)
THEOREM CounterImplemented == Spec => ImplementsCounter
<1> DEFINE ask == [c \in Callers |-> IF pc[c] = "idle" THEN -1 ELSE target[c]]
<1>1. Init => Counter!CounterInit
  BY DEF Init, Counter!CounterInit, Counter!Nonces
<1>2. NonceInv /\ [Next]_vars => [Counter!CounterNext]_(Counter!counterVars)
  <2> SUFFICES ASSUME NonceInv, [Next]_vars
               PROVE [Counter!CounterNext]_(Counter!counterVars)
    OBVIOUS
  <2> USE NonceAssumption DEF NonceInv, TypeOK
  <2>1. ASSUME NEW c \in Callers, Reserve(c) PROVE Counter!Take(c)
    BY <2>1 DEF Reserve, Counter!Take
  <2>2. ASSUME NEW c \in Callers, AdvanceTo(c) PROVE Counter!Ask(c)
    <3>1. PICK v \in Nonces : target' = [target EXCEPT ![c] = v]
      BY <2>2 DEF AdvanceTo
    <3>2. ask' = [ask EXCEPT ![c] = v]
      BY <2>2, <3>1 DEF AdvanceTo
    <3>3. ask[c] = -1 /\ UNCHANGED <<next, held>>
      BY <2>2 DEF AdvanceTo
    <3>. QED
      BY <3>2, <3>3 DEF Counter!Ask, Counter!Nonces
  <2>3. ASSUME NEW c \in Callers, Load(c)
        PROVE Counter!Raise(c) \/ UNCHANGED Counter!counterVars
    <3>1. CASE target[c] > next
      <4>1. ask' = ask
        BY <2>3, <3>1 DEF Load
      <4>. QED
        BY <2>3, <4>1 DEF Load, Counter!counterVars
    <3>2. CASE target[c] <= next
      <4>0. /\ pc' = [pc EXCEPT ![c] = "idle"]
            /\ target' = [target EXCEPT ![c] = 0]
        BY <2>3, <3>2 DEF Load
      <4>1. ask' = [ask EXCEPT ![c] = -1]
        BY <4>0
      <4>2. ask[c] # -1 /\ ~(ask[c] > next) /\ UNCHANGED <<next, held>>
        BY <2>3, <3>2 DEF Load
      <4>. QED
        BY <4>1, <4>2 DEF Counter!Raise
    <3>. QED
      BY <3>1, <3>2
  <2>4. ASSUME NEW c \in Callers, CasSucceeds(c) PROVE Counter!Raise(c)
    <3>1. ask' = [ask EXCEPT ![c] = -1]
      BY <2>4 DEF CasSucceeds
    <3>2. ask[c] # -1 /\ ask[c] > next /\ next' = ask[c] /\ UNCHANGED held
      BY <2>4 DEF CasSucceeds, CasRises
    <3>. QED
      BY <3>1, <3>2 DEF Counter!Raise
  <2>5. ASSUME NEW c \in Callers, CasFails(c) PROVE UNCHANGED Counter!counterVars
    BY <2>5 DEF CasFails, Counter!counterVars
  <2>6. CASE UNCHANGED vars
    BY <2>6 DEF vars, Counter!counterVars
  <2>. QED
    BY <2>1, <2>2, <2>3, <2>4, <2>5, <2>6 DEF Next, AdvanceStep, Counter!CounterNext
<1>. QED
  BY <1>1, <1>2, NonceInvHolds, PTL DEF Spec, ImplementsCounter, Counter!CounterSpec
=============================================================================
