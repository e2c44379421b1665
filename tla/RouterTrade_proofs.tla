------------------------- MODULE RouterTrade_proofs -------------------------
(***************************************************************************)
(* Proofs about HookFees, SwapCalldata and RouterTrade, for any fees,      *)
(* schedules, pools, amounts, slippages, times and lengths of hook data:   *)
(* the quotes through a hook, the calldata of a swap, and the trade from   *)
(* the quote to the block it is mined in.                                  *)
(***************************************************************************)
EXTENDS RouterTrade, SequenceTheorems, TLAPS

(* Multiplication by a natural number keeps the order.                     *)
LEMMA MulMono ==
  ASSUME NEW a \in Nat, NEW b \in Nat, NEW c \in Nat, a <= b
  PROVE  a * c \in Nat /\ b * c \in Nat /\ a * c <= b * c
<1>1. PICK d \in Nat : b = a + d
  <2>. b - a \in Nat /\ b = a + (b - a)
    OBVIOUS
  <2>. QED
    OBVIOUS
<1>2. b * c = a * c + d * c
  BY <1>1, SMT
<1>3. a * c \in Nat /\ d * c \in Nat
  BY SMT
<1>. QED
  BY <1>2, <1>3

(* What \div is: the quotient of the largest multiple that fits.           *)
LEMMA DivMeans ==
  ASSUME NEW a \in Nat, NEW c \in Nat \ {0}
  PROVE  a \div c \in Nat /\ (a \div c) * c <= a /\ a < (a \div c) * c + c
BY SMT

(* A quotient is below a bound that the dividend does not pass.            *)
LEMMA DivBelow ==
  ASSUME NEW a \in Nat, NEW c \in Nat \ {0}, NEW q \in Nat, a < (q + 1) * c
  PROVE  a \div c <= q
<1>1. SUFFICES ASSUME q + 1 <= a \div c PROVE FALSE
  BY DivMeans
<1>2. (q + 1) * c <= (a \div c) * c
  BY <1>1, DivMeans, MulMono
<1>. QED
  BY <1>2, DivMeans

(* Division by a natural number keeps the order.                           *)
LEMMA DivMono ==
  ASSUME NEW a \in Nat, NEW b \in Nat, NEW c \in Nat \ {0}, a <= b
  PROVE  a \div c <= b \div c
<1>1. b < (b \div c + 1) * c
  <2>1. (b \div c + 1) * c = (b \div c) * c + c
    BY DivMeans, SMT
  <2>. QED
    BY <2>1, DivMeans
<1>. QED
  BY <1>1, DivMeans, DivBelow
-----------------------------------------------------------------------------
(* A fee below the whole takes less than the value it is charged on, so    *)
(* something is left of anything.                                          *)
LEMMA FeeBelowValue ==
  ASSUME NEW v \in Nat, NEW bps \in 0..BPSTotal - 1
  PROVE  /\ Fee(v, bps) \in Nat
         /\ Effective(v, bps) \in 0..v
         /\ v > 0 => Effective(v, bps) > 0
<1>. USE HookAssumption
<1>1. v * bps \in Nat /\ v * bps <= v * (BPSTotal - 1)
  <2>1. bps * v <= (BPSTotal - 1) * v /\ bps * v \in Nat
    BY MulMono
  <2>2. bps * v = v * bps /\ (BPSTotal - 1) * v = v * (BPSTotal - 1)
    BY SMT
  <2>. QED
    BY <2>1, <2>2
<1>2. Fee(v, bps) \in Nat
  BY <1>1, DivMeans DEF Fee
<1>3. CASE v = 0
  <2>1. v * bps = 0
    BY <1>3, SMT
  <2>2. (v * bps) \div BPSTotal <= 0
    BY <2>1, DivBelow
  <2>. QED
    BY <1>2, <1>3, <2>2 DEF Effective, Fee
<1>4. CASE v > 0
  <2>1. v * (BPSTotal - 1) < ((v - 1) + 1) * BPSTotal
    <3>1. v * (BPSTotal - 1) = v * BPSTotal - v /\ v * BPSTotal \in Nat
      BY SMT
    <3>. QED
      BY <1>4, <3>1
  <2>2. v - 1 \in Nat /\ v * (BPSTotal - 1) \in Int /\ ((v - 1) + 1) * BPSTotal \in Int
    BY <1>4
  <2>3. v * bps < ((v - 1) + 1) * BPSTotal
    BY <1>1, <2>1, <2>2
  <2>4. (v * bps) \div BPSTotal <= v - 1
    BY <1>1, <2>2, <2>3, DivBelow
  <2>. QED
    BY <1>2, <1>4, <2>4 DEF Effective, Fee
<1>. QED
  BY <1>2, <1>3, <1>4

(* A lower fee leaves no less.                                             *)
LEMMA LowerFeeLeavesMore ==
  ASSUME NEW v \in Nat, NEW low \in 0..BPSTotal - 1, NEW high \in 0..BPSTotal - 1,
         low <= high
  PROVE  Effective(v, high) <= Effective(v, low)
<1>. USE HookAssumption
<1>1. v * low \in Nat /\ v * high \in Nat /\ v * low <= v * high
  <2>1. low * v <= high * v /\ low * v \in Nat /\ high * v \in Nat
    BY MulMono
  <2>2. low * v = v * low /\ high * v = v * high
    BY SMT
  <2>. QED
    BY <2>1, <2>2
<1>2. Fee(v, low) <= Fee(v, high)
  BY <1>1, DivMono DEF Fee
<1>. QED
  BY <1>2, FeeBelowValue DEF Effective

(* The surcharge stays within that of the launch and falls with time.      *)
LEMMA SurchargeFalls ==
  ASSUME NEW s \in Schedules, s.base <= s.start,
         NEW e \in 0..s.window - 1, NEW f \in e..s.window - 1
  PROVE  /\ Surcharge(s, e) \in 0..s.start - s.base
         /\ Surcharge(s, f) \in 0..s.start - s.base
         /\ Surcharge(s, f) <= Surcharge(s, e)
<1>1. s.base \in Nat /\ s.start \in Nat /\ s.window \in Nat \ {0}
  BY HookAssumption DEF Schedules
<1>. DEFINE m == s.start - s.base
            Weight(x) == m * (s.window - x)
<1>2. m \in Nat
  BY <1>1
<1>3. ASSUME NEW x \in 0..s.window, NEW y \in 0..s.window, x <= y
      PROVE  Weight(x) \in Nat /\ Weight(y) \in Nat /\ Weight(y) <= Weight(x)
  <2>1. s.window - x \in Nat /\ s.window - y \in Nat /\ s.window - y <= s.window - x
    BY <1>1, <1>3
  <2>2. (s.window - y) * m <= (s.window - x) * m
    BY <1>2, <2>1, MulMono
  <2>3. (s.window - y) * m \in Nat /\ (s.window - x) * m \in Nat
    BY <1>2, <2>1, MulMono
  <2>4. (s.window - y) * m = m * (s.window - y) /\ (s.window - x) * m = m * (s.window - x)
    BY <1>1, <1>2, SMT
  <2>. QED
    BY <2>2, <2>3, <2>4
<1>4. ASSUME NEW x \in 0..s.window - 1
      PROVE  Weight(x) \div s.window \in 0..m
  <2>1. Weight(x) \in Nat /\ Weight(0) \in Nat /\ Weight(x) <= Weight(0)
    BY <1>1, <1>3
  <2>2. Weight(0) < (m + 1) * s.window
    <3>1. (m + 1) * s.window = m * s.window + s.window /\ m * s.window \in Nat
      BY <1>1, <1>2, SMT
    <3>. QED
      BY <1>1, <1>2, <3>1
  <2>3. (m + 1) * s.window \in Int
    BY <1>1, <1>2
  <2>4. Weight(x) < (m + 1) * s.window
    BY <2>1, <2>2, <2>3
  <2>. HIDE DEF m, Weight
  <2>5. Weight(x) \div s.window <= m
    BY <1>1, <1>2, <2>1, <2>4, DivBelow
  <2>. QED
    BY <1>1, <1>2, <2>1, <2>5, DivMeans
<1>5. Weight(f) \div s.window <= Weight(e) \div s.window
  <2>1. Weight(e) \in Nat /\ Weight(f) \in Nat /\ Weight(f) <= Weight(e)
    BY <1>1, <1>3
  <2>. HIDE DEF m, Weight
  <2>. QED
    BY <1>1, <2>1, DivMono
<1>. QED
  BY <1>1, <1>4, <1>5 DEF Surcharge

(* The fee of o1 never rises, from the launch to the end of the window and *)
(* beyond, and never exceeds the maximum.                                  *)
LEMMA FeeFalls ==
  ASSUME NEW s \in Schedules, NEW t \in Nat, NEW u \in Nat, t <= u, O1HookFeeOk(s, t)
  PROVE  /\ O1HookFeeOk(s, u)
         /\ O1HookFeeBPS(s, t) \in 0..O1MaxTotalFeeBPS
         /\ O1HookFeeBPS(s, u) \in 0..O1MaxTotalFeeBPS
         /\ O1HookFeeBPS(s, u) <= O1HookFeeBPS(s, t)
<1>1. s.base \in Nat /\ s.start \in Nat /\ s.window \in Nat /\ s.launch \in Nat
  BY HookAssumption DEF Schedules
<1>2. s.base <= s.start /\ s.start <= O1MaxTotalFeeBPS /\ s.window > 0
        /\ s.launch <= t /\ O1HookFeeOk(s, u)
  BY <1>1 DEF O1HookFeeOk
<1>3. O1MaxTotalFeeBPS \in Nat
  BY HookAssumption
<1>. DEFINE e == t - s.launch
            f == u - s.launch
<1>4. e \in Nat /\ f \in Nat /\ e <= f
  BY <1>1, <1>2
<1>5. CASE f < s.window
  <2>1. e \in 0..s.window - 1 /\ f \in e..s.window - 1
    BY <1>1, <1>4, <1>5
  <2>2. /\ Surcharge(s, e) \in 0..s.start - s.base
        /\ Surcharge(s, f) \in 0..s.start - s.base
        /\ Surcharge(s, f) <= Surcharge(s, e)
    BY <1>2, <2>1, SurchargeFalls
  <2>. QED
    BY <1>1, <1>2, <1>3, <1>4, <1>5, <2>2 DEF O1HookFeeBPS
<1>6. CASE f >= s.window /\ e < s.window
  <2>1. e \in 0..s.window - 1 /\ e \in e..s.window - 1
    BY <1>1, <1>4, <1>6
  <2>2. Surcharge(s, e) \in 0..s.start - s.base
    BY <1>2, <2>1, SurchargeFalls
  <2>. QED
    BY <1>1, <1>2, <1>3, <1>4, <1>6, <2>2 DEF O1HookFeeBPS
<1>7. CASE e >= s.window
  BY <1>1, <1>2, <1>3, <1>4, <1>7 DEF O1HookFeeBPS
<1>. QED
  BY <1>1, <1>4, <1>5, <1>6, <1>7
-----------------------------------------------------------------------------
(* What the pool answers.                                                  *)
LEMMA CoreAnswers ==
  ASSUME NEW core \in Cores, NEW amount \in Nat
  PROVE  QuoteV4ExactInput(core, amount) \in Nat
BY HookAssumption DEF Cores, QuoteV4ExactInput

(* A fee takes no trade whole.                                             *)
LEMMA FeeLeavesTrade ==
  ASSUME NEW side \in Sides, NEW core \in Cores, NEW amount \in 1..MaxAmount,
         NEW bps \in 0..BPSTotal - 1, QuoteWithFee(side, core, amount, bps) = 0
  PROVE  \E part \in 1..amount : QuoteV4ExactInput(core, part) = 0
<1>1. MaxAmount \in Nat /\ amount \in Nat
  BY HookAssumption
<1>2. CASE side = "buy"
  <2>1. Effective(amount, bps) \in 1..amount
    BY <1>1, FeeBelowValue
  <2>2. QuoteV4ExactInput(core, Effective(amount, bps)) = 0
    BY <1>2 DEF QuoteWithFee
  <2>. QED
    BY <2>1, <2>2
<1>3. CASE side = "sell"
  <2>1. Effective(QuoteV4ExactInput(core, amount), bps) = 0
    BY <1>3 DEF QuoteWithFee
  <2>2. QuoteV4ExactInput(core, amount) = 0
    BY <1>1, <2>1, CoreAnswers, FeeBelowValue
  <2>. QED
    BY <1>1, <2>2
<1>. QED
  BY <1>2, <1>3 DEF Sides

(* A lower fee quotes no less, as far as the liquidity goes.               *)
LEMMA LowerFeeQuotesMore ==
  ASSUME NEW side \in Sides, NEW core \in Cores, NEW amount \in 1..MaxAmount,
         NEW low \in 0..BPSTotal - 1, NEW high \in 0..BPSTotal - 1, low <= high
  PROVE  \/ QuoteWithFee(side, core, amount, low) >= QuoteWithFee(side, core, amount, high)
         \/ side = "buy" /\ amount > core.limit
<1>1. MaxAmount \in Nat /\ amount \in Nat
  BY HookAssumption
<1>2. CASE side = "buy" /\ amount <= core.limit
  <2>1. /\ Effective(amount, low) \in 1..amount
        /\ Effective(amount, high) \in 1..amount
        /\ Effective(amount, high) <= Effective(amount, low)
    <3>1. Effective(amount, low) \in 1..amount
      BY <1>1, FeeBelowValue
    <3>2. Effective(amount, high) \in 1..amount
      BY <1>1, FeeBelowValue
    <3>3. Effective(amount, high) <= Effective(amount, low)
      BY <1>1, LowerFeeLeavesMore
    <3>. QED
      BY <3>1, <3>2, <3>3
  <2>2. core.limit \in 1..MaxAmount
    BY DEF Cores
  <2>3. core.out[Effective(amount, high)] <= core.out[Effective(amount, low)]
    <3>1. \A x, y \in 1..MaxAmount : x <= y => core.out[x] <= core.out[y]
      BY DEF Cores
    <3>. QED
      BY <1>1, <2>1, <3>1
  <2>4. \A x \in 1..amount : QuoteV4ExactInput(core, x) = core.out[x]
                             /\ core.out[x] \in Nat
    <3>1. \A x \in 1..MaxAmount : core.out[x] \in Nat
      BY HookAssumption DEF Cores
    <3>2. \A x \in 1..amount : x \in 1..MaxAmount /\ x <= core.limit
      BY <1>1, <1>2, <2>2
    <3>. QED
      BY <3>1, <3>2 DEF QuoteV4ExactInput
  <2>5. QuoteWithFee(side, core, amount, low) = core.out[Effective(amount, low)]
    BY <1>2, <2>1, <2>4 DEF QuoteWithFee
  <2>6. QuoteWithFee(side, core, amount, high) = core.out[Effective(amount, high)]
    BY <1>2, <2>1, <2>4 DEF QuoteWithFee
  <2>7. core.out[Effective(amount, low)] \in Nat /\ core.out[Effective(amount, high)] \in Nat
    BY <2>1, <2>4
  <2>. QED
    BY <2>3, <2>5, <2>6, <2>7
<1>3. CASE side = "buy" /\ amount > core.limit
  BY <1>3
<1>4. CASE side = "sell"
  <2>. DEFINE gross == QuoteV4ExactInput(core, amount)
  <2>1. gross \in Nat
    BY <1>1, CoreAnswers
  <2>2. Effective(gross, high) <= Effective(gross, low)
    BY <2>1, LowerFeeLeavesMore
  <2>3. Effective(gross, high) \in Nat /\ Effective(gross, low) \in Nat
    BY <2>1, FeeBelowValue
  <2>. QED
    BY <1>4, <2>2, <2>3 DEF QuoteWithFee
<1>5. core.limit \in Nat
  BY HookAssumption DEF Cores
<1>. QED
  BY <1>1, <1>2, <1>3, <1>4, <1>5 DEF Sides
-----------------------------------------------------------------------------
(* A quote was made at some timestamp that has passed.                     *)
MadeAt(t) ==
    /\ offer.hook \in Hooks
    /\ offer.side \in Sides
    /\ offer.core \in Cores
    /\ offer.amount \in 1..MaxAmount
    /\ offer.valid = (offer.hook = "o1" => O1HookFeeOk(schedule, t))
    /\ offer.out = Quoted(offer.hook, offer.side, offer.core, offer.amount, t)

HookInv ==
    /\ schedule \in Schedules
    /\ now \in Nat
    /\ offer = NoOffer \/ \E t \in 0..now : MadeAt(t)

(* The quote that is kept was made at some time, with what held then.      *)
LEMMA HookInvHolds == Spec => []HookInv
<1>1. Init => HookInv
  BY HookAssumption DEF Init, HookInv
<1>2. HookInv /\ [Next]_vars => HookInv'
  <2>. SUFFICES ASSUME HookInv, [Next]_vars PROVE HookInv'
    OBVIOUS
  <2>1. ASSUME NEW hook \in Hooks, NEW side \in Sides, NEW amount \in 1..MaxAmount,
               Quote(hook, side, amount)
        PROVE  HookInv'
    <3>1. PICK core \in Cores :
            offer' = [hook |-> hook, side |-> side, core |-> core, amount |-> amount,
                      valid |-> hook = "o1" => O1HookFeeOk(schedule, now),
                      out |-> Quoted(hook, side, core, amount, now)]
      BY <2>1 DEF Quote
    <3>2. schedule' = schedule /\ now' = now
      BY <2>1 DEF Quote
    <3>3. Quoted(hook, side, core, amount, now)' = Quoted(hook, side, core, amount, now)
      BY <3>2 DEF Quoted, QuoteO1V4ExactInput, QuoteBagsV4ExactInput
    <3>4. MadeAt(now)'
      BY <3>1, <3>2, <3>3 DEF MadeAt, Quoted, QuoteO1V4ExactInput, QuoteBagsV4ExactInput
    <3>. QED
      BY <3>2, <3>4 DEF HookInv
  <2>2. CASE RefuseState
    BY <2>2 DEF RefuseState, HookInv, NoOffer
  <2>3. CASE NextBlock
    BY <2>3 DEF NextBlock, HookInv, MadeAt, Quoted, QuoteO1V4ExactInput,
                QuoteBagsV4ExactInput
  <2>4. CASE UNCHANGED vars
    BY <2>4 DEF vars, HookInv, MadeAt, Quoted, QuoteO1V4ExactInput, QuoteBagsV4ExactInput
  <2>. QED
    BY <2>1, <2>2, <2>3, <2>4 DEF Next, QuoteO1, QuoteBags, Hooks
<1>. QED
  BY <1>1, <1>2, PTL DEF Spec

(* The quotes of o1 and Bags hold for any later execution: for every       *)
(* schedule, every monotone pool and every amount.                         *)
THEOREM QuotesHold == Spec => []QuoteHoldsLater
<1>1. HookInv => QuoteHoldsLater
  <2>. SUFFICES ASSUME HookInv, offer.out > 0 PROVE QuoteHoldsLater
    BY DEF QuoteHoldsLater
  <2>1. PICK t \in 0..now : MadeAt(t)
    BY DEF HookInv, NoOffer
  <2>2. now \in Nat /\ t \in Nat /\ t <= now /\ schedule \in Schedules
    BY DEF HookInv
  <2>3. /\ offer.side \in Sides /\ offer.core \in Cores /\ offer.amount \in 1..MaxAmount
        /\ offer.out = Quoted(offer.hook, offer.side, offer.core, offer.amount, t)
    BY <2>1 DEF MadeAt
  <2>4. CASE offer.hook = "o1"
    <3>1. O1HookFeeOk(schedule, t)
      BY <2>3, <2>4 DEF Quoted, QuoteO1V4ExactInput
    <3>. DEFINE high == O1HookFeeBPS(schedule, t)
                low == O1HookFeeBPS(schedule, now)
    <3>2. /\ O1HookFeeOk(schedule, now) /\ low <= high
          /\ low \in 0..O1MaxTotalFeeBPS /\ high \in 0..O1MaxTotalFeeBPS
      BY <2>2, <3>1, FeeFalls
    <3>3. low \in 0..BPSTotal - 1 /\ high \in 0..BPSTotal - 1
      BY <3>2, HookAssumption
    <3>4. /\ offer.out = QuoteWithFee(offer.side, offer.core, offer.amount, high)
          /\ Quoted(offer.hook, offer.side, offer.core, offer.amount, now)
               = QuoteWithFee(offer.side, offer.core, offer.amount, low)
      BY <2>3, <2>4, <3>1, <3>2 DEF Quoted, QuoteO1V4ExactInput
    <3>. HIDE DEF low, high
    <3>. QED
      BY <2>3, <3>2, <3>3, <3>4, LowerFeeQuotesMore DEF QuoteHoldsLater
  <2>5. CASE offer.hook # "o1"
    <3>1. /\ offer.out = QuoteWithFee(offer.side, offer.core, offer.amount, BagsV4HookFeeBPS)
          /\ Quoted(offer.hook, offer.side, offer.core, offer.amount, now)
               = QuoteWithFee(offer.side, offer.core, offer.amount, BagsV4HookFeeBPS)
      BY <2>3, <2>5 DEF Quoted, QuoteBagsV4ExactInput
    <3>2. BagsV4HookFeeBPS \in 0..BPSTotal - 1 /\ BagsV4HookFeeBPS <= BagsV4HookFeeBPS
      BY HookAssumption
    <3>. QED
      BY <2>3, <3>1, <3>2, LowerFeeQuotesMore DEF QuoteHoldsLater
  <2>. QED
    BY <2>4, <2>5
<1>. QED
  BY <1>1, HookInvHolds, PTL

(* No trade through a valid hook is refused because of its fee, down to an *)
(* amount of one.                                                          *)
THEOREM FeesLeaveTrades == Spec => []NeverTaxedAway
<1>1. HookInv => NeverTaxedAway
  <2>. SUFFICES ASSUME HookInv, offer # NoOffer, offer.valid, offer.out = 0
                PROVE  \E part \in 1..offer.amount : QuoteV4ExactInput(offer.core, part) = 0
    BY DEF NeverTaxedAway
  <2>1. PICK t \in 0..now : MadeAt(t)
    BY DEF HookInv
  <2>2. now \in Nat /\ t \in Nat /\ schedule \in Schedules
    BY DEF HookInv
  <2>3. offer.side \in Sides /\ offer.core \in Cores /\ offer.amount \in 1..MaxAmount
    BY <2>1 DEF MadeAt
  <2>4. PICK bps \in 0..BPSTotal - 1 :
          QuoteWithFee(offer.side, offer.core, offer.amount, bps) = 0
    <3>1. CASE offer.hook = "o1"
      <4>1. O1HookFeeOk(schedule, t)
        BY <2>1, <3>1 DEF MadeAt
      <4>2. O1HookFeeBPS(schedule, t) \in 0..O1MaxTotalFeeBPS
        BY <2>2, <4>1, FeeFalls
      <4>3. O1HookFeeBPS(schedule, t) \in 0..BPSTotal - 1
        BY <4>2, HookAssumption
      <4>. QED
        BY <2>1, <3>1, <4>1, <4>3 DEF MadeAt, Quoted, QuoteO1V4ExactInput
    <3>2. CASE offer.hook # "o1"
      BY <2>1, <3>2, HookAssumption DEF MadeAt, Quoted, QuoteBagsV4ExactInput
    <3>. QED
      BY <3>1, <3>2
  <2>. QED
    BY <2>3, <2>4, FeeLeavesTrade
<1>. QED
  BY <1>1, HookInvHolds, PTL
-----------------------------------------------------------------------------
(* A function on 1..n is a sequence of n elements.                         *)
LEMMA LenOfDomain ==
  ASSUME NEW n \in Nat, NEW f, f = [i \in 1..n |-> f[i]]
  PROVE  Len(f) = n
<1>. DEFINE S == {f[i] : i \in 1..n}
<1>1. f \in [1..n -> S]
  OBVIOUS
<1>2. f \in Seq(S)
  BY <1>1, SeqDef
<1>3. Len(f) \in Nat /\ DOMAIN f = 1..Len(f)
  BY <1>2, LenProperties
<1>4. DOMAIN f = 1..n
  BY <1>1
<1>. QED
  BY <1>3, <1>4

(* The buffer b of n words is another one with m words after the first k.  *)
Holds(b, n, buffer, k, m, words) ==
    /\ DOMAIN b = 1..n
    /\ Len(b) = n
    /\ \A i \in 1..k : b[i] = buffer[i]
    /\ \A i \in 1..m : b[k + i] = words[i]

(* The m words fit in a buffer of n words, after its first k.              *)
CanPut(buffer, n, offset, k, words, m) ==
    /\ n \in Nat /\ m \in Nat /\ k \in Nat /\ k + m <= n
    /\ DOMAIN buffer = 1..n /\ DOMAIN words = 1..m
    /\ At(offset) = k

(* What a buffer holds when words were written into it.                    *)
LEMMA PutWords ==
  ASSUME NEW n, NEW buffer, NEW m, NEW words, NEW k, NEW offset,
         CanPut(buffer, n, offset, k, words, m)
  PROVE  Holds(Put(buffer, offset, words), n, buffer, k, m, words)
<1>. USE DEF CanPut
<1>. DEFINE b == Put(buffer, offset, words)
<1>1. b = [i \in 1..n |-> b[i]]
  BY DEF Put
<1>2. Len(b) = n
  BY <1>1, LenOfDomain
<1>3. DOMAIN b = 1..n
  BY <1>1
<1>4. \A i \in 1..n :
        b[i] = IF i - k \in 1..m THEN words[i - k] ELSE buffer[i]
  BY DEF Put
<1>. HIDE DEF b
<1>5. ASSUME NEW i \in 1..k PROVE b[i] = buffer[i]
  <2>1. i \in 1..n /\ i - k \notin 1..m
    OBVIOUS
  <2>. QED
    BY <1>4, <2>1
<1>6. ASSUME NEW i \in 1..m PROVE b[k + i] = words[i]
  <2>1. k + i \in 1..n /\ (k + i) - k = i
    OBVIOUS
  <2>. QED
    BY <1>4, <2>1
<1>7. Holds(b, n, buffer, k, m, words)
  BY <1>2, <1>3, <1>5, <1>6 DEF Holds
<1>. QED
  BY <1>7 DEF b

(* The offset of a whole number of words, and some more.                   *)
LEMMA AtWords ==
  ASSUME NEW k \in Nat
  PROVE  /\ At(k * abiWordSize) = k
         /\ At(k + abiWordSize - 1) \in Nat
BY DEF At, abiWordSize

(* A buffer of n words.                                                    *)
LEMMA MakeWords ==
  ASSUME NEW n \in Nat
  PROVE  DOMAIN Make(n * abiWordSize) = 1..n
BY AtWords DEF Make

(* The words of l bytes of hook data.                                      *)
Words(l) == At(l + abiWordSize - 1)

(* The tuple of the swap.                                                  *)
Tuple(r, zeroForOne) ==
    <<r.currency0, r.currency1, r.fee, r.tickSpacing, r.hooks,
      IF zeroForOne THEN 1 ELSE 0, r.amountIn, r.amountOutMinimum,
      r.minHopPrice, 10 * abiWordSize, r.hookData>>

(* The parameters of the swap: an offset, the tuple and the hook data.     *)
SwapHolds(s, w, r, zeroForOne) ==
    /\ w \in Nat
    /\ DOMAIN s = 1..12 + w
    /\ Len(s) = 12 + w
    /\ s[1] = abiWordSize
    /\ \A i \in 1..11 : s[1 + i] = Tuple(r, zeroForOne)[i]
    /\ \A k \in 1..w : s[12 + k] = Piece(r.hookData, k)

(* The words of those parameters.                                          *)
LEMMA SwapWords ==
  ASSUME NEW r, r.hookData \in Nat, NEW zeroForOne \in BOOLEAN,
         NEW s, s = EncodeSwap(r, zeroForOne),
         NEW w, w = Words(r.hookData)
  PROVE  SwapHolds(s, w, r, zeroForOne)
<1>. DEFINE l == r.hookData
            n == 12 + w
            head == Put(Make(n * abiWordSize), 0, <<abiWordSize>>)
            body == Put(head, abiWordSize, Tuple(r, zeroForOne))
<1>1. w \in Nat /\ n \in Nat
  BY AtWords DEF Words
<1>2. s = Put(body, 12 * abiWordSize, HookData(l))
  <2>1. 12 * abiWordSize + paddedABIBytes(l) = n * abiWordSize
    BY <1>1 DEF paddedABIBytes, Words, abiWordSize
  <2>. QED
    BY <2>1 DEF EncodeSwap, Tuple
<1>3. At(0) = 0 /\ At(abiWordSize) = 1 /\ At(12 * abiWordSize) = 12
  BY DEF At, abiWordSize
<1>4. Holds(head, n, Make(n * abiWordSize), 0, 1, <<abiWordSize>>)
  <2>1. DOMAIN Make(n * abiWordSize) = 1..n
    BY <1>1, MakeWords
  <2>2. DOMAIN <<abiWordSize>> = 1..1
    OBVIOUS
  <2>3. CanPut(Make(n * abiWordSize), n, 0, 0, <<abiWordSize>>, 1)
    BY <1>1, <1>3, <2>1, <2>2 DEF CanPut
  <2>. QED
    BY <2>3, PutWords, Zenon
<1>5. Holds(body, n, head, 1, 11, Tuple(r, zeroForOne))
  <2>1. DOMAIN Tuple(r, zeroForOne) = 1..11
    BY DEF Tuple
  <2>2. DOMAIN head = 1..n
    BY <1>4 DEF Holds
  <2>3. CanPut(head, n, abiWordSize, 1, Tuple(r, zeroForOne), 11)
    <3>. HIDE DEF head
    <3>. QED
      BY <1>1, <1>3, <2>1, <2>2 DEF CanPut
  <2>. HIDE DEF n, head
  <2>. QED
    BY <2>3, PutWords, Zenon DEF body
<1>6. DOMAIN HookData(l) = 1..w /\ \A k \in 1..w : HookData(l)[k] = Piece(l, k)
  BY DEF HookData, Words
<1>7. Holds(s, n, body, 12, w, HookData(l))
  <2>1. DOMAIN body = 1..n
    BY <1>5 DEF Holds
  <2>2. CanPut(body, n, 12 * abiWordSize, 12, HookData(l), w)
    <3>. HIDE DEF body
    <3>. QED
      BY <1>1, <1>3, <1>6, <2>1 DEF CanPut
  <2>. HIDE DEF n, body
  <2>. QED
    BY <1>2, <2>2, PutWords, Zenon
<1>. HIDE DEF head, body
<1>8. \A i \in 1..11 : s[1 + i] = Tuple(r, zeroForOne)[i]
  BY <1>5, <1>7 DEF Holds
<1>9. s[1] = abiWordSize
  <2>1. head[0 + 1] = <<abiWordSize>>[1] /\ body[1] = head[1] /\ s[1] = body[1]
    BY <1>4, <1>5, <1>7 DEF Holds
  <2>. QED
    BY <2>1
<1>10. DOMAIN s = 1..n /\ Len(s) = n /\ \A k \in 1..w : s[12 + k] = Piece(l, k)
  BY <1>6, <1>7 DEF Holds
<1>. QED
  BY <1>1, <1>8, <1>9, <1>10 DEF SwapHolds

(* The input of the command, around parameters of m words.                 *)
PlanHead(m) ==
    <<64, 128, 3, SwapActions, 3, 96, 128 + 32 * m, 224 + 32 * m, 32 * m>>

PlanHolds(p, m, r, s) ==
    /\ DOMAIN p = 1..15 + m
    /\ Len(p) = 15 + m
    /\ \A i \in 1..9 : p[i] = PlanHead(m)[i]
    /\ \A i \in 1..m : p[9 + i] = s[i]
    /\ p[10 + m] = 64 /\ p[11 + m] = r.currencyIn /\ p[12 + m] = MaxUint256
    /\ p[13 + m] = 64 /\ p[14 + m] = r.currencyOut /\ p[15 + m] = r.amountOutMinimum

(* The words of the input.                                                 *)
LEMMA PlanWords ==
  ASSUME NEW r, NEW m \in Nat, NEW s, DOMAIN s = 1..m, Len(s) = m,
         NEW p, p = EncodePlan(r, s)
  PROVE  PlanHolds(p, m, r, s)
<1>. DEFINE n == 15 + m
            head == Put(Make(n * abiWordSize), 0, PlanHead(m))
            swap == Put(head, 288, s)
            second == <<64, r.currencyIn, MaxUint256>>
            settle == Put(swap, 288 + 32 * m, second)
            third == <<64, r.currencyOut, r.amountOutMinimum>>
<1>1. n \in Nat
  OBVIOUS
<1>2. p = Put(settle, 384 + 32 * m, third)
  BY DEF EncodePlan, PlanHead, abiWordSize
<1>3. At(0) = 0 /\ At(288) = 9 /\ At(288 + 32 * m) = 9 + m /\ At(384 + 32 * m) = 12 + m
  BY DEF At, abiWordSize
<1>4. Holds(head, n, Make(n * abiWordSize), 0, 9, PlanHead(m))
  <2>1. DOMAIN Make(n * abiWordSize) = 1..n
    BY <1>1, MakeWords
  <2>2. DOMAIN PlanHead(m) = 1..9
    BY DEF PlanHead
  <2>3. CanPut(Make(n * abiWordSize), n, 0, 0, PlanHead(m), 9)
    BY <1>1, <1>3, <2>1, <2>2 DEF CanPut
  <2>. QED
    BY <2>3, PutWords, Zenon
<1>5. Holds(swap, n, head, 9, m, s)
  <2>1. DOMAIN head = 1..n
    BY <1>4 DEF Holds
  <2>2. CanPut(head, n, 288, 9, s, m)
    <3>. HIDE DEF head
    <3>. QED
      BY <1>1, <1>3, <2>1 DEF CanPut
  <2>. HIDE DEF n, head
  <2>. QED
    BY <2>2, PutWords, Zenon DEF swap
<1>6. DOMAIN second = 1..3 /\ DOMAIN third = 1..3
  OBVIOUS
<1>7. Holds(settle, n, swap, 9 + m, 3, second)
  <2>1. DOMAIN swap = 1..n
    BY <1>5 DEF Holds
  <2>2. CanPut(swap, n, 288 + 32 * m, 9 + m, second, 3)
    <3>. HIDE DEF swap, second
    <3>. QED
      BY <1>1, <1>3, <1>6, <2>1 DEF CanPut
  <2>. HIDE DEF n, swap, second
  <2>. QED
    BY <2>2, PutWords DEF settle
<1>8. Holds(p, n, settle, 12 + m, 3, third)
  <2>1. DOMAIN settle = 1..n
    BY <1>7 DEF Holds
  <2>2. CanPut(settle, n, 384 + 32 * m, 12 + m, third, 3)
    <3>. HIDE DEF settle, third
    <3>. QED
      BY <1>1, <1>3, <1>6, <2>1 DEF CanPut
  <2>. HIDE DEF n, settle, third
  <2>. QED
    BY <1>2, <2>2, PutWords
<1>. HIDE DEF head, swap, settle, second, third
<1>9. ASSUME NEW i \in 1..9 PROVE p[i] = PlanHead(m)[i]
  <2>1. i \in 1..9 + m /\ i \in 1..12 + m /\ 0 + i = i
    OBVIOUS
  <2>2. p[i] = settle[i] /\ settle[i] = swap[i] /\ swap[i] = head[i]
    BY <1>5, <1>7, <1>8, <2>1 DEF Holds
  <2>3. head[0 + i] = PlanHead(m)[i]
    BY <1>4, Zenon DEF Holds
  <2>. QED
    BY <2>1, <2>2, <2>3
<1>10. ASSUME NEW i \in 1..m PROVE p[9 + i] = s[i]
  <2>1. 9 + i \in 1..9 + m /\ 9 + i \in 1..12 + m
    OBVIOUS
  <2>. QED
    BY <1>5, <1>7, <1>8, <2>1 DEF Holds
<1>11. ASSUME NEW i \in 1..3 PROVE p[9 + m + i] = second[i]
  <2>1. 9 + m + i \in 1..12 + m
    OBVIOUS
  <2>. QED
    BY <1>7, <1>8, <2>1 DEF Holds
<1>12. p[10 + m] = second[1] /\ p[11 + m] = second[2] /\ p[12 + m] = second[3]
  <2>1. 9 + m + 1 = 10 + m /\ 9 + m + 2 = 11 + m /\ 9 + m + 3 = 12 + m
    OBVIOUS
  <2>. QED
    BY <1>11, <2>1
<1>13. p[13 + m] = third[1] /\ p[14 + m] = third[2] /\ p[15 + m] = third[3]
  <2>1. 12 + m + 1 = 13 + m /\ 12 + m + 2 = 14 + m /\ 12 + m + 3 = 15 + m
    OBVIOUS
  <2>. QED
    BY <1>8, <2>1 DEF Holds
<1>14. DOMAIN p = 1..n /\ Len(p) = n
  BY <1>8 DEF Holds
<1>. QED
  BY <1>9, <1>10, <1>12, <1>13, <1>14 DEF PlanHolds, second, third

(* The calldata, around an input of m words.                               *)
DataHead(r, m) == <<96, 160, r.deadline, 1, CommandV4Swap, 1, 32, 32 * m>>

DataHolds(d, m, r, p) ==
    /\ DOMAIN d = 1..8 + m
    /\ Len(d) = 8 + m
    /\ \A i \in 1..8 : d[i] = DataHead(r, m)[i]
    /\ \A i \in 1..m : d[8 + i] = p[i]

(* The words of the arguments.                                             *)
LEMMA DataWords ==
  ASSUME NEW r, NEW zeroForOne,
         NEW p, p = EncodePlan(r, EncodeSwap(r, zeroForOne)),
         NEW m \in Nat, DOMAIN p = 1..m, Len(p) = m,
         NEW d, d = encodeV4ExactInputSingle(r, zeroForOne)
  PROVE  DataHolds(d, m, r, p)
<1>. DEFINE n == 8 + m
            head == Put(Make(n * abiWordSize), 0, DataHead(r, m))
<1>1. n \in Nat /\ 0 \in Nat /\ 8 \in Nat /\ 0 + 8 <= n /\ 8 + m <= n
  OBVIOUS
<1>2. d = Put(head, 256, p)
  <2>. DEFINE a == abiWordSize
              length(q) == (((3 * a + 2 * a) + 2 * a) + a) + Len(q) * a
              words(q) == <<3 * a, 3 * a + 2 * a, r.deadline, 1, CommandV4Swap, 1, a, Len(q) * a>>
              whole(q) == Put(Put(Make(length(q)), 0, words(q)),
                              ((3 * a + 2 * a) + 2 * a) + a, q)
  <2>1. d = whole(p)
    BY DEF encodeV4ExactInputSingle
  <2>2. length(p) = n * abiWordSize
    BY DEF abiWordSize
  <2>3. words(p) = DataHead(r, m)
    BY DEF DataHead, abiWordSize
  <2>4. ((3 * a + 2 * a) + 2 * a) + a = 256
    BY DEF abiWordSize
  <2>. HIDE DEF n, length, words
  <2>. QED
    BY <2>1, <2>2, <2>3, <2>4, Zenon
<1>3. At(0) = 0 /\ At(256) = 8
  BY DEF At, abiWordSize
<1>4. Holds(head, n, Make(n * abiWordSize), 0, 8, DataHead(r, m))
  <2>1. DOMAIN Make(n * abiWordSize) = 1..n
    BY <1>1, MakeWords
  <2>2. DOMAIN DataHead(r, m) = 1..8
    BY DEF DataHead
  <2>3. CanPut(Make(n * abiWordSize), n, 0, 0, DataHead(r, m), 8)
    BY <1>1, <1>3, <2>1, <2>2 DEF CanPut
  <2>. QED
    BY <2>3, PutWords, Zenon
<1>5. Holds(d, n, head, 8, m, p)
  <2>1. DOMAIN head = 1..n
    BY <1>4 DEF Holds
  <2>2. CanPut(head, n, 256, 8, p, m)
    <3>. HIDE DEF head
    <3>. QED
      BY <1>1, <1>3, <2>1 DEF CanPut
  <2>. HIDE DEF n, head
  <2>. QED
    BY <1>2, <2>2, PutWords
<1>. HIDE DEF head
<1>6. ASSUME NEW i \in 1..8 PROVE d[i] = DataHead(r, m)[i]
  <2>1. head[0 + i] = DataHead(r, m)[i]
    BY <1>4, Zenon DEF Holds
  <2>2. d[i] = head[i] /\ 0 + i = i
    BY <1>5 DEF Holds
  <2>. QED
    BY <2>1, <2>2
<1>. QED
  BY <1>5, <1>6 DEF Holds, DataHolds

(* Every word of the calldata of a request with w words of hook data.      *)
CalldataHolds(d, w, r, zeroForOne) ==
    /\ w \in Nat
    /\ DOMAIN d = 1..35 + w /\ Len(d) = 35 + w
    /\ \A i \in 1..8 : d[i] = DataHead(r, 27 + w)[i]
    /\ \A i \in 1..9 : d[8 + i] = PlanHead(12 + w)[i]
    /\ d[18] = 32
    /\ \A i \in 1..11 : d[18 + i] = Tuple(r, zeroForOne)[i]
    /\ \A k \in 1..w : d[29 + k] = Piece(r.hookData, k)
    /\ d[30 + w] = 64 /\ d[31 + w] = r.currencyIn /\ d[32 + w] = MaxUint256
    /\ d[33 + w] = 64 /\ d[34 + w] = r.currencyOut /\ d[35 + w] = r.amountOutMinimum

(* The words of the calldata.                                              *)
LEMMA CalldataWords ==
  ASSUME NEW r, r.hookData \in Nat, NEW zeroForOne \in BOOLEAN,
         NEW d, d = encodeV4ExactInputSingle(r, zeroForOne),
         NEW w, w = Words(r.hookData)
  PROVE  CalldataHolds(d, w, r, zeroForOne)
<1>. DEFINE s == EncodeSwap(r, zeroForOne)
            p == EncodePlan(r, s)
            m == 12 + w
            n == 27 + w
<1>1. /\ s = EncodeSwap(r, zeroForOne) /\ p = EncodePlan(r, s)
      /\ p = EncodePlan(r, EncodeSwap(r, zeroForOne))
  OBVIOUS
<1>. HIDE DEF s, p
<1>2. w \in Nat
  BY AtWords DEF Words
<1>3. m \in Nat /\ n \in Nat /\ n = 15 + m
  BY <1>2
<1>4. /\ DOMAIN s = 1..m
      /\ Len(s) = m
      /\ s[1] = abiWordSize
      /\ \A i \in 1..11 : s[1 + i] = Tuple(r, zeroForOne)[i]
      /\ \A k \in 1..w : s[12 + k] = Piece(r.hookData, k)
  <2>1. SwapHolds(s, w, r, zeroForOne)
    <3>. HIDE DEF m, n
    <3>. QED
      BY <1>1, SwapWords, Zenon
  <2>. QED
    BY <2>1 DEF SwapHolds
<1>5. /\ DOMAIN p = 1..15 + m
      /\ Len(p) = 15 + m
      /\ \A i \in 1..9 : p[i] = PlanHead(m)[i]
      /\ \A i \in 1..m : p[9 + i] = s[i]
      /\ p[10 + m] = 64 /\ p[11 + m] = r.currencyIn /\ p[12 + m] = MaxUint256
      /\ p[13 + m] = 64 /\ p[14 + m] = r.currencyOut /\ p[15 + m] = r.amountOutMinimum
  <2>. HIDE DEF m
  <2>1. PlanHolds(p, m, r, s)
    BY <1>1, <1>3, <1>4, PlanWords
  <2>. QED
    BY <2>1 DEF PlanHolds
<1>6. /\ DOMAIN d = 1..8 + n
      /\ Len(d) = 8 + n
      /\ \A i \in 1..8 : d[i] = DataHead(r, n)[i]
      /\ \A i \in 1..n : d[8 + i] = p[i]
  <2>1. DOMAIN p = 1..n /\ Len(p) = n
    BY <1>3, <1>5
  <2>. HIDE DEF n
  <2>2. DataHolds(d, n, r, p)
    BY <1>1, <1>3, <2>1, DataWords
  <2>. QED
    BY <2>2 DEF DataHolds
<1>7. DOMAIN d = 1..35 + w /\ Len(d) = 35 + w
  BY <1>2, <1>6
<1>8. \A i \in 1..8 : d[i] = DataHead(r, n)[i]
  BY <1>6
<1>9. ASSUME NEW i \in 1..9 PROVE d[8 + i] = PlanHead(m)[i]
  <2>1. i \in 1..n
    BY <1>2
  <2>2. d[8 + i] = p[i] /\ p[i] = PlanHead(m)[i]
    BY <1>5, <1>6, <2>1
  <2>. QED
    BY <2>2
<1>10. ASSUME NEW i \in 1..m PROVE d[17 + i] = s[i]
  <2>1. 9 + i \in 1..n /\ 8 + (9 + i) = 17 + i
    BY <1>2
  <2>2. p[9 + i] = s[i]
    BY <1>5
  <2>3. d[8 + (9 + i)] = p[9 + i]
    BY <1>6, <2>1
  <2>. QED
    BY <2>1, <2>2, <2>3
<1>11. d[18] = 32
  <2>1. 1 \in 1..m /\ 17 + 1 = 18
    BY <1>2
  <2>2. d[17 + 1] = s[1]
    BY <1>10, <2>1
  <2>. QED
    BY <1>4, <2>1, <2>2 DEF abiWordSize
<1>12. ASSUME NEW i \in 1..11 PROVE d[18 + i] = Tuple(r, zeroForOne)[i]
  <2>1. 1 + i \in 1..m /\ 17 + (1 + i) = 18 + i
    BY <1>2
  <2>2. d[17 + (1 + i)] = s[1 + i]
    BY <1>10, <2>1
  <2>. QED
    BY <1>4, <2>1, <2>2
<1>13. ASSUME NEW k \in 1..w PROVE d[29 + k] = Piece(r.hookData, k)
  <2>1. 12 + k \in 1..m /\ 17 + (12 + k) = 29 + k
    BY <1>2
  <2>2. d[17 + (12 + k)] = s[12 + k]
    BY <1>10, <2>1
  <2>. QED
    BY <1>4, <2>1, <2>2
<1>14. ASSUME NEW i \in 1..6 PROVE d[(29 + i) + w] = p[(9 + i) + m]
  <2>1. (9 + i) + m \in 1..n /\ 8 + ((9 + i) + m) = (29 + i) + w
    BY <1>2
  <2>2. d[8 + ((9 + i) + m)] = p[(9 + i) + m]
    BY <1>6, <2>1
  <2>. QED
    BY <2>1, <2>2
<1>. HIDE DEF m
<1>15. /\ d[30 + w] = p[10 + m] /\ d[31 + w] = p[11 + m] /\ d[32 + w] = p[12 + m]
       /\ d[33 + w] = p[13 + m] /\ d[34 + w] = p[14 + m] /\ d[35 + w] = p[15 + m]
  BY <1>14
<1>. HIDE DEF n
<1>16. /\ d[30 + w] = 64 /\ d[31 + w] = r.currencyIn /\ d[32 + w] = MaxUint256
       /\ d[33 + w] = 64 /\ d[34 + w] = r.currencyOut /\ d[35 + w] = r.amountOutMinimum
  BY <1>5, <1>15
<1>. QED
  BY <1>2, <1>7, <1>8, <1>9, <1>11, <1>12, <1>13, <1>16 DEF m, n, CalldataHolds

(* Whatever the length of the hook data, the router reads in the calldata  *)
(* what was asked for: the offsets that fast_encode.go computes lead to    *)
(* every field, every length agrees with what follows it, and the hook     *)
(* data is whole.                                                          *)
THEOREM CalldataRoundTrip ==
  ASSUME NEW r, r.hookData \in Nat, NEW zeroForOne \in BOOLEAN,
         NEW d, d = Decode(encodeV4ExactInputSingle(r, zeroForOne))
  PROVE  /\ WellFormed(d)
         /\ d.deadline = r.deadline
         /\ d.pool[1] = r.currency0 /\ d.pool[2] = r.currency1
         /\ d.pool[3] = r.fee /\ d.pool[4] = r.tickSpacing /\ d.pool[5] = r.hooks
         /\ d.zeroForOne = (IF zeroForOne THEN 1 ELSE 0)
         /\ d.amountIn = r.amountIn
         /\ d.amountOutMinimum = r.amountOutMinimum
         /\ d.minHopPrice = r.minHopPrice
         /\ d.settle = <<r.currencyIn, MaxUint256>>
         /\ d.take = <<r.currencyOut, r.amountOutMinimum>>
         /\ d.hookData = HookData(r.hookData)
<1>. DEFINE data == encodeV4ExactInputSingle(r, zeroForOne)
            w == Words(r.hookData)
<1>1. data = encodeV4ExactInputSingle(r, zeroForOne) /\ w = Words(r.hookData)
  OBVIOUS
<1>. HIDE DEF data, w
<1>2. CalldataHolds(data, w, r, zeroForOne)
  BY <1>1, CalldataWords
<1>3. w \in Nat /\ DOMAIN data = 1..35 + w /\ Len(data) = 35 + w
  BY <1>2 DEF CalldataHolds
<1>4. ASSUME NEW i \in 1..35 + w PROVE Read(data, i) = data[i]
  BY <1>3 DEF Read
<1>5. /\ Read(data, 1) = 96 /\ Read(data, 2) = 160 /\ Read(data, 3) = r.deadline
      /\ Read(data, 4) = 1 /\ Read(data, 5) = CommandV4Swap /\ Read(data, 6) = 1
      /\ Read(data, 7) = 32 /\ Read(data, 8) = 32 * (27 + w)
  <2>1. ASSUME NEW i \in 1..8 PROVE Read(data, i) = DataHead(r, 27 + w)[i]
    <3>1. data[i] = DataHead(r, 27 + w)[i]
      BY <1>2 DEF CalldataHolds
    <3>. QED
      BY <1>3, <1>4, <3>1
  <2>. QED
    BY <2>1 DEF DataHead
<1>6. /\ Read(data, 9) = 64 /\ Read(data, 10) = 128 /\ Read(data, 11) = 3
      /\ Read(data, 12) = SwapActions /\ Read(data, 13) = 3 /\ Read(data, 14) = 96
      /\ Read(data, 15) = 128 + 32 * (12 + w) /\ Read(data, 16) = 224 + 32 * (12 + w)
      /\ Read(data, 17) = 32 * (12 + w)
  <2>1. ASSUME NEW i \in 1..9 PROVE Read(data, 8 + i) = PlanHead(12 + w)[i]
    <3>1. data[8 + i] = PlanHead(12 + w)[i]
      BY <1>2 DEF CalldataHolds
    <3>2. 8 + i \in 1..35 + w
      BY <1>3
    <3>. QED
      BY <1>4, <3>1, <3>2
  <2>2. /\ Read(data, 8 + 1) = 64 /\ Read(data, 8 + 2) = 128 /\ Read(data, 8 + 3) = 3
        /\ Read(data, 8 + 4) = SwapActions /\ Read(data, 8 + 5) = 3
        /\ Read(data, 8 + 6) = 96
        /\ Read(data, 8 + 7) = 128 + 32 * (12 + w)
        /\ Read(data, 8 + 8) = 224 + 32 * (12 + w)
        /\ Read(data, 8 + 9) = 32 * (12 + w)
    BY <2>1 DEF PlanHead
  <2>. QED
    BY <2>2
<1>7. /\ Read(data, 18) = 32 /\ Read(data, 19) = r.currency0 /\ Read(data, 20) = r.currency1
      /\ Read(data, 21) = r.fee /\ Read(data, 22) = r.tickSpacing /\ Read(data, 23) = r.hooks
      /\ Read(data, 24) = (IF zeroForOne THEN 1 ELSE 0) /\ Read(data, 25) = r.amountIn
      /\ Read(data, 26) = r.amountOutMinimum /\ Read(data, 27) = r.minHopPrice
      /\ Read(data, 28) = 320 /\ Read(data, 29) = r.hookData
  <2>1. ASSUME NEW i \in 1..11 PROVE Read(data, 18 + i) = Tuple(r, zeroForOne)[i]
    <3>1. data[18 + i] = Tuple(r, zeroForOne)[i]
      BY <1>2 DEF CalldataHolds
    <3>2. 18 + i \in 1..35 + w
      BY <1>3
    <3>. QED
      BY <1>4, <3>1, <3>2
  <2>2. /\ Read(data, 18 + 1) = r.currency0 /\ Read(data, 18 + 2) = r.currency1
        /\ Read(data, 18 + 3) = r.fee /\ Read(data, 18 + 4) = r.tickSpacing
        /\ Read(data, 18 + 5) = r.hooks
        /\ Read(data, 18 + 6) = (IF zeroForOne THEN 1 ELSE 0)
        /\ Read(data, 18 + 7) = r.amountIn
        /\ Read(data, 18 + 8) = r.amountOutMinimum /\ Read(data, 18 + 9) = r.minHopPrice
        /\ Read(data, 18 + 10) = 320 /\ Read(data, 18 + 11) = r.hookData
    BY <2>1 DEF Tuple, abiWordSize
  <2>3. Read(data, 18) = 32
    BY <1>2, <1>3, <1>4 DEF CalldataHolds
  <2>. QED
    BY <2>2, <2>3
<1>8. /\ Read(data, 30 + w) = 64 /\ Read(data, 31 + w) = r.currencyIn
      /\ Read(data, 32 + w) = MaxUint256
      /\ Read(data, 33 + w) = 64 /\ Read(data, 34 + w) = r.currencyOut
      /\ Read(data, 35 + w) = r.amountOutMinimum
  <2>1. ASSUME NEW i \in 30..35 PROVE Read(data, i + w) = data[i + w]
    BY <1>3, <1>4
  <2>. QED
    BY <1>2, <2>1 DEF CalldataHolds
<1>9. /\ At(32) = 1 /\ At(64) = 2 /\ At(96) = 3 /\ At(128) = 4 /\ At(160) = 5 /\ At(320) = 10
      /\ At(32 * (12 + w)) = 12 + w
      /\ At(128 + 32 * (12 + w)) = 16 + w /\ At(224 + 32 * (12 + w)) = 19 + w
  BY <1>3 DEF At, abiWordSize
<1>. DEFINE commands == Follow(data, 1, 0)
            inputs == Follow(data, 1, 1) + 1
            input == Follow(data, inputs, 0)
            plan == input + 1
            actions == Follow(data, plan, 0)
            params == Follow(data, plan, 1) + 1
            swap == Follow(data, params, 0) + 1
            settle == Follow(data, params, 1) + 1
            take == Follow(data, params, 2) + 1
            tuple == Follow(data, swap, 0)
            hook == Follow(data, tuple, 9)
<1>10. commands = 4 /\ inputs = 7
  BY <1>5, <1>9 DEF Follow
<1>. HIDE DEF commands, inputs
<1>11. input = 8 /\ plan = 9
  BY <1>5, <1>9, <1>10 DEF Follow
<1>. HIDE DEF input, plan
<1>12. actions = 11 /\ params = 14
  BY <1>6, <1>9, <1>11 DEF Follow
<1>. HIDE DEF actions, params
<1>13. swap = 18 /\ settle = 31 + w /\ take = 34 + w
  <2>1. /\ Follow(data, params, 0) = 14 + At(Read(data, 14))
        /\ Follow(data, params, 1) = 14 + At(Read(data, 15))
        /\ Follow(data, params, 2) = 14 + At(Read(data, 16))
    BY <1>12 DEF Follow
  <2>2. /\ Follow(data, params, 0) = 17
        /\ Follow(data, params, 1) = 14 + (16 + w)
        /\ Follow(data, params, 2) = 14 + (19 + w)
    BY <1>6, <1>9, <2>1
  <2>. QED
    BY <1>3, <2>2
<1>. HIDE DEF swap, settle, take
<1>14. tuple = 19
  BY <1>7, <1>9, <1>13 DEF Follow
<1>. HIDE DEF tuple
<1>15. hook = 29
  BY <1>7, <1>9, <1>14 DEF Follow
<1>. HIDE DEF hook
<1>16. d = [command |-> <<Read(data, commands), Read(data, commands + 1), Read(data, inputs - 1)>>,
            actions |-> <<Read(data, actions), Read(data, actions + 1), Read(data, params - 1)>>,
            deadline |-> Read(data, 3),
            pool |-> [i \in 1..5 |-> Read(data, tuple + (i - 1))],
            zeroForOne |-> Read(data, tuple + 5),
            amountIn |-> Read(data, tuple + 6),
            amountOutMinimum |-> Read(data, tuple + 7),
            minHopPrice |-> Read(data, tuple + 8),
            settle |-> <<Read(data, settle), Read(data, settle + 1)>>,
            take |-> <<Read(data, take), Read(data, take + 1)>>,
            lengths |-> [input |-> Read(data, input), swap |-> Read(data, swap - 1),
                         settle |-> Read(data, settle - 1), take |-> Read(data, take - 1)],
            ends |-> [input |-> Len(data) - input, swap |-> settle - 1 - swap],
            hookData |-> [k \in 1..At(Read(data, hook) + abiWordSize - 1) |->
                             IF hook + k < swap + At(Read(data, swap - 1))
                             THEN Read(data, hook + k) ELSE -1]]
  BY Zenon DEF Decode, data, commands, inputs, input, plan, actions, params, swap, settle, take,
               tuple, hook
<1>17. d.hookData = HookData(r.hookData)
  <2>1. d.hookData = [k \in 1..At(Read(data, hook) + abiWordSize - 1) |->
                        IF hook + k < swap + At(Read(data, swap - 1))
                        THEN Read(data, hook + k) ELSE -1]
    BY <1>16
  <2>2. At(Read(data, hook) + abiWordSize - 1) = w
    BY <1>7, <1>15 DEF w, Words
  <2>3. swap + At(Read(data, swap - 1)) = 30 + w
    BY <1>3, <1>6, <1>9, <1>13
  <2>4. ASSUME NEW k \in 1..w
        PROVE  hook + k < 30 + w /\ Read(data, hook + k) = Piece(r.hookData, k)
    <3>1. 29 + k \in 1..35 + w /\ data[29 + k] = Piece(r.hookData, k) /\ 29 + k < 30 + w
      BY <1>2, <1>3 DEF CalldataHolds
    <3>. QED
      BY <1>4, <1>15, <3>1
  <2>5. HookData(r.hookData) = [k \in 1..w |-> Piece(r.hookData, k)]
    BY DEF HookData, w, Words
  <2>. QED
    BY <2>1, <2>2, <2>3, <2>4, <2>5
<1>18. WellFormed(d)
  <2>1. d.command = <<1, CommandV4Swap, 1>>
    BY <1>5, <1>10, <1>16
  <2>2. d.actions = <<3, SwapActions, 3>>
    BY <1>6, <1>12, <1>16
  <2>3. d.lengths.input = d.ends.input * abiWordSize
    BY <1>3, <1>5, <1>11, <1>16 DEF abiWordSize
  <2>4. d.lengths.swap = d.ends.swap * abiWordSize
    BY <1>3, <1>6, <1>13, <1>16 DEF abiWordSize
  <2>5. d.lengths.settle = 2 * abiWordSize /\ d.lengths.take = 2 * abiWordSize
    BY <1>3, <1>8, <1>13, <1>16 DEF abiWordSize
  <2>6. \A k \in DOMAIN d.hookData : d.hookData[k] # -1
    BY <1>17 DEF HookData, Piece, At, abiWordSize
  <2>. QED
    BY <2>1, <2>2, <2>3, <2>4, <2>5, <2>6 DEF WellFormed
<1>19. /\ d.pool[1] = r.currency0 /\ d.pool[2] = r.currency1
       /\ d.pool[3] = r.fee /\ d.pool[4] = r.tickSpacing /\ d.pool[5] = r.hooks
  BY <1>7, <1>14, <1>16
<1>20. /\ d.deadline = r.deadline
       /\ d.zeroForOne = (IF zeroForOne THEN 1 ELSE 0)
       /\ d.amountIn = r.amountIn
       /\ d.amountOutMinimum = r.amountOutMinimum
       /\ d.minHopPrice = r.minHopPrice
  BY <1>5, <1>7, <1>14, <1>16
<1>21. d.settle = <<r.currencyIn, MaxUint256>> /\ d.take = <<r.currencyOut, r.amountOutMinimum>>
  BY <1>3, <1>8, <1>13, <1>16
<1>. QED
  BY <1>17, <1>18, <1>19, <1>20, <1>21
-----------------------------------------------------------------------------
(* What a quote or a trade of any amount yields is bounded.                *)
LEMMA QuotedBounded ==
  ASSUME schedule \in Schedules, NEW hook, NEW side \in Sides, NEW core \in Cores,
         NEW amount \in 1..MaxAmount, NEW t \in Nat
  PROVE  Quoted(hook, side, core, amount, t) \in 0..MaxOut
<1>1. MaxOut \in Nat /\ MaxAmount \in Nat
  BY HookAssumption
<1>2. ASSUME NEW x \in Nat
      PROVE  QuoteV4ExactInput(core, x) \in 0..MaxOut
  BY <1>1, <1>2 DEF Cores, QuoteV4ExactInput
<1>3. ASSUME NEW bps \in 0..BPSTotal - 1
      PROVE  QuoteWithFee(side, core, amount, bps) \in 0..MaxOut
  <2>1. CASE side = "buy"
    <3>1. Effective(amount, bps) \in Nat
      BY <1>1, FeeBelowValue
    <3>. QED
      BY <1>2, <2>1, <3>1 DEF QuoteWithFee
  <2>2. CASE side = "sell"
    <3>. DEFINE gross == QuoteV4ExactInput(core, amount)
    <3>1. gross \in 0..MaxOut
      BY <1>1, <1>2
    <3>. HIDE DEF gross
    <3>2. gross \in Nat
      BY <1>1, <3>1
    <3>3. Effective(gross, bps) \in 0..gross
      BY <3>2, FeeBelowValue
    <3>4. Effective(gross, bps) \in 0..MaxOut
      BY <1>1, <3>1, <3>3
    <3>. QED
      BY <2>2, <3>4 DEF QuoteWithFee, gross
  <2>. QED
    BY <2>1, <2>2 DEF Sides
<1>4. CASE hook = "o1" /\ O1HookFeeOk(schedule, t)
  <2>1. O1HookFeeBPS(schedule, t) \in 0..O1MaxTotalFeeBPS
    BY <1>4, FeeFalls
  <2>2. O1HookFeeBPS(schedule, t) \in 0..BPSTotal - 1
    BY <2>1, HookAssumption
  <2>. QED
    BY <1>3, <1>4, <2>2 DEF Quoted, QuoteO1V4ExactInput
<1>5. CASE hook = "o1" /\ ~O1HookFeeOk(schedule, t)
  BY <1>1, <1>5 DEF Quoted, QuoteO1V4ExactInput
<1>6. CASE hook # "o1"
  <2>1. BagsV4HookFeeBPS \in 0..BPSTotal - 1
    BY HookAssumption
  <2>. QED
    BY <1>3, <1>6, <2>1 DEF Quoted, QuoteBagsV4ExactInput
<1>. QED
  BY <1>4, <1>5, <1>6

(* The quote that is kept.                                                 *)
LEMMA QuoteBounded ==
  ASSUME HookInv, offer # NoOffer
  PROVE  offer.out \in 0..MaxOut
<1>1. PICK t \in 0..now : MadeAt(t)
  BY DEF HookInv
<1>2. t \in Nat /\ schedule \in Schedules
  BY DEF HookInv
<1>. QED
  BY <1>1, <1>2, QuotedBounded DEF MadeAt

(* And the output of its trade.                                            *)
LEMMA OutputIsNat ==
  ASSUME HookInv, offer # NoOffer, NEW d, d.amountIn \in 1..MaxAmount, NEW core \in Cores
  PROVE  Output(d, core) \in Nat
<1>1. now \in Nat /\ schedule \in Schedules /\ offer.side \in Sides /\ MaxOut \in Nat
  BY HookAssumption DEF HookInv, MadeAt
<1>2. Output(d, core) \in 0..MaxOut
  BY <1>1, QuotedBounded DEF Output
<1>. QED
  BY <1>1, <1>2

(* A minimum output does not exceed the quote, and gives away no more than *)
(* the slippage, up to a unit of rounding.                                 *)
LEMMA MinimumOfQuote ==
  ASSUME NEW out \in Nat, NEW slippage \in Nat, slippage <= BPSTotal
  PROVE  /\ MinOutputWithSlippage(out, slippage) \in 0..out
         /\ (MinOutputWithSlippage(out, slippage) + 1) * BPSTotal
              > out * (BPSTotal - slippage)
<1>. DEFINE part == BPSTotal - slippage
            a == out * part
            q == a \div BPSTotal
<1>1. BPSTotal \in Nat \ {0}
  BY HookAssumption
<1>2. part \in Nat /\ part <= BPSTotal
  BY <1>1
<1>. HIDE DEF part
<1>3. a \in Nat /\ a <= out * BPSTotal
  <2>1. part * out <= BPSTotal * out /\ part * out \in Nat
    BY <1>1, <1>2, MulMono
  <2>2. part * out = out * part /\ BPSTotal * out = out * BPSTotal
    BY <1>1, <1>2, SMT
  <2>. QED
    BY <2>1, <2>2
<1>. HIDE DEF a
<1>4. q \in Nat /\ a < q * BPSTotal + BPSTotal
  BY <1>1, <1>3, DivMeans
<1>5. q <= out
  <2>1. out * BPSTotal < (out + 1) * BPSTotal
    <3>1. (out + 1) * BPSTotal = out * BPSTotal + BPSTotal /\ out * BPSTotal \in Nat
      BY <1>1, SMT
    <3>. QED
      BY <1>1, <3>1
  <2>2. a < (out + 1) * BPSTotal
    <3>1. out * BPSTotal \in Int /\ (out + 1) * BPSTotal \in Int
      BY <1>1
    <3>. QED
      BY <1>3, <2>1, <3>1
  <2>. QED
    BY <1>1, <1>3, <2>2, DivBelow
<1>. HIDE DEF q
<1>6. (q + 1) * BPSTotal > a
  <2>1. (q + 1) * BPSTotal = q * BPSTotal + BPSTotal
    BY <1>1, <1>4, SMT
  <2>. QED
    BY <1>4, <2>1
<1>7. MinOutputWithSlippage(out, slippage) = q
  BY DEF MinOutputWithSlippage, q, a, part
<1>. QED
  BY <1>4, <1>5, <1>6, <1>7 DEF a, part
-----------------------------------------------------------------------------
(* The order is the request that was built from the quote that is kept.    *)
Ordered(first, native, slippage, deadline, length) ==
    /\ offer # NoOffer
    /\ offer.out > 0
    /\ slippage <= BPSTotal
    /\ order.value = Value(order.request)
    /\ order.slippage = slippage
    /\ order.request = Request(offer.side, first, native, offer.amount,
                               MinOutputWithSlippage(offer.out, slippage), deadline, length)

OrderInv ==
    order # NoOrder =>
        \E first, native \in BOOLEAN, slippage \in Slippages, deadline \in Deadlines \ {0},
           length \in Lengths : Ordered(first, native, slippage, deadline, length)

(* What the last approvals are good for is there, as soon as they are      *)
(* mined, in whatever order.                                               *)
FundInv ==
    /\ allowance \in Nat
    /\ permit.amount \in Nat /\ permit.expiration \in Nat
    /\ permit = [amount |-> permit.amount, expiration |-> permit.expiration]
    /\ grant.amount \in Nat /\ grant.expiration \in Nat
    /\ grant = [amount |-> grant.amount, expiration |-> grant.expiration]
    /\ \A call \in approvals :
         /\ call.to \in {"token", "permit2"}
         /\ call.amount \in Nat /\ call.amount >= grant.amount
         /\ call.to = "permit2" => call.expiration = grant.expiration
    /\ (\A call \in approvals : call.to # "token") => allowance >= grant.amount
    /\ (\A call \in approvals : call.to # "permit2") =>
         permit.amount >= grant.amount /\ permit.expiration = grant.expiration
-----------------------------------------------------------------------------
(* The smaller of two numbers.                                             *)
LEMMA MinOfTwo ==
  ASSUME NEW a \in Nat, NEW b \in Nat
  PROVE  /\ Min({a, b}) \in {a, b}
         /\ Min({a, b}) <= a /\ Min({a, b}) <= b
<1>. DEFINE IsMin(x) == \A y \in {a, b} : x <= y
<1>1. \E x \in {a, b} : IsMin(x)
  <2>1. CASE a <= b
    BY <2>1
  <2>2. CASE b < a
    BY <2>2
  <2>. QED
    BY <2>1, <2>2
<1>2. Min({a, b}) = CHOOSE x \in {a, b} : IsMin(x)
  BY DEF Min
<1>3. Min({a, b}) \in {a, b} /\ IsMin(Min({a, b}))
  BY <1>1, <1>2
<1>. QED
  BY <1>3

(* The two currencies of a pool differ, and the request goes from one to   *)
(* the other.                                                              *)
LEMMA RequestDirection ==
  ASSUME NEW side, NEW first \in BOOLEAN, NEW native \in BOOLEAN, NEW amount, NEW minimum,
         NEW deadline, NEW length,
         NEW r, r = Request(side, first, native, amount, minimum, deadline, length)
  PROVE  /\ r.amountIn = amount /\ r.amountOutMinimum = minimum
         /\ r.deadline = deadline /\ r.hookData = length
         /\ \/ r.currencyIn = r.currency0 /\ r.currencyOut = r.currency1
            \/ r.currencyIn # r.currency0 /\ r.currencyIn = r.currency1
                 /\ r.currencyOut = r.currency0
BY DEF Request, Native

(* What the router receives of an order.                                   *)
OrderReceived(d) ==
    /\ WellFormed(d)
    /\ d.deadline = order.request.deadline
    /\ d.amountIn = offer.amount
    /\ d.amountOutMinimum = MinOutputWithSlippage(offer.out, order.slippage)
    /\ (IF d.zeroForOne = 1 THEN d.pool[1] ELSE d.pool[2]) = order.request.currencyIn
    /\ (IF d.zeroForOne = 1 THEN d.pool[2] ELSE d.pool[1]) = order.request.currencyOut
    /\ d.settle = <<order.request.currencyIn, MaxUint256>>
    /\ d.take = <<order.request.currencyOut, d.amountOutMinimum>>
    /\ d.hookData = HookData(order.request.hookData)
    /\ order.request.amountIn = offer.amount
    /\ order.value = Value(order.request)
    /\ order.slippage \in Nat /\ order.slippage <= BPSTotal
    /\ offer # NoOffer /\ offer.out > 0

(* The calldata of an order says what its quote did.                       *)
LEMMA OrderIsReceived ==
  ASSUME HookInv, OrderInv, order # NoOrder
  PROVE  OrderReceived(Received[order.request])
<1>1. PICK first \in BOOLEAN, native \in BOOLEAN, slippage \in Slippages,
           deadline \in Deadlines \ {0}, length \in Lengths :
        Ordered(first, native, slippage, deadline, length)
  BY DEF OrderInv
<1>. DEFINE r == order.request
            minimum == MinOutputWithSlippage(offer.out, slippage)
<1>2. /\ offer # NoOffer /\ offer.out > 0
      /\ slippage <= BPSTotal
      /\ order.value = Value(r) /\ order.slippage = slippage
      /\ r = Request(offer.side, first, native, offer.amount, minimum, deadline, length)
  BY <1>1 DEF Ordered
<1>3. slippage \in Nat /\ length \in Nat
  BY TradeAssumption
<1>4. offer.side \in Sides /\ offer.amount \in 1..MaxAmount
  BY <1>2 DEF HookInv, MadeAt
<1>5. offer.out \in 0..MaxOut /\ offer.out \in Nat /\ MaxOut \in Nat
  BY <1>2, QuoteBounded, HookAssumption
<1>6. minimum \in 0..offer.out
  BY <1>2, <1>3, <1>5, MinimumOfQuote
<1>. HIDE DEF minimum, r
<1>7. minimum \in 0..MaxOut
  BY <1>5, <1>6
<1>8. r \in Requests
  BY <1>2, <1>4, <1>7 DEF Requests
<1>9. /\ r.amountIn = offer.amount /\ r.amountOutMinimum = minimum
      /\ r.deadline = deadline /\ r.hookData = length
      /\ \/ r.currencyIn = r.currency0 /\ r.currencyOut = r.currency1
         \/ r.currencyIn # r.currency0 /\ r.currencyIn = r.currency1
              /\ r.currencyOut = r.currency0
  BY <1>2, RequestDirection
<1>. DEFINE zeroForOne == r.currencyIn = r.currency0
            d == Decode(encodeV4ExactInputSingle(r, zeroForOne))
<1>10. Received[r] = d
  BY <1>8 DEF Received
<1>11. r.hookData \in Nat /\ zeroForOne \in BOOLEAN
  BY <1>3, <1>9
<1>12. d = Decode(encodeV4ExactInputSingle(r, zeroForOne))
  OBVIOUS
<1>. HIDE DEF zeroForOne, d
<1>13. /\ WellFormed(d)
       /\ d.deadline = r.deadline
       /\ d.pool[1] = r.currency0 /\ d.pool[2] = r.currency1
       /\ d.zeroForOne = (IF zeroForOne THEN 1 ELSE 0)
       /\ d.amountIn = r.amountIn
       /\ d.amountOutMinimum = r.amountOutMinimum
       /\ d.settle = <<r.currencyIn, MaxUint256>>
       /\ d.take = <<r.currencyOut, r.amountOutMinimum>>
       /\ d.hookData = HookData(r.hookData)
  BY <1>11, <1>12, CalldataRoundTrip
<1>14. /\ (IF d.zeroForOne = 1 THEN d.pool[1] ELSE d.pool[2]) = r.currencyIn
       /\ (IF d.zeroForOne = 1 THEN d.pool[2] ELSE d.pool[1]) = r.currencyOut
  <2>1. CASE zeroForOne
    BY <1>9, <1>13, <2>1 DEF zeroForOne
  <2>2. CASE ~zeroForOne
    BY <1>9, <1>13, <2>2 DEF zeroForOne
  <2>. QED
    BY <2>1, <2>2
<1>15. OrderReceived(d)
  BY <1>2, <1>3, <1>9, <1>13, <1>14 DEF OrderReceived, r, minimum
<1>. QED
  BY <1>10, <1>15 DEF r
-----------------------------------------------------------------------------
(* An order that is carried out keeps to its limits.                       *)
LEMMA DoneWithinLimits ==
  ASSUME HookInv, OrderInv, order # NoOrder, NEW core \in Cores,
         NEW d, d = Received[order.request], Executes(d, core),
         outcome' = Outcome(d, core, "done")
  PROVE  TradeWithinLimits' /\ NoNeedlessRevert'
<1>1. OrderReceived(d)
  BY OrderIsReceived
<1>2. offer.out \in Nat /\ MaxOut \in Nat
  BY <1>1, QuoteBounded, HookAssumption DEF OrderReceived
<1>. DEFINE minimum == MinOutputWithSlippage(offer.out, order.slippage)
<1>3. minimum \in Nat /\ (minimum + 1) * BPSTotal > offer.out * (BPSTotal - order.slippage)
  BY <1>1, <1>2, MinimumOfQuote DEF OrderReceived
<1>4. /\ outcome'.result = "done"
      /\ outcome'.paid = <<order.request.currencyIn, order.request.amountIn>>
      /\ outcome'.value = Value(order.request)
      /\ outcome'.hookData = HookData(order.request.hookData)
      /\ outcome'.request = order.request
      /\ outcome'.quote = offer.out /\ outcome'.slippage = order.slippage
      /\ outcome'.got = Output(d, core)
  BY <1>1 DEF OrderReceived, Outcome
<1>5. d.amountOutMinimum = minimum /\ Output(d, core) >= d.amountOutMinimum
  BY <1>1 DEF OrderReceived, Executes
<1>6. Output(d, core) \in Nat
  <2>1. d.amountIn \in 1..MaxAmount
    BY <1>1 DEF OrderReceived, HookInv, MadeAt
  <2>. QED
    BY <1>1, <2>1, OutputIsNat DEF OrderReceived
<1>. HIDE DEF minimum
<1>7. (Output(d, core) + 1) * BPSTotal >= (minimum + 1) * BPSTotal
  <2>1. minimum + 1 \in Nat /\ Output(d, core) + 1 \in Nat
          /\ minimum + 1 <= Output(d, core) + 1
    BY <1>3, <1>5, <1>6
  <2>2. (minimum + 1) * BPSTotal <= (Output(d, core) + 1) * BPSTotal
    BY <2>1, HookAssumption, MulMono
  <2>. QED
    BY <1>3, <1>6, <2>2, HookAssumption
<1>8. (Output(d, core) + 1) * BPSTotal > offer.out * (BPSTotal - order.slippage)
  <2>. DEFINE x == (Output(d, core) + 1) * BPSTotal
              y == (minimum + 1) * BPSTotal
              z == offer.out * (BPSTotal - order.slippage)
  <2>1. x \in Int /\ y \in Int /\ z \in Int
    BY <1>1, <1>2, <1>3, <1>6, HookAssumption DEF OrderReceived
  <2>2. x >= y /\ y > z
    BY <1>3, <1>7
  <2>. HIDE DEF x, y, z
  <2>3. x > z
    BY <2>1, <2>2
  <2>. QED
    BY <2>3 DEF x, z
<1>9. TradeWithinLimits'
  BY <1>4, <1>8 DEF TradeWithinLimits, Value
<1>10. NoNeedlessRevert'
  BY <1>4 DEF NoNeedlessRevert
<1>. QED
  BY <1>9, <1>10

(* An order that reverts has a cause outside the SDK.                      *)
LEMMA RevertsWithCause ==
  ASSUME HookInv, QuoteHoldsLater, OrderInv, FundInv, order # NoOrder, NEW core \in Cores,
         NEW d, d = Received[order.request], ~Executes(d, core),
         outcome' = Outcome(d, core, "reverted")
  PROVE  TradeWithinLimits' /\ NoNeedlessRevert'
<1>1. /\ outcome'.result = "reverted"
      /\ outcome'.moved = (core # offer.core)
      /\ outcome'.late = (now > order.request.deadline)
      /\ outcome'.grown = (offer.side = "buy" /\ offer.amount > offer.core.limit)
      /\ outcome'.unfunded = (order.request.currencyIn # Native
           /\ (approvals # {} \/ grant.amount < offer.amount \/ now > grant.expiration))
  BY DEF Outcome
<1>2. TradeWithinLimits'
  BY <1>1 DEF TradeWithinLimits
<1>3. OrderReceived(d)
  BY OrderIsReceived
<1>4. SUFFICES ASSUME ~(outcome'.moved \/ outcome'.late \/ outcome'.unfunded \/ outcome'.grown)
               PROVE  FALSE
  BY <1>2 DEF NoNeedlessRevert
<1>5. /\ core = offer.core /\ ~(now > order.request.deadline)
      /\ ~(offer.side = "buy" /\ offer.amount > offer.core.limit)
      /\ \/ order.request.currencyIn = Native
         \/ approvals = {} /\ ~(grant.amount < offer.amount) /\ ~(now > grant.expiration)
  BY <1>1, <1>4, Zenon
<1>6. now \in Nat /\ offer.amount \in 1..MaxAmount /\ MaxAmount \in Nat /\ MaxAmount <= MaxUint256
        /\ MaxUint256 \in Nat /\ offer.out \in Nat
  <2>1. offer.amount \in 1..MaxAmount /\ now \in Nat
    BY <1>3 DEF OrderReceived, HookInv, MadeAt
  <2>2. offer.out \in Nat
    BY <1>3, QuoteBounded, HookAssumption DEF OrderReceived
  <2>. QED
    BY <2>1, <2>2, HookAssumption, TradeAssumption
<1>7. order.request.deadline \in Nat
  <2>1. PICK first \in BOOLEAN, native \in BOOLEAN, slippage \in Slippages,
             deadline \in Deadlines \ {0}, length \in Lengths :
          Ordered(first, native, slippage, deadline, length)
    BY DEF OrderInv
  <2>2. order.request.deadline = deadline
    BY <2>1, RequestDirection DEF Ordered
  <2>. QED
    BY <2>2, TradeAssumption
<1>8. /\ WellFormed(d)
      /\ now <= d.deadline
  BY <1>3, <1>5, <1>6, <1>7 DEF OrderReceived
<1>9. Output(d, core) >= offer.out /\ Output(d, core) \in Nat
  <2>1. Output(d, core) = Quoted(offer.hook, offer.side, offer.core, offer.amount, now)
    BY <1>3, <1>5 DEF OrderReceived, Output
  <2>2. Output(d, core) >= offer.out
    BY <1>3, <1>5, <2>1 DEF OrderReceived, QuoteHoldsLater
  <2>3. Output(d, core) \in Nat
    BY <1>3, <1>6, OutputIsNat DEF OrderReceived
  <2>. QED
    BY <2>2, <2>3
<1>10. d.amountOutMinimum \in 0..offer.out
  BY <1>3, <1>6, MinimumOfQuote DEF OrderReceived
<1>11. Output(d, core) > 0 /\ Output(d, core) >= d.amountOutMinimum
  BY <1>3, <1>6, <1>9, <1>10 DEF OrderReceived
<1>12. /\ d.settle[1] = order.request.currencyIn /\ d.settle[2] >= d.amountIn
       /\ d.take[1] = order.request.currencyOut /\ d.take[2] <= Output(d, core)
  BY <1>3, <1>6, <1>9, <1>10, <1>11 DEF OrderReceived
<1>13. IF order.request.currencyIn = Native THEN order.value >= d.amountIn
       ELSE Spendable >= d.amountIn
  <2>1. CASE order.request.currencyIn = Native
    BY <1>3, <1>6, <2>1 DEF OrderReceived, Value
  <2>2. CASE order.request.currencyIn # Native
    <3>1. /\ allowance \in Nat /\ permit.amount \in Nat /\ permit.expiration \in Nat
          /\ grant.amount \in Nat /\ grant.expiration \in Nat
          /\ allowance >= grant.amount /\ permit.amount >= grant.amount
          /\ permit.expiration = grant.expiration
      BY <1>5, <2>2 DEF FundInv
    <3>2. now <= permit.expiration /\ permit.amount >= offer.amount
            /\ allowance >= offer.amount
      BY <1>5, <1>6, <2>2, <3>1
    <3>3. Spendable = Min({permit.amount, allowance})
      BY <1>6, <3>1, <3>2 DEF Spendable
    <3>4. Min({permit.amount, allowance}) >= offer.amount
      BY <3>1, <3>2, MinOfTwo
    <3>. QED
      BY <1>3, <2>2, <3>3, <3>4 DEF OrderReceived
  <2>. QED
    BY <2>1, <2>2
<1>. QED
  BY <1>3, <1>8, <1>11, <1>12, <1>13 DEF OrderReceived, Executes
-----------------------------------------------------------------------------
(* A trade that is paid for leaves what the approvals are good for.        *)
LEMMA SpendKeepsFunds ==
  ASSUME HookInv, FundInv, NEW d, NEW core, d.amountIn \in 1..MaxAmount,
         Spendable >= d.amountIn, Spend(d)
  PROVE  FundInv'
<1>1. /\ now \in Nat /\ allowance \in Nat
      /\ permit.amount \in Nat /\ permit.expiration \in Nat
      /\ permit = [amount |-> permit.amount, expiration |-> permit.expiration]
      /\ grant.amount \in Nat /\ grant.expiration \in Nat
      /\ grant = [amount |-> grant.amount, expiration |-> grant.expiration]
  BY DEF HookInv, FundInv
<1>2. d.amountIn \in Nat /\ d.amountIn > 0
  BY HookAssumption
<1>3. permit.amount >= d.amountIn /\ allowance >= d.amountIn
  <2>1. Spendable = Min({permit.amount, allowance})
    BY <1>1, <1>2 DEF Spendable
  <2>. QED
    BY <1>1, <1>2, <2>1, MinOfTwo
<1>. DEFINE left == IF permit.amount = MaxUint160 THEN permit.amount
                    ELSE permit.amount - d.amountIn
            due == IF grant.amount > d.amountIn THEN grant.amount - d.amountIn ELSE 0
<1>4. /\ allowance' = allowance - d.amountIn
      /\ permit' = [amount |-> left, expiration |-> permit.expiration]
      /\ grant' = [amount |-> due, expiration |-> grant.expiration]
      /\ approvals' = approvals
  BY <1>1 DEF Spend
<1>5. left \in Nat /\ due \in Nat /\ due <= grant.amount /\ allowance - d.amountIn \in Nat
  BY <1>1, <1>2, <1>3
<1>6. allowance >= grant.amount => allowance - d.amountIn >= due
  BY <1>1, <1>2, <1>3
<1>7. permit.amount >= grant.amount => left >= due
  BY <1>1, <1>2, <1>3
<1>. HIDE DEF left, due
<1>8. /\ permit'.amount = left /\ permit'.expiration = permit.expiration
      /\ grant'.amount = due /\ grant'.expiration = grant.expiration
  BY <1>4
<1>9. ASSUME NEW call \in approvals
      PROVE  /\ call.to \in {"token", "permit2"}
             /\ call.amount \in Nat /\ call.amount >= due
             /\ call.to = "permit2" => call.expiration = grant.expiration
  BY <1>1, <1>5 DEF FundInv
<1>10. (\A call \in approvals : call.to # "token") => allowance - d.amountIn >= due
  BY <1>6 DEF FundInv
<1>11. (\A call \in approvals : call.to # "permit2") =>
         left >= due /\ permit.expiration = grant.expiration
  BY <1>7 DEF FundInv
<1>. QED
  BY <1>1, <1>4, <1>5, <1>8, <1>9, <1>10, <1>11 DEF FundInv

(* The steps of the trader and of the chain, before the trade is over.     *)
LEMMA TradeStepKeeps ==
  ASSUME HookInv, QuoteHoldsLater, OrderInv, FundInv, TradeWithinLimits, NoNeedlessRevert,
         TradeStep
  PROVE  OrderInv' /\ FundInv' /\ TradeWithinLimits' /\ NoNeedlessRevert'
<1>1. ASSUME UNCHANGED outcome PROVE TradeWithinLimits' /\ NoNeedlessRevert'
  BY <1>1 DEF TradeWithinLimits, NoNeedlessRevert
<1>2. ASSUME UNCHANGED tokenVars PROVE FundInv'
  BY <1>2 DEF tokenVars, FundInv
<1>3. ASSUME UNCHANGED <<order, offer>> PROVE OrderInv'
  BY <1>3 DEF OrderInv, Ordered
<1>4. ASSUME order' = NoOrder PROVE OrderInv'
  BY <1>4 DEF OrderInv
<1>5. CASE QuoteStep
  <2>1. order = NoOrder /\ UNCHANGED <<tokenVars, order, outcome>>
    BY <1>5, Zenon DEF QuoteStep, Aside
  <2>. QED
    BY <1>1, <1>2, <1>4, <2>1
<1>6. CASE order = NoOrder /\ Aside(RefuseState)
  <2>1. order = NoOrder /\ UNCHANGED <<tokenVars, order, outcome>>
    BY <1>6, Zenon DEF Aside
  <2>. QED
    BY <1>1, <1>2, <1>4, <2>1
<1>7. CASE Aside(NextBlock)
  <2>1. UNCHANGED <<tokenVars, order, outcome>> /\ UNCHANGED <<order, offer>>
    BY <1>7 DEF Aside, NextBlock
  <2>. QED
    BY <1>1, <1>2, <1>3, <2>1
<1>8. ASSUME NEW amount \in 1..MaxAmount, NEW expiration \in Expirations,
             BuildUniversalRouterApprovals(amount, expiration)
      PROVE  OrderInv' /\ FundInv' /\ TradeWithinLimits' /\ NoNeedlessRevert'
  <2>. DEFINE first == [to |-> "token", amount |-> amount, expiration |-> 0]
              second == [to |-> "permit2", amount |-> amount, expiration |-> expiration]
  <2>1. /\ approvals' = {first, second}
        /\ grant' = [amount |-> amount, expiration |-> expiration]
        /\ UNCHANGED <<vars, allowance, permit, order, outcome>>
    BY <1>8 DEF BuildUniversalRouterApprovals
  <2>2. amount \in Nat /\ expiration \in Nat
    BY HookAssumption, TradeAssumption
  <2>3. FundInv'
    <3>1. first.to = "token" /\ second.to = "permit2"
      OBVIOUS
    <3>2. first \in approvals' /\ second \in approvals'
      BY <2>1
    <3>3. \A call \in approvals' :
            /\ call.to \in {"token", "permit2"}
            /\ call.amount \in Nat /\ call.amount >= grant'.amount
            /\ call.to = "permit2" => call.expiration = grant'.expiration
      BY <2>1, <2>2
    <3>4. /\ allowance' \in Nat
          /\ permit'.amount \in Nat /\ permit'.expiration \in Nat
          /\ permit' = [amount |-> permit'.amount, expiration |-> permit'.expiration]
      BY <2>1 DEF FundInv
    <3>5. /\ grant'.amount \in Nat /\ grant'.expiration \in Nat
          /\ grant' = [amount |-> grant'.amount, expiration |-> grant'.expiration]
      BY <2>1, <2>2
    <3>. HIDE DEF first, second
    <3>. QED
      BY <3>1, <3>2, <3>3, <3>4, <3>5 DEF FundInv
  <2>. QED
    BY <1>1, <1>3, <2>1, <2>3 DEF vars
<1>9. ASSUME NEW call \in approvals, MineApproval(call)
      PROVE  OrderInv' /\ FundInv' /\ TradeWithinLimits' /\ NoNeedlessRevert'
  <2>1. /\ approvals' = approvals \ {call}
        /\ UNCHANGED <<vars, grant, order, outcome>>
    BY <1>9 DEF MineApproval
  <2>2. /\ call.amount \in Nat /\ call.amount >= grant.amount
        /\ call.to = "permit2" => call.expiration = grant.expiration
        /\ allowance \in Nat /\ permit.amount \in Nat /\ permit.expiration \in Nat
        /\ permit = [amount |-> permit.amount, expiration |-> permit.expiration]
        /\ grant.amount \in Nat /\ grant.expiration \in Nat
        /\ grant = [amount |-> grant.amount, expiration |-> grant.expiration]
    BY DEF FundInv
  <2>3. \A c \in approvals' :
          /\ c.to \in {"token", "permit2"}
          /\ c.amount \in Nat /\ c.amount >= grant.amount
          /\ c.to = "permit2" => c.expiration = grant.expiration
    BY <2>1 DEF FundInv
  <2>4. CASE call.to = "token" /\ allowance' = call.amount /\ UNCHANGED permit
    <3>1. (\A c \in approvals' : c.to # "permit2") =>
            permit.amount >= grant.amount /\ permit.expiration = grant.expiration
      BY <2>1, <2>4 DEF FundInv
    <3>. QED
      BY <1>1, <1>3, <2>1, <2>2, <2>3, <2>4, <3>1 DEF FundInv, vars
  <2>5. CASE /\ call.to = "permit2" /\ UNCHANGED allowance
             /\ permit' = [amount |-> call.amount, expiration |-> call.expiration]
    <3>1. (\A c \in approvals' : c.to # "token") => allowance >= grant.amount
      BY <2>1, <2>5 DEF FundInv
    <3>2. /\ permit'.amount = call.amount /\ permit'.expiration = grant.expiration
          /\ permit' = [amount |-> permit'.amount, expiration |-> permit'.expiration]
      BY <2>2, <2>5
    <3>. QED
      BY <1>1, <1>3, <2>1, <2>2, <2>3, <2>5, <3>1, <3>2 DEF FundInv, vars
  <2>. QED
    BY <1>9, <2>4, <2>5 DEF MineApproval
<1>10. ASSUME NEW first \in BOOLEAN, NEW native \in BOOLEAN, NEW slippage \in Slippages,
              NEW deadline \in Deadlines, NEW length \in Lengths,
              BuildV4ExactInputSingle(first, native, slippage, deadline, length)
       PROVE  OrderInv' /\ FundInv' /\ TradeWithinLimits' /\ NoNeedlessRevert'
  <2>. DEFINE r == Request(offer.side, first, native, offer.amount,
                           MinOutputWithSlippage(offer.out, slippage), deadline, length)
  <2>1. /\ offer.out > 0 /\ slippage <= BPSTotal /\ deadline # 0
        /\ order' = [value |-> Value(r), request |-> r, slippage |-> slippage]
        /\ UNCHANGED <<vars, tokenVars, outcome>>
    BY <1>10 DEF BuildV4ExactInputSingle
  <2>2. offer' = offer /\ offer # NoOffer
    BY <2>1 DEF vars, NoOffer
  <2>3. Ordered(first, native, slippage, deadline, length)'
    <3>1. order'.value = Value(r) /\ order'.slippage = slippage /\ order'.request = r
      BY <2>1
    <3>. QED
      BY <2>1, <2>2, <3>1 DEF Ordered
  <2>4. OrderInv'
    BY <2>1, <2>3 DEF OrderInv
  <2>. QED
    BY <1>1, <1>2, <2>1, <2>4
<1>11. CASE MineSwap
  <2>. DEFINE d == Received[order.request]
  <2>1. order # NoOrder /\ order' = NoOrder
    BY <1>11 DEF MineSwap
  <2>2. PICK core \in Cores :
          \/ /\ Executes(d, core)
             /\ outcome' = Outcome(d, core, "done")
             /\ \/ order.request.currencyIn = Native /\ UNCHANGED tokenVars
                \/ order.request.currencyIn # Native /\ Spend(d)
          \/ /\ ~Executes(d, core)
             /\ outcome' = Outcome(d, core, "reverted")
             /\ UNCHANGED tokenVars
    BY <1>11 DEF MineSwap
  <2>3. OrderReceived(d)
    BY <2>1, OrderIsReceived
  <2>. HIDE DEF d
  <2>4. d = Received[order.request]
    BY DEF d
  <2>5. ASSUME Executes(d, core), outcome' = Outcome(d, core, "done")
        PROVE  TradeWithinLimits' /\ NoNeedlessRevert'
    BY <2>1, <2>4, <2>5, DoneWithinLimits
  <2>6. ASSUME ~Executes(d, core), outcome' = Outcome(d, core, "reverted")
        PROVE  TradeWithinLimits' /\ NoNeedlessRevert'
    BY <2>1, <2>4, <2>6, RevertsWithCause
  <2>7. ASSUME order.request.currencyIn # Native, Executes(d, core), Spend(d)
        PROVE  FundInv'
    <3>1. d.amountIn \in 1..MaxAmount
      BY <2>3 DEF OrderReceived, HookInv, MadeAt
    <3>2. Spendable >= d.amountIn
      BY <2>3, <2>7 DEF OrderReceived, Executes
    <3>. QED
      BY <2>7, <3>1, <3>2, SpendKeepsFunds
  <2>8. FundInv' /\ TradeWithinLimits' /\ NoNeedlessRevert'
    BY <1>2, <2>2, <2>5, <2>6, <2>7
  <2>. QED
    BY <1>4, <2>1, <2>8
<1>. QED
  BY <1>5, <1>6, <1>7, <1>8, <1>9, <1>10, <1>11 DEF TradeStep

(* The trader's steps and the chain's are steps of HookFees or leave its   *)
(* state alone, so all that is proved of quotes holds while they are       *)
(* traded.                                                                 *)
THEOREM TradesKeepQuotes == TradeSpec => Spec
<1>1. TradeInit => Init
  BY DEF TradeInit
<1>2. [TradeNext]_tradeVars => [Next]_vars
  <2>1. ASSUME QuoteStep PROVE Next
    BY <2>1 DEF QuoteStep, Aside, Next
  <2>2. ASSUME Aside(RefuseState) PROVE Next
    BY <2>2 DEF Aside, Next
  <2>3. ASSUME Aside(NextBlock) PROVE Next
    BY <2>3 DEF Aside, Next
  <2>4. ASSUME NEW amount, NEW expiration, BuildUniversalRouterApprovals(amount, expiration)
        PROVE  UNCHANGED vars
    BY <2>4 DEF BuildUniversalRouterApprovals
  <2>5. ASSUME NEW call, MineApproval(call) PROVE UNCHANGED vars
    BY <2>5 DEF MineApproval
  <2>6. ASSUME NEW first, NEW native, NEW slippage, NEW deadline, NEW length,
               BuildV4ExactInputSingle(first, native, slippage, deadline, length)
        PROVE  UNCHANGED vars
    BY <2>6 DEF BuildV4ExactInputSingle
  <2>7. ASSUME MineSwap PROVE Next
    BY <2>7 DEF MineSwap, Next, RefuseState
  <2>8. ASSUME Forget PROVE UNCHANGED vars
    BY <2>8 DEF Forget
  <2>9. ASSUME UNCHANGED tradeVars PROVE UNCHANGED vars
    BY <2>9 DEF tradeVars
  <2>. QED
    BY <2>1, <2>2, <2>3, <2>4, <2>5, <2>6, <2>7, <2>8, <2>9 DEF TradeNext, TradeStep
<1>. QED
  BY <1>1, <1>2, PTL DEF TradeSpec, Spec

(* The invariant of a trade, which is inductive given that of the quotes.  *)
LEMMA TradeInvHolds ==
  TradeSpec => [](OrderInv /\ FundInv /\ TradeWithinLimits /\ NoNeedlessRevert)
<1>. DEFINE Inv == OrderInv /\ FundInv /\ TradeWithinLimits /\ NoNeedlessRevert
<1>1. TradeInit => Inv
  <2>. SUFFICES ASSUME TradeInit PROVE Inv
    OBVIOUS
  <2>1. OrderInv
    BY DEF TradeInit, OrderInv
  <2>2. FundInv
    BY DEF TradeInit, FundInv
  <2>3. TradeWithinLimits /\ NoNeedlessRevert
    BY DEF TradeInit, NoOutcome, TradeWithinLimits, NoNeedlessRevert
  <2>. QED
    BY <2>1, <2>2, <2>3
<1>2. HookInv /\ QuoteHoldsLater /\ Inv /\ [TradeNext]_tradeVars => Inv'
  <2>. SUFFICES ASSUME HookInv, QuoteHoldsLater, Inv, [TradeNext]_tradeVars PROVE Inv'
    OBVIOUS
  <2>1. CASE TradeStep
    BY <2>1, TradeStepKeeps
  <2>2. ASSUME UNCHANGED <<vars, tokenVars, order>> PROVE OrderInv' /\ FundInv'
    BY <2>2 DEF vars, tokenVars, OrderInv, Ordered, FundInv
  <2>3. CASE Forget
    <3>1. TradeWithinLimits' /\ NoNeedlessRevert'
      BY <2>3 DEF Forget, NoOutcome, TradeWithinLimits, NoNeedlessRevert
    <3>. QED
      BY <2>2, <2>3, <3>1 DEF Forget
  <2>4. CASE UNCHANGED tradeVars
    <3>1. TradeWithinLimits' /\ NoNeedlessRevert'
      BY <2>4 DEF tradeVars, TradeWithinLimits, NoNeedlessRevert
    <3>. QED
      BY <2>2, <2>4, <3>1 DEF tradeVars
  <2>. QED
    BY <2>1, <2>3, <2>4 DEF TradeNext
<1>. QED
  BY <1>1, <1>2, TradesKeepQuotes, HookInvHolds, QuotesHold, PTL DEF TradeSpec

(* A trade that is mined takes what was asked for, nothing besides, hands  *)
(* over the hook data whole and loses no more than the slippage, for every *)
(* schedule, pool, amount, slippage and length of hook data.               *)
THEOREM TradesWithinLimits == TradeSpec => []TradeWithinLimits
BY TradeInvHolds, PTL

(* And one that reverts does so because the pool moved, the deadline       *)
(* passed, the approvals do not cover it or the input outgrew the          *)
(* liquidity: the quote, its minimum, the approvals and the calldata fit   *)
(* together.                                                               *)
THEOREM RevertsHaveCauses == TradeSpec => []NoNeedlessRevert
BY TradeInvHolds, PTL
=============================================================================
