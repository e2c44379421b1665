---------------------------- MODULE Curve_proofs ----------------------------
(***************************************************************************)
(* Proofs about Curve for any configurations, rates and amounts, and any   *)
(* width of the integers.  The arithmetic comes first: what each rounding  *)
(* of CurveMath costs, and whom.                                           *)
(***************************************************************************)
EXTENDS Curve, TLAPS

(* Multiplication by a natural number keeps the order.                     *)
LEMMA MulOrder ==
  ASSUME NEW a \in Int, NEW b \in Int, NEW c \in Nat, a <= b
  PROVE  a * c \in Int /\ b * c \in Int /\ a * c <= b * c
<1>1. PICK d \in Nat : b = a + d
  <2>. b - a \in Nat /\ b = a + (b - a)
    OBVIOUS
  <2>. QED
    OBVIOUS
<1>2. b * c = a * c + d * c
  BY <1>1, SMT
<1>3. a * c \in Int /\ d * c \in Nat
  BY SMT
<1>. QED
  BY <1>2, <1>3

(* What cannot be exceeded times c cannot be exceeded.                     *)
LEMMA MulCancel ==
  ASSUME NEW a \in Int, NEW b \in Int, NEW c \in Nat \ {0}, a * c < (b + 1) * c
  PROVE  a <= b
<1>1. SUFFICES ASSUME b + 1 <= a PROVE FALSE
  OBVIOUS
<1>2. (b + 1) * c <= a * c
  BY <1>1, MulOrder
<1>3. a * c \in Int /\ (b + 1) * c \in Int
  BY SMT
<1>. QED
  BY <1>2, <1>3

(* A quotient is the largest number whose product fits in the dividend.    *)
LEMMA QuotientMeans ==
  ASSUME NEW a \in Nat, NEW c \in Nat \ {0}
  PROVE  a \div c \in Nat /\ (a \div c) * c <= a /\ a < (a \div c + 1) * c
BY SMT

(* Rounded up, a quotient covers the dividend.                             *)
LEMMA CeilCovers ==
  ASSUME NEW a \in Nat, NEW b \in Nat, NEW d \in Nat \ {0}
  PROVE  MulDivCeil(a, b, d) \in Nat /\ a * b <= MulDivCeil(a, b, d) * d
<1> DEFINE p == a * b
<1>1. p \in Nat
  BY SMT
<1> HIDE DEF p
<1>2. /\ p \div d \in Nat /\ p % d \in 0..d - 1
      /\ p = (p \div d) * d + (p % d)
  BY <1>1, SMT
<1>3. CASE p % d = 0
  BY <1>1, <1>2, <1>3 DEF MulDivCeil, p
<1>4. CASE p % d # 0
  <2>1. (p \div d + 1) * d = (p \div d) * d + d
    BY <1>2, SMT
  <2>2. (p \div d) * d \in Nat
    BY <1>2, SMT
  <2>3. MulDivCeil(a, b, d) = p \div d + 1
    BY <1>4 DEF MulDivCeil, p
  <2>. QED
    BY <1>1, <1>2, <2>1, <2>2, <2>3 DEF p
<1>. QED
  BY <1>3, <1>4

(* Three fees, each rounded down on its own, take no more together than    *)
(* their sum of the spend.                                                 *)
LEMMA FeesLeave ==
  ASSUME NEW spent \in Nat, NEW a \in Nat, NEW b \in Nat, NEW c \in Nat
  PROVE  /\ BpsAmount(spent, a) \in Nat /\ BpsAmount(spent, b) \in Nat
         /\ BpsAmount(spent, c) \in Nat
         /\ NetOf(spent, a, b, c) \in Int
         /\ spent * (BPS - (a + b + c)) <= NetOf(spent, a, b, c) * BPS
<1> DEFINE x == BpsAmount(spent, a)
           y == BpsAmount(spent, b)
           z == BpsAmount(spent, c)
<1>1. BPS \in Nat \ {0}
  BY CurveMathAssumption
<1>2. spent * a \in Nat /\ spent * b \in Nat /\ spent * c \in Nat
  BY SMT
<1>3. /\ x \in Nat /\ x * BPS <= spent * a
      /\ y \in Nat /\ y * BPS <= spent * b
      /\ z \in Nat /\ z * BPS <= spent * c
  BY <1>1, <1>2, QuotientMeans DEF BpsAmount
<1> HIDE DEF x, y, z
<1>4. (spent - x - y - z) * BPS = spent * BPS - x * BPS - y * BPS - z * BPS
  BY <1>1, <1>3, SMT
<1>5. spent * (BPS - (a + b + c)) = spent * BPS - spent * a - spent * b - spent * c
  BY <1>1, SMT
<1>6. /\ x * BPS \in Int /\ y * BPS \in Int /\ z * BPS \in Int /\ spent * BPS \in Int
  BY <1>1, <1>3, SMT
<1>7. spent * (BPS - (a + b + c)) <= (spent - x - y - z) * BPS
  BY <1>2, <1>3, <1>4, <1>5, <1>6
<1>. QED
  BY <1>3, <1>7 DEF NetOf, x, y, z

(* The spend grossed up for the cost of the last tokens still pays it      *)
(* after the fees.                                                         *)
LEMMA GrossedPays ==
  ASSUME NEW needed \in Nat \ {0}, NEW a \in Nat, NEW b \in Nat, NEW c \in Nat,
         a + b + c < BPS
  PROVE  /\ Grossed(needed, a + b + c) \in Nat
         /\ needed <= NetOf(Grossed(needed, a + b + c), a, b, c)
<1> DEFINE rest == BPS - (a + b + c)
           g == Grossed(needed, a + b + c)
           net == NetOf(g, a, b, c)
<1>1. BPS \in Nat \ {0} /\ rest \in Nat \ {0}
  BY CurveMathAssumption
<1>2. g \in Nat /\ needed * BPS <= g * rest
  BY <1>1, CeilCovers DEF Grossed
<1>3. net \in Int /\ g * rest <= net * BPS
  BY <1>2, FeesLeave
<1> HIDE DEF rest, g, net
<1>4. g * rest \in Int /\ net * BPS \in Int /\ needed * BPS \in Int
  BY <1>1, <1>2, <1>3, SMT
<1>5. (net + 1) * BPS = net * BPS + BPS
  BY <1>1, <1>3, SMT
<1>6. needed * BPS < (net + 1) * BPS
  BY <1>1, <1>2, <1>3, <1>4, <1>5
<1>7. needed <= net
  BY <1>1, <1>3, <1>6, MulCancel
<1>. QED
  BY <1>2, <1>7 DEF g, net
-----------------------------------------------------------------------------
(* At most what AmountOut gives for the net amount leaves the product of   *)
(* the reserves where it was, or higher.                                   *)
LEMMA OutKeepsProduct ==
  ASSUME NEW q \in Nat \ {0}, NEW t \in Nat \ {0}, NEW net \in Nat, NEW out \in Nat,
         out <= AmountOut(net, q, t)
  PROVE  AmountOut(net, q, t) \in Nat /\ q * t <= (q + net) * (t - out)
<1> DEFINE most == AmountOut(net, q, t)
<1>1. net * t \in Nat /\ q + net \in Nat \ {0}
  BY SMT
<1>2. most \in Nat /\ most * (q + net) <= net * t
  BY <1>1, QuotientMeans DEF AmountOut
<1>3. out * (q + net) <= most * (q + net)
  BY <1>1, <1>2, MulOrder
<1> HIDE DEF most
<1>4. out * (q + net) \in Int /\ most * (q + net) \in Int /\ q * t \in Int
  BY <1>1, <1>2, SMT
<1>5. (q + net) * (t - out) = q * t + net * t - out * (q + net)
  BY SMT
<1>6. q * t <= (q + net) * (t - out)
  BY <1>1, <1>2, <1>3, <1>4, <1>5
<1>. QED
  BY <1>2, <1>6 DEF most

(* And so does at least what AmountIn asks for the tokens that go out.     *)
LEMMA InKeepsProduct ==
  ASSUME NEW q \in Nat \ {0}, NEW t \in Nat, NEW out \in Nat, out < t,
         NEW net \in Int, AmountIn(out, q, t) <= net
  PROVE  AmountIn(out, q, t) \in Nat \ {0} /\ q * t <= (q + net) * (t - out)
<1> DEFINE least == AmountIn(out, q, t)
<1>1. out * q \in Nat /\ t - out \in Nat \ {0}
  BY SMT
<1>2. least \in Nat \ {0} /\ out * q < least * (t - out)
  BY <1>1, QuotientMeans DEF AmountIn
<1>3. least * (t - out) <= net * (t - out)
  BY <1>1, <1>2, MulOrder
<1> HIDE DEF least
<1>4. least * (t - out) \in Int /\ net * (t - out) \in Int /\ q * t \in Int
  BY <1>1, <1>2, SMT
<1>5. (q + net) * (t - out) = q * t + net * (t - out) - out * q
  BY SMT
<1>6. q * t <= (q + net) * (t - out)
  BY <1>1, <1>2, <1>3, <1>4, <1>5
<1>. QED
  BY <1>2, <1>6 DEF least

(* What keeps the product cannot be sold back for more than was paid.      *)
LEMMA NoProfitBack ==
  ASSUME NEW q \in Nat \ {0}, NEW t \in Nat \ {0}, NEW net \in Nat, NEW out \in 0..t,
         q * t <= (q + net) * (t - out)
  PROVE  AmountOut(out, t - out, q + net) <= net
<1> DEFINE back == AmountOut(out, t - out, q + net)
<1>1. out * (q + net) \in Nat /\ (t - out) + out = t /\ net * t \in Int /\ q * t \in Int
  BY SMT
<1>2. back \in Nat /\ back * t <= out * (q + net)
  BY <1>1, QuotientMeans DEF AmountOut
<1>3. (q + net) * (t - out) = q * t + net * t - out * (q + net)
  BY SMT
<1> HIDE DEF back
<1>4. (net + 1) * t = net * t + t /\ back * t \in Int
  BY <1>2, SMT
<1>5. back * t < (net + 1) * t
  BY <1>1, <1>2, <1>3, <1>4
<1>6. back <= net
  BY <1>2, <1>5, MulCancel
<1>. QED
  BY <1>6 DEF back
-----------------------------------------------------------------------------
(* What a quote leaves for the pool.                                       *)
NetIn(o) == o.spent - o.fee - o.tax - o.snipeTax

Sound(o) ==
    /\ o \in [ok : BOOLEAN, quoteIn : Nat, tokensOut : Nat, spent : Nat,
              refund : Nat, fee : Nat, tax : Nat, snipeTax : Nat]
    /\ o.ok =>
         /\ o.tokensOut > 0
         /\ o.spent + o.refund = o.quoteIn
         /\ NetIn(o) > 0
         /\ o.snipeTax > 0 => o.spent * OnePct <= NetIn(o) * BPS

(* A quote and the reserves it was made from.                              *)
Fits(o, q, t) ==
    /\ o.tokensOut < t
    /\ q * t <= (q + NetIn(o)) * (t - o.tokensOut)
    /\ o.refund > 0 => NetIn(o) >= AmountIn(o.tokensOut, q, t)

(* The snipe rate leaves the last percent, or is zero.                     *)
LEMMA SnipeLeaves ==
  ASSUME NEW raw, NEW fee \in Nat, NEW tax \in Nat, fee + tax < BPS,
         SnipeOk(raw, fee, tax)
  PROVE  /\ SnipeBps(raw, fee, tax) \in Nat
         /\ fee + tax + SnipeBps(raw, fee, tax) < BPS
         /\ SnipeBps(raw, fee, tax) > 0 => fee + tax + SnipeBps(raw, fee, tax) <= BPS - OnePct
<1>1. raw \in Nat
  BY CurveMathAssumption DEF SnipeOk, Uint
<1>. QED
  BY <1>1, CurveMathAssumption DEF SnipeOk, SnipeBps, CappedSnipeBps

(* Part of the input buys tokens at fees that leave something of it.       *)
Payable(quoteIn, out, spent, a, b, c) ==
    /\ quoteIn \in Nat /\ out \in Nat \ {0} /\ spent \in Nat /\ spent <= quoteIn
    /\ {a, b, c} \subseteq Nat /\ (c > 0 => a + b + c <= BPS - OnePct)
    /\ NetOf(spent, a, b, c) > 0

(* The fees of a spend whose net is positive make a sound quote.           *)
LEMMA ResultSound ==
  ASSUME NEW quoteIn, NEW out, NEW spent, NEW a, NEW b, NEW c,
         Payable(quoteIn, out, spent, a, b, c)
  PROVE  LET o == BuyResult(quoteIn, out, spent, a, b, c)
         IN  /\ Sound(o) /\ o.ok /\ o.tokensOut = out /\ o.quoteIn = quoteIn
             /\ NetIn(o) = NetOf(spent, a, b, c) /\ o.refund = quoteIn - spent
<1> USE DEF Payable
<1> DEFINE o == BuyResult(quoteIn, out, spent, a, b, c)
           net == NetOf(spent, a, b, c)
<1>1. /\ o.ok /\ o.tokensOut = out /\ o.quoteIn = quoteIn /\ o.spent = spent
      /\ o.refund = quoteIn - spent /\ o.fee = BpsAmount(spent, a)
      /\ o.tax = BpsAmount(spent, b) /\ o.snipeTax = BpsAmount(spent, c)
  BY DEF BuyResult
<1>2. NetIn(o) = net
  BY <1>1 DEF NetIn, NetOf
<1>3. /\ BpsAmount(spent, a) \in Nat /\ BpsAmount(spent, b) \in Nat
      /\ BpsAmount(spent, c) \in Nat /\ net \in Int
      /\ spent * (BPS - (a + b + c)) <= net * BPS
  BY FeesLeave
<1>4. BPS \in Nat \ {0} /\ OnePct \in Nat
  BY CurveMathAssumption
<1>5. ASSUME BpsAmount(spent, c) > 0 PROVE spent * OnePct <= net * BPS
  <2>1. c > 0
    <3>1. SUFFICES ASSUME c = 0 PROVE FALSE
      OBVIOUS
    <3>2. spent * c = 0
      BY <3>1, SMT
    <3>3. BpsAmount(spent, c) * BPS <= 0
      BY <1>4, <3>2, QuotientMeans DEF BpsAmount
    <3>4. 1 * BPS <= BpsAmount(spent, c) * BPS
      BY <1>3, <1>4, <1>5, MulOrder
    <3>. QED
      BY <1>3, <1>4, <3>3, <3>4
  <2>2. OnePct * spent <= (BPS - (a + b + c)) * spent
    BY <1>4, <2>1, MulOrder
  <2>3. /\ OnePct * spent = spent * OnePct /\ spent * OnePct \in Int /\ net * BPS \in Int
        /\ (BPS - (a + b + c)) * spent = spent * (BPS - (a + b + c))
        /\ spent * (BPS - (a + b + c)) \in Int
    BY <1>3, <1>4, SMT
  <2>. QED
    BY <1>3, <2>2, <2>3
<1>6. o \in [ok : BOOLEAN, quoteIn : Nat, tokensOut : Nat, spent : Nat,
             refund : Nat, fee : Nat, tax : Nat, snipeTax : Nat]
  BY <1>3 DEF BuyResult
<1>7. Sound(o)
  BY <1>1, <1>2, <1>3, <1>5, <1>6 DEF Sound
<1>. QED
  BY <1>1, <1>2, <1>7

(* A quote that the code returns is sound, and fits the reserves.          *)
LEMMA QuoteSound ==
  ASSUME NEW q, NEW t, NEW sellable, NEW quoteIn,
         NEW fee \in Nat, NEW tax \in Nat, NEW raw,
         QuoteBuyFromState(q, t, sellable, quoteIn, fee, tax, raw).ok
  PROVE  LET o == QuoteBuyFromState(q, t, sellable, quoteIn, fee, tax, raw)
         IN  Sound(o) /\ Fits(o, q, t)
<1> DEFINE o == QuoteBuyFromState(q, t, sellable, quoteIn, fee, tax, raw)
           c == SnipeBps(raw, fee, tax)
           net == NetOf(quoteIn, fee, tax, c)
           out == AmountOut(net, q, t)
           total == fee + tax + c
           needed == AmountIn(sellable, q, t)
           grossed == Grossed(needed, total)
<1>1. /\ TradeStateOk(quoteIn, q, t, fee, tax) /\ sellable \in PositiveUint /\ sellable < t
      /\ SnipeOk(raw, fee, tax) /\ net > 0 /\ AmountOutOk(net, q, t) /\ out > 0
      /\ o = IF out > sellable
             THEN SellOutQuote(q, t, sellable, quoteIn, fee, tax, c)
             ELSE BuyResult(quoteIn, out, quoteIn, fee, tax, c)
  BY Zenon DEF QuoteBuyFromState, NoQuote
<1>2. /\ q \in Nat \ {0} /\ t \in Nat \ {0} /\ quoteIn \in Nat \ {0}
      /\ sellable \in Nat \ {0} /\ fee + tax < BPS /\ net \in Nat \ {0}
  BY <1>1, CurveMathAssumption DEF TradeStateOk, PositiveUint, AmountOutOk, Uint
<1>3. c \in Nat /\ total < BPS /\ (c > 0 => total <= BPS - OnePct)
  BY <1>1, <1>2, SnipeLeaves
<1>4. out \in Nat
  <2>1. net * t \in Nat /\ q + net \in Nat \ {0}
    BY <1>2, SMT
  <2>. QED
    BY <2>1, QuotientMeans DEF AmountOut
<1>0. o.ok
  OBVIOUS
<1> HIDE DEF o, c, net, out, needed, grossed
<1>5. CASE out <= sellable
  <2>1. o = BuyResult(quoteIn, out, quoteIn, fee, tax, c)
    BY <1>1, <1>2, <1>4, <1>5
  <2>2. Sound(o) /\ o.tokensOut = out /\ NetIn(o) = net /\ o.refund = 0
    <3>1. quoteIn \in Nat /\ out \in Nat \ {0} /\ quoteIn <= quoteIn /\ quoteIn - quoteIn = 0
      BY <1>1, <1>2, <1>4
    <3>2. NetOf(quoteIn, fee, tax, c) > 0
      BY <1>1 DEF net
    <3>3. Payable(quoteIn, out, quoteIn, fee, tax, c)
      BY <1>3, <3>1, <3>2 DEF Payable
    <3>. QED
      BY <2>1, <3>1, <3>3, ResultSound DEF net
  <2>3. q * t <= (q + net) * (t - out)
    BY <1>2, <1>4, OutKeepsProduct DEF out
  <2>4. out < t
    BY <1>1, <1>2, <1>4, <1>5
  <2>5. Fits(o, q, t)
    BY <2>2, <2>3, <2>4 DEF Fits
  <2>. QED
    BY <2>2, <2>5 DEF o
<1>6. CASE out > sellable
  <2> DEFINE spent == IF grossed < quoteIn THEN grossed ELSE quoteIn
  <2>1. o = BuyResult(quoteIn, sellable, spent, fee, tax, c)
    <3>1. o = SellOutQuote(q, t, sellable, quoteIn, fee, tax, c)
      BY <1>1, <1>6
    <3>. QED
      BY <1>0, <3>1, Zenon DEF SellOutQuote, NoQuote, grossed, needed
  <2>2. needed \in Nat \ {0}
    <3>1. sellable * q \in Nat /\ t - sellable \in Nat \ {0}
      BY <1>1, <1>2, SMT
    <3>. QED
      BY <3>1, QuotientMeans DEF needed, AmountIn
  <2>3. grossed \in Nat /\ needed <= NetOf(grossed, fee, tax, c)
    BY <1>3, <2>2, GrossedPays DEF grossed
  <2>4. NetOf(grossed, fee, tax, c) \in Int
    BY <1>3, <2>3, FeesLeave
  <2>5. spent \in Nat /\ spent <= quoteIn /\ NetOf(spent, fee, tax, c) > 0
    <3>1. NetOf(quoteIn, fee, tax, c) > 0
      BY <1>1 DEF net
    <3>. QED
      BY <1>2, <2>2, <2>3, <2>4, <3>1
  <2>6. /\ Sound(o) /\ o.tokensOut = sellable /\ NetIn(o) = NetOf(spent, fee, tax, c)
        /\ o.refund = quoteIn - spent
    <3>1. sellable \in Nat \ {0} /\ quoteIn \in Nat
      BY <1>2
    <3> HIDE DEF spent
    <3> DEFINE w == BuyResult(quoteIn, sellable, spent, fee, tax, c)
    <3>2. /\ Sound(w) /\ w.ok /\ w.tokensOut = sellable /\ w.quoteIn = quoteIn
          /\ NetIn(w) = NetOf(spent, fee, tax, c) /\ w.refund = quoteIn - spent
      <4>1. Payable(quoteIn, sellable, spent, fee, tax, c)
        BY <1>3, <2>5, <3>1 DEF Payable
      <4>. QED
        BY <4>1, ResultSound
    <3>. QED
      BY <2>1, <3>2
  <2>7. q * t <= (q + NetIn(o)) * (t - sellable)
    <3>1. CASE grossed < quoteIn
      <4>1. NetIn(o) = NetOf(grossed, fee, tax, c)
        BY <2>6, <3>1
      <4>. QED
        BY <1>1, <1>2, <2>3, <2>4, <4>1, InKeepsProduct DEF needed
    <3>2. CASE ~(grossed < quoteIn)
      <4>1. NetIn(o) = net
        BY <2>6, <3>2 DEF net
      <4>2. sellable <= AmountOut(net, q, t)
        BY <1>2, <1>4, <1>6 DEF out
      <4>. QED
        BY <1>2, <4>1, <4>2, OutKeepsProduct
    <3>. QED
      BY <3>1, <3>2
  <2>8. o.refund > 0 => NetIn(o) >= needed
    <3>1. SUFFICES ASSUME o.refund > 0 PROVE NetIn(o) >= needed
      OBVIOUS
    <3>2. grossed < quoteIn
      BY <1>2, <2>6, <3>1
    <3>. QED
      BY <2>2, <2>3, <2>4, <2>6, <3>2
  <2>9. Fits(o, q, t)
    BY <1>1, <2>6, <2>7, <2>8 DEF Fits, needed
  <2>. QED
    BY <2>6, <2>9 DEF o
<1>. QED
  BY <1>1, <1>2, <1>4, <1>5, <1>6 DEF o
-----------------------------------------------------------------------------
(* A share of an amount is part of it.                                     *)
LEMMA ShareIsPart ==
  ASSUME NEW n \in Nat, NEW bps \in 0..BPS
  PROVE  (n * bps) \div BPS \in 0..n
<1>1. BPS \in Nat \ {0}
  BY CurveMathAssumption
<1>2. bps * n <= BPS * n /\ bps * n \in Int /\ BPS * n \in Int
  BY <1>1, MulOrder
<1>3. /\ n * bps \in Nat /\ n * bps = bps * n /\ n * BPS = BPS * n
      /\ (n + 1) * BPS = n * BPS + BPS
  BY <1>1, SMT
<1> DEFINE x == (n * bps) \div BPS
<1>4. x \in Nat /\ x * BPS <= n * bps
  BY <1>1, <1>3, QuotientMeans
<1>5. x * BPS < (n + 1) * BPS
  <2>1. x * BPS \in Int
    BY <1>1, <1>4, SMT
  <2>. QED
    BY <1>1, <1>2, <1>3, <1>4, <2>1
<1>. QED
  BY <1>1, <1>4, <1>5, MulCancel

(* The part set aside for buybacks is at most the bucket it is taken from. *)
LEMMA BuybackIsPart ==
  ASSUME LaunchOk(launch), NEW bucket \in Nat
  PROVE  Buyback(bucket) \in 0..bucket
<1> DEFINE protocol == (bucket * launch.protocolShare) \div BPS
<1>1. launch.protocolShare \in 0..BPS /\ launch.buybackBurn \in 0..BPS
  BY DEF LaunchOk
<1>2. protocol \in 0..bucket
  BY <1>1, ShareIsPart
<1>3. bucket - protocol \in Nat
  BY <1>2
<1>4. ((bucket - protocol) * launch.buybackBurn) \div BPS \in 0..bucket - protocol
  BY <1>1, <1>3, ShareIsPart
<1>. QED
  BY <1>2, <1>4 DEF Buyback

(* The state, and the quote that the caller holds.                         *)
OfferInv ==
    /\ Sound(offer)
    /\ fresh => offer.ok /\ Fits(offer, state.quoteReserve, state.tokenReserve)

CurveInv ==
    /\ TypeOK
    /\ LaunchOk(launch)
    /\ BooksBalance
    /\ state.reserved = ReservedTokensForPool(launch.supply, launch.phantom, launch.threshold)
    /\ OfferInv
    /\ ProductHolds

(* A quote leaves the books alone and is sound for the state it is made of. *)
LEMMA AskKeepsCurve == CurveInv /\ AskQuote => CurveInv'
<1>. SUFFICES ASSUME CurveInv, AskQuote PROVE CurveInv'
  OBVIOUS
<1>1. PICK quoteIn \in Amounts, rawSnipe \in SnipeRates :
        Quote(quoteIn, rawSnipe).ok /\ offer' = Quote(quoteIn, rawSnipe)
  BY DEF AskQuote
<1>2. fresh' = TRUE /\ launch' = launch /\ state' = state /\ exact' = exact
  BY DEF AskQuote
<1>3. launch.feeBps \in Nat /\ launch.creatorTaxBps \in Nat
  BY DEF CurveInv, LaunchOk
<1>4. Sound(offer') /\ offer'.ok /\ Fits(offer', state.quoteReserve, state.tokenReserve)
  BY <1>1, <1>3, QuoteSound DEF Quote
<1>5. OfferInv'
  BY <1>2, <1>4 DEF OfferInv
<1>6. TypeOK'
  BY <1>2, <1>4 DEF CurveInv, TypeOK, Sound
<1>7. BooksBalance' /\ ProductHolds'
  BY <1>2 DEF CurveInv, BooksBalance, ProductHolds
<1>. QED
  BY <1>2, <1>5, <1>6, <1>7 DEF CurveInv

(* Applying an offer keeps the books balanced and the product, even if the *)
(* offer was quoted from an earlier state.                                 *)
LEMMA ApplyKeepsCurve == CurveInv /\ ApplyBuyToState => CurveInv'
<1>. SUFFICES ASSUME CurveInv, ApplyBuyToState PROVE CurveInv'
  OBVIOUS
<1> DEFINE s == state
           o == offer
           bucket == o.fee + o.snipeTax
           net == NetIn(o)
<1>1. /\ o.ok /\ o.tokensOut <= s.sellable /\ o.tokensOut > 0
      /\ state' = Applied(s, o) /\ launch' = launch /\ offer' = offer
      /\ exact' = (exact /\ fresh) /\ fresh' = FALSE
  BY DEF ApplyBuyToState, ApplyOk
<1>2. /\ s \in [quoteReserve : Nat, tokenReserve : Nat, realQuote : Nat,
               sellable : Nat, reserved : Nat, trackedQuote : Nat,
               trackedTokens : Nat, feeBalance : Nat, buybackBalance : Nat,
               taxBalance : Nat, ready : BOOLEAN]
      /\ launch.buybackEnabled \in BOOLEAN
  BY DEF CurveInv, TypeOK, Launches
<1>3. /\ o \in [ok : BOOLEAN, quoteIn : Nat, tokensOut : Nat, spent : Nat,
                refund : Nat, fee : Nat, tax : Nat, snipeTax : Nat]
      /\ net > 0 /\ net = o.spent - bucket - o.tax /\ bucket \in Nat
  BY <1>1 DEF CurveInv, OfferInv, Sound, NetIn
<1>4. /\ state'.quoteReserve = s.quoteReserve + o.spent - bucket - o.tax
      /\ state'.tokenReserve = s.tokenReserve - o.tokensOut
      /\ state'.sellable = s.sellable - o.tokensOut
      /\ state'.reserved = s.reserved
      /\ state'.trackedQuote = s.trackedQuote + o.spent
      /\ state'.trackedTokens = s.trackedTokens - o.tokensOut
      /\ state'.feeBalance = s.feeBalance + bucket
      /\ state'.taxBalance = s.taxBalance + o.tax
      /\ state'.realQuote = (s.trackedQuote + o.spent) - (s.feeBalance + bucket)
                              - (s.taxBalance + o.tax)
      /\ state'.ready = (s.sellable - o.tokensOut = 0)
      /\ state'.buybackBalance =
           s.buybackBalance + IF launch.buybackEnabled THEN Buyback(bucket) ELSE 0
      /\ DOMAIN state' = DOMAIN s
      /\ state' = [f \in DOMAIN s |-> state'[f]]
  BY <1>1, <1>2 DEF Applied
<1> HIDE DEF s, o, bucket, net
<1>5. /\ s.trackedQuote = s.realQuote + s.feeBalance + s.taxBalance
      /\ s.quoteReserve = launch.phantom + s.realQuote
      /\ s.tokenReserve = s.sellable + s.reserved
      /\ s.trackedTokens = s.tokenReserve
      /\ s.buybackBalance <= s.feeBalance
      /\ LaunchOk(launch) /\ launch.phantom \in Nat
  BY CurveMathAssumption DEF CurveInv, BooksBalance, s, LaunchOk, PositiveUint
<1>6. Buyback(bucket) \in 0..bucket
  BY <1>3, <1>5, BuybackIsPart
<1>7. /\ state'.quoteReserve = s.quoteReserve + net
      /\ state'.quoteReserve \in Nat /\ state'.realQuote = s.realQuote + net
      /\ state'.realQuote \in Nat
  BY <1>2, <1>3, <1>4, <1>5
<1>8. /\ state'.tokenReserve \in Nat /\ state'.sellable \in Nat /\ state'.trackedTokens \in Nat
      /\ state'.tokenReserve = state'.sellable + state'.reserved
      /\ state'.trackedTokens = state'.tokenReserve
      /\ state'.ready = (state'.sellable = 0)
  BY <1>1, <1>2, <1>3, <1>4, <1>5 DEF s, o
<1>9. /\ state'.feeBalance \in Nat /\ state'.taxBalance \in Nat /\ state'.trackedQuote \in Nat
      /\ state'.buybackBalance \in Nat /\ state'.buybackBalance <= state'.feeBalance
      /\ state'.trackedQuote = state'.realQuote + state'.feeBalance + state'.taxBalance
  BY <1>2, <1>3, <1>4, <1>5, <1>6
<1>10. BooksBalance'
  <2>1. state'.quoteReserve = launch.phantom + state'.realQuote
    BY <1>2, <1>3, <1>5, <1>7
  <2>2. state'.sellable >= 0
    BY <1>8
  <2>. QED
    BY <1>1, <1>8, <1>9, <2>1, <2>2, Zenon DEF BooksBalance
<1>11. TypeOK'
  <2>1. state' \in [quoteReserve : Nat, tokenReserve : Nat, realQuote : Nat,
                    sellable : Nat, reserved : Nat, trackedQuote : Nat,
                    trackedTokens : Nat, feeBalance : Nat, buybackBalance : Nat,
                    taxBalance : Nat, ready : BOOLEAN]
    BY <1>2, <1>4, <1>7, <1>8, <1>9
  <2>. QED
    BY <1>1, <2>1 DEF CurveInv, TypeOK
<1>12. OfferInv'
  BY <1>1 DEF CurveInv, OfferInv
<1>13. ProductHolds'
  <2>1. SUFFICES ASSUME exact, fresh
                 PROVE  state'.quoteReserve * state'.tokenReserve >= launch.phantom * launch.supply
    BY <1>1 DEF ProductHolds
  <2>2. s.quoteReserve * s.tokenReserve >= launch.phantom * launch.supply
    BY <2>1 DEF CurveInv, ProductHolds, s
  <2>3. s.quoteReserve * s.tokenReserve <= (s.quoteReserve + net) * (s.tokenReserve - o.tokensOut)
    BY <2>1 DEF CurveInv, OfferInv, Fits, s, o, net
  <2>4. state'.quoteReserve * state'.tokenReserve
          = (s.quoteReserve + net) * (s.tokenReserve - o.tokensOut)
    BY <1>4, <1>7
  <2>5. /\ s.quoteReserve * s.tokenReserve \in Int
        /\ state'.quoteReserve * state'.tokenReserve \in Int
    BY <1>2, <1>7, <1>8, SMT
  <2>6. launch.phantom * launch.supply \in Int
    <3>1. launch.phantom \in Int /\ launch.supply \in Int
      BY <1>5, CurveMathAssumption DEF LaunchOk, PositiveUint
    <3>. QED
      BY <3>1, SMT
  <2>. QED
    BY <2>2, <2>3, <2>4, <2>5, <2>6
<1>. QED
  BY <1>1, <1>4, <1>10, <1>11, <1>12, <1>13 DEF CurveInv, s

(* So after any sequence of quotes and applications.                       *)
LEMMA CurveInvHolds == Spec => []CurveInv
<1>1. Init => CurveInv
  <2>. SUFFICES ASSUME Init PROVE CurveInv
    OBVIOUS
  <2> DEFINE reserved == ReservedTokensForPool(launch.supply, launch.phantom, launch.threshold)
  <2>1. /\ launch \in Launches /\ LaunchOk(launch) /\ state = PredictLaunch(launch)
        /\ offer = NoQuote /\ fresh = FALSE /\ exact = TRUE
    BY DEF Init
  <2>2. /\ launch.supply \in Nat \ {0} /\ launch.phantom \in Nat
        /\ reserved \in 1..launch.supply - 1
    BY <2>1, CurveMathAssumption DEF LaunchOk, PositiveUint
  <2> HIDE DEF reserved
  <2>3. state = [quoteReserve |-> launch.phantom, tokenReserve |-> launch.supply,
         realQuote |-> 0, sellable |-> launch.supply - reserved, reserved |-> reserved,
         trackedQuote |-> 0, trackedTokens |-> launch.supply, feeBalance |-> 0,
         buybackBalance |-> 0, taxBalance |-> 0, ready |-> FALSE]
    BY <2>1, Zenon DEF PredictLaunch, reserved
  <2> DEFINE sold == launch.supply - reserved
  <2>9. reserved \in Nat /\ sold \in Nat \ {0} /\ launch.supply = sold + reserved
    BY <2>2
  <2>4. TypeOK
    <3> HIDE DEF sold
    <3>1. state \in [quoteReserve : Nat, tokenReserve : Nat, realQuote : Nat,
                     sellable : Nat, reserved : Nat, trackedQuote : Nat,
                     trackedTokens : Nat, feeBalance : Nat, buybackBalance : Nat,
                     taxBalance : Nat, ready : BOOLEAN]
      BY <2>2, <2>3, <2>9 DEF sold
    <3>. QED
      BY <2>1, <3>1 DEF TypeOK, NoQuote
  <2>5. BooksBalance
    <3>1. /\ state.trackedQuote = 0 /\ state.realQuote = 0 /\ state.feeBalance = 0
          /\ state.taxBalance = 0 /\ state.quoteReserve = launch.phantom
          /\ state.tokenReserve = launch.supply /\ state.sellable = sold
          /\ state.reserved = reserved /\ state.trackedTokens = launch.supply
          /\ state.buybackBalance = 0 /\ state.ready = FALSE
      BY <2>3
    <3> HIDE DEF sold
    <3>2. sold # 0 /\ 0 <= sold /\ 0 = 0 + 0 + 0 /\ launch.phantom = launch.phantom + 0 /\ 0 <= 0
      BY <2>2, <2>9
    <3>3. state.ready = (state.sellable = 0)
      BY <3>1, <3>2, Zenon
    <3>4. state.tokenReserve = state.sellable + state.reserved
      BY <2>9, <3>1, Zenon
    <3>5. state.sellable >= 0
      BY <2>9, <3>1
    <3>6. /\ state.trackedQuote = state.realQuote + state.feeBalance + state.taxBalance
          /\ state.quoteReserve = launch.phantom + state.realQuote
          /\ state.trackedTokens = state.tokenReserve
          /\ state.buybackBalance <= state.feeBalance
      BY <2>2, <3>1
    <3>. QED
      BY <3>3, <3>4, <3>5, <3>6 DEF BooksBalance
  <2>6. OfferInv
    BY <2>1 DEF OfferInv, Sound, NoQuote
  <2>7. ProductHolds
    <3>1. /\ state.quoteReserve = launch.phantom /\ state.tokenReserve = launch.supply
          /\ launch.phantom * launch.supply \in Int
      BY <2>2, <2>3, SMT
    <3>. QED
      BY <3>1 DEF ProductHolds
  <2>8. state.reserved = reserved
    BY <2>3
  <2>. QED
    BY <2>1, <2>4, <2>5, <2>6, <2>7, <2>8 DEF CurveInv, reserved
<1>2. CurveInv /\ UNCHANGED vars => CurveInv'
  BY DEF vars, CurveInv, TypeOK, BooksBalance, OfferInv, ProductHolds
<1>. QED
  BY <1>1, <1>2, AskKeepsCurve, ApplyKeepsCurve, PTL DEF Spec, Next

(* No order of quotes and applications drives a field of the state below   *)
(* zero, whatever the configuration and the rates.                         *)
THEOREM TypeCorrect == Spec => []TypeOK
<1>1. CurveInv => TypeOK
  BY DEF CurveInv
<1>. QED
  BY <1>1, CurveInvHolds, PTL

(* The books balance after any buys, stale and repeated quotes included.   *)
THEOREM BooksBalanced == Spec => []BooksBalance
<1>1. CurveInv => BooksBalance
  BY DEF CurveInv
<1>. QED
  BY <1>1, CurveInvHolds, PTL

(* No sequence of fresh buys, with all their roundings and the clamped     *)
(* last one, lowers the product of the reserves.                           *)
THEOREM ProductKept == Spec => []ProductHolds
<1>1. CurveInv => ProductHolds
  BY DEF CurveInv
<1>. QED
  BY <1>1, CurveInvHolds, PTL

(* A quote stays within what was offered, and pays for what it takes.      *)
THEOREM QuotesWithinBudget == Spec => []QuoteWithinBudget
<1>1. CurveInv => QuoteWithinBudget
  <2>. SUFFICES ASSUME CurveInv, offer.ok PROVE QuoteWithinBudget
    BY DEF QuoteWithinBudget
  <2>1. /\ offer.spent + offer.refund = offer.quoteIn /\ NetIn(offer) > 0
        /\ offer.snipeTax > 0 => offer.spent * OnePct <= NetIn(offer) * BPS
        /\ NetIn(offer) \in Int /\ offer.spent \in Nat /\ OnePct \in Nat /\ BPS \in Nat
    BY CurveMathAssumption DEF CurveInv, OfferInv, Sound, NetIn
  <2>2. offer.spent * OnePct \in Int /\ NetIn(offer) * BPS \in Int
    BY <2>1, SMT
  <2>3. offer.snipeTax > 0 => NetIn(offer) * BPS >= offer.spent * OnePct
    BY <2>1, <2>2
  <2>4. fresh /\ offer.refund > 0 =>
          NetIn(offer) >= AmountIn(offer.tokensOut, state.quoteReserve, state.tokenReserve)
    BY DEF CurveInv, OfferInv, Fits
  <2>. QED
    BY <2>1, <2>3, <2>4 DEF QuoteWithinBudget, NetIn
<1>. QED
  BY <1>1, CurveInvHolds, PTL

(* A curve without a token left has raised its threshold: what it kept for *)
(* the pool is so little that the product can only hold with that much.    *)
THEOREM SoldOutFunded == Spec => []SoldOutIsFunded
<1>1. CurveInv => SoldOutIsFunded
  <2>. SUFFICES ASSUME CurveInv, exact, state.ready PROVE state.realQuote >= launch.threshold
    BY DEF SoldOutIsFunded
  <2> DEFINE S == launch.supply
             P == launch.phantom
             T == launch.threshold
             q == state.quoteReserve
             t == state.tokenReserve
  <2>1. /\ S \in Nat \ {0} /\ P \in Nat \ {0} /\ T \in Nat \ {0}
        /\ ReservedTokensForPool(S, P, T) \in 1..S - 1
    BY CurveMathAssumption DEF CurveInv, LaunchOk, PositiveUint
  <2>2. /\ q \in Nat /\ t \in Nat /\ state.realQuote \in Nat /\ state.sellable \in Nat
        /\ state.reserved \in Nat
    BY DEF CurveInv, TypeOK
  <2>3. q = P + state.realQuote /\ t = ReservedTokensForPool(S, P, T)
    <3>1. state.sellable = 0
      BY Zenon DEF CurveInv, BooksBalance
    <3>2. /\ q = P + state.realQuote /\ t = state.sellable + state.reserved
          /\ state.reserved = ReservedTokensForPool(S, P, T)
      BY DEF CurveInv, BooksBalance
    <3>. QED
      BY <2>2, <3>1, <3>2
  <2>4. q * t >= P * S
    BY DEF CurveInv, ProductHolds
  <2> HIDE DEF S, P, T, q, t
  <2>5. S * P \in Nat /\ P + T \in Nat \ {0}
    BY <2>1, SMT
  <2>6. t * (P + T) <= S * P
    BY <2>3, <2>5, QuotientMeans DEF ReservedTokensForPool
  <2>7. /\ S * P = P * S /\ t * (P + T) = (P + T) * t /\ (P + T) * t \in Int
        /\ q * t \in Int /\ (q + 1) * t = q * t + t /\ (q + 1) * t \in Int
    BY <2>1, <2>2, SMT
  <2>8. t \in Nat \ {0}
    BY <2>1, <2>3
  <2>9. (P + T) * t < (q + 1) * t
    BY <2>4, <2>5, <2>6, <2>7, <2>8
  <2>10. P + T <= q
    BY <2>1, <2>2, <2>8, <2>9, MulCancel
  <2>. QED
    BY <2>1, <2>2, <2>3, <2>10 DEF T, P
<1>. QED
  BY <1>1, CurveInvHolds, PTL

(* A fresh buy that is sold back at once never returns more than it left   *)
(* in the pool.                                                            *)
THEOREM NoProfit == Spec => NoRoundTripProfit
<1> DEFINE sale == QuoteSellFromState(state'.quoteReserve, state'.tokenReserve,
                     offer.tokensOut, launch.feeBps, launch.creatorTaxBps)
           Step == state' # state /\ fresh => sale.gross <= NetIn(offer)
<1>1. CurveInv /\ [Next]_vars => Step
  <2>. SUFFICES ASSUME CurveInv, [Next]_vars, state' # state, fresh
                PROVE  sale.gross <= NetIn(offer)
    OBVIOUS
  <2>1. ApplyBuyToState
    BY DEF Next, AskQuote, vars
  <2> DEFINE q == state.quoteReserve
             t == state.tokenReserve
             net == NetIn(offer)
             out == offer.tokensOut
  <2>2. /\ q \in Nat /\ t \in Nat /\ out \in Nat /\ launch.phantom \in Nat \ {0}
        /\ state.realQuote \in Nat /\ q = launch.phantom + state.realQuote
        /\ net \in Nat /\ net > 0 /\ out < t /\ q * t <= (q + net) * (t - out)
    BY CurveMathAssumption DEF CurveInv, TypeOK, BooksBalance, OfferInv, Sound, Fits, NetIn,
       LaunchOk, PositiveUint
  <2>3. q \in Nat \ {0} /\ t \in Nat \ {0} /\ out \in 0..t
    BY <2>2
  <2>4. state'.quoteReserve = q + net /\ state'.tokenReserve = t - out
    <3>1. /\ state'.quoteReserve = state.quoteReserve + offer.spent
                                     - (offer.fee + offer.snipeTax) - offer.tax
          /\ state'.tokenReserve = state.tokenReserve - offer.tokensOut
      BY <2>1 DEF ApplyBuyToState, Applied, CurveInv, TypeOK
    <3>2. /\ offer.spent \in Nat /\ offer.fee \in Nat /\ offer.snipeTax \in Nat
          /\ offer.tax \in Nat
      BY DEF CurveInv, TypeOK
    <3>. QED
      BY <2>2, <3>1, <3>2 DEF NetIn
  <2> HIDE DEF q, t, net, out
  <2>5. AmountOut(out, t - out, q + net) <= net
    BY <2>2, <2>3, NoProfitBack
  <2>6. sale.gross = AmountOut(out, t - out, q + net) \/ sale.gross = 0
    BY <2>4, Zenon DEF QuoteSellFromState, NoSale, out
  <2>. QED
    BY <2>2, <2>5, <2>6 DEF net
<1>2. Step => (state' # state /\ fresh =>
        LET sold == QuoteSellFromState(state'.quoteReserve, state'.tokenReserve,
                      offer.tokensOut, launch.feeBps, launch.creatorTaxBps)
        IN  sold.gross <= offer.spent - offer.fee - offer.tax - offer.snipeTax)
  BY DEF NetIn
<1>. QED
  BY <1>1, <1>2, CurveInvHolds, PTL DEF Spec, NoRoundTripProfit

(* The minimum that goes into buy() lets that fill pass, and one more      *)
(* would not allow for the slippage, for any quote.                        *)
THEOREM MinTokensFit == Spec => []MinTokensFitsFill
<1>1. CurveInv => MinTokensFitsFill
  <2>. SUFFICES ASSUME CurveInv, offer.ok, NEW slippage \in 0..BPS,
                       MinTokensOutForBuyOk(offer.quoteIn, offer.tokensOut, offer.spent, slippage)
                PROVE  LET least == MinTokensOutForBuy(offer.quoteIn, offer.tokensOut,
                                                       offer.spent, slippage)
                           bound == offer.quoteIn * offer.tokensOut
                       IN  /\ least * offer.spent <= bound
                           /\ least * offer.spent * BPS <= bound * (BPS - slippage)
                           /\ (least + 1) * offer.spent * BPS > bound * (BPS - slippage)
    BY DEF MinTokensFitsFill
  <2> DEFINE spent == offer.spent
             bound == offer.quoteIn * offer.tokensOut
             rest == BPS - slippage
             least == MinTokensOutForBuy(offer.quoteIn, offer.tokensOut, spent, slippage)
  <2>1. spent \in Nat \ {0} /\ offer.quoteIn \in Nat \ {0} /\ offer.tokensOut \in Nat \ {0}
    BY CurveMathAssumption DEF MinTokensOutForBuyOk, PositiveUint
  <2>2. bound \in Nat \ {0} /\ rest \in 0..BPS /\ BPS \in Nat \ {0}
    BY <2>1, CurveMathAssumption, SMT
  <2> HIDE DEF spent, bound
  <2>3. spent * BPS \in Nat \ {0} /\ bound * rest \in Nat
    BY <2>1, <2>2, SMT
  <2>4. /\ least \in Nat /\ least * (spent * BPS) <= bound * rest
        /\ bound * rest < (least + 1) * (spent * BPS)
    <3>1. CASE slippage = BPS
      <4>1. least = 0 /\ rest = 0
        BY <2>2, <3>1 DEF MinTokensOutForBuy, MinTokensOut
      <4>2. bound * rest = 0 /\ least * (spent * BPS) = 0 /\ (least + 1) * (spent * BPS) = spent * BPS
        BY <2>2, <2>3, <4>1, SMT
      <4>. QED
        BY <2>3, <4>1, <4>2
    <3>2. CASE slippage # BPS
      <4>1. least = (bound * rest) \div (spent * BPS)
        BY <3>2 DEF MinTokensOutForBuy, MinTokensOut, bound
      <4>. QED
        BY <2>3, <4>1, QuotientMeans
    <3>. QED
      BY <3>1, <3>2
  <2> HIDE DEF least
  <2>5. /\ least * (spent * BPS) = least * spent * BPS
        /\ (least + 1) * (spent * BPS) = (least + 1) * spent * BPS
    BY <2>1, <2>2, <2>4, SMT
  <2>6. least * spent <= bound
    <3>1. rest * bound <= BPS * bound
      BY <2>2, MulOrder
    <3>2. /\ rest * bound = bound * rest /\ BPS * bound = bound * BPS
          /\ (bound + 1) * BPS = bound * BPS + BPS /\ bound * BPS \in Int
          /\ least * spent \in Int /\ least * spent * BPS \in Int
      BY <2>1, <2>2, <2>4, SMT
    <3>3. least * spent * BPS < (bound + 1) * BPS
      BY <2>2, <2>3, <2>4, <2>5, <3>1, <3>2
    <3>. QED
      BY <2>2, <3>2, <3>3, MulCancel
  <2>7. (least + 1) * spent * BPS > bound * rest
    <3>1. (least + 1) * spent * BPS \in Int
      BY <2>1, <2>2, <2>4, SMT
    <3>. QED
      BY <2>3, <2>4, <2>5, <3>1
  <2>. QED
    BY <2>4, <2>5, <2>6, <2>7 DEF least, spent, bound
<1>. QED
  BY <1>1, CurveInvHolds, PTL
=============================================================================
