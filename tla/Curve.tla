------------------------------- MODULE Curve -------------------------------
(***************************************************************************)
(* The local bonding curve of adapters/pons: PredictLaunch makes its first *)
(* state, QuoteBuyFromState prices a buy against a state, ApplyBuyToState  *)
(* advances the state by a quote.  Quoting and applying are two calls, and *)
(* nothing ties a quote to the state it was made from: a caller may apply  *)
(* a quote twice, or apply one made before another buy.                    *)
(***************************************************************************)
EXTENDS CurveMath

CONSTANTS
    Supplies, Phantoms, Thresholds,  \* launch configurations tried
    FeeRates, TaxRates, SnipeRates,  \* in basis points
    ShareRates,                      \* of the fee policy, in basis points
    Amounts                          \* quote amounts a caller asks about

VARIABLES
    launch,   \* the LaunchDeployment and its fee policy, fixed
    state,    \* the CurveState
    offer,    \* the last QuoteBuyResult
    fresh,    \* history: offer was made from the present state
    exact     \* history: every buy applied so far was fresh

vars == <<launch, state, offer, fresh, exact>>

Launches ==
    [supply : Supplies, phantom : Phantoms, threshold : Thresholds,
     feeBps : FeeRates, creatorTaxBps : TaxRates, buybackEnabled : BOOLEAN,
     protocolShare : ShareRates, buybackBurn : ShareRates]

(* validateLaunchDeployment, as far as the economics go, and the check of  *)
(* the reserved allocation in PredictLaunch.                               *)
LaunchOk(l) ==
    /\ {l.supply, l.phantom, l.threshold} \subseteq PositiveUint
    /\ {l.feeBps, l.creatorTaxBps, l.protocolShare, l.buybackBurn} \subseteq 0..BPS
    /\ ReservedTokensOk(l.supply, l.phantom, l.threshold)
    /\ ReservedTokensForPool(l.supply, l.phantom, l.threshold) \in 1..l.supply - 1

PredictLaunch(l) ==
    LET reserved == ReservedTokensForPool(l.supply, l.phantom, l.threshold)
    IN  [quoteReserve |-> l.phantom, tokenReserve |-> l.supply,
         realQuote |-> 0, sellable |-> l.supply - reserved, reserved |-> reserved,
         trackedQuote |-> 0, trackedTokens |-> l.supply, feeBalance |-> 0,
         buybackBalance |-> 0, taxBalance |-> 0, ready |-> FALSE]

Init ==
    /\ launch \in {l \in Launches : LaunchOk(l)}
    /\ state = PredictLaunch(launch)
    /\ offer = NoQuote
    /\ fresh = FALSE
    /\ exact = TRUE

Quote(quoteIn, rawSnipe) ==
    QuoteBuyFromState(state.quoteReserve, state.tokenReserve, state.sellable,
                      quoteIn, launch.feeBps, launch.creatorTaxBps, rawSnipe)

(* A quote the code refuses leaves the caller with what it had.            *)
AskQuote ==
    /\ \E quoteIn \in Amounts, rawSnipe \in SnipeRates :
         /\ Quote(quoteIn, rawSnipe).ok
         /\ offer' = Quote(quoteIn, rawSnipe)
    /\ fresh' = TRUE
    /\ UNCHANGED <<launch, state, exact>>

(* The part of the fee set aside for buybacks.                             *)
Buyback(bucket) ==
    LET protocol == (bucket * launch.protocolShare) \div BPS
    IN  ((bucket - protocol) * launch.buybackBurn) \div BPS

(* Wrong: the tokens left are not compared with the tokens bought.         *)
ApplyOkUncompared(s, o) ==
    /\ {o.tokensOut, o.spent, o.fee, o.tax, o.snipeTax, s.sellable} \subseteq Uint
    /\ o.tokensOut > 0
    /\ o.spent > 0

ApplyOk(s, o) ==
    /\ {o.tokensOut, o.spent, o.fee, o.tax, o.snipeTax, s.trackedQuote, s.trackedTokens,
        s.feeBalance, s.taxBalance, s.buybackBalance, s.quoteReserve, s.tokenReserve,
        s.sellable} \subseteq Uint
    /\ o.tokensOut > 0
    /\ o.spent > 0
    /\ o.tokensOut <= s.sellable

(* The body of ApplyBuyToState.                                            *)
Applied(s, o) ==
    LET bucket == o.fee + o.snipeTax
        quoteIn == s.trackedQuote + o.spent
    IN  [s EXCEPT
          !.trackedQuote = quoteIn,
          !.trackedTokens = @ - o.tokensOut,
          !.feeBalance = @ + bucket,
          !.taxBalance = @ + o.tax,
          !.buybackBalance = @ + IF launch.buybackEnabled THEN Buyback(bucket) ELSE 0,
          !.quoteReserve = @ + o.spent - bucket - o.tax,
          !.tokenReserve = @ - o.tokensOut,
          !.sellable = @ - o.tokensOut,
          !.realQuote = quoteIn - (s.feeBalance + bucket) - (s.taxBalance + o.tax),
          !.ready = s.sellable - o.tokensOut = 0]

ApplyBuyToState ==
    /\ offer.ok
    /\ ApplyOk(state, offer)
    /\ state' = Applied(state, offer)
    /\ exact' = (exact /\ fresh)
    /\ fresh' = FALSE
    /\ UNCHANGED <<launch, offer>>

Next == AskQuote \/ ApplyBuyToState

Spec == Init /\ [][Next]_vars
-----------------------------------------------------------------------------
(* No field of the state is ever driven below zero, by any order of quotes *)
(* and applications: not the tokens left to sell, nor the balances.        *)
TypeOK ==
    /\ launch \in Launches
    /\ state \in [quoteReserve : Nat, tokenReserve : Nat, realQuote : Nat,
                  sellable : Nat, reserved : Nat, trackedQuote : Nat,
                  trackedTokens : Nat, feeBalance : Nat, buybackBalance : Nat,
                  taxBalance : Nat, ready : BOOLEAN]
    /\ offer \in [ok : BOOLEAN, quoteIn : Nat, tokensOut : Nat, spent : Nat,
                  refund : Nat, fee : Nat, tax : Nat, snipeTax : Nat]
    /\ fresh \in BOOLEAN
    /\ exact \in BOOLEAN

(* The books balance after any sequence of buys, stale quotes included:    *)
(* what came in is reserve, fees or tax; the reserve exceeds the real      *)
(* quote by the phantom part only; tokens are sellable or reserved; what   *)
(* is set aside for buybacks is covered by the fees collected.             *)
BooksBalance ==
    /\ state.trackedQuote = state.realQuote + state.feeBalance + state.taxBalance
    /\ state.quoteReserve = launch.phantom + state.realQuote
    /\ state.tokenReserve = state.sellable + state.reserved
    /\ state.sellable >= 0
    /\ state.trackedTokens = state.tokenReserve
    /\ state.buybackBalance <= state.feeBalance
    /\ state.ready = (state.sellable = 0)

(* Rounding never works against the pool: the product of the reserves does *)
(* not fall below its value at launch.                                     *)
ProductHolds ==
    exact => state.quoteReserve * state.tokenReserve >= launch.phantom * launch.supply

(* A curve that has sold its last token has raised at least its graduation *)
(* threshold, however the buys were cut and the last one was clamped.      *)
SoldOutIsFunded == exact /\ state.ready => state.realQuote >= launch.threshold

(* A quote never costs more than was offered, gives back the rest, leaves  *)
(* part of the spend for the pool, and with a snipe tax at least one       *)
(* percent of it; a clamped fill that refunds still pays what the curve    *)
(* asks for the tokens that were left, after three separate roundings.     *)
QuoteWithinBudget ==
    offer.ok =>
      LET net == offer.spent - offer.fee - offer.tax - offer.snipeTax IN
      /\ offer.spent + offer.refund = offer.quoteIn
      /\ net > 0
      /\ offer.snipeTax > 0 => net * BPS >= offer.spent * OnePct
      /\ fresh /\ offer.refund > 0 =>
           net >= AmountIn(offer.tokensOut, state.quoteReserve, state.tokenReserve)

(* The minimum MinTokensOutForBuy derives from a quote lets that very fill *)
(* pass buy()'s check on the fill rate, and for the clamped fill as for    *)
(* the complete one it is the tightest such bound: one more would demand   *)
(* more than the slippage allows.                                          *)
MinTokensFitsFill ==
    offer.ok => \A slippage \in 0..BPS :
      MinTokensOutForBuyOk(offer.quoteIn, offer.tokensOut, offer.spent, slippage) =>
        LET least == MinTokensOutForBuy(offer.quoteIn, offer.tokensOut, offer.spent, slippage)
            bound == offer.quoteIn * offer.tokensOut
        IN  /\ least * offer.spent <= bound
            /\ least * offer.spent * BPS <= bound * (BPS - slippage)
            /\ (least + 1) * offer.spent * BPS > bound * (BPS - slippage)

(* Selling back at once what a fresh quote bought never returns more than  *)
(* the buy left in the pool: no sequence of roundings pays the trader.     *)
NoRoundTripProfit ==
    [][state' # state /\ fresh =>
         LET sale == QuoteSellFromState(state'.quoteReserve, state'.tokenReserve,
                       offer.tokensOut, launch.feeBps, launch.creatorTaxBps)
         IN  sale.gross <= offer.spent - offer.fee - offer.tax - offer.snipeTax]_vars
=============================================================================
