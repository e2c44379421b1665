----------------------------- MODULE CurveMath -----------------------------
(***************************************************************************)
(* The integer arithmetic of adapters/pons/quote.go.  A Go function that   *)
(* returns a value or an error is two operators here: F(...), the value,   *)
(* and FOk(...), the condition under which the code returns no error.      *)
(* Values are uint256 in the code; MaxUint, BPS and OnePct are parameters  *)
(* because only their order matters (2^256 - 1, 10000 and 100 there).      *)
(***************************************************************************)
EXTENDS Integers

CONSTANTS
    MaxUint,   \* the largest value of 256 bits
    BPS,       \* basis points in one
    OnePct     \* the basis points of spend that a snipe tax must leave

ASSUME CurveMathAssumption ==
    /\ MaxUint \in Nat /\ BPS \in Nat /\ OnePct \in Nat
    /\ 0 < OnePct /\ OnePct < BPS /\ BPS <= MaxUint

Uint == 0..MaxUint
PositiveUint == 1..MaxUint

AmountOutOk(in, reserveIn, reserveOut) ==
    /\ in \in Uint
    /\ reserveIn \in PositiveUint
    /\ reserveOut \in PositiveUint
    /\ reserveIn + in <= MaxUint
    /\ in * reserveOut <= MaxUint

(* Wrong: the price of the reserve before the input came in.               *)
AmountOutAtSpot(in, reserveIn, reserveOut) == (in * reserveOut) \div reserveIn

AmountOut(in, reserveIn, reserveOut) == (in * reserveOut) \div (reserveIn + in)

AmountInOk(out, reserveIn, reserveOut) ==
    /\ out \in PositiveUint
    /\ reserveIn \in PositiveUint
    /\ reserveOut \in PositiveUint
    /\ out < reserveOut
    /\ out * reserveIn <= MaxUint
    /\ (out * reserveIn) \div (reserveOut - out) + 1 <= MaxUint

(* Wrong: the quotient is not rounded up.                                  *)
AmountInRoundedDown(out, reserveIn, reserveOut) ==
    (out * reserveIn) \div (reserveOut - out)

AmountIn(out, reserveIn, reserveOut) == (out * reserveIn) \div (reserveOut - out) + 1

CeilDivOk(a, b) == a \in Uint /\ b \in PositiveUint
CeilDiv(a, b) == ((a + b) - 1) \div b

MulDivCeilOk(a, b, d) ==
    /\ a \in Uint /\ b \in Uint
    /\ d \in PositiveUint
    /\ CeilDiv(a * b, d) <= MaxUint

(* Quotient and remainder, one more when the remainder is not zero.        *)
MulDivCeil(a, b, d) == (a * b) \div d + (IF (a * b) % d = 0 THEN 0 ELSE 1)

BpsAmountOk(amount, bps) == amount * bps <= MaxUint
BpsAmount(amount, bps) == (amount * bps) \div BPS

ReservedTokensOk(supply, phantom, threshold) ==
    /\ supply \in Uint /\ phantom \in Uint
    /\ threshold \in PositiveUint
    /\ phantom + threshold <= MaxUint

(* Wrong: rounded up, which leaves less than the last token to sell.       *)
ReservedTokensRoundedUp(supply, phantom, threshold) ==
    CeilDiv(supply * phantom, phantom + threshold)

ReservedTokensForPool(supply, phantom, threshold) ==
    (supply * phantom) \div (phantom + threshold)

MinOutputOk(expected, slippage) == expected \in Uint /\ slippage \in 0..BPS
MinOutputWithSlippage(expected, slippage) == (expected * (BPS - slippage)) \div BPS

(* Wrong: a plain haircut of the output, as if every fill were complete.   *)
MinTokensHaircut(quoteIn, tokensOut, spent, slippage) ==
    MinOutputWithSlippage(tokensOut, slippage)

(* minTokensOut of buy(): the on-chain check compares minTokensOut * spent *)
(* with quoteIn * tokensOut, so both products must fit.                    *)
MinTokensOut(quoteIn, tokensOut, spent, slippage) ==
    IF slippage = BPS THEN 0
    ELSE (quoteIn * tokensOut * (BPS - slippage)) \div (spent * BPS)

MinTokensOutForBuyOk(quoteIn, tokensOut, spent, slippage) ==
    /\ quoteIn \in PositiveUint
    /\ tokensOut \in PositiveUint
    /\ spent \in PositiveUint
    /\ spent <= quoteIn
    /\ slippage \in 0..BPS
    /\ quoteIn * tokensOut <= MaxUint
    /\ slippage < BPS =>
         /\ MinTokensOut(quoteIn, tokensOut, spent, slippage) <= MaxUint
         /\ spent * MinTokensOut(quoteIn, tokensOut, spent, slippage) <= MaxUint

MinTokensOutForBuy(quoteIn, tokensOut, spent, slippage) ==
    MinTokensOut(quoteIn, tokensOut, spent, slippage)
-----------------------------------------------------------------------------
(* validateTradeState                                                      *)
TradeStateOk(amount, quoteReserve, tokenReserve, feeBps, creatorTaxBps) ==
    /\ amount \in PositiveUint
    /\ quoteReserve \in PositiveUint
    /\ tokenReserve \in PositiveUint
    /\ feeBps \in Uint /\ creatorTaxBps \in Uint
    /\ feeBps + creatorTaxBps < BPS

(* Wrong: a snipe tax is charged as it was read from the chain.            *)
UncappedSnipeBps(raw, feeBps, creatorTaxBps) == raw

(* The snipe tax may not take the last percent of the spend.               *)
CappedSnipeBps(raw, feeBps, creatorTaxBps) ==
    LET room == BPS - feeBps - creatorTaxBps - OnePct
    IN  IF raw > room THEN room ELSE raw

SnipeOk(raw, feeBps, creatorTaxBps) ==
    /\ raw \in Uint
    /\ raw > 0 => BPS - feeBps - creatorTaxBps - OnePct >= 0

SnipeBps(raw, feeBps, creatorTaxBps) ==
    IF raw = 0 THEN 0 ELSE CappedSnipeBps(raw, feeBps, creatorTaxBps)

FeesOk(spent, feeBps, creatorTaxBps, snipeBps) ==
    /\ BpsAmountOk(spent, feeBps)
    /\ BpsAmountOk(spent, creatorTaxBps)
    /\ BpsAmountOk(spent, snipeBps)

(* What is left of a spend after each fee was rounded down on its own.     *)
NetOf(spent, feeBps, creatorTaxBps, snipeBps) ==
    spent - BpsAmount(spent, feeBps) - BpsAmount(spent, creatorTaxBps)
          - BpsAmount(spent, snipeBps)

(* The spend whose net buys all sellable tokens.                           *)
GrossedOk(netNeeded, totalBps) == MulDivCeilOk(netNeeded, BPS, BPS - totalBps)
Grossed(netNeeded, totalBps) == MulDivCeil(netNeeded, BPS, BPS - totalBps)
-----------------------------------------------------------------------------
NoQuote == [ok |-> FALSE, quoteIn |-> 0, tokensOut |-> 0, spent |-> 0,
            refund |-> 0, fee |-> 0, tax |-> 0, snipeTax |-> 0]

BuyResult(quoteIn, tokensOut, spent, feeBps, creatorTaxBps, snipeBps) ==
    [ok |-> TRUE, quoteIn |-> quoteIn, tokensOut |-> tokensOut, spent |-> spent,
     refund |-> IF quoteIn > spent THEN quoteIn - spent ELSE 0,
     fee |-> BpsAmount(spent, feeBps), tax |-> BpsAmount(spent, creatorTaxBps),
     snipeTax |-> BpsAmount(spent, snipeBps)]

(* The clamped branch: the tokens left are sold, at the gross price of     *)
(* their exact cost or the whole input if that is less.                    *)
SellOutQuote(q, t, sellable, quoteIn, feeBps, creatorTaxBps, snipeBps) ==
    LET total == feeBps + creatorTaxBps + snipeBps
        needed == AmountIn(sellable, q, t)
        grossed == Grossed(needed, total)
        spent == IF grossed < quoteIn THEN grossed ELSE quoteIn
    IN  IF /\ AmountInOk(sellable, q, t)
           /\ GrossedOk(needed, total)
           /\ FeesOk(spent, feeBps, creatorTaxBps, snipeBps)
        THEN BuyResult(quoteIn, sellable, spent, feeBps, creatorTaxBps, snipeBps)
        ELSE NoQuote

QuoteBuyFromState(q, t, sellable, quoteIn, feeBps, creatorTaxBps, rawSnipe) ==
    LET snipe == SnipeBps(rawSnipe, feeBps, creatorTaxBps)
        net == NetOf(quoteIn, feeBps, creatorTaxBps, snipe)
        out == AmountOut(net, q, t)
    IN  IF /\ TradeStateOk(quoteIn, q, t, feeBps, creatorTaxBps)
           /\ sellable \in PositiveUint
           /\ sellable < t
           /\ SnipeOk(rawSnipe, feeBps, creatorTaxBps)
           /\ FeesOk(quoteIn, feeBps, creatorTaxBps, snipe)
           /\ net > 0
           /\ AmountOutOk(net, q, t)
           /\ out > 0
        THEN IF out > sellable
             THEN SellOutQuote(q, t, sellable, quoteIn, feeBps, creatorTaxBps, snipe)
             ELSE BuyResult(quoteIn, out, quoteIn, feeBps, creatorTaxBps, snipe)
        ELSE NoQuote

NoSale == [ok |-> FALSE, quoteOut |-> 0, gross |-> 0, fee |-> 0, tax |-> 0]

QuoteSellFromState(q, t, tokensIn, feeBps, creatorTaxBps) ==
    LET gross == AmountOut(tokensIn, t, q)
        fee == BpsAmount(gross, feeBps)
        tax == BpsAmount(gross, creatorTaxBps)
    IN  IF /\ TradeStateOk(tokensIn, q, t, feeBps, creatorTaxBps)
           /\ AmountOutOk(tokensIn, t, q)
           /\ gross > 0
           /\ BpsAmountOk(gross, feeBps)
           /\ BpsAmountOk(gross, creatorTaxBps)
           /\ gross - fee - tax > 0
        THEN [ok |-> TRUE, quoteOut |-> gross - fee - tax, gross |-> gross,
              fee |-> fee, tax |-> tax]
        ELSE NoSale
=============================================================================
