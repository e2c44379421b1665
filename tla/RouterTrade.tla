---------------------------- MODULE RouterTrade ----------------------------
(***************************************************************************)
(* From a quote to a trade: the minimum output taken from a quote through  *)
(* a hook (slippage.go), the approvals (approval.go), the call to the      *)
(* Universal Router (v4.go, fast_encode.go), and what the chain makes of   *)
(* them later.  Quotes, schedules and blocks are those of HookFees.        *)
(*                                                                         *)
(* Token, Permit2, router, hook and pool are external.  Permit2 lets the   *)
(* router spend up to an amount until a time, out of the allowance that    *)
(* the token grants to Permit2; the router reads the calldata by its       *)
(* offsets and undoes everything when a check fails.  The pool may have    *)
(* moved between quote and trade.  A currency is a number; Native is the   *)
(* zero address, which sorts first.                                        *)
(* Bounds: the sets of slippages, deadlines, expirations (not 0, which     *)
(* means this block to Permit2) and lengths of hook data; one quote is     *)
(* traded at a time.  Amounts have at most 128 bits (v4.go).               *)
(***************************************************************************)
EXTENDS HookFees, SwapCalldata, FiniteSetsExt

CONSTANTS Slippages, Deadlines, Expirations, Lengths, MaxUint160

ASSUME TradeAssumption ==
    /\ Slippages \cup Deadlines \cup Lengths \cup {MaxUint160} \subseteq Nat
    /\ Expirations \subseteq Nat \ {0}
    /\ MaxUint256 \in Nat /\ MaxAmount <= MaxUint256

VARIABLES
    approvals,  \* the approvals that were built and are not mined
    allowance,  \* what the token lets Permit2 take
    permit,     \* what Permit2 lets the router take, and until when
    grant,      \* history: what the last approvals are still good for
    order,      \* the request whose call is sent, and its quote, or NoOrder
    outcome     \* what became of the last order

tokenVars == <<approvals, allowance, permit, grant>>
tradeVars == <<vars, tokenVars, order, outcome>>

Native == 0
NoOrder == [value |-> -1]
NoOutcome == [result |-> "none"]

TradeInit ==
    /\ Init
    /\ approvals = {}
    /\ allowance = 0
    /\ permit = [amount |-> 0, expiration |-> 0]
    /\ grant = [amount |-> 0, expiration |-> 0]
    /\ order = NoOrder
    /\ outcome = NoOutcome

(* A step of HookFees.                                                     *)
Aside(step) == step /\ UNCHANGED <<tokenVars, order, outcome>>

(* A quote is asked for while none is being traded.                        *)
QuoteStep ==
    /\ order = NoOrder
    /\ Aside(\E side \in Sides, amount \in 1..MaxAmount :
                 QuoteO1(side, amount) \/ QuoteBags(side, amount))
-----------------------------------------------------------------------------
(* Wrong: what may be lost and what must remain are mixed up.              *)
KeepSlippage(expectedOut, slippageBPS) == (expectedOut * slippageBPS) \div BPSTotal

MinOutputWithSlippage(expectedOut, slippageBPS) ==
    (expectedOut * (BPSTotal - slippageBPS)) \div BPSTotal

(* Two calls, for the token and for Permit2, with the same amount.         *)
BuildUniversalRouterApprovals(amount, expiration) ==
    /\ approvals = {}
    /\ amount \in 1..MaxUint160
    /\ approvals' = {[to |-> "token", amount |-> amount, expiration |-> 0],
                     [to |-> "permit2", amount |-> amount, expiration |-> expiration]}
    /\ grant' = [amount |-> amount, expiration |-> expiration]
    /\ UNCHANGED <<vars, allowance, permit, order, outcome>>

(* In either order.                                                        *)
MineApproval(call) ==
    /\ approvals' = approvals \ {call}
    /\ \/ /\ call.to = "token"
          /\ allowance' = call.amount
          /\ UNCHANGED permit
       \/ /\ call.to = "permit2"
          /\ permit' = [amount |-> call.amount, expiration |-> call.expiration]
          /\ UNCHANGED allowance
    /\ UNCHANGED <<vars, grant, order, outcome>>
-----------------------------------------------------------------------------
(* A request in a pool with the quote currency first or second, and        *)
(* perhaps with the native currency.                                       *)
Request(side, first, native, amount, minimum, deadline, length) ==
    LET currency0 == IF native THEN Native ELSE 50
        currency1 == 70
        in0 == (side = "buy") = first
    IN [currency0 |-> currency0, currency1 |-> currency1,
        fee |-> 81, tickSpacing |-> 82, hooks |-> 83,
        currencyIn |-> IF in0 THEN currency0 ELSE currency1,
        currencyOut |-> IF in0 THEN currency1 ELSE currency0,
        amountIn |-> amount, amountOutMinimum |-> minimum,
        minHopPrice |-> 0, hookData |-> length, deadline |-> deadline]

Requests ==
    {Request(side, first, native, amount, minimum, deadline, length) :
        side \in Sides, first \in BOOLEAN, native \in BOOLEAN, amount \in 1..MaxAmount,
        minimum \in 0..MaxOut, deadline \in Deadlines \ {0}, length \in Lengths}

(* What the router reads in the calldata of a request.                     *)
Received ==
    [r \in Requests |-> Decode(encodeV4ExactInputSingle(r, r.currencyIn = r.currency0))]

Value(r) == IF r.currencyIn = Native THEN r.amountIn ELSE 0

(* The caller makes the request from its quote; slippages above the whole  *)
(* and a deadline of zero are refused.                                     *)
BuildV4ExactInputSingle(first, native, slippage, deadline, length) ==
    /\ order = NoOrder
    /\ offer.out > 0
    /\ slippage <= BPSTotal
    /\ deadline # 0
    /\ LET r == Request(offer.side, first, native, offer.amount,
                        MinOutputWithSlippage(offer.out, slippage), deadline, length)
       IN order' = [value |-> Value(r), request |-> r, slippage |-> slippage]
    /\ UNCHANGED <<vars, tokenVars, outcome>>
-----------------------------------------------------------------------------
(* What the router can take from the trader now.                           *)
Spendable == IF now > permit.expiration THEN 0 ELSE Min({permit.amount, allowance})

(* The swap of d in a pool that answers as core does.                      *)
Output(d, core) == Quoted(offer.hook, offer.side, core, d.amountIn, now)

Executes(d, core) ==
    LET currencyIn == IF d.zeroForOne = 1 THEN d.pool[1] ELSE d.pool[2]
        currencyOut == IF d.zeroForOne = 1 THEN d.pool[2] ELSE d.pool[1]
    IN /\ WellFormed(d)
       /\ now <= d.deadline
       /\ Output(d, core) > 0
       /\ Output(d, core) >= d.amountOutMinimum
       /\ d.settle[1] = currencyIn /\ d.settle[2] >= d.amountIn
       /\ d.take[1] = currencyOut /\ d.take[2] <= Output(d, core)
       /\ IF currencyIn = Native THEN order.value >= d.amountIn ELSE Spendable >= d.amountIn

Spend(d) ==
    /\ allowance' = allowance - d.amountIn
    /\ permit' = [permit EXCEPT !.amount = IF @ = MaxUint160 THEN @ ELSE @ - d.amountIn]
    /\ grant' = [grant EXCEPT !.amount = IF @ > d.amountIn THEN @ - d.amountIn ELSE 0]
    /\ UNCHANGED approvals

(* What the trader is left with, and why an order may fail: the pool has   *)
(* moved, the deadline has passed, or the last approvals are not mined or  *)
(* do not cover the trade now.                                             *)
Outcome(d, core, result) ==
    [result |-> result,
     hookData |-> d.hookData,
     paid |-> <<IF d.zeroForOne = 1 THEN d.pool[1] ELSE d.pool[2], d.amountIn>>,
     value |-> order.value,
     got |-> IF result = "done" THEN Output(d, core) ELSE 0,
     request |-> order.request, slippage |-> order.slippage, quote |-> offer.out,
     moved |-> core # offer.core,
     late |-> now > order.request.deadline,
     grown |-> offer.side = "buy" /\ offer.amount > offer.core.limit,
     unfunded |-> order.request.currencyIn # Native
                    /\ (approvals # {} \/ grant.amount < offer.amount \/ now > grant.expiration)]

(* The transaction is mined; the pool may be another one than was quoted.  *)
MineSwap ==
    /\ order # NoOrder
    /\ LET d == Received[order.request]
       IN \E core \in Cores :
            \/ /\ Executes(d, core)
               /\ outcome' = Outcome(d, core, "done")
               /\ \/ order.request.currencyIn = Native /\ UNCHANGED tokenVars
                  \/ order.request.currencyIn # Native /\ Spend(d)
            \/ /\ ~Executes(d, core)
               /\ outcome' = Outcome(d, core, "reverted")
               /\ UNCHANGED tokenVars
    /\ order' = NoOrder
    /\ offer' = NoOffer
    /\ UNCHANGED <<schedule, now>>

Forget ==
    /\ outcome # NoOutcome
    /\ outcome' = NoOutcome
    /\ UNCHANGED <<vars, tokenVars, order>>
-----------------------------------------------------------------------------
(* Nothing else happens between the end of a trade and a look at it.       *)
TradeStep ==
    \/ QuoteStep
    \/ order = NoOrder /\ Aside(RefuseState)
    \/ Aside(NextBlock)
    \/ \E amount \in 1..MaxAmount, expiration \in Expirations :
         BuildUniversalRouterApprovals(amount, expiration)
    \/ \E call \in approvals : MineApproval(call)
    \/ \E first, native \in BOOLEAN, slippage \in Slippages, deadline \in Deadlines,
          length \in Lengths :
         BuildV4ExactInputSingle(first, native, slippage, deadline, length)
    \/ MineSwap

TradeNext == (outcome = NoOutcome /\ TradeStep) \/ Forget

TradeSpec == TradeInit /\ [][TradeNext]_tradeVars
-----------------------------------------------------------------------------
(* A trade that is mined takes the amount asked for of the currency asked  *)
(* for, no native currency besides, hands the hook its data whole, and     *)
(* loses no more than the slippage against the quote, up to one unit of    *)
(* rounding, however the pool and the fees have moved since.               *)
TradeWithinLimits ==
    outcome.result = "done" =>
        /\ outcome.paid = <<outcome.request.currencyIn, outcome.request.amountIn>>
        /\ outcome.value = (IF outcome.request.currencyIn = Native THEN outcome.request.amountIn ELSE 0)
        /\ outcome.hookData = HookData(outcome.request.hookData)
        /\ (outcome.got + 1) * BPSTotal > outcome.quote * (BPSTotal - outcome.slippage)

(* And one that reverts has a cause outside the SDK: the pool moved, the   *)
(* deadline passed, the approvals do not cover it, or its input outgrew    *)
(* the liquidity.  Whatever the slippage, in any block up to the deadline, *)
(* quote, minimum, approvals and calldata fit together.                    *)
NoNeedlessRevert ==
    outcome.result = "reverted" =>
        outcome.moved \/ outcome.late \/ outcome.unfunded \/ outcome.grown
=============================================================================
