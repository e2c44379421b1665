------------------------------ MODULE HookFees ------------------------------
(***************************************************************************)
(* The quotes of rbhtrade/o1_quote.go and bags_v4_quote.go.  Both hooks    *)
(* charge a fee on the quote currency: before the swap of a buy, after the *)
(* swap of a sell.  The fee of Bags is fixed; that of o1 starts high at    *)
(* the launch and falls to its base over a window of seconds.              *)
(*                                                                         *)
(* A quote is made at the timestamp now and kept in offer while time goes  *)
(* on: the trade is executed later.  Integers have no width: the products  *)
(* of O1HookFeeBPS stay far below 2^64.                                    *)
(*                                                                         *)
(* QuoteV4ExactInput is what module V4Quote models in full.  Here it is    *)
(* abstracted to a core: core.out[x] is the output for the input x, 0 for  *)
(* a refusal, and inputs above core.limit exceed the liquidity and are     *)
(* refused too.  It stands for the pool on the chain and for the local     *)
(* quote.  They differ in that the local quote also refuses an input that  *)
(* ends in a step too small to move the price (v4_quote.go:211): that is   *)
(* one of the refusals of RefuseState, so a core is monotone, as the pool. *)
(* Bounds: MaxTime, MaxAmount, MaxOut and the sets of the schedule.        *)
(***************************************************************************)
EXTENDS Integers

CONSTANTS
    BPSTotal,            \* 10000 in the code
    O1MaxBaseFeeBPS,     \* 1000 in the code
    O1MaxTotalFeeBPS,    \* 9900 in the code
    BagsV4HookFeeBPS,    \* 200 in the code
    BaseFees, StartFees, Windows, LaunchTimes,
    MaxTime, MaxAmount, MaxOut

ASSUME HookAssumption ==
    /\ BPSTotal \in Nat \ {0}
    /\ {O1MaxBaseFeeBPS, O1MaxTotalFeeBPS, BagsV4HookFeeBPS} \subseteq 0..BPSTotal - 1
    /\ BaseFees \cup StartFees \cup Windows \cup LaunchTimes \subseteq Nat
    /\ {MaxTime, MaxAmount, MaxOut} \subseteq Nat

VARIABLES
    schedule,   \* the O1HookFeeSchedule of the pool
    now,        \* the timestamp of the newest block
    offer       \* the last quote, or NoOffer

vars == <<schedule, now, offer>>

Schedules == [base : BaseFees, start : StartFees, window : Windows, launch : LaunchTimes]

(* More input never buys less, as long as the liquidity suffices.          *)
Cores == {c \in [out : [1..MaxAmount -> 0..MaxOut], limit : 1..MaxAmount] :
            \A x, y \in 1..MaxAmount : x <= y => c.out[x] <= c.out[y]}

Sides == {"buy", "sell"}
Hooks == {"o1", "bags"}
NoOffer == [out |-> 0]

Init ==
    /\ schedule \in Schedules
    /\ now \in 0..MaxTime
    /\ offer = NoOffer
-----------------------------------------------------------------------------
(* The schedule is one the hook contract can have, and the pool is live.   *)
O1HookFeeOk(s, timestamp) ==
    /\ s.base <= O1MaxBaseFeeBPS
    /\ s.base <= s.start
    /\ s.start <= O1MaxTotalFeeBPS
    /\ s.window > 0
    /\ s.launch > 0
    /\ timestamp >= s.launch

(* Wrong: the surcharge is weighed by the time that has passed.            *)
SurchargeByElapsed(s, elapsed) == ((s.start - s.base) * elapsed) \div s.window

(* The surcharge is weighed by the time that is left of the window.        *)
Surcharge(s, elapsed) == ((s.start - s.base) * (s.window - elapsed)) \div s.window

O1HookFeeBPS(s, timestamp) ==
    LET elapsed == timestamp - s.launch
    IN IF elapsed = 0 THEN s.start
       ELSE IF elapsed >= s.window THEN s.base
       ELSE LET total == s.base + Surcharge(s, elapsed)
            IN IF total > O1MaxTotalFeeBPS THEN O1MaxTotalFeeBPS ELSE total
-----------------------------------------------------------------------------
(* Wrong: the fee is rounded in favour of the hook.                        *)
FeeRoundedUp(value, bps) == (value * bps + BPSTotal - 1) \div BPSTotal

Fee(value, bps) == (value * bps) \div BPSTotal

Effective(value, bps) == value - Fee(value, bps)

(* The output of the pool, without its hook.                               *)
QuoteV4ExactInput(core, amount) ==
    IF amount \in 1..core.limit THEN core.out[amount] ELSE 0

(* The fee is on the quote currency: the input of a buy, which must leave  *)
(* something, or the output of a sell.                                     *)
QuoteWithFee(side, core, amount, bps) ==
    IF side = "buy"
    THEN QuoteV4ExactInput(core, Effective(amount, bps))
    ELSE Effective(QuoteV4ExactInput(core, amount), bps)

QuoteO1V4ExactInput(side, core, amount, timestamp) ==
    IF O1HookFeeOk(schedule, timestamp)
    THEN QuoteWithFee(side, core, amount, O1HookFeeBPS(schedule, timestamp))
    ELSE 0

QuoteBagsV4ExactInput(side, core, amount) ==
    QuoteWithFee(side, core, amount, BagsV4HookFeeBPS)

(* The quote of a trade through a hook at a timestamp, 0 if it is refused. *)
Quoted(hook, side, core, amount, timestamp) ==
    IF hook = "o1"
    THEN QuoteO1V4ExactInput(side, core, amount, timestamp)
    ELSE QuoteBagsV4ExactInput(side, core, amount)
-----------------------------------------------------------------------------
Quote(hook, side, amount) ==
    /\ offer = NoOffer
    /\ \E core \in Cores :
         offer' = [hook |-> hook, side |-> side, core |-> core, amount |-> amount,
                   valid |-> hook = "o1" => O1HookFeeOk(schedule, now),
                   out |-> Quoted(hook, side, core, amount, now)]
    /\ UNCHANGED <<schedule, now>>

QuoteO1(side, amount) == Quote("o1", side, amount)
QuoteBags(side, amount) == Quote("bags", side, amount)

(* The pool has another hook, the currency is foreign, the pool has fees   *)
(* of another kind, or the local quote comes upon a step that is too small *)
(* to move the price; or the caller drops the quote it had.                *)
RefuseState ==
    /\ offer' = NoOffer
    /\ UNCHANGED <<schedule, now>>

NextBlock ==
    /\ now < MaxTime
    /\ now' = now + 1
    /\ UNCHANGED <<schedule, offer>>

Next ==
    \/ \E side \in Sides, amount \in 1..MaxAmount :
         QuoteO1(side, amount) \/ QuoteBags(side, amount)
    \/ RefuseState
    \/ NextBlock

Spec == Init /\ [][Next]_vars
-----------------------------------------------------------------------------
(* A quote is good for later: whenever the trade is executed against the   *)
(* same pool, at any later timestamp, it yields what was quoted or more,   *)
(* so a minimum output taken from the quote holds.  The exception is a     *)
(* buy whose input, grown because the fee fell, exceeds the liquidity.     *)
QuoteHoldsLater ==
    offer.out > 0 =>
        \/ Quoted(offer.hook, offer.side, offer.core, offer.amount, now) >= offer.out
        \/ offer.side = "buy" /\ offer.amount > offer.core.limit

(* No fee takes a trade whole: through a hook whose state is valid, a      *)
(* trade is refused only if the pool refuses it, or a part of it, without  *)
(* a fee, or for the last step of the local quote (RefuseState).           *)
NeverTaxedAway ==
    offer # NoOffer /\ offer.valid /\ offer.out = 0 =>
        \E part \in 1..offer.amount : QuoteV4ExactInput(offer.core, part) = 0
=============================================================================
