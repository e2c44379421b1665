------------------------------ MODULE V4Quote ------------------------------
(***************************************************************************)
(* The local Uniswap V4 quote of rbhtrade/v4_quote.go: a history of        *)
(* liquidity changes is netted into ranges and ticks, then the swap loop   *)
(* walks from tick to tick until the input is spent.                       *)
(*                                                                         *)
(* Square-root prices are positions on a line: tick t is at 3 * t and has  *)
(* two positions above it that stand for the prices before the next tick.  *)
(* The tick list and the swap step belong to the Uniswap SDK; the step is  *)
(* any outcome its contract allows, so what holds here holds whatever the  *)
(* amounts and the rounding are.  Bound: the pool's price lies             *)
(* beyond neither of the two price limits.                                 *)
(***************************************************************************)
EXTENDS Integers, Sequences, FiniteSetsExt

CONSTANTS
    MaxTick,            \* 887272 in the SDK
    WordSize,           \* ticks in a word of the tick bitmap, 256 in the SDK
    Slack,              \* iterations granted beyond the ticks and the words
    MaxLiquidity,       \* 2^128 - 1
    Pools,              \* V4PoolStates: [ranges, tick, price, spacing]
    Amounts,            \* amountIn
    StepCosts,          \* input taken by a step that reaches its target
    StepOuts,           \* output of a step that moves the price
    BPS,                \* basis points in one, 10000
    CutRates            \* HookFeeBPS and CreatorTaxBPS

MinTick == -MaxTick

PriceAt(t) == 3 * t       \* GetSqrtRatioAtTick
TickAt(p) == p \div 3     \* GetTickAtSqrtRatio

ASSUME V4Assumption ==
    /\ MaxTick \in Nat \ {0}
    /\ WordSize \in Nat \ {0} /\ Slack \in Nat /\ MaxLiquidity \in Nat
    /\ Amounts \subseteq Nat \ {0} /\ StepCosts \subseteq Nat \ {0}
    /\ StepOuts \subseteq Nat /\ BPS \in Nat \ {0} /\ CutRates \subseteq Nat

(* The types of V4PoolState, a positive tick spacing (a state without one  *)
(* is refused), and the bound on the price.                                *)
ASSUME PoolsAssumption ==
    \A p \in Pools :
        /\ p.ranges \in Seq([lower : Int, upper : Int, delta : Int])
        /\ p.tick \in Int
        /\ p.price \in PriceAt(MinTick) + 1..PriceAt(MaxTick) - 1
        /\ p.spacing \in Nat \ {0}

VARIABLES
    pool,        \* the argument state
    zeroForOne,  \* currencyIn == Currency0
    pc,          \* "enter", "loop" or "done"
    ticks,       \* ticks[t]: the net liquidity of initialized tick t
    tick, price, liquidity, remaining, calculated, iteration,
    output,      \* the amount quoted, 0 if none
    verdict      \* "none", "quoted" or the reason of the refusal

loopVars == <<tick, price, liquidity, remaining, calculated, iteration>>
vars == <<pool, zeroForOne, pc, ticks, loopVars, output, verdict>>

-----------------------------------------------------------------------------
(* Netting the history.                                                    *)

RangeOk(r) ==
    /\ r.delta # 0
    /\ r.lower < r.upper
    /\ MinTick <= r.lower /\ r.upper <= MaxTick
    /\ r.lower % pool.spacing = 0 /\ r.upper % pool.spacing = 0

delta == [i \in DOMAIN pool.ranges |-> pool.ranges[i].delta]

rangeKey == [i \in DOMAIN pool.ranges |-> <<pool.ranges[i].lower, pool.ranges[i].upper>>]

Keys == {rangeKey[i] : i \in DOMAIN pool.ranges}

rangeLiquidity ==
    [k \in Keys |-> SumFunctionOnSet(delta, {i \in DOMAIN pool.ranges : rangeKey[i] = k})]

Starting(t) == SumFunctionOnSet(rangeLiquidity, {k \in Keys : k[1] = t})
Ending(t) == SumFunctionOnSet(rangeLiquidity, {k \in Keys : k[2] = t})

Gross(t) == Starting(t) + Ending(t)
Net(t) == Starting(t) - Ending(t)

(* The ticks of the ranges that are left.                                  *)
TicksOfRanges ==
    UNION {{k[1], k[2]} : k \in {k \in Keys : rangeLiquidity[k] > 0}}

Active(t) == SumFunctionOnSet(rangeLiquidity, {k \in Keys : k[1] <= t /\ t < k[2]})

FitsInt128(v) == -((MaxLiquidity + 1) \div 2) <= v /\ v <= MaxLiquidity \div 2

(* Wrong: a history that removed more than it added passes.                *)
OverdrawnPasses == \A k \in Keys : rangeLiquidity[k] <= MaxLiquidity

NotOverdrawn == \A k \in Keys : rangeLiquidity[k] \in 0..MaxLiquidity

StateOk ==
    /\ pool.ranges # <<>>
    /\ \A i \in DOMAIN pool.ranges : RangeOk(pool.ranges[i])
    /\ NotOverdrawn
    /\ Active(pool.tick) \in 1..MaxLiquidity
    /\ \A t \in TicksOfRanges : Gross(t) \in 1..MaxLiquidity /\ FitsInt128(Net(t))
    /\ MinTick <= pool.tick /\ pool.tick < MaxTick
    /\ PriceAt(pool.tick) <= pool.price /\ pool.price <= PriceAt(pool.tick + 1)
-----------------------------------------------------------------------------
(* TickListDataProvider.NextInitializedTickWithinOneWord: the next         *)
(* initialized tick, or the end of the word if that comes first.           *)
NextTick(t) ==
    LET compressed == t \div pool.spacing
        edge == IF zeroForOne
                THEN (compressed \div WordSize) * WordSize * pool.spacing
                ELSE ((((compressed + 1) \div WordSize) + 1) * WordSize - 1) * pool.spacing
        ahead == {u \in DOMAIN ticks : IF zeroForOne THEN u <= t ELSE t < u}
        nearest == IF zeroForOne THEN Max(ahead) ELSE Min(ahead)
    IN  IF ahead = {} THEN edge
        ELSE IF zeroForOne THEN Max({edge, nearest}) ELSE Min({edge, nearest})

Clamped(t) == IF t < MinTick THEN MinTick ELSE IF t > MaxTick THEN MaxTick ELSE t

(* One above the lowest square-root price, one below the highest.          *)
PriceLimit == IF zeroForOne THEN PriceAt(MinTick) + 1 ELSE PriceAt(MaxTick) - 1

Target(next) ==
    IF zeroForOne THEN Max({PriceAt(next), PriceLimit}) ELSE Min({PriceAt(next), PriceLimit})

Words == ((MaxTick - MinTick) + pool.spacing * WordSize - 1) \div (pool.spacing * WordSize)

(* Wrong: only the words are counted, not the initialized ticks.           *)
MaxIterationsOfWords == Words + Slack

MaxIterations == Cardinality(DOMAIN ticks) + Words + Slack

(* ComputeSwapStep: the step reaches its target and may leave input, or    *)
(* spends all that remains and stops short, perhaps without having moved.  *)
SwapSteps(target) ==
    LET short == IF zeroForOne THEN target + 1..price ELSE price..target - 1
    IN  {[price |-> target, spent |-> s, out |-> o] :
            s \in IF target = price THEN {0} ELSE {c \in StepCosts : c < remaining} \cup {remaining},
            o \in IF target = price THEN {0} ELSE StepOuts}
        \cup {[price |-> p, spent |-> remaining, out |-> o] : p \in short \ {price}, o \in StepOuts}
        \cup {[price |-> p, spent |-> remaining, out |-> 0] : p \in short \cap {price}}
-----------------------------------------------------------------------------
Init ==
    /\ pool \in Pools
    /\ zeroForOne \in BOOLEAN
    /\ pc = "enter"
    /\ ticks = <<>>
    /\ tick = 0 /\ price = 0 /\ liquidity = 0
    /\ remaining = 0 /\ calculated = 0 /\ iteration = 0
    /\ output = 0
    /\ verdict = "none"

Ends(reason) ==
    /\ verdict' = reason
    /\ pc' = "done"

RefuseState ==
    /\ pc = "enter"
    /\ ~StateOk
    /\ Ends("invalid")
    /\ UNCHANGED <<pool, zeroForOne, ticks, loopVars, output>>

StartLoop ==
    /\ pc = "enter"
    /\ StateOk
    /\ ticks' = [t \in TicksOfRanges |-> Net(t)]
    /\ tick' = pool.tick
    /\ price' = pool.price
    /\ liquidity' = Active(pool.tick)
    /\ remaining' \in Amounts
    /\ calculated' = 0
    /\ iteration' = 0
    /\ pc' = "loop"
    /\ UNCHANGED <<pool, zeroForOne, output, verdict>>

(* Both cuts of the output hook are taken from the whole output, each      *)
(* rounded down; together they may exceed it.                              *)
AfterCuts(hookFee, creatorTax) ==
    calculated - (calculated * hookFee) \div BPS - (calculated * creatorTax) \div BPS

LoopEnds ==
    /\ pc = "loop"
    /\ remaining = 0 \/ price = PriceLimit
    /\ \E hookFee, creatorTax \in CutRates :
         IF AfterCuts(hookFee, creatorTax) > 0
         THEN output' = AfterCuts(hookFee, creatorTax) /\ Ends("quoted")
         ELSE UNCHANGED output /\ Ends("nothing")
    /\ UNCHANGED <<pool, zeroForOne, ticks, loopVars>>

LoopOn == pc = "loop" /\ remaining # 0 /\ price # PriceLimit

RefuseIteration ==
    /\ LoopOn
    /\ iteration >= MaxIterations \/ liquidity <= 0
    /\ Ends(IF iteration >= MaxIterations THEN "iterations" ELSE "noLiquidity")
    /\ UNCHANGED <<pool, zeroForOne, ticks, loopVars, output>>

(* Wrong: the net liquidity is added in both directions.                   *)
CrossedAlways(next) == IF next \in DOMAIN ticks THEN liquidity + ticks[next] ELSE liquidity

Crossed(next) ==
    IF next \notin DOMAIN ticks THEN liquidity
    ELSE liquidity + IF zeroForOne THEN -ticks[next] ELSE ticks[next]

TickAfterCrossing(next) == IF zeroForOne THEN next - 1 ELSE next

Advance(step, next) ==
    /\ price' = step.price
    /\ remaining' = remaining - step.spent
    /\ calculated' = calculated + step.out
    /\ iteration' = iteration + 1
    /\ \/ /\ step.price = PriceAt(next)
          /\ liquidity' = Crossed(next)
          /\ tick' = TickAfterCrossing(next)
          /\ UNCHANGED <<pc, verdict>>
       \/ /\ step.price # PriceAt(next)
          /\ step.price # price
          /\ tick' = TickAt(step.price)
          /\ UNCHANGED <<liquidity, pc, verdict>>
       \/ /\ step.price # PriceAt(next)
          /\ step.price = price
          /\ Ends("stuck")
          /\ UNCHANGED <<liquidity, tick>>
    /\ UNCHANGED <<pool, zeroForOne, ticks, output>>

Iterate ==
    /\ LoopOn
    /\ iteration < MaxIterations
    /\ liquidity > 0
    /\ LET next == Clamped(NextTick(tick))
       IN  \E step \in SwapSteps(Target(next)) : Advance(step, next)

Finished == pc = "done" /\ UNCHANGED vars

Next == RefuseState \/ StartLoop \/ LoopEnds \/ RefuseIteration \/ Iterate \/ Finished

Spec == Init /\ [][Next]_vars
-----------------------------------------------------------------------------
(* Neither the input left nor the liquidity goes negative, the net amounts *)
(* fit the width the tick list gives them, and the price stays in range.   *)
TypeOK ==
    /\ zeroForOne \in BOOLEAN
    /\ pc \in {"enter", "loop", "done"}
    /\ \A t \in DOMAIN ticks : t \in MinTick..MaxTick /\ FitsInt128(ticks[t])
    /\ tick \in MinTick - 1..MaxTick
    /\ price \in PriceAt(MinTick)..PriceAt(MaxTick)
    /\ {liquidity, remaining, calculated} \subseteq Nat
    /\ iteration \in Nat
    /\ output \in 0..calculated
    /\ (verdict = "quoted") = (output > 0)
    /\ verdict \in {"none", "quoted", "invalid", "iterations", "noLiquidity", "stuck", "nothing"}

(* The liquidity that prices a step is what the history added and removed  *)
(* around the current tick, whatever ticks were crossed on the way, in     *)
(* either direction and from a price that sits exactly on a tick.          *)
LiquidityMatchesTick ==
    pc = "loop" =>
      liquidity = SumFunctionOnSet(delta,
                    {i \in DOMAIN pool.ranges :
                       pool.ranges[i].lower <= tick /\ tick < pool.ranges[i].upper})

(* The bound on the iterations never refuses a swap the ranges can fill.   *)
IterationsSuffice == verdict # "iterations"

(* "quoteV4CoreExactInput follows the audited Uniswap V3/V4 swap loop":    *)
(* that loop ends with what it has computed once the input is spent.       *)
FollowsUniswapLoop == verdict = "stuck" => remaining > 0 \/ calculated = 0
=============================================================================
