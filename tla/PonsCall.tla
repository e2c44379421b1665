------------------------------ MODULE PonsCall ------------------------------
(***************************************************************************)
(* The transactions of the Pons client, once ClientInit has brought it up: *)
(* a caller reads the launch fee, computes the value with the helpers of   *)
(* util.go, and has a wrapper of client.go check, pack (calldata.go) and   *)
(* send the call.  What a revert returns is the subject of ContractErrors. *)
(*                                                                         *)
(* Amounts and addresses are numbers: Invalid is the amount nil, for all   *)
(* that a packer refuses, 0 is nothing, and the zero address, which is the *)
(* native currency as a pair token.  The metadata of a launch is one       *)
(* argument: Invalid for too much of it, 0 for an empty name or symbol.    *)
(*                                                                         *)
(* The contracts, their governance and the caller are external.  One       *)
(* caller keeps one TransactOpts: it sets the value for the methods that   *)
(* the ABI declares payable, and leaves it as it is for the others.        *)
(* Bounds: Amounts and Fees.                                               *)
(***************************************************************************)
EXTENDS ClientInit

CONSTANTS Amounts, Fees

ASSUME CallAssumption == Fees \cup Amounts \subseteq Nat

VARIABLES
    fee,              \* the launch fee of the factory
    known,            \* the launch fee that the caller has read
    authValue,        \* the value in the caller's TransactOpts
    call              \* the transaction under way, or NoCall

accountVars == <<fee, known, authValue, call>>
callVars == <<vars, accountVars>>

Invalid == -1
Native == 0
NoCall == [stage |-> "none"]

CallInit ==
    /\ Init
    /\ fee \in Fees
    /\ known \in Fees
    /\ authValue = 0
    /\ call = NoCall
-----------------------------------------------------------------------------
StartStep ==
    /\ Next
    /\ UNCHANGED accountVars
-----------------------------------------------------------------------------
(* The wrappers: where the call goes, which is an argument of the wrapper  *)
(* or an address of the client, and whether it may carry value.            *)
Wrapper(to, payable) == [to |-> to, payable |-> payable]

Wrappers ==
    [launchTokenSimple |-> Wrapper("Factory", TRUE),
     launchToken       |-> Wrapper("Factory", TRUE),
     launchTokenFor    |-> Wrapper("Factory", TRUE),
     launchAndBuy      |-> Wrapper("LaunchAndBuy", TRUE),
     buy               |-> Wrapper("argument", TRUE),
     sell              |-> Wrapper("argument", FALSE),
     sweepFees         |-> Wrapper("argument", FALSE),
     graduate          |-> Wrapper("Factory", FALSE),
     createGraduatedPool |-> Wrapper("Factory", FALSE),
     sweepPoolFees     |-> Wrapper("MemeHook", FALSE),
     transferCreatorFeeRecipient |-> Wrapper("Factory", FALSE),
     setBuybackEnabled |-> Wrapper("Factory", FALSE),
     approve           |-> Wrapper("argument", FALSE),
     claim             |-> Wrapper("FeeEscrow", FALSE),
     claimAmount       |-> Wrapper("FeeEscrow", FALSE),
     claimToken        |-> Wrapper("FeeEscrow", FALSE),
     claimTokenAmount  |-> Wrapper("FeeEscrow", FALSE),
     release           |-> Wrapper("BuybackVault", FALSE)]

Methods == DOMAIN Wrappers

(* What each packer asks of its arguments; "any" is not looked at.         *)
Packs ==
    [launchTokenSimple |-> <<"launch", "uint", "any">>,
     launchToken       |-> <<"launch", "uint", "any">>,
     launchTokenFor    |-> <<"launch", "uint", "any", "address">>,
     launchAndBuy      |-> <<"launch", "uint", "any", "positive", "uint", "address">>,
     buy               |-> <<"positive", "uint", "address">>,
     sell              |-> <<"positive", "uint", "address">>,
     sweepFees         |-> <<"uint">>,
     graduate          |-> <<"address">>,
     createGraduatedPool |-> <<"address">>,
     sweepPoolFees     |-> <<"any", "uint", "uint">>,
     transferCreatorFeeRecipient |-> <<"address", "address">>,
     setBuybackEnabled |-> <<"address", "any">>,
     approve           |-> <<"address", "uint">>,
     claim             |-> <<>>,
     claimAmount       |-> <<"positive">>,
     claimToken        |-> <<"address">>,
     claimTokenAmount  |-> <<"address", "positive">>,
     release           |-> <<"address">>]

Valid(kind, argument) ==
    \/ kind = "any"
    \/ kind = "uint" /\ argument >= 0
    \/ kind \in {"positive", "address", "launch"} /\ argument > 0

Pack(method, arguments) ==
    \A i \in DOMAIN Packs[method] : Valid(Packs[method][i], arguments[i])

validateAuth(value) == value >= 0

(* Wrong: every wrapper checks the TransactOpts like a payable one.        *)
validateAnyAuth(value) == value >= 0

validateNonPayableAuth(value) == value = 0

(* The addresses of the client were validated by Dial.                     *)
Accepted(method, to, arguments, value) ==
    /\ IF Wrappers[method].payable THEN validateAuth(value) ELSE validateNonPayableAuth(value)
    /\ Wrappers[method].to = "argument" => to > 0
    /\ Pack(method, arguments)
-----------------------------------------------------------------------------
(* The value that the caller sets, for the methods of the ABI that take    *)
(* any: amounts that are nil count as zero.                                *)

cloneBig(amount) == IF amount < 0 THEN 0 ELSE amount

LaunchTokenValue == cloneBig(known)

BuyValue(pairToken, quoteIn) == IF pairToken = Native THEN cloneBig(quoteIn) ELSE 0

LaunchAndBuyValue(pairToken, quoteIn) ==
    cloneBig(known) + (IF pairToken = Native THEN cloneBig(quoteIn) ELSE 0)

Launches == {"launchTokenSimple", "launchToken", "launchTokenFor", "launchAndBuy"}

(* A buy has the pair token of its curve.                                  *)
ValueOf(method, pairToken, arguments) ==
    CASE method = "launchAndBuy" -> LaunchAndBuyValue(pairToken, arguments[4])
      [] method = "buy" -> BuyValue(pairToken, arguments[1])
      [] method \in Launches \ {"launchAndBuy"} -> LaunchTokenValue
      [] OTHER -> authValue

QuoteIn(method, arguments) ==
    CASE method = "launchAndBuy" -> arguments[4]
      [] method = "buy" -> arguments[1]
      [] OTHER -> 0

ReadLaunchFee ==
    /\ call = NoCall
    /\ known' = fee
    /\ UNCHANGED <<vars, fee, authValue, call>>

transact(method, to, pairToken, arguments) ==
    LET value == ValueOf(method, pairToken, arguments)
    IN /\ call = NoCall
       /\ method \in Launches => arguments[3] = pairToken
       /\ authValue' = value
       /\ call' = IF Accepted(method, to, arguments, value)
                  THEN [stage |-> "sent", method |-> method, pair |-> pairToken,
                        quote |-> QuoteIn(method, arguments), value |-> value, fee |-> known]
                  ELSE NoCall
       /\ UNCHANGED <<vars, fee, known>>
-----------------------------------------------------------------------------
(* The contracts.                                                          *)

SetLaunchFee ==
    /\ fee' \in Fees \ {fee}
    /\ UNCHANGED <<vars, known, authValue, call>>

Due(c) == (IF c.method \in Launches THEN fee ELSE 0)
            + (IF c.method \in {"launchAndBuy", "buy"} /\ c.pair = Native THEN c.quote ELSE 0)

(* The contract executes the call, or reverts for whatever reason.         *)
Mined ==
    /\ call.stage = "sent"
    /\ call' = NoCall
    /\ UNCHANGED <<vars, fee, known, authValue>>
-----------------------------------------------------------------------------
Arguments(method) == [DOMAIN Packs[method] -> Amounts \cup {Invalid}]

CallStep ==
    /\ verdict = "client"
    /\ \/ ReadLaunchFee
       \/ \E method \in Methods, to, pairToken \in Amounts :
            \E arguments \in Arguments(method) : transact(method, to, pairToken, arguments)
       \/ SetLaunchFee
       \/ Mined

CallNext == StartStep \/ CallStep

CallSpec == CallInit /\ [][CallNext]_callVars /\ Fairness
-----------------------------------------------------------------------------
(* Whatever was sent before with the same TransactOpts, a transaction that *)
(* is sent carries exactly the value that its method takes: the launch fee *)
(* and the quote of a buy in the native currency, and nothing with a       *)
(* method that takes none.  Only a launch fee that governance has changed  *)
(* since it was read can make it fail for its value.                       *)
ValueIsDue ==
    call.stage = "sent" /\ call.fee = fee => call.value = Due(call)
=============================================================================
