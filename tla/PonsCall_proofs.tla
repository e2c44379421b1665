--------------------------- MODULE PonsCall_proofs ---------------------------
(***************************************************************************)
(* Proofs about ClientInit and on top of it about PonsCall, for any number *)
(* of contracts and any amounts, about ContractErrors, for any table of    *)
(* errors, and about PonsClient, which is made of the two.                 *)
(***************************************************************************)
EXTENDS PonsClient, FiniteSetTheorems, SequenceTheorems, TLAPS

Reading == {d \in Contracts : check[d] = "reading"}

(* The types, and what the program counter says of the checks.             *)
InitTypes ==
    /\ check \in [Contracts -> {"idle", "reading", "ended"}]
    /\ errs \in [Contracts -> {"nil", "unread", "nocode"}]
    /\ verdict \in {"none", "Dial", "NewClient", "contract", "client"}
    /\ pc \in {"dial", "chainid", "options", "dialled", "wait"} => verdict = "none"
    /\ pc \in {"dial", "chainid", "options", "dialled", "wait", "done"}
    /\ pc = "dial" => conn = "none"
    /\ pc \in {"chainid", "options", "dialled", "wait"} => conn = "open"

(* The wait group counts the checks under way: at zero all have ended.     *)
Counted ==
    /\ running = Cardinality(Reading)
    /\ pc = "wait" => \A d \in Contracts : check[d] # "idle"
    /\ pc # "wait" => Reading = {}

InitInv == InitTypes /\ Counted /\ VerdictOfAllChecks /\ ConnectionHasOwner

(* The deployments are finitely many, so the checks still reading can be   *)
(* counted.                                                                *)
LEMMA FiniteContracts ==
  /\ IsFiniteSet(Contracts) /\ Cardinality(Contracts) = Deployments
  /\ IsFiniteSet(Reading)
<1>1. IsFiniteSet(Contracts) /\ Cardinality(Contracts) = Deployments
  <2>1. Deployments \in Nat /\ 1 \in Int
    BY DeploymentAssumption
  <2>2. IsFiniteSet(1..Deployments)
          /\ Cardinality(1..Deployments) = IF 1 > Deployments THEN 0 ELSE Deployments - 1 + 1
    BY <2>1, FS_Interval
  <2>. QED
    BY <2>1, <2>2 DEF Contracts
<1>. QED
  BY <1>1, FS_Subset DEF Reading

(* A counter of zero means that no check is under way.                     *)
LEMMA ZeroMeansEnded ==
  ASSUME InitInv, pc = "wait", running = 0
  PROVE  \A d \in Contracts : check[d] = "ended"
<1>1. Reading = {}
  BY FiniteContracts, FS_EmptySet DEF InitInv, Counted
<1>. QED
  BY <1>1 DEF InitInv, InitTypes, Counted, Reading

(* A check that ends is one less to wait for.                              *)
LEMMA CheckCounted ==
  ASSUME InitInv, NEW d \in Contracts, Check(d)
  PROVE  InitInv'
<1>1. /\ check[d] = "reading" /\ check' = [check EXCEPT ![d] = "ended"]
      /\ running' = running - 1
      /\ UNCHANGED <<pc, conn, ctx, verdict, named>>
      /\ errs' = errs \/ errs' = [errs EXCEPT ![d] = "unread"]
                      \/ errs' = [errs EXCEPT ![d] = "nocode"]
  BY DEF Check, CodeUnread, NoCode, HasCode
<1>2. pc = "wait" /\ d \in Reading
  BY <1>1 DEF InitInv, Counted, Reading
<1>3. Reading' = Reading \ {d}
  BY <1>1 DEF InitInv, InitTypes, Reading
<1>4. running' = Cardinality(Reading')
  BY <1>1, <1>2, <1>3, FiniteContracts, FS_RemoveElement DEF InitInv, Counted
<1>5. InitTypes'
  BY <1>1 DEF InitInv, InitTypes
<1>6. Counted'
  BY <1>1, <1>2, <1>4 DEF InitInv, InitTypes, Counted
<1>7. verdict' = "none"
  BY <1>1, <1>2 DEF InitInv, InitTypes
<1>. QED
  BY <1>1, <1>2, <1>5, <1>6, <1>7 DEF InitInv, VerdictOfAllChecks, ConnectionHasOwner

(* Start-up keeps the wait group's counter and the number of checks equal. *)
LEMMA InitInvStep == InitInv /\ [Next]_vars => InitInv'
<1>. SUFFICES ASSUME InitInv, [Next]_vars PROVE InitInv'
  OBVIOUS
<1>1. CASE DialFails
  BY <1>1 DEF DialFails, InitInv, InitTypes, Counted, Reading, VerdictOfAllChecks,
              ConnectionHasOwner
<1>2. CASE DialContext \/ ReadChainID \/ Dialled
  BY <1>2 DEF DialContext, ReadChainID, Dialled, InitInv, InitTypes, Counted, Reading,
              VerdictOfAllChecks, ConnectionHasOwner
<1>3. CASE WrongChain \/ InvalidAddresses
  BY <1>3 DEF WrongChain, InvalidAddresses, GiveUp, InitInv, InitTypes, Counted, Reading,
              VerdictOfAllChecks, ConnectionHasOwner
<1>4. CASE NewClientFails
  BY <1>4 DEF NewClientFails, InitInv, InitTypes, Counted, Reading, VerdictOfAllChecks,
              ConnectionHasOwner
<1>5. CASE SpawnChecks
  <2>1. Reading' = Contracts
    BY <1>5 DEF SpawnChecks, Reading
  <2>2. running' = Cardinality(Reading')
    BY <1>5, <2>1, FiniteContracts DEF SpawnChecks
  <2>. QED
    BY <1>5, <2>2 DEF SpawnChecks, InitInv, InitTypes, Counted, VerdictOfAllChecks,
                      ConnectionHasOwner
<1>6. CASE Accept
  <2>1. \A d \in Contracts : check[d] = "ended" /\ errs[d] = "nil"
    BY <1>6, ZeroMeansEnded DEF Accept, Errors
  <2>2. Reading' = {} /\ Reading = {}
    BY <1>6, <2>1 DEF Accept, Reading
  <2>. QED
    BY <1>6, <2>1, <2>2 DEF Accept, InitInv, InitTypes, Counted, VerdictOfAllChecks,
                            ConnectionHasOwner
<1>7. CASE Reject
  <2>1. \A d \in Contracts : check[d] = "ended"
    BY <1>7, ZeroMeansEnded DEF Reject
  <2>2. Reading' = {} /\ Reading = {}
    BY <1>7, <2>1 DEF Reject, Reading
  <2>3. /\ named' \in Contracts /\ errs[named'] # "nil"
        /\ \A e \in Contracts : errs[e] # "nil" => named' <= e
    BY <1>7 DEF Reject, Errors
  <2>4. \A e \in 1..named' - 1 : errs[e] = "nil"
    <3>1. PICK m \in Contracts : named' = m
      BY <2>3
    <3>2. m \in Int /\ Deployments \in Int /\ m <= Deployments
      BY DeploymentAssumption DEF Contracts
    <3>3. \A e \in 1..m - 1 : e \in Contracts /\ ~(m <= e)
      BY <3>2 DEF Contracts
    <3>. QED
      BY <2>3, <3>1, <3>3
  <2>. QED
    BY <1>7, <2>1, <2>2, <2>3, <2>4 DEF Reject, InitInv, InitTypes, Counted,
       VerdictOfAllChecks, ConnectionHasOwner
<1>8. ASSUME NEW d \in Contracts, Check(d) PROVE InitInv'
  BY <1>8, CheckCounted
<1>9. CASE CallerStops \/ Started \/ UNCHANGED vars
  BY <1>9 DEF CallerStops, Started, vars, InitInv, InitTypes, Counted, Reading,
              VerdictOfAllChecks, ConnectionHasOwner
<1>. QED
  BY <1>1, <1>2, <1>3, <1>4, <1>5, <1>6, <1>7, <1>8, <1>9 DEF Next, Dial, NewClientChecked

(* Hence the counter is exact in every state of start-up.                  *)
LEMMA InitInvHolds == Spec => []InitInv
<1>1. Init => InitInv
  <2>. SUFFICES ASSUME Init PROVE InitInv
    OBVIOUS
  <2>1. Reading = {}
    BY DEF Init, Reading
  <2>2. running = Cardinality(Reading)
    BY <2>1, FS_EmptySet DEF Init
  <2>. QED
    BY <2>1, <2>2 DEF Init, InitInv, InitTypes, Counted, VerdictOfAllChecks,
                      ConnectionHasOwner
<1>. QED
  BY <1>1, InitInvStep, PTL DEF Spec

(* A client is returned only after every contract was found to have code,  *)
(* and an error names the first that has none, for any number of contracts *)
(* and any order of the answers.                                           *)
THEOREM VerdictSound == Spec => []VerdictOfAllChecks
<1>1. InitInv => VerdictOfAllChecks
  BY DEF InitInv
<1>. QED
  BY <1>1, InitInvHolds, PTL

(* A failed Dial leaves no connection open, and the checks never run, nor  *)
(* does a client exist, over a connection that is not.                     *)
THEOREM ConnectionOwned == Spec => []ConnectionHasOwner
<1>1. InitInv => ConnectionHasOwner
  BY DEF InitInv
<1>. QED
  BY <1>1, InitInvHolds, PTL
-----------------------------------------------------------------------------
(* The start of PonsCall is that of ClientInit, so what holds of a start   *)
(* holds here.                                                             *)
THEOREM StartsAsClientInit == CallSpec => Spec
<1>1. CallInit => Init
  BY DEF CallInit
<1>2. [CallNext]_callVars => [Next]_vars
  BY DEF CallNext, callVars, StartStep, CallStep, ReadLaunchFee, transact,
         SetLaunchFee, Mined
<1>. QED
  BY <1>1, <1>2, PTL DEF CallSpec, Spec

(***************************************************************************)
(* The value of a transaction.                                             *)
(***************************************************************************)
(* What Due asks of a call, with the launch fee it was computed from.      *)
Computed(c) ==
    (IF c.method \in Launches THEN c.fee ELSE 0)
      + (IF c.method \in {"launchAndBuy", "buy"} /\ c.pair = Native THEN c.quote ELSE 0)

(* The fee a caller holds was read from the factory, and what is under way *)
(* carries what its method takes, as far as the caller could know.         *)
ValueInv ==
    /\ known \in Fees /\ fee \in Fees
    /\ call.stage = "sent" => call.value = Computed(call)

(* Only launches and buys are payable in the ABI.                          *)
LEMMA PayableMethods ==
  ASSUME NEW method \in Methods
  PROVE  IF Wrappers[method].payable THEN method \in Launches \cup {"buy"}
                                     ELSE method \notin Launches \cup {"buy"}
BY DEF Methods, Wrappers, Wrapper, Launches

(* A wrapper that accepts the value set for its method sends what the      *)
(* method takes; one that takes nothing sends nothing, whatever an earlier *)
(* call left in the TransactOpts.                                          *)
LEMMA SentValue ==
  ASSUME known \in Fees, NEW method \in Methods, NEW to, NEW pairToken,
         NEW arguments \in Arguments(method),
         Accepted(method, to, arguments, ValueOf(method, pairToken, arguments))
  PROVE  ValueOf(method, pairToken, arguments)
           = (IF method \in Launches THEN known ELSE 0)
               + (IF method \in {"launchAndBuy", "buy"} /\ pairToken = Native
                  THEN QuoteIn(method, arguments) ELSE 0)
<1>1. known \in Nat /\ cloneBig(known) = known
  BY CallAssumption DEF cloneBig
<1>2. CASE method = "launchAndBuy"
  <2>1. Packs[method] = <<"launch", "uint", "any", "positive", "uint", "address">>
    BY <1>2 DEF Packs
  <2>2. Valid("positive", arguments[4])
    BY <2>1 DEF Accepted, Pack
  <2>3. arguments[4] \in Nat /\ arguments[4] > 0
    <3>1. 4 \in DOMAIN Packs[method]
      BY <2>1
    <3>2. arguments[4] \in Amounts \cup {Invalid}
      BY <3>1 DEF Arguments
    <3>. QED
      BY <2>2, <3>2, CallAssumption DEF Valid, Invalid
  <2>. QED
    BY <1>1, <1>2, <2>3 DEF ValueOf, LaunchAndBuyValue, QuoteIn, cloneBig, Launches
<1>3. CASE method = "buy"
  <2>1. Packs[method] = <<"positive", "uint", "address">>
    BY <1>3 DEF Packs
  <2>2. Valid("positive", arguments[1])
    BY <2>1 DEF Accepted, Pack
  <2>3. arguments[1] \in Nat /\ arguments[1] > 0
    <3>1. 1 \in DOMAIN Packs[method]
      BY <2>1
    <3>2. arguments[1] \in Amounts \cup {Invalid}
      BY <3>1 DEF Arguments
    <3>. QED
      BY <2>2, <3>2, CallAssumption DEF Valid, Invalid
  <2>. QED
    BY <1>1, <1>3, <2>3 DEF ValueOf, BuyValue, QuoteIn, cloneBig, Launches
<1>4. CASE method \in Launches \ {"launchAndBuy"}
  BY <1>1, <1>4 DEF ValueOf, LaunchTokenValue, Launches
<1>5. CASE method \notin Launches \cup {"buy"}
  <2>1. validateNonPayableAuth(ValueOf(method, pairToken, arguments))
    BY <1>5, PayableMethods DEF Accepted
  <2>. QED
    BY <1>5, <2>1 DEF validateNonPayableAuth, Launches
<1>. QED
  BY <1>2, <1>3, <1>4, <1>5 DEF Launches

(* Every wrapper sends what SentValue says, after any earlier transaction; *)
(* a fee the factory sets meanwhile does not change what was sent.         *)
LEMMA ValueInvStep == ValueInv /\ [CallNext]_callVars => ValueInv'
<1>. SUFFICES ASSUME ValueInv, [CallNext]_callVars PROVE ValueInv'
  OBVIOUS
<1>1. CASE StartStep
  BY <1>1 DEF StartStep, ValueInv, Computed, accountVars
<1>2. CASE ReadLaunchFee \/ SetLaunchFee
  BY <1>2 DEF ReadLaunchFee, SetLaunchFee, ValueInv, Computed
<1>3. CASE Mined
  BY <1>3 DEF Mined, NoCall, ValueInv
<1>4. ASSUME NEW method \in Methods, NEW to, NEW pairToken, NEW arguments \in Arguments(method),
             transact(method, to, pairToken, arguments)
      PROVE  ValueInv'
  <2> DEFINE value == ValueOf(method, pairToken, arguments)
             quote == QuoteIn(method, arguments)
  <2>1. /\ call' = IF Accepted(method, to, arguments, value)
                   THEN [stage |-> "sent", method |-> method, pair |-> pairToken,
                         quote |-> quote, value |-> value, fee |-> known]
                   ELSE NoCall
        /\ known' = known /\ fee' = fee
    BY <1>4 DEF transact
  <2>2. Accepted(method, to, arguments, value) =>
          value = (IF method \in Launches THEN known ELSE 0)
                    + (IF method \in {"launchAndBuy", "buy"} /\ pairToken = Native
                       THEN quote ELSE 0)
    BY SentValue DEF ValueInv
  <2> HIDE DEF value, quote
  <2>3. CASE Accepted(method, to, arguments, value)
    BY <2>1, <2>2, <2>3 DEF ValueInv, Computed
  <2>4. CASE ~Accepted(method, to, arguments, value)
    BY <2>1, <2>4 DEF ValueInv, NoCall
  <2>. QED
    BY <2>3, <2>4
<1>5. CASE UNCHANGED callVars
  BY <1>5 DEF callVars, accountVars, ValueInv, Computed
<1>. QED
  BY <1>1, <1>2, <1>3, <1>4, <1>5 DEF CallNext, CallStep

(* A transaction carries exactly what its method takes, for any amounts    *)
(* and any sequence of calls with one TransactOpts, unless governance      *)
(* changed the launch fee after it was read.                               *)
THEOREM ValueExact == CallSpec => []ValueIsDue
<1>1. CallInit => ValueInv
  BY DEF CallInit, NoCall, ValueInv
<1>2. ValueInv => ValueIsDue
  BY DEF ValueInv, ValueIsDue, Computed, Due
<1>. QED
  BY <1>1, <1>2, ValueInvStep, PTL DEF CallSpec
(***************************************************************************)
(* The data of a revert.                                                   *)
(***************************************************************************)
(* The selectors of Solidity and of other contracts are not in the table,  *)
(* and the sizes are numbers.                                              *)
LEMMA ErrorConstants ==
  /\ {"Error", "Panic", "other", "none", "cut", "absent"} \cap errorBySelector = {}
  /\ abiWordSize \in Nat \ {0} /\ abiWordSize \in Word
  /\ MaxWord \in Nat /\ MaxAddress \in Nat /\ MaxUint8 \in Nat /\ MaxWords \in Nat
  /\ \A name \in errorBySelector :
       Inputs[name] \in Seq(Types) /\ Len(Inputs[name]) \in Nat
         /\ DOMAIN Inputs[name] = 1..Len(Inputs[name])
<1>1. \A name \in errorBySelector : Inputs[name] \in Seq(Types)
  BY ErrorsAssumption DEF errorBySelector
<1>2. \A name \in errorBySelector : Len(Inputs[name]) \in Nat
                                     /\ DOMAIN Inputs[name] = 1..Len(Inputs[name])
  BY <1>1, LenProperties
<1>3. {"Error", "Panic", "other", "none", "cut", "absent"} \cap errorBySelector = {}
  BY ErrorsAssumption DEF errorBySelector
<1>4. /\ abiWordSize \in Nat \ {0} /\ abiWordSize \in Word
      /\ MaxWord \in Nat /\ MaxAddress \in Nat /\ MaxUint8 \in Nat /\ MaxWords \in Nat
  BY ErrorsAssumption DEF Word
<1>. QED
  BY <1>1, <1>2, <1>3, <1>4

(* A function on 1..n is a sequence.                                       *)
LEMMA FunctionIsSeq ==
  ASSUME NEW S, NEW n \in Nat, NEW f \in [1..n -> S]
  PROVE  f \in Seq(S) /\ Len(f) = n
<1>1. f \in Seq(S)
  BY SeqDef
<1>2. Len(f) \in Nat /\ DOMAIN f = 1..Len(f)
  BY <1>1, LenProperties
<1>. QED
  BY <1>1, <1>2

(* The words of a text hold it, and no fewer would.                        *)
LEMMA WordsHoldText ==
  ASSUME NEW length \in Nat
  PROVE  WordsOf(length) \in Nat /\ length <= abiWordSize * WordsOf(length)
<1>. DEFINE w == abiWordSize
            q == (length + w - 1) \div w
<1>1. w \in Nat \ {0}
  BY ErrorConstants
<1>2. length + w - 1 \in Nat
  BY <1>1
<1>. HIDE DEF w
<1>3. q \in Nat /\ length + w - 1 < q * w + w /\ q * w = w * q
  BY <1>1, <1>2, SMT
<1>4. q * w \in Int
  BY <1>1, <1>3
<1>. HIDE DEF q
<1>5. q \in Nat /\ length <= w * q
  BY <1>1, <1>3, <1>4
<1>. QED
  BY <1>5 DEF w, q, WordsOf

(* The words of a text, one by one.                                        *)
LEMMA WordsOfText ==
  ASSUME NEW length \in Word, NEW content \in Seq(Word)
  PROVE  LET words == TextWords([length |-> length, content |-> content])
         IN /\ words \in Seq(Word)
            /\ Len(words) = Len(content) + 2
            /\ words[1] = abiWordSize /\ words[2] = length
            /\ \A i \in 1..Len(content) : words[i + 2] = content[i]
<1>. DEFINE head == <<abiWordSize, length>>
            words == head \o content
<1>1. head \in Seq(Word) /\ Len(head) = 2 /\ head[1] = abiWordSize /\ head[2] = length
  BY ErrorConstants
<1>2. Len(content) \in Nat
  BY LenProperties
<1>. HIDE DEF head
<1>3. /\ words \in Seq(Word)
      /\ Len(words) = 2 + Len(content)
      /\ \A i \in 1..2 + Len(content) : words[i] = IF i <= 2 THEN head[i] ELSE content[i - 2]
  <2>1. /\ words \in Seq(Word)
        /\ Len(words) = Len(head) + Len(content)
        /\ \A i \in 1..Len(head) + Len(content) :
             words[i] = IF i <= Len(head) THEN head[i] ELSE content[i - Len(head)]
    BY <1>1, ConcatProperties, Zenon
  <2>2. Len(head) = 2
    BY <1>1
  <2>. HIDE DEF words
  <2>. QED
    BY <2>1, <2>2
<1>. HIDE DEF words
<1>4. words[1] = abiWordSize /\ words[2] = length
  BY <1>1, <1>2, <1>3
<1>5. ASSUME NEW i \in 1..Len(content)
      PROVE  words[i + 2] = content[i]
  BY <1>2, <1>3, <1>5
<1>6. TextWords([length |-> length, content |-> content]) = words
  BY DEF TextWords, words, head
<1>. QED
  BY <1>2, <1>3, <1>4, <1>5, <1>6

(* A text that is decoded is padded as it should be: the canonical check   *)
(* has found its padding in the data.                                      *)
LEMMA ReasonSound ==
  ASSUME NEW words \in Seq(Word), Len(words) >= 2, Len(words) <= MaxWords,
         words = TextWords(TextOf(words))
  PROVE  TextOf(words) \in Texts
<1>. DEFINE length == words[2]
            n == WordsOf(length)
            content == [i \in 1..n |-> Kept(words[i + 2], i, length)]
<1>1. Len(words) \in Nat /\ \A i \in 1..Len(words) : words[i] \in Word
  BY LenProperties, ElementOfSeq
<1>2. length \in Word
  BY <1>1
<1>3. length \in Nat
  BY <1>2, ErrorConstants DEF Word
<1>4. n \in Nat
  BY <1>3, WordsHoldText
<1>5. TextOf(words) = [length |-> length, content |-> content]
  BY DEF TextOf
<1>6. content = [i \in 1..n |-> content[i]]
  OBVIOUS
<1>. HIDE DEF n, content, length
<1>7. words = <<abiWordSize, length>> \o content
  BY <1>5 DEF TextWords
<1>8. /\ Len(words) = 2 + n
      /\ \A i \in 1..n : words[i + 2] = content[i]
  <2>. DEFINE S == {content[i] : i \in 1..n} \cup {abiWordSize, length}
  <2>1. content \in [1..n -> S] /\ <<abiWordSize, length>> \in Seq(S)
    BY <1>6
  <2>2. content \in Seq(S) /\ Len(content) = n
    BY <1>4, <2>1, FunctionIsSeq
  <2>. HIDE DEF S
  <2>3. /\ Len(words) = 2 + n
        /\ \A i \in 1..2 + n : words[i] = IF i <= 2 THEN <<abiWordSize, length>>[i]
                                                     ELSE content[i - 2]
    BY <1>7, <2>1, <2>2, ConcatProperties
  <2>. QED
    BY <1>4, <2>3
<1>9. \A i \in 1..n : content[i] \in Word /\ content[i] = Kept(content[i], i, length)
  <2>. SUFFICES ASSUME NEW i \in 1..n
                PROVE  content[i] \in Word /\ content[i] = Kept(content[i], i, length)
    OBVIOUS
  <2>1. i + 2 \in 1..Len(words) /\ words[i + 2] = content[i]
    BY <1>4, <1>8
  <2>2. content[i] = Kept(words[i + 2], i, length)
    BY DEF content
  <2>. QED
    BY <1>1, <2>1, <2>2
<1>10. [length |-> length, content |-> content] \in TextsOf(length)
  <2>1. content \in [1..n -> Word]
    BY <1>9 DEF content
  <2>. QED
    BY <1>9, <2>1 DEF TextsOf, n
<1>11. n + 2 <= MaxWords
  BY <1>4, <1>8, ErrorConstants
<1>. QED
  BY <1>2, <1>5, <1>10, <1>11 DEF Texts, n

(* A text that a contract encodes is read again as it was.                 *)
LEMMA ReasonComplete ==
  ASSUME NEW text \in Texts
  PROVE  DecodeReason(Encode("Error", text)) = {Decoded("Error", text)}
<1>. DEFINE length == text.length
            n == WordsOf(length)
            words == TextWords(text)
<1>1. /\ length \in Word
      /\ text = [length |-> length, content |-> text.content]
      /\ text.content \in [1..n -> Word]
      /\ \A i \in 1..n : text.content[i] = Kept(text.content[i], i, length)
  BY DEF Texts, TextsOf
<1>2. length \in Nat
  BY <1>1, ErrorConstants DEF Word
<1>3. n \in Nat /\ length <= abiWordSize * n
  BY <1>2, WordsHoldText
<1>. HIDE DEF n, length
<1>4. text.content \in Seq(Word) /\ Len(text.content) = n
  BY <1>1, <1>3, FunctionIsSeq
<1>. HIDE DEF words
<1>5. /\ Len(words) = n + 2
      /\ words[1] = abiWordSize /\ words[2] = length
      /\ \A i \in 1..n : words[i + 2] = text.content[i]
  BY <1>1, <1>4, WordsOfText DEF words
<1>6. TextOf(words) = text
  <2>. DEFINE kept == [i \in 1..n |-> Kept(words[i + 2], i, length)]
  <2>1. \A i \in 1..n : Kept(words[i + 2], i, length) = text.content[i]
    BY <1>1, <1>5
  <2>2. \A i \in 1..n : kept[i] = text.content[i]
    BY <2>1
  <2>3. DOMAIN kept = 1..n /\ DOMAIN text.content = 1..n
    BY <1>1
  <2>4. kept = text.content
    BY <1>1, <2>2, <2>3
  <2>. QED
    BY <1>1, <1>5, <2>4 DEF TextOf, n
<1>7. Encode("Error", text) = [selector |-> "Error", words |-> words, rest |-> 0]
  BY DEF Encode, words
<1>8. ~(length > abiWordSize * (Len(words) - 2) + 0)
  <2>1. Len(words) - 2 = n
    BY <1>3, <1>5
  <2>2. abiWordSize * n \in Int
    BY <1>3, ErrorConstants
  <2>. QED
    BY <1>2, <1>3, <2>1, <2>2
<1>9. validateCanonicalRevert(Encode("Error", text))
  BY <1>6, <1>7 DEF validateCanonicalRevert, words
<1>10. Len(words) >= 2
  BY <1>3, <1>5
<1>. QED
  BY <1>5, <1>6, <1>7, <1>8, <1>9, <1>10 DEF DecodeReason

(* An error of the table whose values pass the canonical check has values  *)
(* of its types, and they are the words of the data.                       *)
LEMMA CustomSound ==
  ASSUME NEW name \in errorBySelector, NEW words \in Seq(Word),
         NEW d, d = [selector |-> name, words |-> words, rest |-> d.rest],
         DecodeCustom(d).result = "error"
  PROVE  /\ DecodeCustom(d) = Decoded(name, words)
         /\ words \in Values(name) /\ d = Encode(name, words)
<1>. DEFINE values == Unpack(name, d)
<1>1. /\ Unpacks(name, d) /\ d.rest = 0 /\ words = values
      /\ DecodeCustom(d) = Decoded(name, values)
  BY DEF DecodeCustom, validateCanonicalError, Refused, Outcome
<1>2. DOMAIN words = DOMAIN Inputs[name]
  BY <1>1 DEF Unpack
<1>3. words \in [DOMAIN Inputs[name] -> Word]
  BY <1>2, LenProperties
<1>4. ASSUME NEW i \in DOMAIN Inputs[name]
      PROVE  Fits(Inputs[name][i], words[i])
  <2>1. words[i] \in Nat
    BY <1>3, ErrorConstants DEF Word
  <2>2. words[i] = IF Inputs[name][i] = "address" THEN words[i] % (MaxAddress + 1) ELSE words[i]
    <3>1. values[i] = IF Inputs[name][i] = "address" THEN words[i] % (MaxAddress + 1) ELSE words[i]
      BY DEF Unpack
    <3>. QED
      BY <1>1, <3>1
  <2>3. words[i] % (MaxAddress + 1) <= MaxAddress
    BY <2>1, ErrorConstants
  <2>4. Inputs[name][i] = "uint8" => words[i] <= MaxUint8
    BY <1>1 DEF Unpacks
  <2>. QED
    BY <2>2, <2>3, <2>4 DEF Fits
<1>5. name \notin {"Error", "Panic"}
  BY ErrorConstants
<1>6. words \in Values(name)
  BY <1>3, <1>4, <1>5 DEF Values
<1>. QED
  BY <1>1, <1>5, <1>6 DEF Encode

(* The values of an error of the table are unpacked as they were encoded.  *)
LEMMA CustomComplete ==
  ASSUME NEW name \in errorBySelector, NEW values \in Values(name)
  PROVE  DecodeCustom(Encode(name, values)) = Decoded(name, values)
<1>. DEFINE d == Encode(name, values)
<1>1. name \notin {"Error", "Panic"}
  BY ErrorConstants
<1>2. d = [selector |-> name, words |-> values, rest |-> 0]
  BY <1>1 DEF Encode
<1>3. /\ values \in [DOMAIN Inputs[name] -> Word]
      /\ \A i \in DOMAIN Inputs[name] : Fits(Inputs[name][i], values[i])
  BY <1>1 DEF Values
<1>. HIDE DEF d
<1>4. Unpacks(name, d)
  BY <1>2, <1>3 DEF Unpacks, Fits
<1>5. ASSUME NEW i \in DOMAIN Inputs[name], Inputs[name][i] = "address"
      PROVE  values[i] % (MaxAddress + 1) = values[i]
  <2>1. values[i] \in Nat
    BY <1>3, ErrorConstants DEF Word
  <2>2. values[i] <= MaxAddress
    BY <1>3, <1>5 DEF Fits
  <2>. QED
    BY <2>1, <2>2, ErrorConstants
<1>6. Unpack(name, d) = values
  BY <1>2, <1>3, <1>5 DEF Unpack
<1>. QED
  BY <1>2, <1>4, <1>6 DEF DecodeCustom, validateCanonicalError, d
-----------------------------------------------------------------------------
(* Data as a node may answer it.                                           *)
IsData(d) ==
    /\ d = [selector |-> d.selector, words |-> d.words, rest |-> d.rest]
    /\ d.words \in Seq(Word)
    /\ d.selector = "Error" => Len(d.words) <= MaxWords

(* What is told as an error is what the data is the encoding of, whoever   *)
(* made the data.                                                          *)
LEMMA ParsedSound ==
  ASSUME NEW d, IsData(d), NEW o \in ParseContractError(d), o.result = "error"
  PROVE  o.name \in ErrorNames /\ o.values \in Values(o.name) /\ d = Encode(o.name, o.values)
<1>1. Refused.result # "error" /\ Unknown.result # "error"
  BY DEF Refused, Unknown, Outcome
<1>2. \/ d.selector = "Error" /\ o \in DecodeReason(d)
      \/ d.selector = "Panic" /\ o = DecodePanic(d)
      \/ d.selector \in errorBySelector /\ o = DecodeCustom(d)
  BY <1>1 DEF ParseContractError
<1>3. Len(d.words) \in Nat
  BY LenProperties DEF IsData
<1>4. CASE d.selector = "Error" /\ o \in DecodeReason(d)
  <2>1. /\ o = Decoded("Error", TextOf(d.words)) /\ validateCanonicalRevert(d)
        /\ Len(d.words) >= 2
    BY <1>1, <1>3, <1>4 DEF DecodeReason
  <2>2. d.rest = 0 /\ d.words = TextWords(TextOf(d.words))
    BY <2>1 DEF validateCanonicalRevert
  <2>3. TextOf(d.words) \in Texts
    BY <1>4, <2>1, <2>2, ReasonSound DEF IsData
  <2>4. o.name = "Error" /\ o.values = TextOf(d.words)
    BY <2>1 DEF Decoded, Outcome
  <2>5. Values("Error") = Texts
    BY DEF Values
  <2>6. d = Encode("Error", TextOf(d.words))
    BY <1>4, <2>2 DEF IsData, Encode
  <2>. QED
    BY <2>3, <2>4, <2>5, <2>6 DEF ErrorNames
<1>5. CASE d.selector = "Panic" /\ o = DecodePanic(d)
  <2>1. o = Decoded("Panic", d.words) /\ Len(d.words) = 1 /\ d.rest = 0
    BY <1>1, <1>5 DEF DecodePanic
  <2>2. o.name = "Panic" /\ o.values = d.words
    BY <2>1 DEF Decoded, Outcome
  <2>3. d.words \in [1..1 -> Word]
    BY <2>1, LenProperties DEF IsData
  <2>4. Values("Panic") = [1..1 -> Word]
    BY DEF Values
  <2>5. d = Encode("Panic", d.words)
    BY <1>5, <2>1 DEF IsData, Encode
  <2>. QED
    BY <2>2, <2>3, <2>4, <2>5 DEF ErrorNames
<1>6. CASE d.selector \in errorBySelector /\ o = DecodeCustom(d)
  <2>1. d = [selector |-> d.selector, words |-> d.words, rest |-> d.rest]
          /\ d.words \in Seq(Word)
    BY DEF IsData
  <2>2. /\ o = Decoded(d.selector, d.words)
        /\ d.words \in Values(d.selector) /\ d = Encode(d.selector, d.words)
    BY <1>6, <2>1, CustomSound
  <2>3. o.name = d.selector /\ o.values = d.words
    BY <2>2 DEF Decoded, Outcome
  <2>. QED
    BY <1>6, <2>2, <2>3 DEF ErrorNames
<1>. QED
  BY <1>2, <1>4, <1>5, <1>6

(* What is encoded is data.                                                *)
LEMMA EncodedIsData ==
  ASSUME NEW name \in ErrorNames, NEW values \in Values(name)
  PROVE  IsData(Encode(name, values))
<1>1. CASE name = "Error"
  <2>1. /\ values.length \in Word /\ values.content \in [1..WordsOf(values.length) -> Word]
        /\ values = [length |-> values.length, content |-> values.content]
        /\ WordsOf(values.length) + 2 <= MaxWords
    BY <1>1 DEF Values, Texts, TextsOf
  <2>2. WordsOf(values.length) \in Nat
    BY <2>1, ErrorConstants, WordsHoldText DEF Word
  <2>3. values.content \in Seq(Word) /\ Len(values.content) = WordsOf(values.length)
    BY <2>1, <2>2, FunctionIsSeq
  <2>4. TextWords(values) \in Seq(Word) /\ Len(TextWords(values)) <= MaxWords
    BY <2>1, <2>3, WordsOfText
  <2>5. Encode(name, values) = [selector |-> name, words |-> TextWords(values), rest |-> 0]
    BY <1>1 DEF Encode
  <2>. QED
    BY <2>4, <2>5 DEF IsData
<1>2. CASE name = "Panic"
  <2>1. values \in [1..1 -> Word]
    BY <1>2 DEF Values
  <2>2. values \in Seq(Word)
    BY <2>1, FunctionIsSeq
  <2>. QED
    BY <1>2, <2>2 DEF IsData, Encode
<1>3. CASE name \in errorBySelector
  <2>1. name \notin {"Error", "Panic"}
    BY <1>3, ErrorConstants
  <2>2. values \in [1..Len(Inputs[name]) -> Word] /\ Len(Inputs[name]) \in Nat
    BY <1>3, <2>1, ErrorConstants DEF Values
  <2>3. values \in Seq(Word)
    BY <2>2, FunctionIsSeq
  <2>. QED
    BY <2>1, <2>3 DEF IsData, Encode
<1>. QED
  BY <1>1, <1>2, <1>3 DEF ErrorNames

(* So is what another contract or a node may answer.                       *)
LEMMA RelayedIsData ==
  ASSUME NEW d \in AnyData
  PROVE  IsData(d)
<1>1. CASE d \in [selector : {"none", "cut"}, words : {<<>>}, rest : {0}]
  <2>1. d = [selector |-> d.selector, words |-> d.words, rest |-> d.rest]
          /\ d.words = <<>> /\ d.selector \in {"none", "cut"}
    BY <1>1
  <2>2. <<>> \in Seq(Word)
    BY EmptySeq
  <2>. QED
    BY <2>1, <2>2 DEF IsData
<1>2. CASE d \in [selector : ErrorNames \cup {"other"}, words : Words, rest : 0..abiWordSize - 1]
  <2>1. PICK n \in 0..MaxWords : d.words \in [1..n -> Word]
    BY <1>2 DEF Words
  <2>2. n \in Nat /\ n <= MaxWords
    BY <2>1, ErrorConstants
  <2>3. d.words \in Seq(Word) /\ Len(d.words) = n
    BY <2>1, <2>2, FunctionIsSeq
  <2>. QED
    BY <1>2, <2>2, <2>3 DEF IsData
<1>. QED
  BY <1>1, <1>2 DEF AnyData

(* What a contract of Pons encodes is decoded, and nothing else is.        *)
LEMMA ParsedComplete ==
  ASSUME NEW name \in ErrorNames, NEW values \in Values(name),
         Size(Encode(name, values)) <= MaxRevertDataBytes
  PROVE  ParseContractError(Encode(name, values)) = {Decoded(name, values)}
<1>. DEFINE d == Encode(name, values)
<1>1. d.selector = name /\ d.rest = 0 /\ (name # "Error" => d.words = values)
  BY DEF Encode
<1>2. name \notin {"none", "cut", "other"}
  BY ErrorConstants DEF ErrorNames
<1>3. {"Error", "Panic"} \cap errorBySelector = {}
  BY ErrorConstants
<1>4. ~(Size(d) > MaxRevertDataBytes)
  <2>1. Size(d) \in Int
    <3>1. d.words \in Seq(Word)
      BY EncodedIsData DEF IsData
    <3>2. Len(d.words) \in Nat
      BY <3>1, LenProperties
    <3>. QED
      BY <1>1, <3>2, ErrorConstants DEF Size
  <2>2. MaxRevertDataBytes \in Int
    BY ErrorsAssumption
  <2>. HIDE DEF d
  <2>3. Size(d) <= MaxRevertDataBytes
    BY DEF d
  <2>. QED
    BY <2>1, <2>2, <2>3
<1>5. CASE name = "Error"
  <2>1. values \in Texts
    BY <1>5 DEF Values
  <2>2. DecodeReason(d) = {Decoded(name, values)}
    BY <1>5, <2>1, ReasonComplete
  <2>. HIDE DEF d
  <2>3. ParseContractError(d) = DecodeReason(d)
    BY <1>1, <1>3, <1>4, <1>5 DEF ParseContractError
  <2>. QED
    BY <2>2, <2>3 DEF d
<1>6. CASE name = "Panic"
  <2>1. values \in [1..1 -> Word]
    BY <1>6 DEF Values
  <2>2. Len(values) = 1
    BY <2>1, FunctionIsSeq
  <2>. HIDE DEF d
  <2>3. DecodePanic(d) = Decoded(name, values)
    BY <1>1, <1>6, <2>2 DEF DecodePanic
  <2>4. ParseContractError(d) = {DecodePanic(d)}
    BY <1>1, <1>3, <1>4, <1>6 DEF ParseContractError
  <2>. QED
    BY <2>3, <2>4 DEF d
<1>7. CASE name \in errorBySelector
  <2>1. name \notin {"Error", "Panic"}
    BY <1>7, ErrorConstants
  <2>2. DecodeCustom(d) = Decoded(name, values)
    BY <1>7, CustomComplete
  <2>. HIDE DEF d
  <2>3. ParseContractError(d) = {DecodeCustom(d)}
    BY <1>1, <1>2, <1>4, <1>7, <2>1 DEF ParseContractError
  <2>. QED
    BY <2>2, <2>3 DEF d
<1>. QED
  BY <1>5, <1>6, <1>7 DEF ErrorNames

(* Nothing is told of data that is not there, and data that a contract of  *)
(* Pons raised is its error.                                               *)
RevertInv ==
    /\ data = NoData => told = NotTold /\ raised = Foreign
    /\ data # NoData => IsData(data)
    /\ raised # Foreign =>
         /\ raised.name \in ErrorNames /\ raised.values \in Values(raised.name)
         /\ data = Encode(raised.name, raised.values)
    /\ ToldAsEncoded

(* Each revert begins and ends with nothing told; between, what is told is *)
(* what ParseContractError may answer.                                     *)
LEMMA RevertInvStep == RevertInv /\ [RevertNext]_revertVars => RevertInv'
<1>. SUFFICES ASSUME RevertInv, [RevertNext]_revertVars PROVE RevertInv'
  OBVIOUS
<1>1. CASE Raise
  <2>1. /\ told = NotTold /\ told' = told
        /\ \E name \in ErrorNames :
             \E values \in Values(name) :
                raised' = [name |-> name, values |-> values] /\ data' = Encode(name, values)
    BY <1>1 DEF Raise, RevertInv
  <2>2. PICK name \in ErrorNames :
          \E values \in Values(name) :
             raised' = [name |-> name, values |-> values] /\ data' = Encode(name, values)
    BY <2>1
  <2>3. PICK values \in Values(name) :
          raised' = [name |-> name, values |-> values] /\ data' = Encode(name, values)
    BY <2>2
  <2>4. IsData(data')
    BY <2>3, EncodedIsData
  <2>5. data' # NoData
    BY <2>3, ErrorConstants DEF Encode, NoData, ErrorNames
  <2>. QED
    BY <2>1, <2>3, <2>4, <2>5 DEF RevertInv, ToldAsEncoded
<1>2. CASE Relay
  <2>1. told = NotTold /\ told' = told /\ raised' = raised /\ raised = Foreign
    BY <1>2 DEF Relay, RevertInv
  <2>2. IsData(data')
    BY <1>2, RelayedIsData DEF Relay
  <2>. QED
    BY <2>1, <2>2 DEF RevertInv, ToldAsEncoded
<1>3. CASE MustParseContractError
  <2>1. /\ data # NoData /\ told' \in ParseContractError(data)
        /\ data' = data /\ raised' = raised
    BY <1>3 DEF MustParseContractError
  <2>2. IsData(data)
    BY <2>1 DEF RevertInv
  <2>3. told'.result = "error" =>
          /\ told'.name \in ErrorNames /\ told'.values \in Values(told'.name)
          /\ data = Encode(told'.name, told'.values)
    BY <2>1, <2>2, ParsedSound
  <2>4. ASSUME raised # Foreign, Size(data) <= MaxRevertDataBytes
        PROVE  told' = Decoded(raised.name, raised.values)
    <3>1. /\ raised.name \in ErrorNames /\ raised.values \in Values(raised.name)
          /\ data = Encode(raised.name, raised.values)
      BY <2>4 DEF RevertInv
    <3>2. ParseContractError(data) = {Decoded(raised.name, raised.values)}
      BY <2>4, <3>1, ParsedComplete
    <3>. QED
      BY <2>1, <3>2
  <2>5. ToldAsEncoded'
    BY <2>1, <2>3, <2>4 DEF ToldAsEncoded
  <2>. QED
    BY <2>1, <2>5 DEF RevertInv
<1>4. CASE Handle
  BY <1>4 DEF Handle, RevertInv, ToldAsEncoded
<1>5. CASE UNCHANGED revertVars
  BY <1>5 DEF revertVars, RevertInv, ToldAsEncoded
<1>. QED
  BY <1>1, <1>2, <1>3, <1>4, <1>5 DEF RevertNext

(* For any table of errors, any sizes of words and any data, of a contract *)
(* of Pons or of another: what is told as an error encodes to the data     *)
(* byte for byte, and what a contract of Pons raised is told as it is.     *)
THEOREM DecodingExact == RevertSpec => []ToldAsEncoded
<1>1. RevertInit => RevertInv
  BY DEF RevertInit, RevertInv, ToldAsEncoded
<1>2. RevertInv => ToldAsEncoded
  BY DEF RevertInv
<1>. QED
  BY <1>1, <1>2, RevertInvStep, PTL DEF RevertSpec
-----------------------------------------------------------------------------
(* A client whose calls revert behaves as PonsCall and as ContractErrors,  *)
(* so the theorems about either hold of it: looking at an error changes    *)
(* nothing of the account, and transacting nothing of the error.           *)
THEOREM ClientIsBoth == ClientSpec => CallSpec /\ RevertSpec
<1>1. ClientStart => CallInit /\ RevertInit
  BY DEF ClientStart
<1>2. [ClientNext]_clientVars => [CallNext]_callVars
  BY DEF ClientNext, clientVars, StartOrTransact, CallReverts, LookAtRevert, CallNext
<1>3. [ClientNext]_clientVars => [RevertNext]_revertVars
  BY DEF ClientNext, clientVars, StartOrTransact, CallReverts, LookAtRevert, RevertNext
<1>. QED
  BY <1>1, <1>2, <1>3, PTL DEF ClientSpec, CallSpec, RevertSpec
=============================================================================
