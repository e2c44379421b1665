--------------------------- MODULE ContractErrors ---------------------------
(***************************************************************************)
(* What adapters/pons/errors.go makes of the data of a revert.  The data   *)
(* is a selector, words, and rest, a number of bytes that fill no word.    *)
(* A selector is the name of the error in errorsABIJSON that has it, since *)
(* no two have the same (TestOfficialContractErrorSelectorsAreUnique), or  *)
(* "Error" or "Panic" of Solidity, or "other".  Empty data has the         *)
(* selector "none", data of less than four bytes has "cut".                *)
(*                                                                         *)
(* The decoders and encoders are those of go-ethereum (external): the      *)
(* decoder takes what it needs and ignores words and bytes that follow,    *)
(* the upper bytes of an address, and the padding of a text.  Where a text *)
(* begins elsewhere than it should, whether it can be read is left open.   *)
(* The reason that go-ethereum gives for a panic stands for its code.      *)
(*                                                                         *)
(* A revert comes from a contract of Pons, which raises its error and      *)
(* encodes it, or from any other contract, whose data may be anything: it  *)
(* may have the selector of an error of the table by chance or by choice.  *)
(* Bounds: MaxWords words of data; MaxWord, ByteValues and abiWordSize     *)
(* make small words.                                                       *)
(***************************************************************************)
EXTENDS Integers, Sequences

CONSTANTS
    Inputs,              \* the types of the values of each error of the table
    abiWordSize,         \* 32 in the code
    ByteValues,          \* 256 in the code
    MaxWord, MaxAddress, MaxUint8,
    MaxRevertDataBytes,  \* 1 << 20 in the code
    MaxWords

Types == {"uint256", "bytes32", "uint8", "address"}

ASSUME ErrorsAssumption ==
    /\ \A name \in DOMAIN Inputs : Inputs[name] \in Seq(Types)
    /\ DOMAIN Inputs \cap {"Error", "Panic", "other", "none", "cut", "absent"} = {}
    /\ {abiWordSize, ByteValues} \subseteq Nat \ {0}
    /\ {MaxWord, MaxAddress, MaxUint8, MaxRevertDataBytes, MaxWords} \subseteq Nat
    /\ abiWordSize <= MaxWord

VARIABLES
    data,      \* the data of the revert, or NoData
    raised,    \* the error of a contract of Pons that it is, or Foreign
    told       \* what the caller is told, or NotTold

revertVars == <<data, raised, told>>

Word == 0..MaxWord
errorBySelector == DOMAIN Inputs
ErrorNames == errorBySelector \cup {"Error", "Panic"}

Outcome(result, name, values) == [result |-> result, name |-> name, values |-> values]
Refused == Outcome("refused", "none", <<>>)
Unknown == Outcome("unknown", "none", <<>>)
Decoded(name, values) == Outcome("error", name, values)

NoData == [selector |-> "absent", words |-> <<>>, rest |-> 0]
Foreign == [name |-> "foreign", values |-> <<>>]
NotTold == Outcome("untold", "none", <<>>)

(* Every sequence of words, and what remains of one.                       *)
Words == UNION {[1..n -> Word] : n \in 0..MaxWords}
AnyData ==
    [selector : ErrorNames \cup {"other"}, words : Words, rest : 0..abiWordSize - 1]
      \cup [selector : {"none", "cut"}, words : {<<>>}, rest : {0}]

Size(d) == 4 + abiWordSize * Len(d.words) + d.rest
-----------------------------------------------------------------------------
(* The values of the errors and their encoding.                            *)

Fits(type, word) ==
    CASE type = "uint8" -> word <= MaxUint8
      [] type = "address" -> word <= MaxAddress
      [] OTHER -> TRUE

(* A text of so many bytes fills its words from the left, the last one is  *)
(* padded with zeros.                                                      *)
WordsOf(length) == (length + abiWordSize - 1) \div abiWordSize

Kept(word, i, length) ==
    IF i * abiWordSize <= length
    THEN word
    ELSE word - (word % ByteValues^(i * abiWordSize - length))

TextsOf(length) ==
    {t \in [length : {length}, content : [1..WordsOf(length) -> Word]] :
        \A i \in 1..WordsOf(length) : t.content[i] = Kept(t.content[i], i, length)}

Texts == UNION {TextsOf(length) : length \in {n \in Word : WordsOf(n) + 2 <= MaxWords}}

Values(name) ==
    CASE name = "Error" -> Texts
      [] name = "Panic" -> [1..1 -> Word]
      [] OTHER -> {v \in [DOMAIN Inputs[name] -> Word] :
                     \A i \in DOMAIN Inputs[name] : Fits(Inputs[name][i], v[i])}

TextWords(text) == <<abiWordSize, text.length>> \o text.content

Encode(name, values) ==
    [selector |-> name,
     words |-> IF name = "Error" THEN TextWords(values) ELSE values,
     rest |-> 0]
-----------------------------------------------------------------------------
(* The decoders.                                                           *)

TextOf(words) ==
    [length |-> words[2],
     content |-> [i \in 1..WordsOf(words[2]) |-> Kept(words[i + 2], i, words[2])]]

validateCanonicalRevert(d) == d.rest = 0 /\ d.words = TextWords(TextOf(d.words))

(* A text that cannot be read is looked up in the table, where no error    *)
(* has its selector.                                                       *)
DecodeReason(d) ==
    CASE Len(d.words) < 2 -> {Unknown}
      [] Len(d.words) >= 2 /\ d.words[1] # abiWordSize -> {Unknown, Refused}
      [] OTHER ->
           IF d.words[2] > abiWordSize * (Len(d.words) - 2) + d.rest THEN {Unknown}
           ELSE IF validateCanonicalRevert(d) THEN {Decoded("Error", TextOf(d.words))}
           ELSE {Refused}

DecodePanic(d) ==
    CASE Len(d.words) = 0 -> Unknown
      [] Len(d.words) = 1 /\ d.rest = 0 -> Decoded("Panic", d.words)
      [] OTHER -> Refused

Unpacks(name, d) ==
    \A i \in DOMAIN Inputs[name] :
        i \in DOMAIN d.words /\ (Inputs[name][i] = "uint8" => d.words[i] <= MaxUint8)

Unpack(name, d) ==
    [i \in DOMAIN Inputs[name] |->
        IF Inputs[name][i] = "address" THEN d.words[i] % (MaxAddress + 1) ELSE d.words[i]]

(* Wrong: only what follows the values is looked at, not what they are     *)
(* made from.                                                              *)
SameSize(d, values) == d.rest = 0 /\ DOMAIN d.words = DOMAIN values

validateCanonicalError(d, values) == d.rest = 0 /\ d.words = values

DecodeCustom(d) ==
    LET values == Unpack(d.selector, d)
    IN IF Unpacks(d.selector, d) /\ validateCanonicalError(d, values)
       THEN Decoded(d.selector, values)
       ELSE Refused

(* What it may answer: one answer, unless the reading of a text is open.   *)
ParseContractError(d) ==
    CASE d.selector = "none" -> {Unknown}
      [] d.selector = "cut" -> {Refused}
      [] d.selector \in ErrorNames \cup {"other"} /\ Size(d) > MaxRevertDataBytes -> {Refused}
      [] OTHER ->
           CASE d.selector = "Error" -> DecodeReason(d)
             [] d.selector = "Panic" -> {DecodePanic(d)}
             [] d.selector \in errorBySelector -> {DecodeCustom(d)}
             [] OTHER -> {Unknown}
-----------------------------------------------------------------------------
RevertInit ==
    /\ data = NoData
    /\ raised = Foreign
    /\ told = NotTold

(* A contract of Pons reverts with an error of the table, with a reason or *)
(* with a panic.                                                           *)
Raise ==
    /\ data = NoData
    /\ \E name \in ErrorNames :
         \E values \in Values(name) :
            /\ raised' = [name |-> name, values |-> values]
            /\ data' = Encode(name, values)
    /\ UNCHANGED told

(* Another contract reverts, a token or a router on the way, or the data   *)
(* is cut or changed by the node that answers.                             *)
Relay ==
    /\ data = NoData
    /\ data' \in AnyData
    /\ UNCHANGED <<raised, told>>

(* The error that is not known and the one that is refused are told as     *)
(* errors of the SDK.                                                      *)
MustParseContractError ==
    /\ data # NoData /\ told = NotTold
    /\ told' \in ParseContractError(data)
    /\ UNCHANGED <<data, raised>>

(* The caller has seen what he was told.                                   *)
Handle ==
    /\ told # NotTold
    /\ data' = NoData /\ raised' = Foreign /\ told' = NotTold

RevertNext == Raise \/ Relay \/ MustParseContractError \/ Handle

RevertSpec == RevertInit /\ [][RevertNext]_revertVars
-----------------------------------------------------------------------------
(* An error that is told has the values of its types, and its encoding is  *)
(* the data, byte for byte, whoever reverted: nothing is told that the     *)
(* data does not say, though data of another contract that is the encoding *)
(* of an error of the table is told as that error.  And what a contract of *)
(* Pons raised is told with its values, and never refused, unless it is    *)
(* too long.                                                               *)
ToldAsEncoded ==
    told # NotTold =>
        /\ told.result = "error" =>
             /\ told.name \in ErrorNames /\ told.values \in Values(told.name)
             /\ data = Encode(told.name, told.values)
        /\ raised # Foreign /\ Size(data) <= MaxRevertDataBytes =>
             told = Decoded(raised.name, raised.values)
=============================================================================
