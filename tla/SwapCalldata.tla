---------------------------- MODULE SwapCalldata ----------------------------
(***************************************************************************)
(* The calldata that rbhtrade/fast_encode.go writes for a swap, word by    *)
(* word at offsets it computes itself, and what the contract that receives *)
(* it reads: an ABI decoder that follows the offsets.                      *)
(*                                                                         *)
(* A buffer is the sequence of its 32-byte words, each a number; the four  *)
(* bytes of the selector are left out.  Inside a word only the end of the  *)
(* hook data matters: Piece(l, k) is the k-th word of l bytes of it.       *)
(***************************************************************************)
EXTENDS Integers, Sequences

CONSTANT MaxUint256   \* 2^256 - 1 in the code

abiWordSize == 32
CommandV4Swap == 16                        \* 0x10
SwapActions == 6 * 65536 + 12 * 256 + 15   \* 0x06, 0x0c and 0x0f

At(offset) == offset \div abiWordSize

(* Wrong: the length is rounded down to whole words.                       *)
PaddedDown(length) == At(length) * abiWordSize

paddedABIBytes(length) == At(length + abiWordSize - 1) * abiWordSize

Piece(l, k) == 1000 * k + (IF l >= k * abiWordSize THEN abiWordSize ELSE l % abiWordSize)

HookData(l) == [k \in 1..At(l + abiWordSize - 1) |-> Piece(l, k)]

Make(bytes) == [i \in 1..At(bytes) |-> 0]

(* The words are written from a byte offset on; what does not fit the      *)
(* buffer is left out, as copy does.                                       *)
Put(buffer, offset, words) ==
    [i \in DOMAIN buffer |->
        IF i - At(offset) \in DOMAIN words THEN words[i - At(offset)] ELSE buffer[i]]

(* The parameters of the first action: an offset, the swap's tuple, and    *)
(* the hook data behind it.                                                *)
EncodeSwap(r, zeroForOne) ==
    LET length == 12 * abiWordSize + paddedABIBytes(r.hookData)
        tuple == <<r.currency0, r.currency1, r.fee, r.tickSpacing, r.hooks,
                   IF zeroForOne THEN 1 ELSE 0, r.amountIn, r.amountOutMinimum,
                   r.minHopPrice, 10 * abiWordSize, r.hookData>>
    IN Put(Put(Put(Make(length), 0, <<abiWordSize>>), abiWordSize, tuple),
           12 * abiWordSize, HookData(r.hookData))

(* The input of the command: the actions, and a table of their parameters. *)
EncodePlan(r, swap) ==
    LET actions == 2 * abiWordSize
        params == actions + 2 * abiWordSize
        table == params + abiWordSize
        first == table + 3 * abiWordSize
        second == first + abiWordSize + Len(swap) * abiWordSize
        third == second + 3 * abiWordSize
        head == Put(Make(third + 3 * abiWordSize), 0,
                    <<actions, params, 3, SwapActions, 3,
                      first - table, second - table, third - table,
                      Len(swap) * abiWordSize>>)
    IN Put(Put(Put(head, first + abiWordSize, swap),
               second, <<2 * abiWordSize, r.currencyIn, MaxUint256>>),
           third, <<2 * abiWordSize, r.currencyOut, r.amountOutMinimum>>)

(* The arguments of execute: one command, one input and the deadline.      *)
encodeV4ExactInputSingle(r, zeroForOne) ==
    LET plan == EncodePlan(r, EncodeSwap(r, zeroForOne))
        commands == 3 * abiWordSize
        inputs == commands + 2 * abiWordSize
        firstInput == inputs + 2 * abiWordSize
    IN Put(Put(Make(firstInput + abiWordSize + Len(plan) * abiWordSize), 0,
               <<commands, inputs, r.deadline, 1, CommandV4Swap, 1, abiWordSize,
                 Len(plan) * abiWordSize>>),
           firstInput + abiWordSize, plan)
-----------------------------------------------------------------------------
(* The decoder.  A word outside the calldata reads as -1; offsets are      *)
(* relative to the word that begins the enclosing tuple or table.          *)
Read(data, i) == IF i \in DOMAIN data THEN data[i] ELSE -1

(* Where the dynamic value begins whose offset is the word i of what       *)
(* begins at base.                                                         *)
Follow(data, base, i) == base + At(Read(data, base + i))

Decode(data) ==
    LET commands == Follow(data, 1, 0)
        inputs == Follow(data, 1, 1) + 1
        input == Follow(data, inputs, 0)
        plan == input + 1
        actions == Follow(data, plan, 0)
        params == Follow(data, plan, 1) + 1
        swap == Follow(data, params, 0) + 1
        settle == Follow(data, params, 1) + 1
        take == Follow(data, params, 2) + 1
        tuple == Follow(data, swap, 0)
        hook == Follow(data, tuple, 9)
        Field(i) == Read(data, tuple + i)
    IN [command |-> <<Read(data, commands), Read(data, commands + 1), Read(data, inputs - 1)>>,
        actions |-> <<Read(data, actions), Read(data, actions + 1), Read(data, params - 1)>>,
        deadline |-> Read(data, 3),
        pool |-> [i \in 1..5 |-> Field(i - 1)],
        zeroForOne |-> Field(5),
        amountIn |-> Field(6),
        amountOutMinimum |-> Field(7),
        minHopPrice |-> Field(8),
        settle |-> <<Read(data, settle), Read(data, settle + 1)>>,
        take |-> <<Read(data, take), Read(data, take + 1)>>,
        lengths |-> [input |-> Read(data, input), swap |-> Read(data, swap - 1),
                     settle |-> Read(data, settle - 1), take |-> Read(data, take - 1)],
        ends |-> [input |-> Len(data) - input, swap |-> settle - 1 - swap],
        hookData |-> [k \in 1..At(Read(data, hook) + abiWordSize - 1) |->
                         IF hook + k < swap + At(Read(data, swap - 1))
                         THEN Read(data, hook + k) ELSE -1]]

(* Every length agrees with what is there, and the only command is a swap. *)
WellFormed(d) ==
    /\ d.command = <<1, CommandV4Swap, 1>>
    /\ d.actions = <<3, SwapActions, 3>>
    /\ d.lengths.input = d.ends.input * abiWordSize
    /\ d.lengths.swap = d.ends.swap * abiWordSize
    /\ d.lengths.settle = 2 * abiWordSize
    /\ d.lengths.take = 2 * abiWordSize
    /\ \A k \in DOMAIN d.hookData : d.hookData[k] # -1
=============================================================================
