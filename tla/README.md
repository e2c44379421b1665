# A verification development of rbh-trade-sdk

TLA+ modules, TLC configurations and TLAPS proofs about the Go SDK in `src/`.
The SDK is a library: it reads launchpad contracts on Robinhood Chain, prices
trades locally, signs transactions and sends them. Its hard parts are a few:
goroutines that share a channel, a context or a counter; answers that arrive
late, twice or never; reads of a chain that moves; and integer arithmetic whose
rounding decides who pays.

## 1. The system

| part | code | state | operations | talks to |
|---|---|---|---|---|
| contract read batches | `adapters/pons/bind.go` 161–271 | tasks, unbuffered `jobs`, one-slot `errs`, a derived context, a wait group | `parallelCalls`, `parallelCallsLimit`, the `call*Task` closures | go-ethereum's `bind`, and every composite read |
| composite reads of one block | `bind.go` 129–158, `client.go`, `quote.go` | call options, variables written through pointers | `QuoteBuy`, `QuoteSell`, `CurveState`, `TokenMetadata`, `VestState`, `OpenLaunchConfigs` | read batches, an RPC node |
| nonce sequence | `rbhtrade/hotpath.go` 144–180 | one `atomic.Uint64` | `Reserve`, `Peek`, `AdvanceTo` | the caller's goroutines |
| transaction broadcast | `rbhtrade/broadcast.go` | a buffered channel, a derived context | `Broadcast`, `BroadcastRaw`, two classifiers of error texts | RPC relays |
| bonding curve pricing | `pons/quote.go`, `pons/launch_predict.go` | `CurveState` values | `PredictLaunch`, `QuoteBuyFromState`, `ApplyBuyToState`, `QuoteSellFromState`, `MinTokensOutForBuy` | nothing: pure |
| Uniswap V4 local quote | `rbhtrade/v4_quote.go` | a history of liquidity changes; the locals of the swap loop | `QuoteV4ExactInput` | the Uniswap SDK's tick list and swap step |
| o1 and Bags hook fees | `rbhtrade/o1_quote.go`, `bags_v4_quote.go` | a fee schedule over time | `O1HookFeeBPS`, the hook quotes | the V4 quote |
| client start-up | `rbhtrade/client.go`, `pons/client.go` | one error slot per deployment | `NewClientChecked`, `Dial` | an RPC node |
| launch configurations | `pons/client.go` 168–260 | one slot per configuration | `OpenLaunchConfigs` | read batches with a limit |
| governance snapshots | `pons/governance.go`, `launch_predict.go` | none of its own: the caller's cache | `IsLaunchEconomicsEvent`, the economics checks of a launch | the caller |
| signing and the hot path | `rbhtrade/hotpath.go` 1–143 | a cloned key | `SignDynamicFee`, `NewSignedTransaction`, and the loop of a caller | nonces, broadcast |
| swaps through the Universal Router | `slippage.go`, `approval.go`, `v4.go`, `fast_encode.go` | none: a call that is mined later | `MinOutputWithSlippage`, `BuildUniversalRouterApprovals`, `BuildV4ExactInputSingle` | hook quotes, Permit2, the router |
| transactions of the Pons client | `pons/client.go`, `calldata.go`, `util.go` | the `TransactOpts` of the caller | eighteen wrappers, `validateAuth`, the packers, the value helpers | the contracts |
| contract errors | `pons/errors.go` | a table made before `main`, constant since | `indexErrors`, `ParseContractError`, `MustParseContractError` | the transactions |
| launch and read calldata | `rbhtrade/launch.go`, `read.go`, `types.go` | none | validation, encoding, decoding of one call | go-ethereum |
| ABIs, bytecode, addresses | `abi.go` of both packages, `pons/verified_creation_code.go`, `pons/constants.go`, `rbhtrade/addresses.go` | constants | none | all of the above |

How they interact: a composite read fixes a block and hands its fields to a
batch; a batch runs reads on workers and returns one error; quotes are computed
from the fields after the batch has returned, so the batch's return value
decides whether they may be read. A trading program reserves a nonce, signs,
broadcasts, and moves the nonce sequence forward when a node reports a later
pending nonce; the SDK offers the steps and leaves the loop to its caller. A swap
takes three values that are made at different times to one place: the minimum from a
quote, an allowance with an expiry, and calldata with a deadline.

What must be right, part by part:

- **batches**: a nil error means every output was written; the error returned is
  the cause and not the echo of its own cancellation; nothing is written after
  the return; the call ends under failure and cancellation, and for every limit.
- **composite reads**: the fields of a pinned answer belong to one block, the
  one asked for, or one not older than the question.
- **nonces**: none is handed out twice, none falls through, a forward move takes
  effect, and the retry loop ends.
- **broadcast**: a hash is returned only for a transaction that some node has;
  "rejected", after which a caller may reuse the nonce, is returned only when no
  node has it; one acceptance suffices; no goroutine is left behind.
- **curve**: the books balance in any order of calls; no rounding pays a trader;
  a sold-out curve is funded; a quote stays within its budget; the minimum output
  derived from a quote passes the contract's check.
- **V4 quote**: the liquidity in use is that of the ranges around the tick;
  malformed histories are refused; the iteration bound refuses no honest swap.
- **hot path**: no two living transactions of an account share a nonce, and none is
  left to nobody, whatever the broadcasts end in.
- **router swaps**: a mined trade takes what was asked and gives what was promised; one
  that reverts has a cause outside the SDK.
- **hook fees**: a quote through a hook holds at every later timestamp, and a
  valid fee never takes a trade whole.
- **start-up**: the verdict covers every check, a failed start leaves no connection
  open, and the start ends once its context is done.
- **transactions**: a transaction carries the value its method takes, with a
  `TransactOpts` that is used again and again.
- **contract errors**: an error is told only of data that is its encoding, byte for byte,
  and what a contract of Pons raises is told with its values. Four bytes do not name a
  contract: data of a foreign contract that is the encoding of an error of the table is
  told as that error, and nothing in the data could say otherwise.
- **launch configurations**: a pinned list is the state of one block; an unpinned one
  misses nothing that was enabled throughout.
- **governance snapshots**: the lists of events and calls void every snapshot that
  governance overtakes, as far as the contracts' setters are known (section 2); a launch
  that commits to economics never gets others.

The hazards behind these, each at its line, are the `hazards` of `PROJECT.json`.

## 2. Modules

| module | models | kind |
|---|---|---|
| `CallBatch` | what callers rely on from a batch | abstract specification |
| `ParallelCalls` | scheduler, workers, error slot, contexts | implements `CallBatch` |
| `SnapshotRead` | `snapshotCallOpts` in front of `ParallelCalls`, over a growing chain | composition |
| `LaunchConfigs` | the enumeration of launch configurations, on `SnapshotRead` | composition |
| `PonsReads` | either of the two, as the client makes them | composition |
| `LaunchConfigs_proofs` | theorems of the four modules above | proofs |
| `NonceCounter` | a counter whose operations are instantaneous | abstract specification |
| `NonceSequence` | `Reserve`, `AdvanceTo` with load and compare-and-swap apart | implements `NonceCounter` |
| `NonceSequence_proofs` | | proofs |
| `Submission` | what a program may believe of one broadcast | abstract specification |
| `Broadcast` | caller, goroutines, channel, relays, gossip | implements `Submission` |
| `HotPath` | reserve, sign, broadcast, reconcile, over a chain with late requests | composition of `NonceCounter` and `Submission` |
| `HotPath_proofs` | theorems of `Broadcast` and `HotPath` | proofs |
| `CurveMath` | the arithmetic of `quote.go` as operators | pure |
| `Curve` | launch, quote, apply | state machine |
| `Curve_proofs` | | proofs |
| `V4Quote` | netting of the history and the swap loop | state machine |
| `V4Quote_proofs` | | proofs |
| `HookFees` | the o1 and Bags fees around a quote, over time | state machine |
| `SwapCalldata` | the hand-written encoder of a swap, and an external ABI decoder | pure |
| `RouterTrade` | from a hook quote to a mined swap | composition of `HookFees` and `SwapCalldata` |
| `RouterTrade_proofs` | theorems of the three modules above | proofs |
| `ClientInit` | `Dial` and `NewClientChecked` | state machine |
| `PonsCall` | the transactions of a client that `ClientInit` started | composition |
| `ContractErrors` | what a caller is told of the data of a revert | state machine |
| `PonsClient` | one caller's start, transactions and reverts | composition of `PonsCall` and `ContractErrors` |
| `PonsCall_proofs` | theorems of the four modules above | proofs |
| `LaunchSnapshot` | a governance snapshot, its lists, and a launch built from it | state machine |
| `LaunchSnapshot_proofs` | | proofs |
| `MCParallelCalls`, `MCHotPath`, `MCV4Quote`, `MCPonsClient` | the finite instances that a `.cfg` cannot write | TLC |

Operators introduced by "Wrong:" in a comment are plausible mistakes. No
specification uses them; the `mutants` of `PROJECT.json` name which property
each of them breaks when it takes the place of the definition that follows it.

### ParallelCalls

`pc`, `next` and `result` are the calling goroutine; `worker[w]` and `job[w]`
are its workers; `errCh` is the one-slot channel; `ctx` is the derived context:
`live`, `canceled` by the call, or `parent` if the caller's context was done
first (a Go context keeps its first cause). A send on the unbuffered channel and
the receive that meets it are one step, `Dispatch`. A `select` with several ready
cases is a choice among the actions that are enabled. A worker that has an error
takes two steps, `Report` and `Cancel`, because others may move between
`errs <- err` and `cancel()`. A task is one contract read: `ok` stands for the
write through its output pointer, `failed` for an error of its own, `aborted` for
the error of a context that is done. `len(tasks)` is at most `MaxTasks`; the
limit is any of `LimitArgs` and `Clamp` is the code's.

### SnapshotRead

It EXTENDS `ParallelCalls` and puts the choice of a block in front: `wanted` is the
block the caller named, `tag` the block of the call options, `head` the newest
block, `got[t]` the block a field was read from. `ReadUnpinned` is the code's path
for pending state and for backends that cannot report a block number. The workers'
steps are those of `ParallelCalls`; a read that succeeds also notes its block
(`ReadField`). The five operations read alike and differ in what they do with the
fields: `reply` is an error, `ErrCurveClosed`, a quote or the fields themselves. Which
operation was called is settled only then, which makes the state space that of one.
Pending state, for which go-ethereum ignores the number, is taken for the newest block.

### LaunchConfigs

It EXTENDS `SnapshotRead`: `Count` is the read of `launchConfigCount`, which settles
the number of tasks; task `t` reads configuration `t - 1`, and its slot is known by the
block it was read from (`got[t]`); `OpenLaunchConfigs` filters. `chain[b]` says what
governance had decided by block `b`: it adds a configuration or toggles one per block,
and removes none, for which the ABI has no call. What blocks hold is settled
at the start and becomes visible as the chain grows, which changes nothing for the
reader and keeps the state small.

### PonsReads

One variable, `operation`, says which of the two kinds of reads was asked for; the state
and the steps are those of `SnapshotRead` or of `LaunchConfigs`. A composite read
calls `parallelCalls`, which has no limit below the number of its tasks
(`WithoutLimit`), and does not look at configurations.

### NonceSequence

One atomic step for `Add`, and three for `AdvanceTo`: the call, the load with
the loop condition, and the compare-and-swap, which succeeds or sends the
goroutine back to the load. `held`, `skipped`, `start`, `floor` and `wrapped` are
history: what was given to whom, what was jumped over, what the counter began
with, and the largest target of a completed `AdvanceTo`.

### Broadcast

`rpc[r]` is the goroutine of relay `r`, `results` the buffered channel, `seen`
and `allRejected` the receiving loop, `ctx` the derived context. The relay side
is external: `request`, `response` and the mempool `pool`. Answers are classes:
the expected hash, another hash, "already known", a definitive rejection of the
list in the code, any other error. A relay may never answer, its answer may be
lost after it took the transaction, it may have had the transaction before, may
get it by gossip at any time, and may handle a request whose client has left.
What the model takes for granted of relays, and the code with it: a relay says
"already known" only of a transaction it has, and rejects for one of the
listed reasons only a transaction it does not have.

### Submission and Broadcast

`Submission` is three variables: the `verdict`, whether a node has the transaction
(`inPool`) and whether a request may still reach one (`underway`). `Broadcast` implements
it with `verdict` as `result`, `inPool` as a mempool that is not empty, and `underway` as a
goroutine or a request that has not ended. Gossip keeps a transaction in some mempool
and is a stutter; the spawning of the goroutines is `Submit`; a request that its relay
handles or that is lost is `Arrives`.

### HotPath

It EXTENDS `NonceCounter`, whose `Take`, `Ask` and `Raise` are `Reserve`, the call of
`AdvanceTo` and its effect, and follows `Submission` for each broadcast: `underway[c]` is
that of the broadcast of `c`, and `stray` holds the requests that outlive theirs.
`stage[c]` is where a goroutine is: nothing, a nonce, signed bytes, a broadcast.
A failed `SignDynamicFee` leaves the nonce with its owner, and `SignedTransaction` is a
copy, so a broadcast that is repeated sends the same bytes. Nonces and retries are left to
the caller (note 6 of the README's security notes), so the caller is modelled from what
the verdicts mean: after an unknown outcome it sends the same bytes, after a rejection it
signs anew. One caution came out of it: a rejection speaks of its own broadcast only, so a
caller with an earlier broadcast of the same bytes that ended unknown must not reuse
the nonce (`doubt`). The chain is external: it mines in the order of nonces, may
replace a waiting transaction of the same nonce, and reports pending nonces of any
earlier moment, at `NewNonceSequence` too.

### CurveMath and Curve

A Go function that returns a value or an error is two operators, `F` and `FOk`.
`Curve` starts from `PredictLaunch`; a quote is kept in `offer` and may be applied
at any time, again, or after other buys, since `ApplyBuyToState` takes a state
and a quote and checks no tie between them. `fresh` and `exact` are history:
properties about prices are stated of curves on which every applied quote was
made from the state it was applied to; the books must balance regardless.

### V4Quote

Prices are positions on a line, three to a tick: on the tick, and two above it.
That is what the loop distinguishes: equal to the target, moved short of it, or
not moved. The swap step is any outcome that the SDK's contract allows for the
remaining input, so the results do not depend on amounts or rounding. The loop's
guards, the crossing of a tick, the iteration count and the cuts of the output
hook are the code's, in the code's order.

### HookFees

`schedule` is the pool's fee schedule, `now` the newest timestamp, `offer` a quote that was
made and is kept while time runs. The local quote inside, `QuoteV4ExactInput`, is the
function that `V4Quote` models step by step; here it is abstracted to what a pool does: any
function that never gives less for more, with a limit above which the pool has too little
liquidity. The SDK's loop is not monotone where it refuses dust that an LP fee leaves
nothing of (finding 2): less and more may be accepted. Such a refusal gives no quote, so it
is one of the refusals of `RefuseState`, and the evaluation at a later time is the pool's,
which refuses no dust. That quotes through a hook hold later rests on this abstraction. What
is the code's is where the fee is taken (before the swap of a buy, after that of a sell),
how it is rounded, and what the fee is at a timestamp, the cap at the end of `O1HookFeeBPS`
included, which no valid schedule reaches. A refused quote is 0, which is no quote the code
can return.

### SwapCalldata and RouterTrade

`SwapCalldata` writes the buffer of `fast_encode.go` word by word at the offsets the code
computes, by `copy` into a slice of the length the code computes: what does not fit is
lost, as in the code. `Decode` is the router's side, an ABI decoder that follows offsets
and believes no position. `RouterTrade` EXTENDS `HookFees`: the caller takes an
offer, makes a request with a minimum and a deadline, has the two approvals mined in any
order, and the swap is mined in that or a later block by a pool that may have moved. The
direction is derived from the currencies, the value from the input currency.
`allowance` and `permit` are what the token and Permit2 hold; `grant` is history: what
the last approvals were for. Range checks of amounts and pool keys refuse requests that
this caller does not make.

### ClientInit

`Dial` of `pons` and then `NewClientChecked` of `rbhtrade` over the same connection, as
a program does that wants both. `conn` is the connection, `check[d]` the goroutine of
contract `d`, `errs[d]` its slot, `running` the counter of the wait group. The code has
32 contracts; the number is a constant, and their order is that of the address book,
because the first slot with an error is the one that is returned.

### PonsCall

It EXTENDS `ClientInit` and goes on where that ends: once the verdict is a client, the
caller transacts. `Wrappers` has for each method where its call goes and whether it is
payable, `Packs` what the packer asks of each argument, in the order of the code. The
caller keeps one `TransactOpts` (`authValue`) and computes the value of a launch or a buy
with the helpers of `util.go`; for other methods it leaves what was there, and the check of
non-payable methods must catch it.

### ContractErrors and PonsClient

Each state is one revert: `data` is what the node reports, `raised` the error of a Pons
contract behind it, or none, `told` what `ParseContractError` made of it. Data is a selector,
words, and bytes that fill no word. A contract of Pons encodes what it raises; any other
contract on the way, a token or a router, may return anything, the selector of an
error of the table included (`Relay`). Within the table a selector stands for a name,
since no two errors of `errorsABIJSON` share one (`calldata_test.go:203`); so the branch for
ambiguous selectors is never taken and `indexErrors` gives one table in every order. The
decoders of go-ethereum are external and modelled by what they ignore: words and bytes
behind the values, the upper bytes of an address, the padding of a text, and a small
integer that is too large is an error. Against these the code decodes, encodes again and
compares, the three `validateCanonical` checks. Where a text begins elsewhere than it should,
go-ethereum may or may not be able to read it, and both are allowed. In `PonsClient` reverts
happen to a client that has started and has no transaction under way, and the caller looks
at the error before it goes on.

### LaunchSnapshot

The SDK keeps no snapshot; it tells the one who does when to drop it. So the owner
is modelled from what the comments of `governance.go` ask of him. The contracts are
external. For the factory the calls are the governance functions of its ABI in `abi.go`.
`HookABI` declares none of the hook's setters, so `HookGovernance` writes them down by
assumption, as `governance.go` names them: that `hookLaunchEconomicsCalls` has all of them
is not evidence that the hook has no others, and of the hook only the events are checked
against anything else. The pairing of functions, events and pieces is an assumption
too, since the contracts are not in the repository; it follows the names. A
value is the number of its changes, so two values are equal only if nothing came
between. `pending` are calls not mined yet, `events` those mined and not delivered. A
call may be mined unseen, and an event may be late by any number of calls. The
caller's expected economics come from `PreviewLaunchEconomics` on the chain, the
launch from the snapshot, and the execution from the chain again: three times.

## 3. Runs

Each run lists its properties in `PROJECT.json`; every property has a mutated
definition under which TLC finds it violated in the same run.

| run | bounds | distinct states | what it shows |
|---|---|---|---|
| `parallel-calls` | 0 to 3 tasks, limits -1, 0, 1, 2, 3, 7, a context that is absent, live or done | 17151 | no incomplete nil, no echo as the error, refinement of `CallBatch`, termination |
| `pons-reads` | 3 fields without a limit, or up to 2 configurations on 1 to 3 workers; a chain of 3 blocks with every history; a caller who names a block or none | 2051998 | one block per pinned answer, no answer older than the question, a pinned list is one block's, an unpinned one of the time of the call |
| `nonce-sequence` | 3 goroutines, a counter of 3 values | 106934 | no nonce twice or lost, refinement of `NonceCounter`, `AdvanceTo` ends |
| `broadcast` | 3 relays | 572095 | what each verdict proves, refinement of `Submission`, one acceptance suffices, goroutines end |
| `hot-path` | 2 goroutines, 3 nonces, 2 versions of each, symmetric goroutines | 2561957 | one living transaction per nonce, no nonce left to nobody |
| `curve` | supplies 1 and 17, phantom 3, thresholds 0, 4, 9, a basis of 40 | 477728 | books, product, funding, budget, minimum output, no round trip profit |
| `v4-quote` | ticks -6 to 6, histories of up to two changes | 2683838 | liquidity follows the tick, the iteration bound never bites |
| `router-trade` | 10 basis points make a whole, windows up to 3 s, 5 timestamps, all monotone pools of 2 inputs and outputs up to 2, slippages 0, 3 of 10 and one that is refused, hook data of 0 and 33 bytes, one deadline, an allowance that may run out | 562078 | quotes hold later, no fee takes a trade whole, trades stay within limits, no needless revert |
| `pons-client` | 5 contracts, 2 launch fees, amounts nil, 0, 1, all 18 wrappers; 6 errors of the table, one for each kind of signature, and Solidity's two; all data of up to 4 words of two bytes of two values, and a byte; a limit of 12 bytes | 418440 | the verdict covers all checks, connections have an owner, values are due, what is told is what the data says, what Pons raised is told, the start ends |
| `launch-snapshot` | 2 calls out of the 21 of governance and 4 others | 170270 | the lists are complete, committed launches get their economics |
| `broadcast-every-relay` | 2 relays | violation | finding 1 |
| `v4-dust` | as `v4-quote` | violation | finding 2 |

What the proofs cover for every value of the constants is not run again where it costs
another property its place: the type invariants of the pool, the counter, the broadcast
and the curve, `NoLateWrite`, `AdvanceTakesEffect` and `FailureHeardEveryone` are theorems
(section 5); so is the type invariant of the hot path, as a part of its `HotInv`.
`NoLateWrite` and `AdvanceTakesEffect` are besides what the refinements of
`parallel-calls` and `nonce-sequence` say.

Why the bounds are enough:

- **Three tasks** give the three roles that meet: a task that fails, a sibling
  that is running, and one not yet offered; with a limit of two, the scheduler is
  blocked on its send meanwhile. Limits below one and above the number of
  tasks reach both clamps. The proofs remove the bound.
- **Two blocks of growth** let a block appear between the choice of the block
  and a read, and again between two reads.
- **Three goroutines** let an `AdvanceTo` lose its swap to a reservation and to
  another `AdvanceTo`. The width of the counter is `Modulus`, 2^64 in the
  code; all starts are tried, so the last value and the wrap are reached. After
  the wrap the model reserves no more: that would need 2^64 transactions of one
  account, and the properties say `wrapped \/ ...`. The proofs hold for any
  width.
- **Three relays** give one that accepts, one that rejects and one that hangs,
  and gossip between any two of them. The proofs hold for any number.
- **Small curves**: 256-bit arithmetic is scaled to `MaxUint = 3000` and 10000
  basis points to 40, so that every overflow check and every rounding is met
  by small numbers; a supply of 1 and a threshold of 0 are launches the code
  refuses, so `Init` leaves them out. The run has `CHECK_DEADLOCK FALSE`: a curve
  that is sold out, or on which all amounts asked for are refused, has nothing
  more to do, and so has a caller with no accepted quote.
- **Thirteen ticks, words of two**: a swap crosses several words, words without
  ticks and ticks on word borders; histories include a range removed completely,
  ranges that adjoin, nest, overlap or cancel at a tick, a removal without a
  deposit, and net liquidity above the signed width. `Slack` is 0 where the code grants 8:
  the bound is shown to suffice without the margin. The pool's price lies
  beyond neither of the two price limits, as for any pool that can trade in both
  directions (`PoolsAssumption`). The proofs keep that and drop the other bounds.
- **Two configurations on three blocks**: one more than `MaxConfigs` may appear, so the
  limit is met; each block may add or toggle, so a configuration can be enabled only
  between two reads, or be on, off and on again.
- **Scaled basis points**: a fee of 9 in 10 on amounts from 1 to 4 rounds every way
  there is; timestamps lie before the launch, at it, in the window and at its end; a
  starting fee at the cap is accepted and one above it refused. The proofs have no
  bound.
- **One swap at a time**: the offer, the approvals and the order are separate, so
  blocks, approvals and the loss of liquidity come between any two of them. Hook data
  of 33 bytes needs two words and padding; with none the tail is empty. The largest
  amount is that of Permit2's unlimited allowance, which a trade does not reduce.
  `MaxUint256` stands for 2^256 - 1; all that is asked of it is that no amount exceeds
  it. The proofs take any sets of slippages, times and lengths.
- **Two goroutines with two versions** let a rejected transaction be signed again
  while a request of its predecessor, or of the other goroutine, is late; three nonces
  let one wait behind another and a stale pending nonce lie below both. The proofs
  take any numbers. The run has `CHECK_DEADLOCK FALSE`: the account's nonces are
  used up at some point, which the bound on nonces makes early.
- **Words of two bytes**: an address or a small integer is a byte, so there is an upper
  byte to ignore or to refuse, and a text can end inside a word or at its end. Four
  words hold the longest error of the table and one word after it, a text of up to two words, and
  more than the limit of bytes admits. The proof has words of any size and data of any length.
- **Five contracts** can fail in any combination and order; the proofs take any number.
- **Two calls** allow one that is seen and one that is not, and an event that is late
  while another call is mined. The proof takes any number.

## 4. Fairness

- `ParallelCalls`: goroutines that can run do run (`WF` of the scheduler and of
  each worker's steps), which is the Go scheduler's promise. A read is assumed to
  return only once its context is done, because the RPC client selects on it; a
  read under a live context may hang. So `StopsOnFailure` needs nothing of the
  node, and `CompletesIfReadsReturn` says in its own premise that reads return.
- `NonceSequence`: a goroutine inside `AdvanceTo` is eventually scheduled. Nobody
  has to call anything. That the loop ends rests on the counter: a lost swap
  means that it rose.
- `Broadcast`: the caller runs, a goroutine that can post posts, a call whose
  context is done returns. Nothing is assumed of relays or connections.
- `ClientInit`: a call to the node returns once the caller's context is done, because the
  RPC client selects on it; the verdict is taken when the wait group is at zero.
  Under a live context every call may hang: `StartEnds` starts from a context that is
  done, which is all the code can promise, since it has no timeout of its own.
- `PonsCall` and `PonsClient` add nothing: nobody has to transact.
- `Curve`, `V4Quote`, `HookFees`, `RouterTrade`, `HotPath`, `ContractErrors` and
  `LaunchSnapshot` have no liveness to check: their steps are the caller's or the chain's
  to take. What the SDK contributes to progress on the hot path is that calls end, checked
  in `nonce-sequence` and `broadcast`, and that no nonce is lost, which is `NoNonceLost`.
  `PonsReads` ends as its batch does, which `parallel-calls` checks.

## 5. Proofs

All theorems are checked by tlapm down to their leaves, from the assumptions the modules
name: `MaxTasks` is a natural number and limits are integers (`ParallelAssumption`), the
modulus is at least two (`NonceAssumption`), the relays are a finite non-empty set
(`BroadcastAssumption`), the chain has a block (`SnapshotAssumption`), no more
configurations are allowed than there are tasks (`ConfigsAssumption`; the batch of the code
has as many tasks as it needs), the fee caps are below the whole and amounts and times are
natural numbers (`HookAssumption`), the number of contracts is a natural number
(`DeploymentAssumption`), fees and amounts are natural numbers (`CallAssumption`), the
errors of the table have the types that occur in it and names of their own, bytes and words
have positive sizes and a word can hold its own (`ErrorsAssumption`), the modulus is
positive (`HotPathAssumption`), a whole is at least two basis points and fits the integers
(`CurveMathAssumption`), slippages and times are natural numbers and amounts fit the word
they are written to (`TradeAssumption`: the code takes at most 128 bits), ticks, words and
amounts are positive (`V4Assumption`), and pools have the types of `V4PoolState`, a positive
tick spacing and a price within the limits (`PoolsAssumption`).

**LaunchConfigs_proofs, the pool.** `NilMeansAllRead` is not inductive: that no task is
missing when the verdict is nil depends on where its error is. `PoolInv` adds
`Holding` (a running task is held by exactly one worker, a worker that reports
holds a task that ended badly), `Frontier` (tasks before `next` have been started,
the rest are idle), `Errors` (a task that ended badly has its error in the slot
or with the worker about to put it there; the call cancels the context only
once the slot holds a real failure) and `Phases` (what the program counter says
of workers, context and result). From it: `TypeCorrect`, `NilIsComplete`,
`ErrorIsRootCause`, `NothingAfterReturn`, and `BatchImplemented`, which maps every
step to a step of `CallBatch` or a stutter.

**NonceSequence_proofs.** `NonceInv` adds to the two invariants `CasRises` (a swap in
progress loaded a value below its target) and `Behind` (until the wrap everything
handed out or skipped lies between the start and the counter, and the counter
has passed every completed target). From it: `TypeCorrect`, `NoncesDistinct`,
`NoNonceLost`, `AdvanceEffective` and `CounterImplemented`: the instant of an
`AdvanceTo` is its successful swap, or the load that finds nothing to do.

**HotPath_proofs, the broadcast.** `BroadcastInv` adds `Honest` (an answer other than a transport
failure is what the relay replied, and a reply that proves an acceptance comes
from a relay that has the transaction), `Traceable` (as long as anybody has the
transaction, somebody who never rejected it has it: gossip cannot move it to
relays that rejected it unless it started at one that did not) and `Tally` (what
the caller's loop knows of the answers it took). From it: `TypeCorrect`,
`AcceptedSound`, `RejectedSound`, `FailureSound`. For `SubmissionImplemented` one fact
more is needed, `Unsent` (a goroutine that has not made its call has no request), and one
lemma: when the caller concludes a rejection no request is left (`RejectionIsFinal`).

**HotPath_proofs, the account.** `HotInv` adds four parts. `NoncesApart`: what two
goroutines reserved differs. `OneAbroad`: a transaction that others may still see has its
nonce to itself, and where its owner holds the nonce still, it is the one he signed.
`NoStrays`: a goroutine whose signed bytes are in no doubt has left no request of them
behind, so a rejection frees the nonce; this is where `doubt` is needed. `NotAhead`: a nonce
that a node reported is not beyond both the sequence and the chain, and what is mined lies
below the chain's height. From it: `NoncesNotContested`, `NoncesFilled`.

**Curve_proofs.** Arithmetic first: a quotient rounded up covers its dividend
(`CeilCovers`), three fees rounded down leave at least their share (`FeesLeave`), a
budget grossed up pays for what it must (`GrossedPays`), buying keeps the product
whichever side is rounded (`OutKeepsProduct`, `InKeepsProduct`), and a sale right after
a buy returns no more than came in (`NoProfitBack`). `QuoteSound` puts them together for
one call of `QuoteBuyFromState`. `CurveInv` says that the launch was accepted, the books
balance, the reserved tokens are those of the formula, the offer is one that a quote can
return, and the product holds. A quote may be applied when the state has moved on, or
twice, since `ApplyBuyToState` checks no tie between them, and the invariant survives
it. It makes every property of the run a theorem: `TypeCorrect`, `BooksBalanced`,
`ProductKept`, `SoldOutFunded`, `QuotesWithinBudget`, `NoProfit`, `MinTokensFit`, for
any width of the integers.

**LaunchConfigs_proofs, reads.** The batch is `PoolInv`, which every step of
`SnapshotRead` keeps: it is a step of the pool or leaves the pool alone. `Settled` adds
what is true of a field that was read: its block is the pinned one, or lies between the
head at the call and the head now. That no field of an answer is unread is
`NilMeansAllRead` again. From it: `PinnedIsOneBlock`, `NeverStale`.

**LaunchConfigs_proofs, the enumeration.** The number of tasks is not a constant here
but the answer of a first read, so the step `Count`, which no step of the pool
resembles, is shown to keep `PoolInv` on its own (nothing has been started).
`Enumerated`, the part of `EnumerationInv` about the list, ties the number of tasks to a
block between the question and the answer; configurations are never removed, so later
blocks have them too. From it: `PinnedListIsExact`, `ListOfThisTime`. The theorems are
about `ReadSpec` and `EnumerationSpec`; a behaviour of `PonsSpec` is one of either, by
its `operation`.

**V4Quote_proofs.** The sums over the history are folds of the community modules, of
which the provers know only that a sum solves its recursive equation. So the proofs
begin with induction over finite sets, done as a search for a smallest counterexample:
strict subsets of a finite set are well founded, so a set of bad subsets has a member
without a smaller one (`SmallestSubset`, `SubsetInduction`). From it: the equation has one
solution (`SolutionsAgree`, `SolutionExists`), which is the sum (`SumSolves`); a
sum splits over disjoint parts (`SumUnion`, `SumOfParts`); sums of natural numbers are natural
numbers. Then the history: what the code adds up by range is what the history
adds up by entry (`ActiveIsOfHistory`), the active liquidity of two neighbouring ticks
differs by the net amount between them (`ActiveAcross`), and by nothing where no range
begins or ends (`NetElsewhere`, `ActiveBetween`), however many ticks lie between. `NextTickDown` and
`NextTickUp` say what the tick list finds: no initialized tick is passed over, and a step without
one ends at the border of a word. `IInv` is `LoopInv` (the liquidity is `Active(tick)`,
the tick fits the price, which moves away from the pool's) and `Counted`: an iteration
that goes on has passed an initialized tick or a word, so their number bounds the iterations
(`IterationsLeft`). From it: `TypeCorrect`, `LiquidityFollowsTick` and
`IterationBoundSuffices`, for any spacing, width of words, history and answers of
the swap step, with no slack granted.

**RouterTrade_proofs, the fees.** Arithmetic first: division keeps the order (`DivMono`), the
surcharge and hence the fee never rises with time (`SurchargeFalls`, `FeeFalls`), a fee
below the whole leaves at least one (`FeeLeavesTrade`) and a lower fee leaves at least
as much (`LowerFeeLeavesMore`). `HookInv` says that an offer is what the code quoted at
some timestamp not later than now. From it: `QuotesHold`, `FeesLeaveTrades`, for every
schedule and every monotone pool.

**RouterTrade_proofs, the calldata.** `CalldataRoundTrip`: for any request and any length of
hook data, what the decoder reads by following offsets is what was asked for, and
every length agrees with what follows it. `PutWords` says what a buffer holds
after a write that fits; `SwapWords`, `PlanWords` and `DataWords` apply it to the three
nested buffers and so place every word of `CalldataWords`. Only the number of
words of hook data is unknown there, and every offset is linear in it.

**RouterTrade_proofs, the trade.** Every behaviour of `TradeSpec` is one of `HookFees`
(`TradesKeepQuotes`), so quotes hold while they are traded. `TradeWithinLimits` and
`NoNeedlessRevert` speak of the moment after the transaction, and need two facts of the one
before: the order is the request that was made from the quote still kept (`OrderInv`),
and as soon as an approval is mined, what it grants is at least what the caller still
counts on, in either order of the two and after any trades (`FundInv`). From them and the
round trip: `TradesWithinLimits`, `RevertsHaveCauses`.

**PonsCall_proofs.** `InitInv` adds `Counted`: the wait group's counter is the number of
checks that are still reading, so zero means that all have ended. From it:
`VerdictSound`, `ConnectionOwned`, for `ClientInit` and, since every behaviour of
`CallSpec` is one of it (`StartsAsClientInit`), for the whole client. `ValueExact` rests on
`ValueInv`: the `TransactOpts` may hold any value an earlier transaction left there, and what
is sent was either just computed by a helper for a payable method or has passed the check of
a method that takes none.

**PonsCall_proofs, the errors.** `DecodingExact` is two lemmas. `ParsedSound`: of any data an
error is told only if it has values of its types that encode to that data, for a text
(`ReasonSound`), where the number of words follows from the length and the padding is zero,
and for an error of the table (`CustomSound`), where an address is the word only if its upper
bytes are zero. `ParsedComplete`: what is encoded is decoded to the same values
(`ReasonComplete`, `CustomComplete`), so a canonical check refuses nothing that Pons raises.
`RevertInv` says that data is data and that what was raised is encoded in it. `ClientIsBoth`
brings these theorems and those about transactions to `PonsClient`.

**LaunchSnapshot_proofs.** `ListsComplete` says that every governance call, those of the
factory's ABI and those that the hook is assumed to have, is in the lists, by its selector
and by its event. `SnapshotInv` then needs two facts: a snapshot that differs from what
governance decided has a telling event still on its way (`Overtaken`), and a launch that was
sent commits to what its owner computed (`Committed`). From it: `SnapshotCurrent`,
`LaunchesCommitted`.

Every safety property of the passing runs is a theorem. Only model-checked: liveness,
since the prover does not treat fairness and ENABLED (`StopsOnFailure` and
`CompletesIfReadsReturn` of `parallel-calls`, `AdvanceReturns` of `nonce-sequence`,
`AcceptanceReturns` and `GoroutinesEnd` of `broadcast`, `StartEnds` of `pons-client`); and
the two findings, which are counterexamples.

## 6. Findings

1. `broadcast.go:43` says the transaction is sent "to every warm relay". The first
   acceptance cancels the context all sends share, so a goroutine that has not
   been scheduled yet makes its call with a context that is already done and its
   relay is never asked. `EveryRelayReached` fails with two relays.
2. `v4_quote.go:135` says the loop follows Uniswap's. A step that spends the
   remainder without moving the price (dust of which the LP fee leaves nothing)
   returns `ErrInvalidV4State` at line 211 and drops the output computed so far;
   Uniswap's loop ends normally. `FollowsUniswapLoop` fails after a swap has reached
   a tick with dust left.

Two more behaviours of the same loop are the code's choice and no divergence
from what it says: a swap that runs into a stretch without liquidity is refused
where Uniswap would jump across it, and a swap stopped by the price limit is quoted for the
part that was filled.

## 7. Assumptions and limits

Receivers are not nil (the methods return zero values then and change nothing). A
block read by number keeps its content: reorganisations are left out. What a task
reads does not depend on the other tasks. Cryptography, ABI encoding and error
texts are data. The bonding curve is modelled as the SDK computes it; whether the
contracts compute the same is out of this development's reach.

Arguments of transactions are classes: nil or refused, nothing, an amount. The words of a
custom error are its values; which text go-ethereum reads from an offset it should not have is
left open, and the reason it gives for a panic stands for the panic's code. The pools behind
the hook fees never give less for more. What the hook's governance can call is assumed.
That nonces are distinct holds until the 64 bit counter wraps, which no account lives to see.

Not modelled:

- **launch and read calldata of `rbhtrade`** (`launch.go`, `read.go`, `types.go`): each
  function checks ranges of its arguments and packs one call, or unpacks one answer; no
  state, no order, no second actor. A model would list the checks again and its
  properties would hold by construction. The unit tests of the repository cover them.
- **ABIs, bytecode, addresses**: constant data.
- **of `launch_predict.go`**: CREATE2 addresses and the digest of the economics are
  data; the check of the code hash compares two constants.
- **of `quote.go`**: `GraduationProgress`, a ratio for display.
- **of `governance.go`**: `TokenLaunchedPairToken` decodes one log.

## 8. Plan

Done: the batch and the reads on it, launch configurations, nonces, broadcast, the hot
path over both, the curve, the V4 quote, hook fees and the router swap, start-up and
transactions with their errors, governance snapshots, each with the proofs of its safety
properties. What is left, most important first:

1. **V4Quote, the ends of the price range**: a pool whose price lies beyond a limit, which
   `PoolsAssumption` leaves out, and what the loop does with it.
2. **HotPath, progress**: that under a chain that mines and relays that answer,
   every nonce reserved is used at some time.
3. **V4Quote, termination**: that the loop ends is implied by `Counted`; as a liveness
   property it stays with TLC.
4. **Reads over the abstraction**: `SnapshotRead` over `CallBatch` instead of the pool would
   be an abstract read that `SnapshotRead` implements.
