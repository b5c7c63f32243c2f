# Verification of the EBLA state transition

TLA+ models of the core of `ebla-evm`: the precompiled contracts that consensus
runs on (stake, rewards, votes, jail), the storage structure they are built on,
the transition state and the interpreter on which transactions execute, the
threads and the trie that turn a block into a state root, the database that
commits it, and the RLP encoding under all of them.  TLC checks the models on
small instances; TLAPS proves the central results for every value of the
constants.

## 1. The system

`ebla-evm` executes finalised blocks of the EBLA chain.  A C++ consensus node
drives it through `ebla/C`: for each block it begins the block, executes the
transactions, distributes the rewards of one or several periods (a *batch*),
ends the block, prepares the commit (state root) and commits.  The EVM is a fork
of go-ethereum; the parts that are EBLA's own are below `ebla/`.

| Component | State | Operations | Hard behaviour | What makes it correct |
|---|---|---|---|---|
| Iterable map (`contracts/storage/iterable_map.go`, `addresses_imap.go`, `ids_imap.go`) | three families of storage slots: items, positions, count | create, remove (swap with last), exists, pages | a wrong slot shows only in a later call on another item; page ends | slots inverse to each other; paging complete; a list of distinct items |
| DPoS ledger (`contracts/dpos/precompiled/*.go`) | validators with their rewards, delegations (forward and reverse index), undelegations, reference-counted reward states, `eligible_vote_count`, `amount_delegated`, the contract's balance | register, delegate, undelegate, confirm, cancel, redelegate, claim, claim all, claim commission, set commission, genesis | calls of many delegators in any order; a failing or reverted call keeps its storage writes; tokens move as the calling frame says; rounding | stake adds up, references counted, nothing dangles, votes exact, nothing owed beyond what was received |
| Inactivity penalties (same file) | voting power factor, last active block, eviction cursor, last processed epoch | recovery hook, three loops at an epoch boundary, forced eviction | batches repeat the boundary block; a budget ends loops early; transactions between two parts of an eviction | one decay per missed epoch; only inactive validators evicted; an eviction leaves nobody behind |
| Block reward split and yield curve (`dpos_contract.go`, `yield_curve.go`) | `total_supply` | block reward, split, mint | rounding, caps, table ends | never more minted than the reward, supply capped, yield as documented |
| Slashing contract (`contracts/slashing`) and DPoS readers | jail blocks, list of jailed validators, proofs, `nextCleanUpBlock` (memory only) | commit proof, cleanup, eligible votes | reads from a delayed state and writes the current one; calls undone; restart | a proof counts once and never against the honest; votes subtracted once; nodes agree |
| Storage wrapper (`contracts/storage/storage.go`) | a cache over account storage | get, put, clear | not journaled | reads see the last write |
| Transition state (`state_evm`) | accounts, journal, account map | snapshot, revert, commit of a transaction | reverts in reverse order, suicides, unloading | revert restores; commit keeps |
| Interpreter (`core/vm`) | nested runs with program counter, stack, memory and gas; the memory pool; the static flag | the instruction set, calls, creations | sizes that wrap, a pool shared by nested runs, one flag for all depths | memory covered and disjoint, static stays static, jumps land, gas falls |
| Trie sink (`state_transition/trie_sink.go`) and goroutine groups (`util/goroutines`) | queues of groups, task lists, account mutations | update, delete, commit, submit, join, close | lost wakeups, order, everyone waiting | every task once, in order; root complete; block ends |
| Trie (`ebla/trie`) | tree of nodes, columns of nodes and values | put, delete, commit, iterate | embedded and hashed nodes, collapsing, values outside | root depends on contents only; reads back; stored nodes stable |
| Database (`state_db_rocksdb`, `util/pool.go`) | versioned columns, views, descriptor, write batch, iterator pools | begin block, put, get, commit, prune, open | stop at any step, readers of old blocks, stale iterators | reads exact; commit atomic; commit returns |
| RLP (`rlp`) | encoder with list heads, stream with open lists | append, list start and end, every read, split | heads put in late, sizes, canonical form | one encoding per value; round trip; both readers agree |
| ABI, cryptography, dry runs, C interface | | | | third-party, read-only or marshalling |

How they interact: the EVM calls a precompiled contract inside a transaction;
the contract reads and writes the storage of its own account through the
wrapper, and balances through the transition state.  When a call returns an
error the EVM undoes the balances of the call, **not** the contract's storage
writes: the adapter writes them irreversibly.  The DPoS counters
(`eligible_vote_count`, `amount_delegated`) live in memory and are stored when
the block ends.  Consensus reads votes and jail status from a *delayed* state, a
committed block some blocks back.

## 2. Plan

Done, in this order:

1. `ItemList`, `IterableMap`, `DposPartsProofs`: the storage structure
   everything else iterates over, and its refinement.
2. `Dpos`, `MCDpos`, `DposProofs`, `DposSolvencyProofs`: the ledger and the
   penalties, one specification because they share validators, votes and stake.
3. `YieldCurve`, `RewardsDistribution`, with their proofs in `DposPartsProofs`.
4. `WorldState`, `TransitionState`: journal and revert against an abstract stack
   of worlds, with the storage wrapper's cache, the sink and the commit.
5. `Slashing`: delayed reads, cleanup, and a node that restarts next to one that
   keeps running.
6. `StateDb`: commit, versioned reads, pruning, stops and restarts.
7. `TaskGroup`: the sink's threads, with liveness.
8. `Interpreter`: the loop, the instruction set, memory, gas, jumps.
9. `Trie`: writer and reader against the trie as defined from its contents.
10. `Rlp`: encoder, stream, splitter.
11. `FiniteSums`, the later parts of `DposProofs`, `DposSolvencyProofs`,
    `SlashingProofs`, `TaskGroupProofs`, `StateDbProofs`, `InterpreterProofs`: the
    safety properties of the stake ledger, the jail, the sink's threads, the database and the interpreter
    for every instance (section 6).

Next, in order of worth: proofs of `NoCoinsCreated` and `RefundCovered`
(`TransitionState`); then the buckets of the account map and the getters of the DPoS
contract.

## 3. Modules and their correspondence to the code

**ItemList / IterableMap.**  `items`, `pos`, `count` are the three slot families;
`CreateItem` and `RemoveItem` (split in `RemoveLast` and `RemoveMiddle`, the two
branches of the function) perform the `Put`s of the code.  A panic ends the
behaviour and `panic` records which kind: a call the contract must not make, or
one of the panics the code calls impossible.  `GetItems` and `GetAccounts` are
functions of the state, with their uint32 sums and products.

**Dpos.**  A stored object is a record or `Nil`; `val` joins `Validator`,
`ValidatorRewards` and the owner, which are created and deleted together.  `del`
stands for both indexes of delegations.  `st[v][b]` is the reward state of
validator `v` and block `b`, with `count` 0 for an absent one.  Each method is
one action with the guards of the code in place of its early returns; a method
that returns an error before it writes has no step.  `cancelUndelegate`, which
may fail after writing, has both outcomes, and so has `claimAllRewards`, whose
claims before the failing one are stored and not paid (it needs a delegation to a
deleted validator, which only amounts of zero leave).  The common first part of the methods
is in `Settled`, `StatesSettled` and `ValSettled` (settling the validator) and in
`StatesClaimed` and `Reward` (paying the delegator).  `DistributeRewards` and
`applyInactivityPenalties` are loops, and each iteration is a step; `phase` says
which loop runs so nothing interleaves with it, and the order of iteration is
open (the code ranges over a Go map and over a list with swap removal).  The code
adds the block's rewards to the contract balance after the loop, the model with
each validator: no step between the two reads the balance.  `EndBlock` is
`EndBlockCall` and `CommitCall`.

Tokens move as `EVM.call` moves them.  With a CALL that is kept (`KeptTransfer`) the
value reaches the contract before it runs, and the contract pays.  With CALLCODE and
DELEGATECALL (`CodeTransfer`) the frame has the account of the calling contract: no
value is transferred, the method counts it all the same, and
`transferContractBalance` pays from that account; its comment
(`dpos_contract.go:2296`) takes the account to be the contract's.  When a frame around
the call is reverted later (`UndoneTransfer`) the balances go back and the irreversible
writes stay.  The constant `Frames` says which of the latter two happen next to the
first; the history variable `astray` counts the tokens the ledger took for received,
less those it took for paid, that did not move.

A missing state makes the code panic; the action then has no step, and
`RefsCounted` (with `StateNeverMissing` where it fails) says when that can happen.

`defects` is a history variable without influence on the behaviour: it records
which of four error paths (section 5) was taken.
The properties these paths damage are stated for behaviours in which they were
not (`Spared`); those runs have the constraint `Undamaged` for the same reason.

**RewardsDistribution, YieldCurve.**  The arithmetic of `processBlockReward` and
`DistributeRewards`: per cent parts, five-eighths rule, shares rounded down.
Products, sums and differences are cut to a word (`Word`, 2^256 in the code) as the
code's 256-bit numbers are, so a difference below zero wraps.  `left` is a bookkeeping of the
statistics not yet met by the loop: it makes the counts of validators add up to
at most the totals, which the code compares but does not enforce.

**WorldState / TransitionState.**  `accounts` is the account map: an entry is a
header (`in_curr_version`, `in_dirties`, `loaded_from_db`, `deleted`) and a body,
`Nil` for an account that does not exist.  In a body `dirty`, `origin` and `raw`
are the maps `StorageDirty`, `storage_origin` and `RawStorageDirty`, `slots` the
keys of the storage trie the account was loaded with (empty for a nil root),
`mods` and `touched` the counts `flush` decides by.  The journal `reverts` holds,
for each closure, what it puts back; `UndoChange` and `Undo` are the closures'
bodies.  `db` and `flat` are the committed accounts and the column of slot values
reads go to; `main`, `sinks` and `wiped` are what the sink's threads do to the
tries, in the order in which the calls submit it.  The threads have no steps of
their own here: that a group runs its tasks in order and that the commit joins it
is what `TaskGroup` shows (`TasksInOrder`, `RootComplete`).

A method of an account is an operator from a state to the next one, so that an
action composes the calls its code makes.  A frame of `frames` is a running
`call` or `create`; `Return` and `Fail` are its end, `Operation` what its code may
do meanwhile, in any order.  `err` is the result of the last call.  The flag
`read_only` of the interpreter, reset by the frame that set it, is `readOnly` of
the frames.  A call of the precompiled contract is one step: it writes a slot,
pays some of the balance of the frame's account (its own, or that of the calling
contract for CALLCODE and DELEGATECALL) to the caller, and then may fail.  `mark` in a frame is
history: what the accounts showed at the snapshot.  The mapping to `WorldState`
reads it as the stack of saved worlds.

`Main` is `MainRejected`, `MainCall` or `MainCreate`, followed by `Finish`, which
is the refund of gas and the checkpoint.  The gas price is 1, gas is the part of
the fee given back, and the zero address, whose balance is not checked, does not
send.  The touch of the RIPEMD contract that survives a revert is left out, as
are `AddTxFeeToBalance`, which the block execution does not call, and
`BlockState`.  Rewards, which mint coins between the transactions and the end of
the block, are in `RewardsDistribution` and `Dpos`.

**Slashing.**  Several nodes execute the same blocks.  `chain[n][b]` is the
contract's storage in the committed block `b` of node `n`; `cache[n]` is what its
storage wrapper shows, `dirty[n]` what the account will store: they differ after a
call that was undone.  `DelayedBlock` is the rule of `Reader.Init`, and the reader
of a call is the one the last commit installed.  `CleanupJailedValidators` makes a
reader over the wrapper's backend, which is the committed database, so it sees
`chain[n][number - 1]` and neither the cache nor the pending account.  `power` is
what the DPoS contract ended a block with; `TotalEligibleVoteCount` is the
`uint64` difference of the DPoS reader.  `Restart` forgets `nextCleanUpBlock`.
`accepted` is history.

**StateDb.**  `disk` is what RocksDB holds, `batch` and `queue` the write batch and
the tasks of the writer goroutine, `exec` the thread that executes blocks.  The
task of a commit has three steps readers can come between (write, invalidation of
the iterator pools, new descriptor).  A pooled iterator is the version of the
database it saw when it was made.  `Prune` has three goroutines, the last of which
starts two more; their steps interleave with each other and with readers.  `Stop`
may come at any step, `Opening` is `LatestState.Init` with its status of the views,
and may be stopped as well.  `contents` and `wrong` are history.  The trie may put one
key twice in a block (nothing, then the new value); the second put replaces the first
in the batch, and `Put` stands for the one that stays.  RocksDB is taken
to write a batch atomically, and to give an iterator a consistent view.

**TaskGroup.**  One group for each account mutation, `Workers` goroutines, the
channel `pending_groups`, the goroutine of the main trie with its channel, and the
executor.  `Submit` has two steps (under the lock, then the send, which waits for
room), `execute_pending` one for each locked part and one for each task.  The data
of a mutation is the number of the last update applied; an encoding is the number
it was made from, so `root` shows which updates the state root covers.

**Interpreter.**  A frame is a nested `run`: code, program counter, height of the
stack, gas, memory, and what its end has to put back.  Of a stack only the height
is kept, so the operands of an instruction are any of the given words: this covers
every code that could have computed them.  `validateStack`, `memorySize`, the
dynamic gas and the write protection are checked in the order of the loop.
`MaxU64`, `MaxWord` and the memory limits are scaled down together so that sums and
products wrap at the same places.  `access` and `wrote` are history: whether the
last instruction used memory it has, and whether one changed accounts in a static
call.  Accounts are those of `TransitionState`; what gas depends on of them is
chosen freely.

**Trie.**  Nodes are records as in `layout.go`; a hash is the encoding it is the
hash of, so equal hashes mean equal encodings and nothing else is assumed of
Keccak.  Sizes are computed as RLP would, since they decide whether a node is
embedded in its parent and a value in the tree.  `Put`, `Delete`, `Commit` and
`Open` (a new writer at a committed root) are the actions; `Canonical` is the
trie defined from its contents alone, a reference and not a translation.

**Rlp.**  `enc` is the encoder (bytes, list heads kept apart, sizes), `s` the
stream (position, kind and size of the value it stands before, open lists, what is
left of the input).  Any call of `Stream` may come next, which covers the order any
Go type gives; `CallListEnd` comes after a call that succeeded.  `refused` says that
the last call did not, `dropped` counts the calls of `decodeByteArray` that dropped
an error (section 5).  Tags have the layout of the code with smaller numbers.

Left out everywhere: ABI decoding, contents of logs, VRF keys and proofs of
registration, validator descriptions, byte encodings of keys and values.

## 4. Passing runs

| Run | Checks | Instance |
|---|---|---|
| `iterable_map` | `Consistent`, `PagesCoverItems`, `ImplementsList` | 5 items: removals from first, middle and last position, all page sizes |
| `dpos_staking` | `TypeOK`, `StakeAccounted`, `RefsCounted`, `NothingDangles`, `MaxStakeRespected`, `Solvent`, `RewardsKept` | 2 validators, 2 delegators, 2 calls per block, genesis and 2 blocks, every kind of frame, locking period 1, a maximum stake the funds exceed, commission changes |
| `dpos_inactivity` | `EligibleVotesExact`, `DecayOncePerEpoch`, `DistributionAdvances`, `EvictionComplete` | 2 validators, 2 delegators, epochs of 1 block, batches of 2, eviction budget 1, 6 blocks |
| `rewards_distribution` | `SupplyCapped`, `YieldDecays` | 3 validators, totals up to 4, a cap reached after a few blocks; the code's epoch length and the first 40 epoch boundaries |
| `transition_state` | `NoCoinsCreated`, `RefundCovered`, `ReadsOwnWrites`, `ImplementsWorld` | a sender, a contract that has storage or does not exist yet, the precompiled contract; calls nested twice, 3 operations and 2 transactions in all, 1 committed block |
| `slashing` | `JailedOnlyByProof`, `EligibleVotesExact`, `NodesAgreeOnJail` | 2 nodes, 2 validators that vote twice and an honest one, a copied and an unreadable signature, delay 1, jail time 3, 5 blocks, 3 calls |
| `state_db` | `ReadsExact`, `CommittedWhole`, `CommitReturns` | 1 account, 1 reader, 3 blocks, a queue of 2, a pool of 1, 1 stop while running and any number while opening |
| `task_group` | `OneHolder`, `RootComplete`, `TasksInOrder`, `BlockEnds` | 2 accounts, 2 workers, channels of 1, 3 updates, deletion and a second mutation |
| `interpreter` | `MemorySafe`, `ReadOnlyHeld`, `JumpsLand`, `GasDecreases` | any instruction, nested static and other calls, a stack near its limit, a jump over PUSH data; regions inside, outside and past the word; 4 instructions |
| `trie` | `RootCanonical`, `ReadsBack`, `NodesStable` | 4 keys with common prefixes of 3, 2 and no nibbles, values in, beside and outside of nodes, 6 operations |
| `rlp` | `ReadsCanonical`, `RoundTrip`, `SplitAgrees` | 12 byte values, all inputs up to 4 bytes and longer ones with size bytes, 4 calls of the encoder, any calls of the stream, arrays of 0, 1 and 2 bytes |

Bounds, and why they suffice: two delegators are enough for one to disturb the
other's rewards and references; two validators for stake to move; two blocks
separate a state of an earlier block from the current one and let a lock expire
(delegations of genesis are a third); amounts 1 and 2 with a maximum stake of 2
give partial and full withdrawals, crossings of the eligibility threshold (2) and
rejections at the maximum.  With an eviction budget of 1 every eviction of a
validator with two delegators spans boundaries.  `MaxCalls` bounds the calls in a
block as gas does, `MaxBatch` the distributions in a batch, `MaxBlock` the run.
The Dpos runs stop at `MaxBlock`, the map stops at a panic: these runs do not
check deadlock.  Of the last block the Dpos runs see the calls only: what its
distribution would do is done by that of the blocks before.

In `transition_state` `MaxDepth` stands for `CallCreateDepth` (1024) and is
reached; `MaxOps` and `MaxTx` bound the operations and transactions of the whole
run.  Two transactions let the second meet an account the first destroyed,
created or wrote, before or after the commit; three operations nest a call in a
call and let both fail after a write.  One slot is enough because the maps treat
slots alike, except for what deleted accounts leave behind (section 5): the
constraint `NoLeftovers` stops there.

In `slashing` five blocks let a jail time of 3 pass, with a cleanup before and
after it, and the delay of 1 hides one block.  In `state_db` one account has a
value, a storage root and a storage value, each with versions; three blocks let a
prune keep one, take one and meet a newer one.  Accounts do not interact there
except through the queue, which one account fills.  In `task_group` channels of
size 1 are full as soon as a second group or task comes, so every wait the code has
happens.  In `interpreter` four instructions enter a call, write, and return
through two depths; the depth limit and the stack limit are reached.  In `trie` six
operations build a branch under a branch, commit it, reopen it and take it apart.
In `rlp` every kind of head and size occurs in a list and beside one.  All of these
runs use up their bounds, so deadlock is not checked, except in `task_group` and
`rewards_distribution`.

Fairness: `task_group` assumes weak fairness of each goroutine that can go on, as
the Go scheduler gives, and of the executor, whose caller always commits the block
it began; a wait for a lock, a channel or a join is a guard, so a wait that nobody
ends shows as a violation of `BlockEnds`.  `state_db` assumes it of the writer
goroutine and of the thread inside `Commit`; nothing is assumed of readers, prunes,
restarts or new blocks.  The loops of a reward distribution are passes over
lists that wait for nothing; that each step leaves less to do
(`DistributionAdvances`) needs no fairness.

Symmetry: validators and delegators (Dpos, rewards) and nodes (slashing) are
interchangeable; no run with a liveness property uses symmetry.

Type invariants that no run names (`TypeOK` of the other modules) hold on the same
instances; adding one to a `.cfg` checks it.

## 5. Disagreements between the code and what is said about it

One is a run that TLC must find violated, `dpos_redelegate_loses_state`
(`DposRedelegateLosesState.cfg`): redelegating the last stake of a validator with
pending undelegations and no commission stores the validator without the reward
state it points to; the panic this leads to is commented "This should never
happen".

Others are stated in the modules and become violated when they are added to a
`.cfg`:

* `TotalStakeIsSum` (`DposStaking.cfg` without its constraint): `validators.go:17`
  says the total stake is the sum of the delegated tokens; a `cancelUndelegate`
  rejected for the maximum stake (`dpos_contract.go:1441`) has already removed the
  undelegation and credited the delegation.
* `NoOrphanDelegation` (with 0 among the amounts): undelegating 0 and cancelling
  leaves a delegation of 0 that outlives its validator; `dpos_contract.go:1765`
  calls that possible only by a "serious logic bug".
* `EvictedHasNoPower` (`DposInactivity.cfg` without its constraint): the recovery
  hook (`dpos_contract.go:906`) gives a validator under eviction its voting power
  back when a vote of it is rewarded; `dpos_contract.go:1113` says it is zero until
  the eviction ends.
* `TransientReverted` (`TransitionState.cfg`): `SetTransientState` has no entry in
  the journal, so a failed call keeps what it wrote to transient storage until the
  transaction ends; the comment above it says the change is journaled.
* `CleanupKeepsJailed` (`Slashing.cfg`, as a PROPERTY): the cleanup is to read
  "current data, not delayed one" and to keep in the list who is "not unjailed yet";
  it reads the last committed block, and a validator listed in the block being
  executed is dropped.
* `AccessesChecked` (`Interpreter.cfg`): comments on the copy instructions say
  offsets and lengths were checked for overflow when memory was sized; the sum in
  `calcMemSize` is taken modulo the word, so a length near the largest word passes
  as a small one, and `memoryMcopy` takes a size beyond 64 bits for none.

* `ReadsAsStated` (`Rlp.cfg`): `decode.go:648` says that after decoding a value the
  stream stands before the next one.  `decodeByteArray` reads an array of one byte
  through `Uint` and drops its error (`decode.go:430`); `Uint` refuses the byte 0 without
  consuming it, so the array is decoded and the next call reads the same byte again.
  `ReadsCanonical` is the same statement for streams in which that did not happen.

Noticed while modelling, and without a property:

* `registerValidator` compares the commission with the maximum only; the test
  `TestMinimumCommission` says a registration below the minimum should fail.
* An eviction out of budget resumes at the next epoch boundary; comments of
  `applyInactivityPenalties` and `forceEvictValidator` say in the next block.
* Deleting an account leaves the values of its slots in the column reads go to.
  An account created again at the address, once it has stored anything, reads
  them; one loaded with a nil root that has stored nothing reads zeros.
* A transaction that creates a contract with a value it cannot pay keeps its
  nonce, `create` returning before it increments it.
* `call` passes `read_only` to `run` only: a precompiled contract reached from a
  static call is not told, and may write.  `ReadOnlyHeld` is about instructions.
* `HasSuicided` never holds of an existing account, so each self-destruction in
  a transaction adds its refund.
* The list of jailed validators: since `addToJailedValidators` starts from the
  delayed list, validators jailed within the delay drop each other from it; an
  entry lasts longer than `IsJailed`; and a restarted node, whose
  `nextCleanUpBlock` is 0, rewrites the list in blocks where others do not, so the
  lists, and with them the state roots, of two nodes may differ.
* When the first call of the slashing contract is undone, its writes go with the
  account while the cache keeps them: until the next commit the proof counts as
  known, and the validator is not in jail.
* `Prune` decodes every stored account value and panics at the empty one of a
  deleted account.  A stop between the drop of a node column and its refill loses
  nodes; `StateDb` marks that (`torn`) and stops executing blocks.
* Nothing joins the task group of a mutation whose account was deleted; its tasks
  touch only their own objects, and closing the executor ends them.
* The limit in `memoryGasCost` is commented as the largest size whose words can be
  squared in 64 bits; the square of the words of the limit the code has is larger.
* `gasKeccak256` charges for words only; the constant `Keccak256Gas` is not used.
* `trie/writer.go` assigns the stored value to a copy of the node, so a large value
  is put again by every later commit that visits its leaf, with the same bytes.
* `api.go:53` asserts that `MaxBlockAuthorReward` is at most 100, not that its sum
  with `DagProposersReward` is: with a larger sum the difference in
  `dpos_contract.go:824` wraps and `SupplyCapped` does not hold.
* After a call of the DPoS contract by CALLCODE or DELEGATECALL, or one that a caller's
  revert undid, the ledger counts tokens that did not move: the balance may be short of
  what is owed by as much as is astray, and `transferContractBalance` panics when it is
  asked for more than there is.  `Solvent` says that this is the only shortage.
* `Stream.ListEnd` after a refused call would drop the value that call left
  unread.  Decoders return the error instead; the one error that is not returned
  is the dropped one above, and `CallListEnd` may follow it.

## 6. Proofs

**Iterable map** (`DposPartsProofs`, first half).

* `SlotsStayConsistent`: `Spec => [](TypeOK /\ Consistent /\ NeverBroken)`, for
  every finite set of items and every `MaxPos` that holds them.  The conjunction is
  inductive; the step for `CreateItem` needs that there is a free position while an
  item is missing (`RoomLeft`), which follows from the positions being a bijection
  onto `1..count`.
* `MapImplementsList`: `Spec => ImplementsList`; every creation is an insertion at
  the end, every removal the abstract swap removal, every panic a halt.
* `PagesStayComplete`: `Spec => []PagesCoverItems` where the items are at most half
  of the positions.  The hypothesis is needed: `GetItems` adds the page size to the
  index of the first item in uint32, and with five items in five positions and
  pages of three the sum wraps and a page is lost.  The code has 2^32 positions.

**Rewards** (`DposPartsProofs`, second half; the names of the two specifications
differ, so that one module can extend both).

* `SupplyStaysCapped`: `SplitSpec => [](MintedWithinReward /\ SupplyCapped)`, for every
  supply below `Word`, set of validators and statistics, if the two percentages sum
  to at most 100.  The sum is a hypothesis of the theorem and not an assumption of
  the module, since the code does not assert it (section 5); it keeps the difference
  of the parts above zero, so that nothing wraps.
  `MintedWithinReward` is not inductive: the loop could overrun in a later round.
  The strengthening says that what was paid of a part, times the total of the
  statistics, is at most the part times the counts already met; rounding down
  keeps it, and at the end it bounds the sum.  The reward of a running
  distribution also has to fit the supply that is left.
* `YieldKeepsDecaying`: `SplitSpec => []YieldDecays`, for every block and epoch length.
  It needs no invariant beyond the type of `block`: it is a fact about division
  (the blocks `boundary - 1` and `boundary - EpochLength` lie in the same epoch,
  `boundary` in the next) and about the table, which the provers compute entry by
  entry.

**DPoS** (`DposProofs`: types, the decay and the loops, what sums over the
ledger; `DposSolvencyProofs`: solvency and the rewards).  All hold for every set
of validators and delegators, every configuration and every bound on blocks and
calls.

* `TypeCorrect` and `StakeBounded`: `Spec => []TypeOK` and `Spec =>
  []MaxStakeRespected`.  The inductive invariant `IInv` is the type invariant in
  parts (`LedgerOK`, with the bound on the stake of every validator record,
  `ActivityOK`, `CountsOK`, `ControlOK`, `LoopType`) and `LoopOK`.  `LoopOK` is the
  strengthening: in a penalty loop the validators still to be visited are
  registered and the delegators of the one being evicted have a delegation to it.
  It is needed because the code of an eviction reads both without asking whether
  they exist; without it the record of an evicted validator could become something
  that is no record, and the bound on its stake would be lost with it.
* `PowerDecaysOncePerEpoch`: `Spec => []DecayOncePerEpoch`.  The property allows a
  penalty that a scan half done has not made yet, so a scan could make it twice.
  The invariant `InStep` allows a validator the scan has not come to one penalty
  less (`Penalties_`); says that a validator without a record of activity has its
  full power, since the scan begins a record for it (`PowerInStep`); that the last
  boundary is a multiple of the epoch length, and this block while penalties are
  applied (`EpochInStep`); and that those to be evicted were inactive
  (`LoopInStep`).  `DecayedFactor` is a recursive function; that its equation has a
  solution, and that it falls with the number of penalties, is shown with least
  counterexamples.
* `DistributionsShrink`: `Spec => DistributionAdvances`, from `IInv`.
* `EvictionsComplete`: with `MinimumDeposit > 0`, `Spec => EvictionComplete`.  The
  cursor of a validator goes at the end of its last page or with the validator.  At
  the last page the delegators not on it have no delegation (`LastPage`, from how the
  page is chosen); a validator that is deleted has no stake, hence, by `StakeAccounted`
  and `Positive`, nobody who delegates to it (`NoOrphans`).
* `StakesAddUp`: `Spec => []StakeAccounted`.  The two sums are inductive together
  with the types; a redelegation between two validators and the pages of an
  eviction move both in one step.
* `VotesAddUp`: `Spec => []EligibleVotesExact`, with `PowerKnown`: a validator that
  is not registered has its full power, which a registration counts on, and one
  that is being evicted has none, so that the delegations taken from it cost no
  votes.
* `StatesStay`: with `MinimumDeposit > 0`, `Spec => []RefsCounted`.  Needed are
  `StakeAccounted` and `Positive`, that a delegation has a stake: a validator is
  deleted when its stake is zero, and without a minimum deposit a delegation of
  nothing would keep a reference to a state of a deleted validator.
* `DeletedWhenUnused`: with `MinimumDeposit > 0`, `Spec /\ []CounterFits =>
  []NothingDangles`.  `CounterFits` says that a validator always has fewer pending
  undelegations than its uint16 counter has values, which no guard of the code
  ensures; with as many the counter is zero again and the validator can be deleted.
  `IdsGrow` says that pending undelegations have no later id than the last one
  given, so that a new one is not among them and is counted once.
* `ContractStaysSolvent`: with `MinimumDeposit > 0`, `Spec => []Solvent`, for every
  `Frames`.  `Solvent` is not inductive, since what is owed is rounded and the roundings of two states do
  not compare.  `PaidInv` adds to the four properties above that

  - the balance and what is astray, without the pending undelegations, times the maximum stake, covers
    what the validators hold (`Backed`): stake, commission and pool in these units,
    and for each delegation its stake times the reward per stake earned since its
    last claim (`Accrued`).  In these units nothing is rounded; what a division drops
    stays with the contract;
  - a validator with a state of this block points to it and has an empty pool while
    calls run, and no state is of a later block (`FreshAt`).  Settling trusts a state
    of this block without looking at the pool: with rewards in it they would be
    counted in the pool and paid by the state;
  - the reward per stake of a validator is never below that of a delegation's last
    claim (`OrderedAt`): an eviction removes a delegation with its unclaimed reward,
    which must not be a debt the others pay.

  Each step is described validator by validator by what becomes of it (`Fate`:
  untouched, settled for a delegator, adjusted, removed or created) and by the tokens
  it is given (`Flows`); the invariant follows from the fates alone.  A transfer of any kind changes the sum of
  the balance and `astray` by the value less the payout, and no more is needed of it.
* `KeptCallsArePaid`: with `MinimumDeposit > 0` and `Frames = {}`, the balance alone
  covers what is owed: the only step left that puts tokens astray is a
  `claimAllRewards` that fails, which needs a delegation to a deleted validator, and
  there is none (`Positive`, `StakeAccounted`) outside the recorded error paths.
* `RewardsNeverShrink`: with `MinimumDeposit > 0`, `Spec => RewardsKept`, from the same
  fates: a settlement moves the share of the pool into the reward per stake without
  changing the sum, a distribution adds to the pool, and an eviction leaves the pool to
  less stake.

**Slashing** (`SlashingProofs`), for every set of nodes, validators and votes.  The
invariant `IInv` says of the store that the wrapper shows, of the one the account
will keep and of that of each committed block that it lists nobody twice and no
honest validator and has no proof against one (`StoresGood`), that the stores of
two nodes agree in everything but the list (`StoresAgree`: a restarted node cleans
up later, so the lists do differ), and that every accepted proof is known
(`AcceptedKnown`).  All stores have to be in it, since a delayed read and the
cleanup go back to committed ones.  `HonestNeverJailed`, `VotesStayExact` and
`NodesStayInAgreement` follow (`JailedOnlyByProof`, `EligibleVotesExact`,
`NodesAgreeOnJail`).

**Goroutine groups** (`TaskGroupProofs`), for every number of groups, goroutines and
updates and every channel capacity.  `OneHolder` counts holders and does not say
where a goroutine is in its work, on which the next step depends.  The invariant
says where each group is and which task its goroutine is at (`Placed`), that the
tasks a group has before it are its remaining updates in order and then the commit
and the unlock (`InOrder`), which mutations are still to be committed
(`MutationsPending`, with the numbering of mutations in `Numbered` and the bound on
updates in `Budget`), that the tasks in the channel of the main trie lead to the
current mutations (`TrieFollows`), and how far the commit has collected the
encodings (`CommitPhases`).  `GroupsHaveOneHolder`, `CommitIsComplete` and the action
property `TasksRunInOrder` follow.

**State database** (`StateDbProofs`), for every set of accounts, readers, pool sizes
and blocks.  The invariant says which tasks the queue can hold at each point of the
executor (`Phases`), that what is put of a block is the difference to the block
before (`PutsTell`), that the disk shows the blocks from the last pruned one to its
descriptor and nothing after (`DiskTells`), that the goroutines of a pruning collect
before they drop, and collect every root these blocks name (`NodesKept`), how the
view of the latest values follows its status (`ViewsTell`), and that a pooled
iterator of the current generation sees the blocks readers may ask it for
(`HandlesShow`).  `BlocksReadExactly` and `DatabaseHoldsBlocks` follow (`ReadsExact`,
`CommittedWhole`), a stop being one more step that has to keep the invariant.
`CommittedWhole` speaks of values always, and of storage roots and state roots except
while a prune is under way or after a stop in the middle of one (`torn`), where the
code does lose nodes.

**Interpreter** (`InterpreterProofs`), for every set of codes, gas, stack heights,
regions and operands, every pool size, depth and stack limit.  None of the properties
is inductive: what an instruction may do depends on what the runs below it are waiting
for.  The invariant (`Invariant`) says of the nested runs (`Runs`)

* that each is at the start of an instruction, and that all but the innermost wait at
  a call or a creation, which has no data, so that going on lands on a start again
  (`Landed`);
* that the region a call will copy its result to is still covered by the memory of its
  caller, or comes from a size that wrapped (`Awaited`): the copy happens after any
  number of instructions of the callee and is not checked again;
* that the memories in the pool follow one another and end where the pool is free
  (`Ordered`);
* that write protection is on exactly while a run of a STATICCALL is among them, and
  that only the first of these will take it away (`Guarded`);

and that all gas together fits a uint64, so that giving gas back does not wrap.  The
lemmas below it are about the instruction set: an accepted instruction finds its
operands and leaves a stack within the limit (`StackChecked`), the size asked of the
memory table covers every region of an instruction (`MemoryCovers`), and what
`codeBitmap` leaves unmarked is what going from instruction to instruction reaches
(`UnmarkedStarts`).  `TypesHold`, `MemoryIsSafe`, `StaticInstructionsWriteNothing`,
`ControlLands` and the action property `GasRunsOut` follow.  The third is about
instructions: a precompiled contract reached below a STATICCALL may write (section 5).

**Method.**  Induction over data is done with least counterexamples
(`LeastNatural` in `FiniteSums`, from the well-foundedness of `<` on the natural
numbers): a property of every number is one of the set of numbers without it,
which has no least element.  `FiniteSums` shows in this way that a sum over a
finite set, defined with a fold in an order that `CHOOSE` picks, does not depend
on the order: an element can be split off, a change at one argument changes the sum
by the difference, and sums are linear and monotonic.

Assumptions: those of the modules (`SizeAssumption`, `CurveAssumption`,
`SplitAssumption`, `ConfigAssumption`, `InputAssumption`, `NilAssumption`,
`SlashingAssumption`, `TaskGroupAssumption`, `StateDbAssumption`,
`InterpreterAssumption`, `CodeAssumption`), which TLC
evaluates in the runs, and the hypotheses named above.

Only model-checked:

* everything of `TransitionState`, whose refinement goes through a journal of any
  length;
* `Trie` and `Rlp`, whose operators are recursive;
* `CommitReturns` and `BlockEnds`, liveness under fairness.

`CleanupKeepsJailed` is false of the code (section 5).

## 7. Not modelled

* The bodies of the standard precompiled contracts, the curves and hashes: pure
  third-party functions.  A signature is whom it recovers to, a hash what it is the
  hash of.
* ABI encoding, number formats, logs: conversions no property is about.
* The C interface and its marshalling; its batch loop is in `Dpos` (`MaxBatch`).
* Dry runs, traces and `BlockState`: they execute on a throw-away state.
* The results of arithmetic instructions and the contents of memory and stack: the
  interpreter's properties hold for all of them.  The bit vector of `codeBitmap` is
  the set of its marked positions.
* The mapping of Go types to RLP by reflection; `NewListStream` and `CountValues`.
* The buckets of the account map, the getters of the DPoS contract and its stored
  configuration changes.
