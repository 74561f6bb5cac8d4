# TLA+ models of the stegos node core

This directory holds TLA+ models of the parts of the stegos node found in
`src/`. TLC checks them. Each module is translated from the Rust source.
The escrow is the one exception: its source is not in the repository, so it
is modelled from `spec.md` §4.C. `PROJECT.json` maps every definition to the
source lines it models and lists the runs, mutants, findings and hazards.

## 1. The system

| Part | Source | State it keeps | Operations that change it |
|---|---|---|---|
| Chain state engine | `src/blockchain/src/blockchain.rs` | `blocks`, `block_by_hash`, `output_by_hash` (UTXO index → block id and Merkle path), `escrow`, `leader`, `facilitator`, `validators`, `epoch`, `last_epoch_change`, `last_block_timestamp`, accumulators `created`, `burned`, `gamma`, `monetary_adjustment`, and the ListDb block store | `with_db` / `load_blockchain` / `handle_block` (replay at start), `register_key_block`, `register_monetary_block`; reads: `output_by_hash`, `blocks_range`, `unspent` |
| Escrow | not in the snapshot (spec §4.C) | output hash → `{validator, bonding_until, amount}` | `stake`, `unstake`, `multiget` |
| Genesis | `src/blockchain/src/genesis.rs` | none | builds the first key block (epoch 1, previous = hash("dev")) |
| Transaction validator | `src/node/src/validation.rs` | none (reads mempool and chain) | `validate_transaction`, `validate_proposed_key_block` |
| Mempool | not in the snapshot (spec §4.F) | txs, claimed inputs, produced outputs | `push_tx`, `prune` |
| API types | `src/node/src/api.rs` | none | `ChainNotification`, `TransactionStatus`, requests and responses |
| Wallet account | `src/wallet/src/lib.rs` | unspent mirror, pending outgoing txs and their statuses, `transaction_response` (one in-flight send), snowball session, `epoch`, `balance_changed` | `payment`, `stake`, `unstake`, `cloak_all`, `send_and_log_transaction`, `on_tx_status`, `handle_resend_pending_txs`, `handle_check_pending_utxos`, the three chain notifications, seal/unseal |
| Wallet service | `src/wallet/src/lib.rs` | accounts, `last_epoch` | open, create, delete an account; shuts down when an account stream ends |
| Transaction builders | `src/wallet/src/transaction.rs` | none | pure construction of payment, data, staking and unstaking transactions |
| Console | `src/src/console.rs` | stdin thread parked or running; a channel of capacity 1 | `on_input`, `on_notification`, `poll` |

How the parts interact:

- The node applies blocks to the chain.
- Transactions are checked by the validator against the chain's UTXO index and the mempool.
- The chain notifies each wallet account of prepared, reverted and committed blocks.
- An account sends transactions to the node and tracks their status.
- The console drives the wallet through requests and waits for the notifications that answer them.

Behaviours that make this code hard to get right:

- **The store is written before validation.** Both `register_*` functions insert into the ListDb first (lines 297 and 361). Every error path that follows leaves the block stored.
- **Replay turns errors into panics.** `load_blockchain` replays the store at start-up, and `handle_block` calls `.expect` on each block (lines 178–195). Any stored block that fails therefore stops the node from starting.
- **Panics after mutation.** The epoch `assert_eq!` of a key block runs after the block has been stored and `block_by_hash` updated (line 332). The `unreachable!()` at lines 483 and 497 is reached by a block that repeats an input or an output. The global balance check panics at line 450.
- **The escrow depends on the clock.** `unstake` at `current_timestamp` fails inside the bonding period, and the result is ignored (line 518). The escrow therefore depends on when a block is applied, and again on when it is replayed.
- **Wallet.** There is a single in-flight send slot. A status response can arrive after a newer status was set. Resends go out one at a time. A micro-block revert rolls back statuses by offset alone. Timers unlock pending UTXOs.
- **Console.** The stdin thread parks itself until a notification wakes it.

Properties that make each part correct. The P-numbers are spec §8.

- **Chain:**
  - P1, global monetary balance.
  - P2, every UTXO index entry resolves to an unpruned leaf.
  - P3, no double spend (implied by the ledger refinement: the abstract ledger spends only unspent entries).
  - P4, escrow equals unspent stake.
  - The store holds the registered history.
  - Restart recovers the node.
- **Wallet:**
  - P5, statuses change only as the chain notifications say.
  - A pending tx is eventually resent or settled.
  - A locked UTXO is eventually unlocked or spent.
- **Console:** no deadlock between the stdin thread and the service.

## 2. Modules

### `Escrow.tla`: escrow values (modelled from the spec)

The escrow is a function from stake output hash to a record
`[validator, bonding, amount]`.

- `Stake` is idempotent.
- `Unstake` leaves the escrow unchanged while `bonding > now`, which is the LockedStake error.
- `Multiget` sums the stakes per validator.

### `Blockchain.tla`: the chain state engine

**State.** The module has five variables:

- `chain` is the `Blockchain` struct, one record field per struct field.
- `database` is the ListDb, a function from height to block. It survives crashes.
- `up` says whether the process is running.
- `now` is the wall clock.
- `applied` is a ghost variable: the sequence of blocks registered successfully.

**Data abstractions.**

- **Commitments.** A Pedersen commitment `v·H + g·G` is the pair `[v, g]`. The balance equations of lines 440 and 449 become equations on pairs.
- **Block hash.** A block's hash is its header. The header carries its inputs and outputs, so clearing `body.inputs` (line 488) keeps the hash, as the Merkle root does in the code.
- **Merkle tree.** A block's tree is its set of unpruned leaves, `leaves`.

**Operations.** `RegisterKeyBlock` and `RegisterMonetaryBlock` follow the
code's checks in order, as IF/ELSE chains. Each returns `ok`, `err` (the
unchanged chain) or `panic`. The commit steps are separate operators:
`PruneSpentLeaves`, `IndexOutputs`, `EscrowAfter`, `SaveGlobalBalance` and
`CommitKeyBlock`.

**Actions.**

| Action | Source |
|---|---|
| `ReceiveKeyBlock`, `ReceiveMonetaryBlock` | one call of `register_*` by the node: the store insert, then the checks; a panic takes the process down |
| `Crash` | the process is killed |
| `Restart` | `Blockchain::new`: `with_db`, then `load_blockchain`, replaying the store with `ReplayFrom`, any error being a panic |
| `Tick` | the clock advances |

**Blocks offered by the environment.**

- Each block is built on the last block or on the genesis parent `DevHash`.
- It has up to `MaxIO` inputs and outputs over the output set.
- Its `gamma` is either balancing or off by one, so the local balance check can fail.
- A key block's epoch is the current epoch or the next one, so the epoch assert can fire.

**Refinement.** `ChainLedger` maps the blocks in memory, in order, to the
entries of the abstract ledger of `UtxoLedger.tla` (a key block is an entry
with no inputs and no outputs), and `ImplementsLedger` is that module's
`Spec` through the mapping.

### `UtxoLedger.tla`: what the chain promises

The abstract specification has one variable, `ledger`, a sequence of entries
`[ins, outs]`. `Unspent(l)` folds the entries in order. `Apply` appends an
entry that spends only unspent outputs, each once, and creates only outputs
that are not unspent, each once. The module knows nothing of block hashes,
the UTXO index, Merkle trees, commitments, the block store or crashes. A
crash and a successful replay are stuttering steps of the ledger: the replay
must rebuild exactly the blocks that were in memory.

### `Validation.tla`: transaction admission

`ValidateTransaction(t, mempool, utxo)` is `validate_transaction` of
`src/node/src/validation.rs`. It returns the first failing check in the
code's order: AlreadyExists, TooLowFee, MissingInput (the input is not
unspent, or another mempool tx claims it), OutputHashCollision, or `"ok"`.

- The mempool is the set of admitted transactions. Its indices
  (`ContainsInput`, `ContainsOutput`) and `MempoolPrune` follow spec §4.F,
  because `mempool.rs` is not in the repository.
- Signatures, range proofs and the staking balance are taken to hold.

### `WalletAccount.tla`: one wallet account against the node

**Account state** (`UnsealedAccountService`, `src/wallet/src/lib.rs`):

- `unspent` is the database's unspent outputs;
- `locked` is `pending_payments`: an input and the time it was locked;
- `status` is the pending outgoing table, tx → `TransactionStatus`;
- `slot` is `transaction_response`, the one in-flight send;
- `wepoch` is `database.epoch()`;
- `snowball` is the running value-shuffle session, `<<>>` or its
  super-transaction and whether its leader has already sent it;
- ghosts: `told` (what each payment request answered), `seen` and
  `seenTxs` (the chain as of the last notification processed).

**Account actions**, one per handler polled by `poll`, each run to completion:

| Action | Source |
|---|---|
| `Payment` | `payment` → `send_and_log_transaction`: lock the inputs, log as Created, then `send_transaction`, which fails if the slot is busy |
| `TransactionResponse` | the node's answer, applied by `on_tx_status` |
| `ResendPendingTxs` | `handle_resend_pending_txs`: every pending tx is sent, errors ignored, so only the first in iteration order (`TxOrder`) can take the free slot |
| `CheckPendingUtxos` | `handle_check_pending_utxos`: unlock inputs older than `PENDING_UTXO_TIME`; an expired input of the running session ends it with "Snowball timed out" (`TimedOut`) |
| `SecurePayment` | `secure_payment`: `SnowballBusy` while a session runs, else lock the available inputs and start the session; the request is answered when it ends |
| `SnowballSucceeded(isLeader)` | `poll` → `handle_snowball_transaction`: log the super-transaction as Created and, at the leader, `send_transaction`; answer the request |
| `SnowballFailed` | `poll`, the session's error: unlock its inputs, answer the error |
| `SnowballPeerPublish` | environment: another participant, the leader, sends the super-transaction to the node before this account's session ends |
| `MicroBlockPrepared`, `MicroBlockReverted`, `MacroBlockCommitted` | the three chain notifications: statuses via `prune_txs` / `rollback_txs`, then `on_outputs_changed` (create, then prune) |

The snowball protocol itself (`src/wallet/src/snowball`) is not in the
repository, so its outcome is a nondeterministic choice among the three
ways `poll` can see it end. Its other participants' inputs are left out of
the super-transaction.

`poll` takes a ready response before the notification stream, so the
notification handlers are guarded by `~ResponseReady`. The account store's
`prune_txs`, `rollback_txs` and `pending_txs` are not in the repository and
follow spec §4.G.

**The node, as environment.**

- `NodeHandleTransaction` admits a sent tx with `ValidateTransaction` and
  fills the response.
- `NodeMicroBlock` takes one mempool tx whose inputs are unspent and prunes
  its conflicts from the mempool.
- `NodeRevertMicroBlock` reverts the last micro block and returns its tx to
  the mempool.
- `NodeMacroBlock` emits a revert for each micro block of the epoch, newest
  first, and then one commit carrying all of their inputs and outputs.
- Notifications are delivered in order, each carrying the chain after its
  step as ghost fields.

### `WalletService.tla`: the account registry

**State.**

- `accounts` is the set of open handles (`WalletService.accounts`).
- `dirs` is the set of account directories on disk.
- `svc` is each account's `AccountService` state: sealed, unsealed or terminated.
- `queue` is each account's events channel.
- `deleting` is the state of each pending delete future.
- `running` is false once `WalletService::poll` has returned Ready and the wallet has stopped.
- `nodeDown` is true once the node has shut down, which ends every account's chain stream.

**Actions.**

| Action | Source |
|---|---|
| `CreateAccount` | `find_account_id`, `create_account` and `open_account` |
| `AccountRequest` | `handle_account_request` forwards a request to an open account |
| `DeleteAccount` | `handle_account_delete`: remove the handle and send Disable |
| `DeleteFinish` | the spawned future: rename the directory on Disabled, else answer an error |
| `AccountPoll` | `AccountService::poll`, which serves one queued request (`Sealed`, `Unsealed`) |
| `Panic` | `Account::request`: `unbounded_send(...).expect("connected")` on a future that has ended; part of `AccountRequest` and `DeleteAccount` |
| `AccountShutdown` | `UnsealedAccountService::poll` ends when the chain stream ends (lib.rs:1487) |
| `AccountChannelClosed` | an account future ends when its events channel is closed and empty (lib.rs:1612) |
| `ServiceStop` | `WalletService::poll` returns Ready when an account's notification stream ends (lib.rs:2157) |
| `NodeShutdown` | the environment: the node stops |

Requests are abstracted to their kinds. A sealed account answers Disable by
ending its future without a reply. An unsealed account answers it with
`Disabled`.

### `Console.tla`: the stdin handshake

**State.**

- `th` is the readline thread: reading, parked, stopped or panicked.
- `token` is its park token.
- `chan` is the `channel(1)`, and `senderParked` means the sender has used its own slot.
- `requests` and `events` are the wallet's side.

**Actions.**

- `ReadLine`, `ReadEof` and `Wake` are the thread, with `Wake` standing for `thread::park` returning.
- `ServiceInput`, `ServiceNotification` and `ServiceExit` are the three loops of `poll`. The first two call `on_input` and `on_notification`.
- `WalletReply` and `WalletEvent` are the wallet, which is the environment.

A line is reduced to its command kind. `on_input` returns false exactly for
the three show-commands.

The console calls a wallet API (`payment`, `balance_info`, info
notifications) that this snapshot's wallet crate no longer has. The wallet's
answer is therefore the environment: the matching info notification. No
other answer to a show request can be read from this snapshot: the account
services of `lib.rs` answer their requests over a oneshot, not on the
console's notification stream.

## 3. Runs

The chain runs use `MC_Blockchain.tla` with these bounds:

- outputs `p1`, `p2` (payments) and `s1` (a stake of validator `v1`);
- `MaxIO = 1`, `MaxHeight = 3`, `MaxTime = 1`, `BONDING_TIME = 1`.

Under these bounds:

- An output can be created, spent and re-created.
- A stake can be spent both inside its bonding period and after it.
- Every check of `register_*` can fail.
- Crashes can hit any state.

| Run | Expect | What it shows |
|---|---|---|
| `chain_safety` (`MC_Blockchain.cfg`) | pass, ~27k states, about 1 minute | `Conservation` (P1), `UtxoIndexMatchesHistory`, `UtxoIndexResolves` (P2: `OutputByHash`, the model of `output_by_hash()`, finds every indexed output and never reaches its `unreachable!()`), and `TypeOK` hold across valid and invalid blocks, crashes and replays. `ImplementsLedger`: every behaviour is a behaviour of the abstract ledger, which spends only unspent entries, so P3 (no double spend) follows from it. |
| `chain_escrow` | violation of `EscrowConservation` (P4) | A stake created at t=0 and spent at t=0 is still in the escrow, because the failed unstake is ignored. |
| `chain_restart` | violation of `RestartRecovers` | A key block with a wrong epoch (or any rejected block, if the node then crashes) is stored, and every replay panics on it. |
| `chain_duplicate_io` (`MC_Blockchain_dup.cfg`: `MaxIO = 2`, `MaxHeight = 2`, `MaxTime = 0`) | violation of `MonetaryPanicOnlyOnGlobalImbalance` | The first block, with the output `p2` listed twice and a balancing adjustment, passes every check and panics at the second insert into the index (line 497). A repeated input panics in the same way at line 483. |

`CHECK_DEADLOCK FALSE`: a node whose replay panics really does stop, and the
bounds stop block production.

**Fairness.** `LiveSpec` adds weak fairness on `Restart` only: a supervisor
restarts a stopped process. The arrival of blocks and crashes is left to the
environment.

**Mutants.** Each property of `chain_safety` has a mutant, a plausible bug
that TLC must catch:

| Property | Mutant |
|---|---|
| `TypeOK` | `last_epoch_change` off by one |
| `Conservation` | `gamma` accumulator not saved |
| `UtxoIndexMatchesHistory` | spent outputs not removed from the index |
| `UtxoIndexResolves` | new outputs indexed with the block id after the push |
| `ImplementsLedger` | output-collision check dropped |

The collision mutant is why the abstraction is the history of entries and
not only the set of unspent outputs: with the check dropped, a block that
re-creates an unspent output keeps the set the same, but `Apply` refuses the
entry.

### Wallet runs

They use `MC_WalletAccount.tla`:

- owned outputs `u1`, `c1`, `c2`, `c3`, with `u1` unspent at the start;
- `t1` spends `u1` into `c1`, `t2` spends `u1` into `c2` (a conflict with
  `t1`), and `t3` spends `c1` into `c3` (it depends on `t1`);
- `MaxTime = 2`, `MaxEpoch = 2`, `MaxMicro = 2`, `MaxQueue = 3`,
  `PENDING_UTXO_TIME = 1`.
- `wallet_safety` uses `MaxTime = 1`, which is enough for one lock to
  expire. It keeps the liveness check within time. All four safety
  mutants are still caught at that bound.

Under these bounds a tx can be conflicted, reverted and re-included, a
chain of two dependent txs can be built, and a lock can expire.

| Run | Expect | What it shows |
|---|---|---|
| `wallet_safety` (`MC_WalletAccount.cfg`) | pass, ~226k states, 1 to 2 minutes | `MirrorMatchesChain`: the unspent mirror equals the owned chain outputs through reverts and macro blocks. `SettledStatusIsTrue`: Committed and Conflicted statuses agree with the chain. `SnowballInputsLocked`: while a session runs, every input of it is locked, so the pending-UTXO timer never frees an input that a session still uses. `ResendReachesEveryTx` (under `LiveSpec`): once micro blocks stop being reverted, every transaction left Created is eventually handed to the node or leaves Created. `TypeOK` also holds. |
| `wallet_stale_status` | violation of `StatusMatchesChain` | In 6 states: a secure payment, a peer publishing the super-transaction, a micro block including it and the account processing that block, then the session resolving for this non-leader account, which logs the transaction as Created although it is in the chain (push_outgoing at lib.rs:935 runs after prune_txs ran for the block). |
| `wallet_silent_payment` | violation of `NoSilentPayment` | In 7 states: a secure payment, a peer publishing the super-transaction, a micro block including it and the account processing that block, a timer tick, then `handle_check_pending_utxos` ending the session with "Snowball timed out" (lib.rs:1018). The user is told the payment failed, yet it is in the chain. |

Both properties are also exposed to longer paths that these traces do not
show: a late node reply to a resend overwriting Prepared (lib.rs:1136,
`StatusMatchesChain`), and a payment answered "busy" that stays logged and
is resent (lib.rs:895, `NoSilentPayment`, about 14 steps).

The wallet runs check deadlock: the resend timer is always enabled, as the
real timer is.

**Fairness.** `wallet_safety` uses `LiveSpec`, with weak fairness on three
actions:

- `ResendPendingTxs`: the resend interval timer fires forever.
- `NodeHandleTransaction`: the node answers every request it receives.
- `TransactionResponse`: `poll` applies a ready answer.

Payments, snowball sessions, blocks, reverts and the clock are the
environment and get no fairness.

`ResendReachesEveryTx` is stated under the condition
`<>[][~NodeRevertMicroBlock]_vars`. Without that condition TLC finds a
starvation. A micro block holding `t1` is reverted and re-included without
end. Each revert makes `t1` Created again, ahead of `t3` in `pending_txs()`
order. The resend tick therefore always picks `t1`, and `t3` is never sent.
This is hazard lib.rs:993. The code leaves it to the node's reverts (view
changes) to stop.

| Property | Mutant |
|---|---|
| `TypeOK` | `send_transaction` queues instead of failing on a busy slot |
| `MirrorMatchesChain` | `on_outputs_changed` prunes before it creates |
| `SettledStatusIsTrue` | `prune_txs` treats every touched tx as surviving |
| `SnowballInputsLocked` | `handle_check_pending_utxos` unlocks a session's expired input but keeps the session |
| `ResendReachesEveryTx` | `pending_txs()` also returns Rejected transactions; a Rejected transaction ahead in order is resent on every tick, and the transactions after it are never sent |

### Wallet service runs

They use `MC_WalletService.tla`: ids `{1, 2}`, with account 1 on disk at
start-up, and at most 2 queued requests per account. Under these bounds an
id can be deleted and then reused, and a delete can be pending while a
create runs. `CHECK_DEADLOCK FALSE` is set because a wallet with no further
requests is idle, not stuck, and the id bound ends account creation.

**Fairness.** `service_ids` uses `LiveSpec`: weak fairness, per account id,
on `AccountPoll(id)` and `DeleteFinish(id)`. The executor polls every future
that has a message on its channel, and every spawned delete future whose
oneshot has resolved, and it polls the service itself, so `ServiceStop` is
weakly fair. Creating, requesting and deleting are the user's choice, so
they get no fairness.

| Run | Expect | What it shows |
|---|---|---|
| `service_ids` | pass, ~24k states | `ServedHaveDirs`: `find_account_id` never hands out an id whose directory a pending delete will rename. The mutant ignores the directory check. `ServiceStopsOnlyOnShutdown`: the wallet stops only after the node shut down. One ended account stream stops every account, and `handle_account_delete` removes the handle before it sends Disable, so a deleted account's end never reaches the forwarding loop. The mutant keeps the handle. `DeleteCompletes`: every delete in progress is answered. Its mutant renames only on Disabled and never answers the error, so a delete of a sealed account waits forever. |
| `service_delete_sealed` (`Spec`, no fairness) | violation of `DirsServed` (checked while the service runs) | In 4 states: DeleteAccount on a sealed account, its future ends on Disable without a reply, and the delete future answers an error. Deleting a sealed account drops the Disable reply. The delete answers an error, yet the handle is gone, so the account is on disk but unreachable. |

### Console runs

`Console.cfg` and its variants use `MaxLines = 3` and `MaxEvents = 1`.

**Fairness.** Weak fairness is assumed on the service loops, the wallet's
reply and `Wake`:

- the executor polls a future whenever one of its streams is ready;
- `park` returns once the token is set.

No fairness is assumed for typing.

| Run | Expect | What it shows |
|---|---|---|
| `console_handshake` | pass, 135 states | `PromptAfterResult` (the thread reads a new line only after the last one is handled and answered) and `StdinResumes` (a parked thread is woken). Mutants: a show-command unparks at once; the UnspentInfo arm does not unpark. Deadlock is checked; the only end is `on_exit`. |
| `console_spurious_wakeup` | violation of `NeverFull` | `thread::park` may return spuriously. After two such returns with lines typed ahead, `try_send` finds the channel full, and the "never full" assert panics. |

### Findings

1. **Escrow** (`blockchain.rs:518`). The result of `unstake` is ignored, so a stake spent inside its bonding period stays in the escrow.
2. **Repeated input or output** (`blockchain.rs:497`, `:483`). A balanced block that repeats an output or an input passes every check, then aborts the node in `unreachable!()`. Spec §4.D allows a panic only on the global balance check. The block is already stored, so every replay aborts too.
3. **Restart** (`blockchain.rs:297`). A stored bad block makes every replay panic.
4. **Stale status** (`lib.rs:935`). A non-leader member of a value-shuffle session logs the super-transaction as Created after the micro block that includes it was processed.
5. **Silent payment** (`lib.rs:1018`). The pending-UTXO timer answers a secure payment with "Snowball timed out" after its super-transaction was published and included.
6. **Delete of a sealed account** (`lib.rs:1598`). The account is closed but not deleted.
7. **Console and spurious wakeups** (`console.rs:126`). The assert depends on `park` never waking spuriously.

## 4. Plan (in order of importance)

1. **`Blockchain`** (done): the core registration, the store, and replay.
2. **Micro-block revert.** Add it if the code grows it. `blockchain.rs` has no revert, so P6 (revert round-trip) is not modelled.
3. **`Validation`** (done as the wallet's node environment; composition with `Blockchain` left). `validate_transaction` (validation.rs 41–137) over the chain's UTXO index and a spec-modelled mempool, composed with `Blockchain`. Property: a transaction accepted by the validator and applied in a block never reaches MissingUTXO or an output collision.
4. **`WalletAccount`** (done: safety, and liveness of the resend timer). The outgoing-transaction lifecycle of lib.rs:
   - `send_and_log_transaction` locks inputs and logs the transaction before the send can fail;
   - the single `transaction_response` slot;
   - `on_tx_status` overwriting a status;
   - `handle_resend_pending_txs`;
   - the pending-UTXO timeout, and the snowball session it can end;
   - MicroBlockPrepared, Reverted and Committed, with `rollback_txs` by offset.

   Properties: P5; every pending transaction is eventually committed or conflicted (liveness under fair timers); locked inputs are eventually released. Checked liveness: `ResendReachesEveryTx`, conditioned on micro-block reverts stopping (lib.rs:993). Not checked: eventual commitment, which depends on the node, whose production the bounds stop.
5. **`WalletService`** (done: create and delete, with the liveness of delete, and the stop of the whole service when an account stream ends, with node shutdown as the environment). The account open/seal/unseal/delete state machine, and the shutdown of the whole service when one account's stream ends.
6. **`Console`** (done). The stdin park/unpark handshake and the capacity-1 channel. Properties: a parked thread resumes, and the prompt follows the result.
7. **Refinement** (done). `UtxoLedger`, an append-only ledger of entries, is implemented by `Blockchain` through `ChainLedger`.

## 5. Not modelled

- **Cryptography.** Signatures, range proofs, hashing and Merkle paths are taken as ideal: hashes are injective and commitments are pairs.
- **Genesis construction.** This is pure construction code.
- **The transaction builders (`transaction.rs`).** The file is stale.
  - `lib.rs` calls `create_payment_transaction` with 8 arguments and destructures a 5-tuple. `transaction.rs` takes 5 arguments and returns a `Transaction`.
  - It builds `EscrowOutput` and `DataOutput` values, which `validation.rs` does not know.
  - Its UTXO selection, `find_utxo` in `change.rs`, is not in the repository.

  A model of the file would describe code that the wallet does not call.
- **Metrics and logging.**
- **`blocks_range`.** It only reads the store. What it can serve, a block that was stored and then rejected, comes from the same early store insert as the restart finding.
- **The `AccountRequest` enum.** It is defined in the wallet API module, which is not in the snapshot. `handle_account_request` forwards any request unfiltered, so requests are modelled by kind; whether a client can send Disable directly, bypassing `handle_account_delete`, cannot be read from the source.
- **Code outside the snapshot.** Network, consensus, the snowball protocol (only the wallet's side of a session is modelled), and the wallet's storage internals are not in the repository.
