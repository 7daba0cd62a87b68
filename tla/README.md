# TLA+ models of the Nocturne stealth programs

This directory holds TLA+ models of the on-chain programs under
`src/programs/`, the TLC configurations that check them, and this document.
`PROJECT.json` lists the components, runs, mutants, the source lines each
definition models, the findings and the hazards.

## The system

Nocturne is a set of Solana (Anchor) programs.

* **stealth**: the main program. It holds:
  * stealth addresses (DKSAP: registry, send, announcements, view keys);
  * fixed-denomination **privacy pools**, each an incremental Poseidon
    Merkle tree of note commitments plus nullifier records;
  * several withdrawal paths: `private_withdraw` (oracle attestation),
    `verified_withdraw` (on-chain Groth16), `unified_withdraw`,
    commit–reveal, and keeper intents;
  * a relayer registry, decoys, blended transfers and confidential
    transfers.
* **tee-bridge**: a staging account. Users deposit into it, commitments are
  batched, and funds are released after a batch settles.
* **tee-relayer**: a queue of encrypted withdrawal requests that a TEE
  processes.
* **cli** (`src/cli`): off-chain key management, scanning and transaction
  building.

### How the parts interact

A transaction runs one instruction atomically. An instruction that fails a
`require!` or an account constraint changes nothing. Concurrency is therefore
the interleaving of whole instructions from different users. Two mechanisms
carry most of the program's safety:

* `init` account constraints are atomic insert-if-absent operations on
  program-derived addresses (PDAs). This is how nullifiers block double
  spends (`NullifierRecord`) and how a commitment is stored once
  (`CommitmentLeaf`).
* The pool account `PrivacyPool` (zero-copy) is shared by every deposit,
  withdrawal and transfer path. Each path writes to its Merkle tree, its
  root-history ring, its stats and its lamports.

### Inventory: state, operations and what must hold

| Component | State | Operations | What must hold |
|---|---|---|---|
| Merkle accumulator (`private_deposit.rs`, `privacy_pool.rs`, `tools/compute_zero_hashes.rs`) | `merkle_root`, `next_leaf_index`, `filled_subtrees`, `root_history`, `root_history_index` | `compute_new_root_zc`, `compute_merkle_root_zc`, `save_root_to_history`, `is_valid_root` | the incremental root equals the root of the full tree; the last `ROOT_HISTORY_SIZE`+1 roots, and only they, are valid |
| Privacy pool (`private_deposit.rs`, `private_withdraw.rs`, `verified_withdraw.rs`, `simple_deposit.rs`) | the pool above plus stats and lamports; the `CommitmentLeaf` and `NullifierRecord` PDAs | `initialize_pool`, `private_deposit`, `simple_deposit`, `private_withdraw`, `verified_withdraw`, `private_transfer`, `close_pool`, `batch_deposit` | no note is spent twice; only funded notes are withdrawn; the pool stays solvent; the recipient gets the denomination minus a capped fee |
| Unified flow (`unified_privacy.rs`) | the same pool; `WithdrawalCommitment` | `unified_deposit`, `unified_withdraw`, `unified_commit`, `unified_reveal` | as for the pool; a reveal only inside its window |
| Commit–reveal (`commit_reveal.rs`, `withdrawal_commitment.rs`) | `WithdrawalCommitment` | `commit_withdrawal`, `reveal_and_withdraw`, `cancel_commitment`, `close_commitment` | a reveal only inside [min, max]; at most once; a commitment is never both executed and cancelled |
| Keeper (`keeper.rs`) | `KeeperIntent` | submit, execute, cancel, claim expired | as for commit–reveal |
| Relayer registry (`relayer.rs`, `state/relayer.rs`) | registry counters, `Relayer`, stake, `PendingRelay` | register, update, request, complete, withdraw stake | a stake is returned exactly once; the registry totals match the completed relays |
| TEE bridge (`tee-bridge/src/lib.rs`) | staging balances, batches | deposit, commit, settle, withdraw, release | a user never takes out more than they put in |
| TEE relayer (`tee-relayer/src/lib.rs`) | request queue, fee pool | submit, process, fail, withdraw fees | each request is processed at most once |
| Stealth payments (`register.rs`, `view_key.rs`, `send.rs`, `blended_transfer.rs`, `state/announcement*.rs`, `state/registry.rs`) | `StealthRegistry`, `StealthAnnouncement`, `AnnouncementLog` | register, update, view-key set/toggle/revoke/rotate, send, blended transfers, log init/deactivate | every payment is announced; a log never outgrows its account; only the viewer the owner last named can view |
| Denomination registry (`denomination_registry.rs`, `state/privacy_pool.rs`) | `DenominationRegistry`: authority, Vec of enabled denominations, `allow_custom`, min and max | initialize, add, remove, update config, transfer authority | the Vec stays within its allocated capacity; removing a denomination disables it; min ≤ max |
| Proof verification (`zk/*`) | the verification key | `verify_groth16`, `verify_proof_with_sysvar` | abstracted to what each check accepts |

The hard behaviours:

* interleavings of deposits, withdrawals and transfers on one pool;
* the ring buffer wrapping;
* nullifier namespaces differing between paths;
* the boundaries of the timing windows;
* accounting that counts one thing and moves another.

## Modules

### `MerkleTree.tla`

This module holds pure operators over the tree.

* A node value is a term. A leaf holding commitment `c` is `<<c>>`, and
  `merkle_hash_2(l, r)` is the pair `<<l, r>>`. Pairing is injective, which
  stands for Poseidon's collision resistance. The all-zero value
  `[0u8; 32]` is `<<0>>`.
* `ZeroHashes` is `compute_zero_hashes`.
* `InsertFrom`/`ComputeNewRoot` is the loop of `compute_new_root_zc`: one
  recursive call per level, with the same index arithmetic. The index is not
  reduced, so a leaf past capacity behaves as the code does.
* `TreeRoot` is the reference root of the full tree over the leaf slots.
* `LeavesUnder(root)` is the set of commitments that a membership proof
  against `root` can open.

### `PrivacyPool.tla`

This module models one pool of one denomination.

* **Program state.** The `PrivacyPool` fields are variables with the code's
  names. `lamports` is the pool account's balance. `commitment_leaves` is the
  set of `CommitmentLeaf` PDAs. `nullifier_records` is the set of
  `NullifierRecord` PDA seeds. The seeds are the code's seeds, so
  `<<"nullifier", denomination, nh>>` and `<<"nullifier", nh>>` are
  different accounts.
* **History variables.** These are not program state:
  * `slot`: the commitment at each leaf index, as the `CommitmentLeaf`
    accounts record it;
  * `root_log`: every value `merkle_root` has taken;
  * `funded`: the notes whose deposit paid lamports in;
  * `spent`: how often each note was consumed;
  * `payouts`: the amounts recipients received.
* **Actions.** There is one action per instruction, covering the whole
  handler: guards from the `require!`s and constraints, then every write.
  * `PrivateDeposit` (including `insert_commitment_to_tree_zc`)
  * `SimpleDeposit`
  * `UnifiedDeposit`
  * `PrivateWithdraw`
  * `VerifiedWithdraw`
  * `UnifiedWithdraw`
  * `PrivateTransfer` (one root save, two insertions)
  * `ClosePool(a)` and `InitializePool(a)`: the pool's life cycle.
    `pool_open` says whether the pool PDA exists, and `authority` is the
    signer recorded in `PoolConfig`. `close_pool` checks that signer, sets
    the pool's lamports to 0 and zeroes its data, and closes the config.
    The runtime then deletes both accounts, so any signer may call
    `initialize_pool` again and become the new authority. The new pool
    starts with an empty tree and empty stats. The `CommitmentLeaf` and
    `NullifierRecord` PDAs outlive the close, and so do the history
    variables. Every other pool instruction has the guard `pool_open`,
    because its accounts no longer exist while the pool is closed.
* **Proof checks.** A proof check is modelled by what it accepts:
  * `Groth16Accepts(r, nh)`: the note is a leaf under `r`. This assumes the
    Groth16 verifier and the circuit are sound.
  * `OracleAccepts`: TRUE, because `verify_proof_with_sysvar` is called with
    no verifier whitelist. In the production build any Ed25519 key may sign
    the attestation, and the dev build skips the check.
* **Runtime rules.** Two Solana runtime rules are modelled as guards:
  * a transaction may not leave the pool below its rent-exempt minimum
    (`RentOK`);
  * credits may not exceed debits, so a relayer fee above the amount fails.
* **Not modelled state.**
  * The denomination is fixed, so `is_valid_denomination` holds; the
    fee and limits in `PoolConfig` are left out, as no modelled instruction
    reads them.
  * `is_active`, `deposits_paused` and `withdrawals_paused` are set at
    initialisation and never changed by any instruction, so their guards are
    always true.
  * Announcements are write-only records. Each withdrawal uses a fresh
    ephemeral key or stealth address, so their PDA `init`s always succeed.
  * The u64 counters and lamports cannot reach 2^64 within the bounds.

`MCPrivacyPool.tla` restricts `Next` to the paths each run asks about. It
also bounds insertions plus withdrawals by `MaxOps`. That bound restarts with
a new pool. The leaf PDAs, nullifier records and spend history outlive the
close and only ever grow, so the state space stays finite.

### `CommitReveal.tla`

This module extends `PrivacyPool` with the `WithdrawalCommitment` PDAs. It
models the two commit–reveal paths:

* `commit_reveal.rs`: `CommitWithdrawal`, `RevealAndWithdraw`,
  `CancelCommitment` and `CloseCommitment`;
* `unified_privacy.rs`: `UnifiedCommit` and `UnifiedReveal`.

How the code maps to the model:

* **Commitments.** `commitments` is a function from the PDA key
  `<<owner, hash>>` to the account's fields. `init` is insertion into its
  domain, and `close` is removal, after which the PDA can be created again.
* **Hashes.** The commitment hash is abstracted to the note whose nullifier
  hash it binds. A reveal with parameters that do not hash to it fails, so
  it is not enumerated.
* **Time.** The handlers use the clock only as
  `elapsed = now - commit_timestamp`. Each commitment therefore carries its
  age, and `Tick` advances every age by one. An age stops at
  `max_delay + 1`, because every larger elapsed time behaves alike in
  `can_execute`, `is_expired` and `close_commitment`. One hour is
  `SecondsPerHour` ticks. With 2 ticks per hour, one tick is 1800 s, the
  absolute minimum delay. Elapsed times of `min - 1`, `min`, `max` and
  `max + 1` all occur.
* **`RevealAndWithdraw`.** The action is the whole handler. Its payout is a
  `system_program::transfer` out of the pool PDA. The pool PDA is owned by
  the stealth program and holds data, so the System Program refuses the
  debit (`SystemTransferFrom(PoolAccountOwner)` is false). The action can
  therefore never be taken.
* **`UnifiedReveal`.** It uses the pool's stats balance, `is_valid_root`
  and the nullifier seeds `["nullifier", nh]`. These are the same seeds as
  `unified_withdraw`. It pays by direct lamport mutation and caps no fee.
* **Fairness.** Time passes whatever users do, so the clock is weakly fair
  (`WF(Tick)`). No user instruction is assumed to happen.

`MCCommitReveal.tla` bounds pool operations (`MaxOps`) and successful
commits (`MaxCommits`), and restricts `Next` per run.

**Keeper intents.** `CommitReveal.tla` also holds the `KeeperIntent`
PDAs of `keeper.rs`, on the same clock:

* `SubmitKeeperIntent`: `init` of `[SEED, owner, intent_id]`. The window opens
  at least one hour ahead and lasts 1 to 168 hours.
* `ExecuteKeeperIntent`: the whole handler. It creates the nullifier PDA, marks
  the intent executed, and then makes two `system_program::transfer` calls out
  of the pool PDA. The System Program refuses those debits, exactly as in
  `reveal_and_withdraw`, so the action is never enabled. It appears only in the
  `reveal_and_withdraw_dead` run.
* `CancelKeeperIntent` and `ClaimExpiredIntent`: `close = owner` on an
  unexecuted intent, before or after its window.

`CommitmentLifecycle.tla` is the abstract specification of a commitment. A
key is committed once and is then pending. It is then revealed or cancelled,
never both. It may be closed, after which the key can be committed again. A
reveal withdraws its note, and a note is withdrawn at most once, by a reveal
or by a direct withdrawal. Time, lamports and the tree are left out.

`CommitReveal` refines it through `CL == INSTANCE CommitmentLifecycle WITH
...` (`LifecycleRefined`):

* `status` is each live commitment's `executed` and `cancelled` flags read
  as `Revealed`, `Cancelled` or `Pending`;
* `withdrawn` is the set of notes whose nullifier PDA `[SEED, nh]` exists.
  `unified_reveal` and `unified_withdraw` both create that PDA.

Deposits, keeper steps and the clock are stutters of the lifecycle.

### `RelayerRegistry.tla`

This module holds the `RelayerRegistry` PDA, one `Relayer` and one
`RelayerStake` PDA per relayer, and the `PendingRelay` PDAs
`[SEED, user, tx_hash]`.

* **Actions.** `InitializeRelayerRegistry`, `RegisterRelayer` (which stakes),
  `UpdateRelayer`, `RequestRelay`, `CompleteRelay` and `WithdrawRelayerStake`.
* **Time.** Stakes and pending relays carry an age, and `Tick` ages them. An
  age stops once the unstaking period or the expiry no longer changes a
  comparison.
* **Stake lamports.** They are tracked apart from the stake record, because
  the withdrawal moves lamports and writes the record in separate steps.
* **History.** `staked` and `returned` record what each operator put in and
  got back.
* **Liveness.** `StakeWithdrawable`: once a relayer has registered,
  `withdraw_relayer_stake` eventually becomes enabled for it. Only the clock
  is fair, so this holds whatever else anyone does.

### `DenominationRegistry.tla`

This module holds the `DenominationRegistry` PDA as one record variable,
`denom_registry`. `initialized` says whether the account exists.

* **Actions.** There is one action per instruction:
  `InitializeDenominationRegistry`, `AddDenomination`, `RemoveDenomination`,
  `UpdateRegistryConfig` and `TransferRegistryAuthority`. `Authorized` is
  the `UpdateDenominationRegistry` account constraint.
* **The Vec.** `enabled_denominations` is a sequence, because
  `remove_denomination` removes only the first position holding the value
  (`RemoveFirst`).
* **Options.** An absent `Option` argument is `NoArg`. `update_registry_config`
  applies its arguments in order, so a new max is compared with the new min.
* **Composition.** No instruction reads the registry: `initialize_pool`
  checks `is_valid_denomination`, which looks at the defaults only.
  `MCPoolRegistry.tla` therefore interleaves the registry with the pool's
  Groth16 path as independent accounts of one program.

### `TeeBridge.tla` (`programs/tee-bridge`)

This module holds the staging PDAs of each user, with their recorded balance
and their lamports. It also holds the `TeeCommitment` PDAs and the
`CommitmentBatch` PDAs, whose commitments and denominations are sequences.

* **Actions.** There is one action per instruction:
  * `InitializeStaging`
  * `DepositToStaging`
  * `CreatePrivateCommitment`
  * `InitializeBatch`
  * `SettleBatch`
  * `WithdrawFromStaging`
  * `ReleaseSettledFunds`
* **Account constraints.** `StagingAccount` and `BatchAccount` stand for the
  seed constraints of the account structs.
* **Rent.** The runtime's rent rule deletes a staging account that is emptied,
  and it can then be initialised again.
* **History.** `deposited`, `withdrawn`, `released` and `committed_by` are
  history, not program state.

### `TeeRelayer.tla` (`programs/tee-relayer`)

This module holds the `RelayerState` PDA and its lamports, the
`EncryptedRequest` PDAs numbered by `request_counter`, and the
`ProcessedMarker` PDAs.

* **Funding.** `FundRelayer` is a System Program transfer by anyone, which is
  how the operator funds payouts.
* **Deletion and re-initialisation.** `WithdrawFees` may empty the state
  account. The runtime then deletes it, and `Initialize` by any signer
  recreates it with `request_counter = 0`.
* **History.** `payouts` records each payout.
* **Refinement.** `RelayQueue.tla` states what the relayer promises: requests
  enter under fresh ids, and each pending request is resolved once, either
  failed or paid against a nullifier never paid before. `TeeRelayer` maps onto
  it as follows:
  * the queue is the request statuses;
  * the paid set is the set of `ProcessedMarker` PDAs.

  `RelayQueueRefined` checks `RQ!QSpec`.

### `StealthPayments.tla`

This module covers the stealth-payment instructions:

* the `StealthRegistry` with its view key;
* `stealth_send` and `stealth_send_direct` with their `StealthAnnouncement`
  PDAs;
* the blended transfers and the compressed `AnnouncementLog`.

How the code maps to the model:

* **Keys and hashes.** Keys are model values. `Points` pass
  `validate_curve_point`, and `BadPoint` and `ZeroKey` do not. SHA-256
  commitments are injective tuples.
* **Amounts.** They are in units of 10^6 lamports, so every threshold of
  `amount_to_hint` is exact.
* **Events.** `events` is the sequence of emitted `TransferEvent`s. The
  scanner finds blended payments through these events.
* **History.** `received` is what each stealth address was paid. `granted` is
  the holder the owner last named.
* **Dead instructions.** Three paths can never succeed and are left out:
  * `withdraw` in `withdraw.rs`: the program debits a system-owned signer;
  * `withdraw_partial`: same reason;
  * `verified_stealth_send`: its registry seeds `["registry", recipient]`
    differ from those `register` creates.

### MC modules

The `MC*.tla` modules add the bounds (state constraints), the restricted
next-state relations each run uses, and symmetry sets of interchangeable model
values.

## Runs

| Run | cfg | Expect | What it shows |
|---|---|---|---|
| pool_all | `MCPrivacyPool_all.cfg` | pass | All pool instructions interleaved, including `close_pool` and a new `initialize_pool`. `is_valid_root` accepts exactly the roots of the last K+1 root changes (`RootHistoryWindow`). The pool's lamports equal rent + deposited − withdrawn (`LedgerMatchesLamports`). `TypeOK`. |
| pool_groth16 | `MCPrivacyPool_groth16.cfg` (module `MCPoolRegistry`) | pass | `private_deposit` + `verified_withdraw`, across `close_pool` and re-initialisation. The incremental root equals the full-tree root (`MerkleRootMatchesLeaves`). No note is spent twice. Only funded notes are withdrawn. Beside the pool, the denomination registry's Vec stays within `MAX_DENOMINATIONS` (`DRTypeOK`), and every removal disables a denomination (`RemoveDisablesDenomination`): no sequence of adds lets a value in twice. |
| unified_commit_reveal | `MCCommitReveal_unified.cfg` | pass | The unified flow with commit, cancel, close, re-commit and the clock. The reveal window and the expiry meet exactly: a pending commitment past its minimum delay is always either revealable or closable as expired, never both (`RevealWindowMeetsExpiry`). No commitment is both executed and cancelled. No note is spent twice across `unified_withdraw` and `unified_reveal`, even after close and re-commit. Every commitment becomes closable (`CommitmentReclaimable`), and every keeper intent becomes deletable by its owner (`IntentReclaimable`). Both are liveness properties under `WF(Tick)`. The run implements the abstract commitment lifecycle (`LifecycleRefined`). |
| cross_path_double_spend | `MCPrivacyPool_cross_path.cfg` | violation | A note is withdrawn by `verified_withdraw` and again by `unified_withdraw`. |
| unverified_withdraw | `MCCommitReveal_unverified.cfg` | violation | Three paths are enabled: `private_withdraw`, `unified_withdraw` and `unified_reveal`. A note no deposit created is paid out; the shortest trace goes through `private_withdraw`. |
| root_drift | `MCPrivacyPool_root_drift.cfg` | violation | An honest `simple_deposit` followed by `private_deposit`: the simple-deposited note falls out of the root. |
| reveal_and_withdraw_dead | `MCCommitReveal_reveal_dead.cfg` | violation | Inside its window, on a funded pool, `reveal_and_withdraw` is not enabled, and neither is `execute_keeper_intent` (`PayoutProceedsInWindow`). |
| relayer_registry | `RelayerRegistry.cfg` | pass | Two relayers register, update, relay, complete and withdraw stake, interleaved with the clock. A stake account holds what its record says, and each operator gets back exactly what it staked (`StakeAccountMatchesAmount`). The registry totals, the relayers' stats and the completed relays agree (`RelayStatsConsistent`). Under a weakly fair clock, every registered stake eventually becomes withdrawable (`StakeWithdrawable`). |
| tee_bridge | `MCTeeBridge.cfg` | pass | Two users deposit, commit into two batches, settle, withdraw, release, empty and reopen staging. Each batch is a faithful record of the commitments created, and each commitment sits in exactly one slot (`BatchesMatchCommitments`). |
| tee_release_unbacked | `MCTeeBridge_release.cfg` | violation | `release_settled_funds` pays out lamports no settled commitment of the user backs (`ReleaseBackedBySettledCommitments`). The staging PDA is the caller's own (`[staging, user]`), so the lamports are the caller's and no other user loses funds. What the run shows is narrower: a user who committed nothing can release once anyone's batch settles, and `staging.balance` keeps counting the released lamports, so a later `create_private_commitment` passes its balance check with nothing behind it. |
| tee_relayer | `MCTeeRelayer.cfg` | pass | Every relayer instruction, including emptying, deleting and re-initialising the state account. Each nullifier and each request is paid at most once, and each payout leaves its marker (`PaidOnce`). Every step implements the abstract queue of `RelayQueue` (`RelayQueueRefined`). |
| stealth_payments | `MCStealthPayments.cfg` | pass | Every registry, view-key, send, blended-transfer and log instruction. Every lamport paid to a stealth address is announced by an event (`PaymentsAnnounced`). A log's entries fit its account (`LogFitsAccount`). Only the holder the owner last named can view (`ViewAccessGrantedByOwner`). |

The findings in `PROJECT.json` say, for each violation, what the code does
and what the spec or the code's own comments say. Some flaws found while
modelling are recorded as hazards rather than separate runs, with a note on
which run's property covers them:

* `unified_withdraw` and `unified_reveal` never verify a proof;
* `unified_deposit` skips a leaf;
* the tree has no capacity check;
* the fees of `verified_withdraw` and `private_withdraw` are uncapped;
* `private_deposit` books the full denomination but the pool receives
  denomination − fee;
* `unified_reveal` does not cap the relayer fee;
* `update_relayer` can reactivate a relayer whose stake was withdrawn;
* the decoy and denomination-registry flaws listed in the hazards.

### Bounds

* `DEPTH = 2` gives 4 leaves. That is enough for every left/right pattern of
  the insertion loop at two levels, including a right child whose left
  sibling is stored in `filled_subtrees`. The overflow run uses `DEPTH = 1`
  to reach capacity in three steps.
* `K = 2` (`ROOT_HISTORY_SIZE` is 30 in the code). The ring logic does not
  depend on the size. With `MaxOps = 4` there are up to five roots, so the
  ring wraps and evicts.
* `Denomination = 1000` and `FeeBps = 10` keep the code's ratio (0.1% of
  1 SOL), so the fee is 1 lamport unit. `RentMin = 5`.
* 2 to 4 notes. The Groth16 pass run uses 4 notes. With 3 notes the last one
  could never be withdrawn, because of the fee shortfall, and the run would
  deadlock.

The registry in `pool_groth16` is scaled down: two defaults (1 and 10, in
units of 0.1 SOL) against a capacity of three. The code has nine defaults
and a capacity of sixteen; only the default count being below the capacity
matters to the code. Four add/remove arguments are enough to fill the Vec,
then remove and re-add. Two signers let a non-authority try every update.

The commit–reveal runs use `SecondsPerHour = 2`, one owner and delay
arguments {0, 1, 2} hours. These exercise:

* the rejected delay of 0 hours;
* the one valid window of 1–2 h;
* every boundary of that window.

`MaxCommits = 3` allows a commit, a close and a re-commit of the same key.
The unified run uses `unified_deposit` for deposits: it pays the full
denomination, so the stats balance allows two withdrawals of the two notes.
That makes the double spend across paths reachable.

Pool instructions are issued by users, and the code gives no scheduling
guarantee that would justify fairness for them. The only fairness assumed is
that the clock advances.

The relayer registry run uses two relayers, one user and two transaction
hashes, so two relays can be requested and each completed by either relayer.
`UnstakeTicks = ExpiryTicks = 1` reaches both sides of every time comparison.
The fee arguments 50 and 600 bps fall on both sides of `MAX_FEE_BPS`.

The TEE bridge run has two users and four commitments over two batches. That
is enough to bring one batch to `BATCH_THRESHOLD = 3` and settle it while the
other batch stays open. `StagingRent = 1`
lets a withdrawal empty an account, so it is deleted and reopened.

The TEE relayer run has three request ids and two nullifiers, so a nullifier
can be replayed across requests. The fee of 20000 bps exceeds the
denomination. `MaxLamports` bounds funding.

The stealth run has two wallets, one valid point, two addresses, amounts
{0, 1, 100} (below the minimum, at it, and at a hint threshold), one log with
`MaxEntries = 2` (so it fills), and `MaxEvents = 3`.

## Fairness

Only the clock is weakly fair, in `CommitReveal` and in `RelayerRegistry`,
because time passes whatever users do. The other modules check safety only,
so they assume no fairness.
Users, keepers, relayers and operators act when they choose, and the code
gives no guarantee that would justify fairness for them.

## Not modelled

* Poseidon permutation and BN254 field arithmetic (`crypto/poseidon.rs`)
  and Groth16 pairing arithmetic (`zk/groth16.rs`): out of TLC's reach. They
  are abstracted to an injective hash and a sound proof check.
* Confidential transfers and `batch_deposit`: they derive the pool PDA
  without the denomination seed, and no instruction initialises that
  account.
* The CLI: off-chain key storage, RPC and formatting.
* Decoys (`decoy.rs`): bookkeeping that no other instruction reads.
  `record_decoy_deposit` and `record_decoy_withdraw` accept any signer and
  arbitrary amounts, so every property the treasury should keep (balance
  backed by lamports, min ≤ max in its config) is violated in one step. A
  passing run would only check its type. These flaws are listed as hazards.
* Violation runs for the remaining flaws: relayer reactivation with zero
  stake, the deposit fee shortfall, `unified_reveal`'s uncapped fee and the
  denomination registry's min above its max. The project keeps twelve runs,
  and every slot holds a distinct question. These flaws are listed as
  hazards, each with the invariant that would expose it.
* DKSAP key derivation (`crypto/*`, the CLI): elliptic-curve arithmetic. In
  the model a stealth address is any member of `Addresses`.
* A refinement of the pool to an abstract note ledger: the pool breaks that
  ledger on several paths (see the violation runs). The mapping would hold
  only on the `verified_withdraw` path, which `pool_groth16` already checks
  with `NoNoteSpentTwice` and `WithdrawOnlyFundedNotes`.
