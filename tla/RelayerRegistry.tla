--------------------------- MODULE RelayerRegistry ---------------------------
(***************************************************************************)
(* The fee-relayer registry of the stealth program                        *)
(* (instructions/relayer.rs, state/relayer.rs): the RelayerRegistry PDA,  *)
(* one Relayer and one RelayerStake PDA per relayer pubkey, and the       *)
(* PendingRelay PDAs [SEED, user, tx_hash].  Each action is one           *)
(* instruction; a failed require! or constraint is a stutter.             *)
(*                                                                         *)
(* Time.  The handlers compare clock.unix_timestamp with staked_at +      *)
(* UNSTAKE_PERIOD and with expires_at = requested_at + 300.  A stake and  *)
(* a pending relay carry their age instead; Tick ages both, a stake up to *)
(* the unstaking period and a pending relay up to one tick past expiry,   *)
(* beyond which the comparisons no longer change.  Operators are         *)
(* abstracted to the relayer they registered: the Unauthorized           *)
(* constraints only pick whose instruction it is.                         *)
(***************************************************************************)
EXTENDS Naturals, FiniteSets, FiniteSetsExt, Functions, TLC

CONSTANTS
    Relayers,        \* relayer pubkeys (model values)
    Users,           \* users requesting relays (model values)
    TxHashes,        \* tx_hash arguments of request_relay
    LamportsPerSol,  \* 1 SOL in model lamports
    FeeBpsArgs,      \* fee_bps arguments (u16)
    MinFeeArgs,      \* min_fee arguments
    MaxFeeArgs,      \* max_fee arguments (0: no maximum)
    MaskArgs,        \* supported_denominations arguments (u8 bitmask)
    StakeArgs,       \* stake_amount arguments
    DenomArgs,       \* denomination arguments of request_relay, in SOL
    UnstakeTicks,    \* UNSTAKE_PERIOD (7 days) in ticks
    ExpiryTicks,     \* PendingRelay::DEFAULT_EXPIRY_SECONDS (300 s) in ticks
    None             \* an absent Option argument of update_relayer

ASSUME /\ LamportsPerSol \in Nat \ {0}
       /\ UnstakeTicks \in Nat \ {0} /\ ExpiryTicks \in Nat \ {0}
       /\ MaskArgs \subseteq 0..255

VARIABLES
    registry,        \* the RelayerRegistry account, once initialised
    relayers,        \* relayers[r]: the Relayer PDA [SEED, r]
    stakes,          \* stakes[r]: the RelayerStake PDA [SEED, r]
    stake_lamports,  \* lamports of each stake account above its rent
    pendings,        \* pendings[<<u, tx>>]: the PendingRelay PDA
    staked,          \* history: lamports each operator put into its stake
    returned         \* history: lamports each operator got back

rvars == <<registry, relayers, stakes, stake_lamports, pendings, staked,
           returned>>

-----------------------------------------------------------------------------
(* Relayer helpers *)

\* Relayer::MAX_FEE_BPS (5%) and RelayerRegistry::DEFAULT_MIN_STAKE (1 SOL).
MaxFeeBps == 500
DefaultMinStake == LamportsPerSol

\* The bit of a denomination in supported_denominations: 1, 10, 100 SOL.
DenomBit == (1 :> 0) @@ (10 :> 1) @@ (100 :> 2)

\* supports_denomination: a known denomination whose bit is set.
SupportsDenomination(rel, d) ==
    d \in DOMAIN DenomBit /\ (rel.mask \div 2 ^ DenomBit[d]) % 2 = 1

\* calculate_fee: amount * fee_bps / 10000 raised to min_fee, then capped
\* at max_fee when max_fee is non-zero.
CalculateFee(rel, amount) ==
    LET pct == (amount * rel.fee_bps) \div 10000
        fee == IF pct >= rel.min_fee THEN pct ELSE rel.min_fee
    IN  IF rel.max_fee > 0 /\ fee > rel.max_fee THEN rel.max_fee ELSE fee

\* Option<T>: the new value if Some, the old one if None.
OrElse(opt, old) == IF opt = None THEN old ELSE opt

\* A function extended with one new key.
Extend(f, k, v) == f @@ (k :> v)

-----------------------------------------------------------------------------
(* Instructions *)

RInit ==
    /\ registry = [initialized |-> FALSE, relayer_count |-> 0,
                   active_count |-> 0, total_transactions |-> 0,
                   total_fees_paid |-> 0, min_stake |-> 0]
    /\ relayers = [r \in {} |-> 0]
    /\ stakes = [r \in {} |-> 0]
    /\ stake_lamports = [r \in {} |-> 0]
    /\ pendings = [k \in {} |-> 0]
    /\ staked = [r \in Relayers |-> 0]
    /\ returned = [r \in Relayers |-> 0]

\* initialize_relayer_registry: the `init` of the singleton PDA; counters
\* zero, min_stake the default, registrations open.
InitializeRelayerRegistry ==
    /\ ~registry.initialized
    /\ registry' = [initialized |-> TRUE, relayer_count |-> 0,
                    active_count |-> 0, total_transactions |-> 0,
                    total_fees_paid |-> 0, min_stake |-> DefaultMinStake]
    /\ UNCHANGED <<relayers, stakes, stake_lamports, pendings, staked,
                   returned>>

\* register_relayer: the Relayer and RelayerStake PDAs of pubkey r are
\* created by `init`; fee_bps at most 5%, the stake at least min_stake and
\* transferred from the operator; the relayer starts active with
\* reputation 50, and both registry counters grow.
RegisterRelayer(r, feeBps, minFee, maxFee, mask, amount) ==
    /\ registry.initialized
    /\ r \notin DOMAIN relayers
    /\ feeBps <= MaxFeeBps
    /\ amount >= registry.min_stake
    /\ relayers' = Extend(relayers, r,
                     [fee_bps |-> feeBps, min_fee |-> minFee,
                      max_fee |-> maxFee, tx_count |-> 0, total_earned |-> 0,
                      is_active |-> TRUE, mask |-> mask, reputation |-> 50])
    /\ stakes' = Extend(stakes, r, [amount |-> amount, age |-> 0])
    /\ stake_lamports' = Extend(stake_lamports, r, amount)
    /\ staked' = [staked EXCEPT ![r] = @ + amount]
    /\ registry' = [registry EXCEPT !.relayer_count = @ + 1,
                                    !.active_count = @ + 1]
    /\ UNCHANGED <<pendings, returned>>

\* update_relayer by the operator: each Some field is written; a new
\* fee_bps must be at most 5%.  is_active is written without touching the
\* registry's active_count.
UpdateRelayer(r, feeBps, minFee, maxFee, mask, active) ==
    /\ r \in DOMAIN relayers
    /\ feeBps # None => feeBps <= MaxFeeBps
    /\ relayers' = [relayers EXCEPT ![r] =
                      [@ EXCEPT !.fee_bps = OrElse(feeBps, @),
                                !.min_fee = OrElse(minFee, @),
                                !.max_fee = OrElse(maxFee, @),
                                !.mask = OrElse(mask, @),
                                !.is_active = OrElse(active, @)]]
    /\ UNCHANGED <<registry, stakes, stake_lamports, pendings, staked,
                   returned>>

\* request_relay: the relayer is active and supports the denomination;
\* the PendingRelay PDA [SEED, user, tx_hash] is created by `init` with the
\* fee calculate_fee gives.
RequestRelay(u, tx, r, d) ==
    /\ r \in DOMAIN relayers
    /\ relayers[r].is_active
    /\ <<u, tx>> \notin DOMAIN pendings
    /\ SupportsDenomination(relayers[r], d)
    /\ pendings' = Extend(pendings, <<u, tx>>,
                     [relayer |-> r, denom |-> d, age |-> 0, completed |-> FALSE,
                      fee |-> CalculateFee(relayers[r], d * LamportsPerSol)])
    /\ UNCHANGED <<registry, relayers, stakes, stake_lamports, staked,
                   returned>>

\* complete_relay without the !pending.completed constraint.
CompleteRelayAgain(r, u, tx) ==
    LET k == <<u, tx>> IN
    /\ registry.initialized
    /\ r \in DOMAIN relayers /\ k \in DOMAIN pendings
    /\ pendings[k].relayer = r
    /\ pendings[k].age <= ExpiryTicks
    /\ pendings' = [pendings EXCEPT ![k].completed = TRUE]
    /\ relayers' = [relayers EXCEPT ![r] =
                      [@ EXCEPT !.tx_count = @ + 1,
                                !.total_earned = @ + pendings[k].fee,
                                !.reputation = IF @ < 100 THEN @ + 1 ELSE @]]
    /\ registry' = [registry EXCEPT !.total_transactions = @ + 1,
                                    !.total_fees_paid = @ + pendings[k].fee]
    /\ UNCHANGED <<stakes, stake_lamports, staked, returned>>

\* complete_relay by the relayer the request named: the pending relay is
\* not completed and not expired (now <= expires_at); it is marked
\* completed and its fee is added to the relayer's and the registry's
\* stats; reputation grows by one up to 100.  No lamports move.
CompleteRelay(r, u, tx) ==
    LET k == <<u, tx>> IN
    /\ registry.initialized
    /\ r \in DOMAIN relayers /\ k \in DOMAIN pendings
    /\ pendings[k].relayer = r
    /\ ~pendings[k].completed
    /\ pendings[k].age <= ExpiryTicks
    /\ pendings' = [pendings EXCEPT ![k].completed = TRUE]
    /\ relayers' = [relayers EXCEPT ![r] =
                      [@ EXCEPT !.tx_count = @ + 1,
                                !.total_earned = @ + pendings[k].fee,
                                !.reputation = IF @ < 100 THEN @ + 1 ELSE @]]
    /\ registry' = [registry EXCEPT !.total_transactions = @ + 1,
                                    !.total_fees_paid = @ + pendings[k].fee]
    /\ UNCHANGED <<stakes, stake_lamports, staked, returned>>

\* withdraw_relayer_stake clearing stake.amount before reading it.
WithdrawRelayerStakeZeroFirst(r) ==
    /\ registry.initialized
    /\ r \in DOMAIN relayers
    /\ stakes[r].age >= UnstakeTicks
    /\ stakes' = [stakes EXCEPT ![r].amount = 0]
    /\ relayers' = [relayers EXCEPT ![r].is_active = FALSE]
    /\ registry' = [registry EXCEPT !.active_count =
                                       IF @ > 0 THEN @ - 1 ELSE @]
    /\ UNCHANGED <<stake_lamports, pendings, staked, returned>>

\* withdraw_relayer_stake closing the stake account to the operator
\* instead of clearing its amount.
WithdrawRelayerStakeClose(r) ==
    /\ registry.initialized
    /\ r \in DOMAIN relayers
    /\ stakes[r].age >= UnstakeTicks
    /\ returned' = [returned EXCEPT ![r] = @ + stake_lamports[r]]
    /\ stakes' = Restrict(stakes, DOMAIN stakes \ {r})
    /\ stake_lamports' = Restrict(stake_lamports, DOMAIN stake_lamports \ {r})
    /\ relayers' = [relayers EXCEPT ![r].is_active = FALSE]
    /\ registry' = [registry EXCEPT !.active_count =
                                       IF @ > 0 THEN @ - 1 ELSE @]
    /\ UNCHANGED <<pendings, staked>>

\* withdraw_relayer_stake restricted to relayers still active.
WithdrawRelayerStakeActiveOnly(r) ==
    LET amt == stakes[r].amount IN
    /\ registry.initialized
    /\ r \in DOMAIN relayers
    /\ relayers[r].is_active
    /\ stakes[r].age >= UnstakeTicks
    /\ stake_lamports[r] >= amt
    /\ stake_lamports' = [stake_lamports EXCEPT ![r] = @ - amt]
    /\ returned' = [returned EXCEPT ![r] = @ + amt]
    /\ stakes' = [stakes EXCEPT ![r].amount = 0]
    /\ relayers' = [relayers EXCEPT ![r].is_active = FALSE]
    /\ registry' = [registry EXCEPT !.active_count =
                                       IF @ > 0 THEN @ - 1 ELSE @]
    /\ UNCHANGED <<pendings, staked>>

\* withdraw_relayer_stake by the operator: pending_slash is zero (no
\* instruction sets it) and the unstaking period has passed; stake.amount
\* lamports go from the stake account to the operator, the amount is
\* cleared, the relayer deactivated and active_count decremented if
\* positive.  Nothing stops a second call.
WithdrawRelayerStake(r) ==
    LET amt == stakes[r].amount IN
    /\ registry.initialized
    /\ r \in DOMAIN relayers
    /\ stakes[r].age >= UnstakeTicks
    /\ stake_lamports[r] >= amt
    /\ stake_lamports' = [stake_lamports EXCEPT ![r] = @ - amt]
    /\ returned' = [returned EXCEPT ![r] = @ + amt]
    /\ stakes' = [stakes EXCEPT ![r].amount = 0]
    /\ relayers' = [relayers EXCEPT ![r].is_active = FALSE]
    /\ registry' = [registry EXCEPT !.active_count =
                                       IF @ > 0 THEN @ - 1 ELSE @]
    /\ UNCHANGED <<pendings, staked>>

\* The clock advances: stakes age up to the unstaking period, pending
\* relays up to one tick past expiry.
Tick ==
    /\ stakes' = [r \in DOMAIN stakes |->
                    [stakes[r] EXCEPT !.age =
                       IF @ < UnstakeTicks THEN @ + 1 ELSE @]]
    /\ pendings' = [k \in DOMAIN pendings |->
                      [pendings[k] EXCEPT !.age =
                         IF @ <= ExpiryTicks THEN @ + 1 ELSE @]]
    /\ UNCHANGED <<registry, relayers, stake_lamports, staked, returned>>

-----------------------------------------------------------------------------
\* Arguments of register_relayer and update_relayer.
RegisterArgs == Relayers \X FeeBpsArgs \X MinFeeArgs \X MaxFeeArgs
                    \X MaskArgs \X StakeArgs
UpdateArgs == Relayers \X (FeeBpsArgs \cup {None}) \X (MinFeeArgs \cup {None})
                  \X (MaxFeeArgs \cup {None}) \X (MaskArgs \cup {None})
                  \X (BOOLEAN \cup {None})

RNext ==
    \/ InitializeRelayerRegistry
    \/ \E a \in RegisterArgs : RegisterRelayer(a[1], a[2], a[3], a[4], a[5], a[6])
    \/ \E a \in UpdateArgs : UpdateRelayer(a[1], a[2], a[3], a[4], a[5], a[6])
    \/ \E u \in Users, tx \in TxHashes, r \in Relayers, d \in DenomArgs :
           RequestRelay(u, tx, r, d)
    \/ \E r \in Relayers, u \in Users, tx \in TxHashes : CompleteRelay(r, u, tx)
    \/ \E r \in Relayers : WithdrawRelayerStake(r)
    \/ Tick

\* The clock is weakly fair: time passes whatever operators and users do.
RSpec == RInit /\ [][RNext]_rvars /\ WF_rvars(Tick)

-----------------------------------------------------------------------------
(* Properties *)

\* The type of every variable.
RTypeOK ==
    /\ registry \in [initialized : BOOLEAN, relayer_count : Nat,
                     active_count : Nat, total_transactions : Nat,
                     total_fees_paid : Nat, min_stake : Nat]
    /\ DOMAIN relayers \subseteq Relayers
    /\ DOMAIN stakes = DOMAIN relayers
    /\ DOMAIN stake_lamports = DOMAIN relayers
    /\ \A r \in DOMAIN relayers :
          /\ relayers[r].is_active \in BOOLEAN
          /\ relayers[r].reputation \in 0..100
          /\ stakes[r] \in [amount : Nat, age : 0..UnstakeTicks]
          /\ stake_lamports[r] \in Nat
    /\ DOMAIN pendings \subseteq Users \X TxHashes
    /\ \A k \in DOMAIN pendings :
          pendings[k] \in [relayer : DOMAIN relayers, denom : DenomArgs,
                           age : 0..ExpiryTicks + 1, completed : BOOLEAN,
                           fee : Nat]
    /\ staked \in [Relayers -> Nat] /\ returned \in [Relayers -> Nat]

\* A stake account holds exactly the amount its record shows, and what an
\* operator staked is what it got back plus what is still staked: a
\* withdrawal, repeated or not, never returns more or less than was put in.
StakeAccountMatchesAmount ==
    \A r \in DOMAIN stakes :
        /\ stake_lamports[r] = stakes[r].amount
        /\ staked[r] = returned[r] + stake_lamports[r]

\* Once a relayer has registered, withdraw_relayer_stake eventually
\* becomes possible for its operator without any further step of its own:
\* the unstaking period runs out and nothing another operator, a user or
\* the operator itself does (update_relayer, request_relay, complete_relay)
\* can lock the stake in for ever.
StakeWithdrawable ==
    \A r \in Relayers :
        r \in DOMAIN stakes ~> ENABLED WithdrawRelayerStake(r)

\* The completed pending relays, and their fees.
Completed == {k \in DOMAIN pendings : pendings[k].completed}

\* The registry's totals, the sum of the relayers' stats and the completed
\* pending relays agree: each relay is counted, and its fee paid into the
\* stats, exactly once, whichever relayer completes it and when.
RelayStatsConsistent ==
    /\ registry.total_transactions = Cardinality(Completed)
    /\ registry.total_transactions =
           SumFunction([r \in DOMAIN relayers |-> relayers[r].tx_count])
    /\ registry.total_fees_paid =
           SumFunction([r \in DOMAIN relayers |-> relayers[r].total_earned])
    /\ registry.total_fees_paid = MapThenSumSet(LAMBDA k : pendings[k].fee, Completed)
=============================================================================
