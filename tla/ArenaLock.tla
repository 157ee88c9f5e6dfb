------------------------------ MODULE ArenaLock ------------------------------
(***************************************************************************)
(* One arena of the arena-lock-v2 program: its ArenaConfig account, the    *)
(* ArenaPosition account of every owner, the principal vault, the reward   *)
(* pool, the owners' token accounts and the on-chain clock.                *)
(*                                                                         *)
(* Each action is one successful instruction of processor.rs.  A failing   *)
(* instruction is rolled back by the Solana runtime, so an error exit of   *)
(* the code is a guard of the action.  Instructions of different signers   *)
(* interleave freely: the order is whatever the validators choose.         *)
(*                                                                         *)
(* Configs are independent (each has its own vault and pool, owned by its  *)
(* own vault-authority PDA), so one is modelled.  The accounts passed are  *)
(* the ones the PDA, owner and signer checks accept.  last_activity_ts is  *)
(* written but never read, and is left out.                                *)
(***************************************************************************)
EXTENDS RewardIndex, PenaltySplit

CONSTANTS
    Owners,          \* signers that hold a position
    Funders,         \* signers that send rewards; an owner may be one of them
    Policies,        \* parameter records offered to InitializeConfig
    Deposits,        \* amounts offered to Deposit
    Exits,           \* amounts offered to Withdraw
    Fundings,        \* amounts offered to FundRewards and FundRewardsChecked
    Donations,       \* amounts sent to custody outside the program
    Snapshots,       \* <<expected_eligible_locked, max_current_epoch>> of FundRewardsChecked
    InitialWallet,   \* tokens each of them starts with
    I64_MAX          \* i64::MAX, the last representable timestamp

VARIABLES
    policy,     \* the immutable parameters of ArenaConfig
    config,     \* the mutable fields of ArenaConfig
    position,   \* owner -> ArenaPosition
    wallet,     \* user -> balance of the user's token account
    vault,      \* balance of vault_token_account
    pool,       \* balance of reward_pool_token_account
    now,        \* Clock::unix_timestamp, an i64
    stray       \* history: tokens sent to custody outside the program

Users == Owners \cup Funders

vars == <<policy, config, position, wallet, vault, pool, now, stray>>

PolicyType ==
    [min_lock_seconds: Int, activation_delay_seconds: Int, epoch_seconds: Int,
     min_deposit_amount: U64, early_exit_penalty_bps: Nat, burn_penalty_bps: Nat]

ASSUME ArenaAssumption ==
    /\ Policies \subseteq PolicyType
    /\ Deposits \subseteq U64
    /\ Exits \subseteq U64
    /\ Fundings \subseteq U64
    /\ Donations \subseteq U64
    /\ Snapshots \subseteq U64 \X U64
    /\ InitialWallet \in Nat
    /\ I64_MAX \in Nat

-----------------------------------------------------------------------------
(* Accounts before any instruction has touched them: all bytes are zero.   *)

NoPolicy ==
    [min_lock_seconds |-> 0, activation_delay_seconds |-> 0, epoch_seconds |-> 0,
     min_deposit_amount |-> 0, early_exit_penalty_bps |-> 0, burn_penalty_bps |-> 0]

EmptyConfig ==
    [is_initialized |-> FALSE, created_ts |-> 0, last_epoch_ts |-> 0, current_epoch |-> 0,
     total_locked |-> 0, eligible_locked |-> 0, warming_locked |-> 0,
     pending_activation_locked |-> 0, pending_rewards |-> 0, reward_dust |-> 0,
     total_rewards_funded |-> 0, total_rewards_distributed |-> 0,
     total_rewards_claimed |-> 0, total_penalties_collected |-> 0, total_burned |-> 0,
     total_rewards_expired |-> 0, reward_index |-> 0, reward_index_generation |-> 0]

EmptyPosition ==
    [is_initialized |-> FALSE, locked_amount |-> 0, eligible_amount |-> 0,
     pending_activation_amount |-> 0, warming_amount |-> 0, warming_epoch |-> 0,
     total_deposited |-> 0, total_withdrawn |-> 0, total_penalty_paid |-> 0,
     total_burned |-> 0, total_rewards_claimed |-> 0, pending_rewards |-> 0,
     lock_start_ts |-> 0, unlock_ts |-> 0, activation_ts |-> 0,
     reward_index_checkpoint |-> 0, reward_index_generation_checkpoint |-> 0,
     penalty_remainder |-> 0, burn_remainder |-> 0, reward_accrual_remainder |-> 0]

Init ==
    /\ policy = NoPolicy
    /\ config = EmptyConfig
    /\ position = [u \in Owners |-> EmptyPosition]
    /\ wallet = [u \in Users |-> InitialWallet]
    /\ vault = 0
    /\ pool = 0
    /\ now = 0
    /\ stray = [vault |-> 0, pool |-> 0]

-----------------------------------------------------------------------------
(* InitializeConfig. *)

\* Mutant (F-01): requires a lock of one epoch after the activation delay.
assert_lock_policy_OneEpoch(pol) ==
    /\ pol.activation_delay_seconds > 0
    /\ pol.epoch_seconds > 0
    /\ pol.min_lock_seconds >= pol.activation_delay_seconds + pol.epoch_seconds

assert_lock_policy(pol) ==
    LET minimum_lock == pol.activation_delay_seconds + 2 * pol.epoch_seconds
    IN  /\ pol.min_lock_seconds > 0
        /\ pol.activation_delay_seconds > 0
        /\ pol.epoch_seconds > 0
        /\ minimum_lock <= I64_MAX
        /\ pol.min_lock_seconds >= minimum_lock

\* A non-zero rate must charge at least one unit on the smallest deposit.
ChargesMinimumDeposit(pol, bps) ==
    bps > 0 => pol.min_deposit_amount * bps >= BPS_DENOMINATOR

AcceptablePolicy(pol) ==
    /\ assert_lock_policy(pol)
    /\ pol.min_deposit_amount > 0
    /\ pol.early_exit_penalty_bps <= MAX_ARENA_EARLY_EXIT_PENALTY_BPS
    /\ pol.burn_penalty_bps <= pol.early_exit_penalty_bps
    /\ ChargesMinimumDeposit(pol, pol.early_exit_penalty_bps)
    /\ ChargesMinimumDeposit(pol, pol.burn_penalty_bps)

InitializeConfig(pol) ==
    /\ ~config.is_initialized
    /\ AcceptablePolicy(pol)
    /\ policy' = pol
    /\ config' = [EmptyConfig EXCEPT !.is_initialized = TRUE,
                                     !.created_ts = now,
                                     !.last_epoch_ts = now]
    /\ UNCHANGED <<position, wallet, vault, pool, now, stray>>

-----------------------------------------------------------------------------
(* Deposit. *)

NewPosition ==
    [EmptyPosition EXCEPT
        !.is_initialized = TRUE,
        !.lock_start_ts = now,
        !.reward_index_checkpoint = config.reward_index,
        !.reward_index_generation_checkpoint = config.reward_index_generation]

\* Mutant: a top-up leaves the clocks of the open position as they are.
Later_First(t1, t2) == t1

Later(t1, t2) == IF t1 > t2 THEN t1 ELSE t2

\* H1 in the code: a top-up extends the clocks of a live position, never resets them.
DepositedPosition(p, amount) ==
    LET had_locked == p.locked_amount > 0
        min_unlock == now + policy.min_lock_seconds
        min_activation == now + policy.activation_delay_seconds
    IN  [p EXCEPT
            !.locked_amount = @ + amount,
            !.pending_activation_amount = @ + amount,
            !.total_deposited = sat_add_u64(@, amount),
            !.lock_start_ts = IF had_locked THEN @ ELSE now,
            !.unlock_ts = IF had_locked THEN Later(@, min_unlock) ELSE min_unlock,
            !.activation_ts = IF had_locked /\ p.pending_activation_amount > 0
                              THEN Later(@, min_activation) ELSE min_activation]

Deposit(u, amount) ==
    LET old == position[u]
        c == IF old.is_initialized THEN SyncedConfig(config, old) ELSE config
        p == IF old.is_initialized THEN SyncedPosition(config, old) ELSE NewPosition
    IN  /\ config.is_initialized
        /\ amount >= policy.min_deposit_amount
        /\ amount <= wallet[u]
        /\ old.is_initialized => sync_ok(config, old)
        /\ now + policy.min_lock_seconds <= I64_MAX
        /\ p.locked_amount + amount <= U64_MAX
        /\ p.pending_activation_amount + amount <= U64_MAX
        /\ c.total_locked + amount <= U64_MAX
        /\ c.pending_activation_locked + amount <= U64_MAX
        /\ config' = [c EXCEPT !.total_locked = @ + amount,
                               !.pending_activation_locked = @ + amount]
        /\ position' = [position EXCEPT ![u] = DepositedPosition(p, amount)]
        /\ wallet' = [wallet EXCEPT ![u] = @ - amount]
        /\ vault' = vault + amount
        /\ UNCHANGED <<policy, pool, now, stray>>

-----------------------------------------------------------------------------
(* ActivatePosition: a maturity touch, or pending stake starts warming. *)

ActivateSyncOnly(u) ==
    LET old == position[u]
        p == SyncedPosition(config, old)
    IN  /\ old.is_initialized
        /\ sync_ok(config, old)
        /\ p.pending_activation_amount = 0
        /\ p.warming_amount # 0 \/ p.eligible_amount # 0 \/ p.locked_amount # 0
        /\ config' = SyncedConfig(config, old)
        /\ position' = [position EXCEPT ![u] = p]
        /\ UNCHANGED <<policy, wallet, vault, pool, now, stray>>

\* Mutant: activated stake stays pending as well.
WarmedPosition_StillPending(c, p) ==
    [p EXCEPT !.warming_epoch = IF p.warming_amount = 0 THEN c.current_epoch ELSE @,
              !.warming_amount = @ + p.pending_activation_amount]

WarmedPosition(c, p) ==
    [p EXCEPT !.pending_activation_amount = 0,
              !.warming_epoch = IF p.warming_amount = 0 THEN c.current_epoch ELSE @,
              !.warming_amount = @ + p.pending_activation_amount]

ActivatePending(u) ==
    LET old == position[u]
        c == SyncedConfig(config, old)
        p == SyncedPosition(config, old)
        amount == p.pending_activation_amount
    IN  /\ old.is_initialized
        /\ sync_ok(config, old)
        /\ amount > 0
        /\ now >= p.activation_ts
        /\ p.warming_amount + amount <= U64_MAX
        /\ amount <= c.pending_activation_locked
        /\ c.warming_locked + amount <= U64_MAX
        /\ config' = [c EXCEPT !.pending_activation_locked = @ - amount,
                               !.warming_locked = @ + amount]
        /\ position' = [position EXCEPT ![u] = WarmedPosition(c, p)]
        /\ UNCHANGED <<policy, wallet, vault, pool, now, stray>>

ActivatePosition(u) == ActivateSyncOnly(u) \/ ActivatePending(u)

-----------------------------------------------------------------------------
(* FundRewards and FundRewardsChecked: rewards are indexed at funding time. *)

FundRewards(u, amount) ==
    /\ config.is_initialized
    /\ amount <= wallet[u]
    /\ commit_rewards_to_index_ok(config, amount, config.eligible_locked)
    /\ config' = [commit_rewards_to_index(config, amount, config.eligible_locked)
                    EXCEPT !.total_rewards_funded = sat_add_u64(@, amount)]
    /\ wallet' = [wallet EXCEPT ![u] = @ - amount]
    /\ pool' = pool + amount
    /\ UNCHANGED <<policy, position, vault, now, stray>>

\* Mutant: binds the denominator but not the epoch.
FundRewardsChecked_AnyEpoch(u, amount, expected_eligible_locked, max_current_epoch) ==
    /\ config.eligible_locked = expected_eligible_locked
    /\ FundRewards(u, amount)

FundRewardsChecked(u, amount, expected_eligible_locked, max_current_epoch) ==
    /\ config.eligible_locked = expected_eligible_locked
    /\ config.current_epoch <= max_current_epoch
    /\ FundRewards(u, amount)

-----------------------------------------------------------------------------
(* RollEpoch: permissionless; the next epoch is due on the schedule, not    *)
(* one period after the roll, so a late keeper catches up roll by roll.     *)

NextEpochTs == config.last_epoch_ts + policy.epoch_seconds

\* Mutant: a late roll restarts the cadence from now.
RollEpoch_FromNow ==
    /\ config.is_initialized
    /\ now >= NextEpochTs
    /\ config' = [config EXCEPT !.current_epoch = @ + 1, !.last_epoch_ts = now]
    /\ UNCHANGED <<policy, position, wallet, vault, pool, now, stray>>

\* Mutant: refuses to roll while there is nobody to distribute to.
RollEpoch_OnlyWithStake ==
    /\ config.is_initialized
    /\ config.eligible_locked > 0
    /\ now >= NextEpochTs
    /\ config' = [config EXCEPT !.current_epoch = @ + 1, !.last_epoch_ts = NextEpochTs]
    /\ UNCHANGED <<policy, position, wallet, vault, pool, now, stray>>

RollEpoch ==
    /\ config.is_initialized
    /\ NextEpochTs <= I64_MAX
    /\ now >= NextEpochTs
    /\ config.current_epoch < U64_MAX
    /\ config' = [config EXCEPT !.current_epoch = @ + 1, !.last_epoch_ts = NextEpochTs]
    /\ UNCHANGED <<policy, position, wallet, vault, pool, now, stray>>

-----------------------------------------------------------------------------
(* FinalizeRewards: permissionless; an arena without stake burns its pool.  *)

\* Mutant: waits until everything distributed has been claimed.
NoStakeOrDebt_AllClaimed ==
    /\ config.total_locked = 0
    /\ config.total_rewards_claimed = config.total_rewards_distributed

NoStakeOrDebt ==
    /\ config.total_locked = 0
    /\ config.eligible_locked = 0
    /\ config.warming_locked = 0
    /\ config.pending_activation_locked = 0
    /\ config.pending_rewards = 0

\* Mutant: the burned pool is missing from total_burned.
PoolBurnedConfig_Uncounted(c, amount) ==
    [c EXCEPT !.total_rewards_expired = sat_add_u64(@, amount)]

PoolBurnedConfig(c, amount) ==
    [c EXCEPT !.pending_rewards = 0,
              !.reward_dust = 0,
              !.total_rewards_expired = sat_add_u64(@, amount),
              !.total_burned = sat_add_u64(@, amount)]

FinalizeRewards ==
    /\ config.is_initialized
    /\ NoStakeOrDebt
    /\ config' = IF pool = 0 THEN config ELSE PoolBurnedConfig(config, pool)
    /\ pool' = 0
    /\ UNCHANGED <<policy, position, wallet, vault, now, stray>>

-----------------------------------------------------------------------------
(* ClaimRewards. *)

\* Mutant: what was paid stays pending.
PaidPosition_StillPending(p) ==
    [p EXCEPT !.total_rewards_claimed = sat_add_u64(@, p.pending_rewards)]

\* pay_pending_rewards moves the whole pending amount out of the pool.
PaidPosition(p) ==
    [p EXCEPT !.pending_rewards = 0,
              !.total_rewards_claimed = sat_add_u64(@, p.pending_rewards)]

PaidConfig(c, amount) == [c EXCEPT !.total_rewards_claimed = sat_add_u64(@, amount)]

\* Mutant: does not pay out the last token of the pool.
ClaimRewards_KeepsLast(u) ==
    LET old == position[u]
        c == SyncedConfig(config, old)
        p == SyncedPosition(config, old)
    IN  /\ old.is_initialized
        /\ old.locked_amount > 0
        /\ sync_ok(config, old)
        /\ p.pending_rewards > 0 \/ MatureReady(config, old)
        /\ p.pending_rewards < pool
        /\ config' = PaidConfig(c, p.pending_rewards)
        /\ position' = [position EXCEPT ![u] = PaidPosition(p)]
        /\ pool' = pool - p.pending_rewards
        /\ wallet' = [wallet EXCEPT ![u] = @ + p.pending_rewards]
        /\ UNCHANGED <<policy, vault, now, stray>>

\* With nothing to pay the instruction still succeeds if it promoted warming stake.
ClaimRewards(u) ==
    LET old == position[u]
        c == SyncedConfig(config, old)
        p == SyncedPosition(config, old)
        amount == p.pending_rewards
    IN  /\ old.is_initialized
        /\ old.locked_amount > 0
        /\ sync_ok(config, old)
        /\ amount > 0 \/ MatureReady(config, old)
        /\ amount <= pool
        /\ config' = PaidConfig(c, amount)
        /\ position' = [position EXCEPT ![u] = PaidPosition(p)]
        /\ pool' = pool - amount
        /\ wallet' = [wallet EXCEPT ![u] = @ + amount]
        /\ UNCHANGED <<policy, vault, now, stray>>

-----------------------------------------------------------------------------
(* Withdraw. *)

\* Stake leaves the buckets in the order pending, warming, eligible.
PendingReduction(p, amount) == AtMost(amount, p.pending_activation_amount)

WarmingReduction(p, amount) ==
    AtMost(amount - PendingReduction(p, amount), p.warming_amount)

EligibleReduction(p, amount) ==
    amount - PendingReduction(p, amount) - WarmingReduction(p, amount)

reduce_position_stake_ok(c, p, amount) ==
    /\ PendingReduction(p, amount) <= c.pending_activation_locked
    /\ WarmingReduction(p, amount) <= c.warming_locked
    /\ EligibleReduction(p, amount) <= p.eligible_amount
    /\ EligibleReduction(p, amount) <= c.eligible_locked
    /\ amount <= p.locked_amount
    /\ amount <= c.total_locked

\* Mutant: an emptied position keeps its fraction of a reward token.
ReducedPosition_KeepsFraction(p, amount) ==
    [p EXCEPT !.pending_activation_amount = @ - PendingReduction(p, amount),
              !.warming_amount = @ - WarmingReduction(p, amount),
              !.eligible_amount = @ - EligibleReduction(p, amount),
              !.locked_amount = @ - amount]

ReducedPosition(p, amount) ==
    [p EXCEPT !.pending_activation_amount = @ - PendingReduction(p, amount),
              !.warming_amount = @ - WarmingReduction(p, amount),
              !.eligible_amount = @ - EligibleReduction(p, amount),
              !.locked_amount = @ - amount,
              !.reward_accrual_remainder = IF p.locked_amount = amount THEN 0 ELSE @]

\* Mutant: total_locked forgets stake that leaves before it is eligible.
ReducedConfig_EligibleOnly(c, p, amount) ==
    [c EXCEPT !.pending_activation_locked = @ - PendingReduction(p, amount),
              !.warming_locked = @ - WarmingReduction(p, amount),
              !.eligible_locked = @ - EligibleReduction(p, amount),
              !.total_locked = @ - EligibleReduction(p, amount)]

ReducedConfig(c, p, amount) ==
    [c EXCEPT !.pending_activation_locked = @ - PendingReduction(p, amount),
              !.warming_locked = @ - WarmingReduction(p, amount),
              !.eligible_locked = @ - EligibleReduction(p, amount),
              !.total_locked = @ - amount]

\* After unlock there is no penalty and no fraction of one is kept.
ExitPenalty(p, amount) ==
    IF now < p.unlock_ts /\ policy.early_exit_penalty_bps > 0
    THEN penalty_split(amount, policy.early_exit_penalty_bps, policy.burn_penalty_bps,
                       p.penalty_remainder, p.burn_remainder)
    ELSE [reward |-> 0, burn |-> 0, penalty_remainder |-> 0, burn_remainder |-> 0]

\* With no mature stake left to share it, the whole penalty is burned.
ExitSplit(p, amount, eligible_locked_after) ==
    LET split == ExitPenalty(p, amount)
    IN  IF eligible_locked_after = 0
        THEN [split EXCEPT !.burn = @ + split.reward, !.reward = 0]
        ELSE split

Payout(p, amount) == IF amount = p.locked_amount THEN p.pending_rewards ELSE 0

\* Mutant (M-05): checked addition on a lifetime counter.
WithdrawOk_CheckedTelemetry(u, amount) ==
    /\ position[u].is_initialized
    /\ amount \in 1 .. position[u].locked_amount
    /\ position[u].total_withdrawn + amount <= U64_MAX

\* The absence of every error exit of process_withdraw for owner u.
WithdrawOk(u, amount) ==
    LET old == position[u]
        c == SyncedConfig(config, old)
        p == SyncedPosition(config, old)
        after == c.eligible_locked - EligibleReduction(p, amount)
        split == ExitSplit(p, amount, after)
    IN  /\ old.is_initialized
        /\ amount > 0
        /\ amount <= old.locked_amount
        /\ sync_ok(config, old)
        /\ reduce_position_stake_ok(c, p, amount)
        /\ Payout(p, amount) <= pool
        /\ split.reward + split.burn <= amount
        /\ amount <= vault
        /\ try_commit_rewards_to_index_ok(c, split.reward, after)

\* Mutant: the penalty is recorded as returned too.
WithdrawnPosition_WholeReturned(p, amount, split) ==
    LET penalty == split.reward + split.burn
    IN  [p EXCEPT !.penalty_remainder = split.penalty_remainder,
                  !.burn_remainder = split.burn_remainder,
                  !.total_withdrawn = sat_add_u64(@, amount),
                  !.total_penalty_paid = sat_add_u64(@, penalty),
                  !.total_burned = sat_add_u64(@, split.burn)]

WithdrawnPosition(p, amount, split) ==
    LET penalty == split.reward + split.burn
    IN  [p EXCEPT !.penalty_remainder = split.penalty_remainder,
                  !.burn_remainder = split.burn_remainder,
                  !.total_withdrawn = sat_add_u64(@, amount - penalty),
                  !.total_penalty_paid = sat_add_u64(@, penalty),
                  !.total_burned = sat_add_u64(@, split.burn)]

\* Mutant: the redistributed part of the penalty counts as burned.
WithdrawnConfig_WholeBurned(c, split) ==
    [c EXCEPT !.total_penalties_collected = sat_add_u64(@, split.reward + split.burn),
              !.total_burned = sat_add_u64(@, split.reward + split.burn)]

WithdrawnConfig(c, split) ==
    [c EXCEPT !.total_penalties_collected = sat_add_u64(@, split.reward + split.burn),
              !.total_burned = sat_add_u64(@, split.burn)]

\* pay_pending_rewards runs on a full exit only.
Withdraw(u, amount) ==
    LET old == position[u]
        c == SyncedConfig(config, old)
        p == SyncedPosition(config, old)
        after == c.eligible_locked - EligibleReduction(p, amount)
        split == ExitSplit(p, amount, after)
        payout == Payout(p, amount)
        paid == IF amount = p.locked_amount THEN PaidPosition(p) ELSE p
        committed == try_commit_rewards_to_index(PaidConfig(c, payout), split.reward, after)
    IN  /\ WithdrawOk(u, amount)
        /\ config' = WithdrawnConfig(ReducedConfig(committed, p, amount), split)
        /\ position' = [position EXCEPT ![u] =
                            WithdrawnPosition(ReducedPosition(paid, amount), amount, split)]
        /\ vault' = vault - amount
        /\ pool' = pool - payout + split.reward
        /\ wallet' = [wallet EXCEPT ![u] = @ + payout + amount - split.reward - split.burn]
        /\ UNCHANGED <<policy, now, stray>>

-----------------------------------------------------------------------------
(* The environment: anyone may send tokens straight to a custody account,   *)
(* and the clock moves on.                                                  *)

DonateToVault(u, amount) ==
    /\ amount <= wallet[u]
    /\ wallet' = [wallet EXCEPT ![u] = @ - amount]
    /\ vault' = vault + amount
    /\ stray' = [stray EXCEPT !.vault = @ + amount]
    /\ UNCHANGED <<policy, config, position, pool, now>>

DonateToPool(u, amount) ==
    /\ amount <= wallet[u]
    /\ wallet' = [wallet EXCEPT ![u] = @ - amount]
    /\ pool' = pool + amount
    /\ stray' = [stray EXCEPT !.pool = @ + amount]
    /\ UNCHANGED <<policy, config, position, vault, now>>

Tick ==
    /\ now < I64_MAX
    /\ now' = now + 1
    /\ UNCHANGED <<policy, config, position, wallet, vault, pool, stray>>

-----------------------------------------------------------------------------
OwnerStep(u) ==
    \/ ActivatePosition(u)
    \/ ClaimRewards(u)
    \/ \E amount \in Deposits : Deposit(u, amount)
    \/ \E amount \in Exits : Withdraw(u, amount)

FunderStep(u) ==
    \E amount \in Fundings :
        \/ FundRewards(u, amount)
        \/ \E s \in Snapshots : FundRewardsChecked(u, amount, s[1], s[2])

DonorStep(u) == \E amount \in Donations : DonateToVault(u, amount) \/ DonateToPool(u, amount)

Next ==
    \/ \E pol \in Policies : InitializeConfig(pol)
    \/ \E u \in Owners : OwnerStep(u)
    \/ \E u \in Funders : FunderStep(u) \/ DonorStep(u)
    \/ RollEpoch
    \/ FinalizeRewards
    \/ Tick

Spec == Init /\ [][Next]_vars
=============================================================================
