----------------------------- MODULE ArenaSafety -----------------------------
(***************************************************************************)
(* What one arena promises its stakers, in every interleaving of the       *)
(* instructions of ArenaLock.                                              *)
(***************************************************************************)
EXTENDS ArenaLock, Totals

\* The half of an i64 that a clock which starts at zero can reach.
Timestamp == 0 .. I64_MAX

ConfigType ==
    [is_initialized: BOOLEAN, created_ts: Timestamp, last_epoch_ts: Timestamp,
     current_epoch: U64, total_locked: U64, eligible_locked: U64, warming_locked: U64,
     pending_activation_locked: U64, pending_rewards: U64, reward_dust: U64,
     total_rewards_funded: U64, total_rewards_distributed: U64,
     total_rewards_claimed: U64, total_penalties_collected: U64, total_burned: U64,
     total_rewards_expired: U64, reward_index: U128, reward_index_generation: U64]

PositionType ==
    [is_initialized: BOOLEAN, locked_amount: U64, eligible_amount: U64,
     pending_activation_amount: U64, warming_amount: U64, warming_epoch: U64,
     total_deposited: U64, total_withdrawn: U64, total_penalty_paid: U64,
     total_burned: U64, total_rewards_claimed: U64, pending_rewards: U64,
     lock_start_ts: Timestamp, unlock_ts: Timestamp, activation_ts: Timestamp,
     reward_index_checkpoint: U128, reward_index_generation_checkpoint: U64,
     penalty_remainder: 0 .. BPS_DENOMINATOR - 1, burn_remainder: 0 .. BPS_DENOMINATOR - 1,
     reward_accrual_remainder: 0 .. REWARD_INDEX_SCALE - 1]

\* Every account field stays within the width state.rs gives it, the i64
\* timestamps included (a deposit's and a roll's additions are checked), a
\* carried fraction stays below one unit, and no balance goes negative.
TypeOK ==
    /\ policy \in {NoPolicy} \cup Policies
    /\ config \in ConfigType
    /\ position \in [Owners -> PositionType]
    /\ wallet \in [Users -> Nat]
    /\ vault \in Nat
    /\ pool \in Nat
    /\ now \in Timestamp
    /\ stray \in [vault: Nat, pool: Nat]

ASSUME OwnersAssumption == IsFiniteSet(Owners)

SumOverOwners(f) == SumOver(Owners, f)

\* All tokens that can get into the arena.
Supply == SumOver(Users, [u \in Users |-> InitialWallet])

\* The token program keeps the supply of a mint in a u64, and custody accepts
\* only mints of which no more can be minted (mint_decimals).
ASSUME SupplyAssumption == IsFiniteSet(Funders) /\ Supply <= U64_MAX

-----------------------------------------------------------------------------
(* Where the stake is. *)

PositionBuckets(p) ==
    p.locked_amount = p.pending_activation_amount + p.warming_amount + p.eligible_amount

ConfigBuckets(c) ==
    c.total_locked = c.pending_activation_locked + c.warming_locked + c.eligible_locked

\* Every locked unit is in exactly one of the pending, warming and eligible
\* buckets, for each position (deposit, activation, maturity and the
\* three-way reduction of reduce_position_stake) and for the config totals.
StakeBuckets == (\A u \in Owners : PositionBuckets(position[u])) /\ ConfigBuckets(config)

\* The config totals, adjusted incrementally by whichever position is touched,
\* are the sums of the buckets of all positions.  The reward denominator
\* (eligible_locked) and the finalization guard rely on it.
TotalsAreSums ==
    /\ config.pending_activation_locked
          = SumOverOwners([u \in Owners |-> position[u].pending_activation_amount])
    /\ config.warming_locked = SumOverOwners([u \in Owners |-> position[u].warming_amount])
    /\ config.eligible_locked = SumOverOwners([u \in Owners |-> position[u].eligible_amount])

\* The vault holds exactly the principal of the open positions, plus what was
\* sent to it from outside: rewards and penalties never eat principal.
VaultBacksPrincipal == vault = config.total_locked + stray.vault

\* No instruction makes tokens or loses them: what is not in somebody's account
\* or in custody was burned, and total_burned (penalties of all exits, and pools
\* burned at finalization) says how much.  It counts up to the supply at most,
\* so that it is exact although it saturates.
TokensConserved ==
    SumOver(Users, wallet) + vault + pool + config.total_burned = Supply

-----------------------------------------------------------------------------
(* What the rewards are worth. *)

\* The index as one number, its u128 wraps unrolled.
Unwrapped(generation, index) == generation * (U128_MAX + 1) + index

\* What the arena owes a position, in units of 1/REWARD_INDEX_SCALE, whether
\* or not the position has been touched since the rewards arrived.
OwedScaled(c, p) ==
    p.pending_rewards * REWARD_INDEX_SCALE + p.reward_accrual_remainder
    + p.eligible_amount
      * ( Unwrapped(c.reward_index_generation, c.reward_index)
          - Unwrapped(p.reward_index_generation_checkpoint, p.reward_index_checkpoint) )

\* The reward pool covers everything owed to all positions together, rounding
\* included: no order of claims and exits leaves the last one unpaid.
Solvent ==
    SumOverOwners([u \in Owners |-> OwedScaled(config, position[u])])
       <= pool * REWARD_INDEX_SCALE

\* Whatever happened before, an owner can take out any part of the locked
\* stake now: no error exit of process_withdraw (overflow, bucket underflow,
\* unpaid rewards, short vault) can trap principal.
ExitNeverTrapped ==
    \A u \in Owners : \A amount \in 1 .. position[u].locked_amount : WithdrawOk(u, amount)

\* How far the index has moved since the position was last settled.
IndexDistance(u) ==
    Unwrapped(config.reward_index_generation, config.reward_index)
    - Unwrapped(position[u].reward_index_generation_checkpoint,
                position[u].reward_index_checkpoint)

\* If the index can wrap, an exit fails only for a position that sat untouched,
\* without eligible stake, while the index moved through more than its whole
\* range (the residual disclosed as M-04).  Stake that earns is never trapped:
\* what it earned is backed by the pool, which bounds how far the index moved.
\* (In the last generation of all, the index cannot take another wrap either.)
TrappedOnlyWhileIdle ==
    config.reward_index_generation < U64_MAX =>
        \A u \in Owners : \A amount \in 1 .. position[u].locked_amount :
            ~WithdrawOk(u, amount) =>
                position[u].eligible_amount = 0 /\ IndexDistance(u) > U128_MAX

\* How much "enormous backed reward funding" (M-04 in the docs) is: the index
\* does not wrap before u64::MAX reward tokens have gone through it.  Penalties,
\* batches over the least stake and dust included, no sequence of calls moves it
\* faster than one scale per token.
WrapTakesAllRewards ==
    config.reward_index_generation > 0 => config.total_rewards_distributed = U64_MAX

\* A position without stake is owed nothing, not even a fraction, so a pool
\* burned by FinalizeRewards or earned by later stakers was never its own.
FullExitLeavesNoDebt ==
    \A u \in Owners :
        position[u].locked_amount = 0 => OwedScaled(config, position[u]) = 0

\* Every token that entered the pool (funding, redistributed penalties, direct
\* transfers) is still there, was claimed, or was burned at finalization.  The
\* counters tell as long as none of them has stopped at u64::MAX (M-05).
RewardsConserved ==
    /\ config.total_rewards_funded < U64_MAX
    /\ config.total_rewards_claimed < U64_MAX
    /\ config.total_penalties_collected < U64_MAX
    /\ config.total_burned < U64_MAX
    => pool + config.total_rewards_claimed + config.total_rewards_expired
          = config.total_rewards_funded + stray.pool
            + config.total_penalties_collected
            - (config.total_burned - config.total_rewards_expired)

-----------------------------------------------------------------------------
(* What the counters say. *)

\* What an owner deposited is still locked, was returned or was forfeited, and
\* the config counters are the sums of what the positions recorded.  A counter
\* that has reached u64::MAX stays there (M-05 in the code) and says "at least".
LedgersAgree ==
    /\ \A u \in Owners :
          position[u].total_deposited < U64_MAX =>
              position[u].total_deposited = position[u].locked_amount
                                            + position[u].total_withdrawn
                                            + position[u].total_penalty_paid
    /\ config.total_penalties_collected
          = AtMost(U64_MAX, SumOverOwners([u \in Owners |-> position[u].total_penalty_paid]))
    /\ config.total_burned
          = AtMost(U64_MAX, SumOverOwners([u \in Owners |-> position[u].total_burned])
                            + config.total_rewards_expired)
    /\ config.total_rewards_claimed
          = AtMost(U64_MAX, SumOverOwners([u \in Owners |-> position[u].total_rewards_claimed]))

\* Epoch n ends epoch_seconds * n after creation however late the rolls come,
\* and never before: late keepers do not shift the schedule.
EpochsKeepSchedule ==
    config.is_initialized =>
        /\ config.last_epoch_ts
              = config.created_ts + policy.epoch_seconds * config.current_epoch
        /\ config.last_epoch_ts <= now

-----------------------------------------------------------------------------
(* What a step may never do. *)

LockKept(p, q) ==
    /\ p.locked_amount > 0 /\ q.locked_amount > 0 => q.unlock_ts >= p.unlock_ts
    /\ q.locked_amount > p.locked_amount => q.unlock_ts >= now + policy.min_lock_seconds

\* Locked stake stays locked at least as long as promised: no top-up, claim,
\* activation or partial exit of an open position shortens its lock, and
\* stake that grows is locked for min_lock_seconds from that moment.
LockNeverShortens == [][\A u \in Owners : LockKept(position[u], position'[u])]_vars

WaitsAnEpoch(p, q) ==
    /\ q.warming_amount > p.warming_amount => q.warming_epoch = config.current_epoch
    /\ q.eligible_amount > p.eligible_amount => p.warming_epoch < config.current_epoch

\* Stake that enters warming waits for an epoch that has not ended yet, and
\* stake becomes eligible only after such a wait: neither a top-up nor merged
\* warming bags let fresh stake inherit an older epoch (H-02 in the code).
FreshStakeWaitsAnEpoch == [][\A u \in Owners : WaitsAnEpoch(position[u], position'[u])]_vars

-----------------------------------------------------------------------------
(* The lock policy is about prompt owners and keepers: no second passes     *)
(* while an activation, a roll or a maturity touch is due.                  *)

ActivationDue(u) ==
    position[u].pending_activation_amount > 0 /\ now >= position[u].activation_ts

RollDue == config.is_initialized /\ now >= NextEpochTs

NothingDue ==
    /\ ~RollDue
    /\ \A u \in Owners : ~ActivationDue(u) /\ ~MatureReady(config, position[u])

Promptly == now' > now => NothingDue

PromptSpec == Init /\ [][Next /\ Promptly]_vars

\* Stake that becomes eligible is still exposed to the early-exit penalty for
\* one whole epoch (F-01 in the docs, assert_lock_policy in the code), if owners
\* and keepers are prompt.
ExposedForAnEpoch ==
    [][\A u \in Owners :
          position'[u].eligible_amount > position[u].eligible_amount
              => now + policy.epoch_seconds <= position[u].unlock_ts]_vars

\* "This prevents a short lock from expiring during warming": stake that waits
\* for the end of its warming epoch is still locked.  Holds of prompt owners;
\* late ones can activate at any time.
LockOutlastsWarming ==
    \A u \in Owners :
        position[u].warming_amount > 0 /\ ~MatureReady(config, position[u])
            => now < position[u].unlock_ts

-----------------------------------------------------------------------------
(* The lazy accounting implements the immediate one. *)

Shares == INSTANCE RewardShares WITH
    Unit <- REWARD_INDEX_SCALE,
    Amount <- U64,
    stake <- [u \in Owners |-> position[u].eligible_amount],
    credit <- [u \in Owners |-> OwedScaled(config, position[u])]

\* Settling through an index at the next touch gives every owner, to the last
\* fraction, what splitting each batch at once among the eligible stake would
\* have given, whatever the order of funding, penalties, claims and exits.
LazyAccountingIsExact == Shares!Spec
=============================================================================
