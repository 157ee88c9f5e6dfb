--------------------------- MODULE ArenaLockProofs ---------------------------
(***************************************************************************)
(* Theorems about one arena, for every set of owners and policies, every    *)
(* amount and every account width: types, stake accounting, the vault, the  *)
(* epoch schedule, the two promises about the lock and the warming wait,    *)
(* and, for prompt owners and keepers, what the lock policy is for.         *)
(*                                                                         *)
(* The argument: every staker instruction works on a settled config and     *)
(* position (Settled), ends in a staker step (StakerStep), and a staker     *)
(* step preserves IInv and both promises (StakerStepSafe).  Under a prompt  *)
(* schedule the lock of stake that waits outlasts its wait (PromptInv).     *)
(***************************************************************************)
EXTENDS ArenaSafety, TLAPS

-----------------------------------------------------------------------------
(* The accumulator keeps its widths. *)

\* The widths are sets of numbers that start at 0.
LEMMA Widths ==
    /\ U64 \subseteq Nat
    /\ U128 \subseteq Nat
    /\ U64_MAX \in Nat
    /\ U128_MAX \in Nat
    /\ REWARD_INDEX_SCALE \in Nat
    /\ REWARD_INDEX_SCALE > 0
    /\ 0 \in U64
    /\ 0 \in U128
  BY WidthAssumption DEF U64, U128

\* A saturating counter stays within its width.
LEMMA SatAdd == \A a, b \in U64 : sat_add_u64(a, b) \in U64
  BY Widths DEF U64, sat_add_u64

\* A product of naturals is one.
LEMMA NatProduct == \A m, n \in Nat : m * n \in Nat
  OBVIOUS

\* Products grow with their factors.
LEMMA ProductMonotone ==
    ASSUME NEW m \in Nat, NEW n \in Nat, NEW k \in Nat, m <= n
    PROVE  m * k <= n * k
  OBVIOUS

\* A quotient is at most what was divided.
LEMMA QuotientBound ==
    ASSUME NEW n \in Nat, NEW d \in Nat, d > 0
    PROVE  n \div d \in Nat /\ n \div d <= n
  OBVIOUS

\* A remainder is below the divisor.
LEMMA RemainderBound ==
    ASSUME NEW n \in Nat, NEW d \in Nat, d > 0
    PROVE  n % d \in 0 .. d - 1 /\ n \div d \in Nat
  OBVIOUS

\* The index moves by at most 2^64 * REWARD_INDEX_SCALE: reward_index_delta fits u128.
LEMMA DeltaType ==
    ASSUME NEW amount \in U64, NEW eligible \in U64, eligible > 0
    PROVE  reward_index_delta(amount, eligible) \in U128
  <1> DEFINE product == amount * REWARD_INDEX_SCALE
  <1>1. product \in Nat
    BY NatProduct, Widths
  <1>2. product <= U64_MAX * REWARD_INDEX_SCALE
    BY ProductMonotone, Widths DEF U64
  <1>3. U64_MAX * REWARD_INDEX_SCALE \in Nat
    BY NatProduct, Widths
  <1>4. product <= U128_MAX
    BY <1>1, <1>2, <1>3, WidthAssumption, Widths
  <1>5. product \div eligible \in Nat /\ product \div eligible <= product
    BY <1>1, QuotientBound, Widths
  <1> HIDE DEF product
  <1>6. product \div eligible \in U128
    BY <1>1, <1>4, <1>5, Widths DEF U128
  <1> QED
    BY <1>6 DEF reward_index_delta, product

\* Stake buckets and schedule of a config, untouched.
SameStake(c, d) ==
    /\ d.total_locked = c.total_locked
    /\ d.pending_activation_locked = c.pending_activation_locked
    /\ d.warming_locked = c.warming_locked
    /\ d.eligible_locked = c.eligible_locked

SameSchedule(c, d) ==
    /\ d.is_initialized = c.is_initialized
    /\ d.created_ts = c.created_ts
    /\ d.last_epoch_ts = c.last_epoch_ts
    /\ d.current_epoch = c.current_epoch

\* Committing a batch moves the index, within its width, and nothing else that counts.
LEMMA CommitType ==
    ASSUME NEW c \in ConfigType, NEW amount \in U64, NEW eligible \in U64,
           commit_rewards_to_index_ok(c, amount, eligible)
    PROVE  /\ commit_rewards_to_index(c, amount, eligible) \in ConfigType
           /\ SameStake(c, commit_rewards_to_index(c, amount, eligible))
           /\ SameSchedule(c, commit_rewards_to_index(c, amount, eligible))
  <1> DEFINE delta == reward_index_delta(amount, eligible)
             wrapped == c.reward_index + delta > U128_MAX
             index == IF wrapped THEN c.reward_index + delta - (U128_MAX + 1)
                                 ELSE c.reward_index + delta
             generation == IF wrapped THEN c.reward_index_generation + 1
                                      ELSE c.reward_index_generation
             d == [c EXCEPT !.reward_index = index, !.reward_index_generation = generation]
  <1>1. delta \in U128
    BY DeltaType DEF commit_rewards_to_index_ok, reward_index_delta_ok
  <1>2. c.reward_index \in U128 /\ c.reward_index_generation \in U64
        /\ c.total_rewards_distributed \in U64
    BY DEF ConfigType
  <1>3. wrapped => c.reward_index_generation < U64_MAX
    BY DEF commit_rewards_to_index_ok, add_reward_index_ok
  <1> HIDE DEF delta
  <1>4. index \in U128 /\ generation \in U64
    BY <1>1, <1>2, <1>3, Widths DEF U128, U64
  <1>5. add_reward_index(c, delta) = d
    BY DEF add_reward_index
  <1> HIDE DEF index, generation, wrapped
  <1>6. d \in ConfigType
    BY <1>4, Zenon DEF ConfigType
  <1>7. SameStake(c, d) /\ SameSchedule(c, d)
        /\ d.total_rewards_distributed = c.total_rewards_distributed
    BY DEF ConfigType, SameStake, SameSchedule
  <1> HIDE DEF d
  <1> DEFINE e == [d EXCEPT !.total_rewards_distributed =
                                sat_add_u64(d.total_rewards_distributed, amount)]
  <1>8. commit_rewards_to_index(c, amount, eligible) = e
    BY <1>5 DEF commit_rewards_to_index, delta
  <1>9. sat_add_u64(d.total_rewards_distributed, amount) \in U64
    BY <1>2, <1>7, SatAdd
  <1>10. e \in ConfigType
    BY <1>6, <1>9, Zenon DEF ConfigType
  <1>11. SameStake(d, e) /\ SameSchedule(d, e)
    BY <1>6 DEF ConfigType, SameStake, SameSchedule
  <1> HIDE DEF e
  <1> QED
    BY <1>7, <1>8, <1>10, <1>11 DEF SameStake, SameSchedule

\* The same for the withdraw path, which swallows a batch too small to index.
LEMMA TryCommitType ==
    ASSUME NEW c \in ConfigType, NEW amount \in U64, NEW eligible \in U64,
           try_commit_rewards_to_index_ok(c, amount, eligible)
    PROVE  /\ try_commit_rewards_to_index(c, amount, eligible) \in ConfigType
           /\ SameStake(c, try_commit_rewards_to_index(c, amount, eligible))
           /\ SameSchedule(c, try_commit_rewards_to_index(c, amount, eligible))
  <1>1. CASE reward_index_delta_ok(amount, eligible)
    <2>1. commit_rewards_to_index_ok(c, amount, eligible)
      BY <1>1 DEF try_commit_rewards_to_index_ok, commit_rewards_to_index_ok
    <2>2. try_commit_rewards_to_index(c, amount, eligible)
             = commit_rewards_to_index(c, amount, eligible)
      BY <1>1 DEF try_commit_rewards_to_index
    <2> QED
      BY <2>1, <2>2, CommitType
  <1>2. CASE ~reward_index_delta_ok(amount, eligible)
    <2>1. try_commit_rewards_to_index(c, amount, eligible) = c
      BY <1>2 DEF try_commit_rewards_to_index
    <2> QED
      BY <2>1 DEF SameStake, SameSchedule
  <1> QED
    BY <1>1, <1>2

-----------------------------------------------------------------------------
(* Settling a position keeps the stake where it is; only maturity moves it. *)

\* What a settlement leaves alone.
SameLock(p, q) ==
    /\ q.is_initialized = p.is_initialized
    /\ q.locked_amount = p.locked_amount
    /\ q.pending_activation_amount = p.pending_activation_amount
    /\ q.warming_epoch = p.warming_epoch
    /\ q.unlock_ts = p.unlock_ts

SameBuckets(p, q) ==
    /\ q.warming_amount = p.warming_amount
    /\ q.eligible_amount = p.eligible_amount

\* A timestamp is a number within the width of an i64.
LEMMA Times ==
    /\ 0 \in Timestamp
    /\ \A t \in Timestamp : t \in Nat /\ t <= I64_MAX
    /\ \A t \in Nat : t <= I64_MAX => t \in Timestamp
  BY ArenaAssumption DEF Timestamp

\* The parts of a position and a config that the accrual reads.
LEMMA PositionFields ==
    ASSUME NEW p \in PositionType
    PROVE  /\ p.locked_amount \in U64
           /\ p.eligible_amount \in U64
           /\ p.pending_activation_amount \in U64
           /\ p.warming_amount \in U64
           /\ p.warming_epoch \in U64
           /\ p.total_deposited \in U64
           /\ p.total_withdrawn \in U64
           /\ p.total_penalty_paid \in U64
           /\ p.total_burned \in U64
           /\ p.total_rewards_claimed \in U64
           /\ p.pending_rewards \in U64
           /\ p.lock_start_ts \in Timestamp /\ p.lock_start_ts \in Nat
           /\ p.unlock_ts \in Timestamp /\ p.unlock_ts \in Nat
           /\ p.activation_ts \in Timestamp /\ p.activation_ts \in Nat
           /\ p.reward_index_checkpoint \in U128
           /\ p.reward_index_generation_checkpoint \in U64
           /\ p.penalty_remainder \in 0 .. BPS_DENOMINATOR - 1
           /\ p.burn_remainder \in 0 .. BPS_DENOMINATOR - 1
           /\ p.reward_accrual_remainder \in 0 .. REWARD_INDEX_SCALE - 1
  BY Times DEF PositionType

\* The parts of a config that the instructions read.
LEMMA ConfigFields ==
    ASSUME NEW c \in ConfigType
    PROVE  /\ c.is_initialized \in BOOLEAN
           /\ c.created_ts \in Timestamp /\ c.created_ts \in Nat
           /\ c.last_epoch_ts \in Timestamp /\ c.last_epoch_ts \in Nat
           /\ c.current_epoch \in U64
           /\ c.total_locked \in U64
           /\ c.eligible_locked \in U64
           /\ c.warming_locked \in U64
           /\ c.pending_activation_locked \in U64
           /\ c.total_rewards_funded \in U64
           /\ c.total_rewards_claimed \in U64
           /\ c.total_penalties_collected \in U64
           /\ c.total_burned \in U64
           /\ c.total_rewards_expired \in U64
           /\ c.reward_index \in U128
           /\ c.reward_index_generation \in U64
  BY Times DEF ConfigType

\* As numbers, for the arithmetic on buckets.
LEMMA PositionNats ==
    ASSUME NEW p \in PositionType
    PROVE  /\ p.locked_amount \in Nat
           /\ p.eligible_amount \in Nat
           /\ p.pending_activation_amount \in Nat
           /\ p.warming_amount \in Nat
           /\ p.warming_epoch \in Nat
           /\ p.pending_rewards \in Nat
           /\ p.unlock_ts \in Nat
           /\ p.reward_index_checkpoint \in Nat
           /\ p.reward_index_generation_checkpoint \in Nat
           /\ p.reward_accrual_remainder \in Nat
  <1>1. p.reward_accrual_remainder \in 0 .. REWARD_INDEX_SCALE - 1
    BY PositionFields
  <1>2. p.reward_accrual_remainder \in Nat
    BY <1>1, Widths
  <1> QED
    BY <1>2, PositionFields, Widths

\* As numbers, for the arithmetic on buckets.
LEMMA ConfigNats ==
    ASSUME NEW c \in ConfigType
    PROVE  /\ c.total_locked \in Nat
           /\ c.eligible_locked \in Nat
           /\ c.warming_locked \in Nat
           /\ c.pending_activation_locked \in Nat
           /\ c.current_epoch \in Nat
           /\ c.reward_index \in Nat
           /\ c.reward_index_generation \in Nat
  BY ConfigFields, Widths

\* The distance the index has moved is never negative where it is defined.
LEMMA DistanceType ==
    ASSUME NEW c \in ConfigType, NEW p \in PositionType, reward_index_delta_since_ok(c, p)
    PROVE  reward_index_delta_since(c, p) \in Nat
  <1>1. /\ c.reward_index \in Nat
        /\ p.reward_index_checkpoint \in Nat
        /\ p.reward_index_checkpoint <= U128_MAX
    BY PositionFields, ConfigFields, Widths DEF U128
  <1> QED
    BY <1>1, Widths DEF reward_index_delta_since_ok, reward_index_delta_since, ToWrap

\* accrue_rewards changes what is owed and the checkpoints, and keeps their widths.
LEMMA AccrueType ==
    ASSUME NEW c \in ConfigType, NEW p \in PositionType, accrue_rewards_ok(c, p)
    PROVE  /\ accrue_rewards(c, p) \in PositionType
           /\ SameLock(p, accrue_rewards(c, p))
           /\ SameBuckets(p, accrue_rewards(c, p))
  <1> DEFINE earning == Earning(c, p)
             earned == Earned(c, p)
             scaled == Scaled(c, p)
             pending == IF earning THEN p.pending_rewards + earned ELSE p.pending_rewards
             remainder == IF earning THEN scaled % REWARD_INDEX_SCALE
                                     ELSE p.reward_accrual_remainder
             q == [p EXCEPT !.pending_rewards = pending,
                            !.reward_accrual_remainder = remainder,
                            !.reward_index_checkpoint = c.reward_index,
                            !.reward_index_generation_checkpoint = c.reward_index_generation]
  <1>1. accrue_rewards(c, p) = q
    BY DEF accrue_rewards
  <1>2. reward_index_delta_since(c, p) \in Nat
    BY DistanceType DEF accrue_rewards_ok
  <1>3. p.eligible_amount * reward_index_delta_since(c, p) \in Nat
    BY <1>2, NatProduct, PositionFields, Widths
  <1>4. scaled \in Nat
    BY <1>3, PositionFields, Widths DEF Scaled
  <1>5. earning => p.pending_rewards + earned <= U64_MAX
    BY DEF accrue_rewards_ok
  <1> HIDE DEF earning, scaled
  <1>6. scaled % REWARD_INDEX_SCALE \in 0 .. REWARD_INDEX_SCALE - 1
        /\ scaled \div REWARD_INDEX_SCALE \in Nat
    BY <1>4, RemainderBound, Widths
  <1>7. earned \in Nat
    BY <1>6 DEF Earned, scaled
  <1> HIDE DEF earned
  <1>8. pending \in U64
    BY <1>5, <1>7, PositionFields, Widths DEF U64
  <1>9. remainder \in 0 .. REWARD_INDEX_SCALE - 1
    BY <1>6, PositionFields
  <1>10. c.reward_index \in U128 /\ c.reward_index_generation \in U64
    BY ConfigFields
  <1> HIDE DEF pending, remainder
  <1>11. q \in PositionType
    BY <1>8, <1>9, <1>10, Zenon DEF PositionType
  <1>12. SameLock(p, q) /\ SameBuckets(p, q)
    BY DEF PositionType, SameLock, SameBuckets
  <1> HIDE DEF q
  <1> QED
    BY <1>1, <1>11, <1>12

\* Maturity moves the warming bag as a whole, and only after its epoch.
Matured(c, p, d, q) ==
    /\ d \in ConfigType
    /\ q \in PositionType
    /\ SameSchedule(c, d)
    /\ d.total_locked = c.total_locked
    /\ d.pending_activation_locked = c.pending_activation_locked
    /\ d.warming_locked + d.eligible_locked = c.warming_locked + c.eligible_locked
    /\ SameLock(p, q)
    /\ q.warming_amount + q.eligible_amount = p.warming_amount + p.eligible_amount
    /\ q.warming_amount <= p.warming_amount
    /\ q.eligible_amount > p.eligible_amount => p.warming_epoch < c.current_epoch
    /\ q.warming_amount > 0 => p.warming_epoch >= c.current_epoch

\* mature_warming_if_ready moves the warming bag from one bucket to the next.
LEMMA MatureType ==
    ASSUME NEW c \in ConfigType, NEW p \in PositionType, mature_warming_ok(c, p)
    PROVE  Matured(c, p, mature_warming_config(c, p), mature_warming_position(c, p))
  <1>1. CASE ~MatureReady(c, p)
    <2>1. mature_warming_config(c, p) = c /\ mature_warming_position(c, p) = p
      BY <1>1 DEF mature_warming_config, mature_warming_position
    <2> QED
      BY <1>1, <2>1, PositionNats, ConfigNats
      DEF Matured, SameSchedule, SameLock, MatureReady
  <1>2. CASE MatureReady(c, p)
    <2> DEFINE a == accrue_rewards(c, p)
               eligible == a.eligible_amount + p.warming_amount
               q == [a EXCEPT !.eligible_amount = eligible, !.warming_amount = 0]
               warming_locked == c.warming_locked - p.warming_amount
               eligible_locked == c.eligible_locked + p.warming_amount
               d == [c EXCEPT !.warming_locked = warming_locked,
                              !.eligible_locked = eligible_locked]
    <2>1. /\ accrue_rewards_ok(c, p)
          /\ p.eligible_amount + p.warming_amount <= U64_MAX
          /\ p.warming_amount <= c.warming_locked
          /\ c.eligible_locked + p.warming_amount <= U64_MAX
      BY <1>2 DEF mature_warming_ok
    <2>2. mature_warming_position(c, p) = q /\ mature_warming_config(c, p) = d
      BY <1>2 DEF mature_warming_position, mature_warming_config
    <2>3. a \in PositionType /\ SameLock(p, a) /\ SameBuckets(p, a)
      BY <2>1, AccrueType
    <2>4. p.warming_epoch < c.current_epoch
      BY <1>2, PositionFields, ConfigFields, Widths DEF MatureReady
    <2> HIDE DEF a
    <2>5. eligible \in U64 /\ warming_locked \in U64 /\ eligible_locked \in U64
      BY <2>1, <2>3, PositionFields, ConfigFields, Widths DEF U64, SameBuckets
    <2>6. /\ eligible = p.eligible_amount + p.warming_amount
          /\ warming_locked + eligible_locked = c.warming_locked + c.eligible_locked
      BY <2>3, PositionNats, ConfigNats DEF SameBuckets
    <2> HIDE DEF eligible, warming_locked, eligible_locked
    <2>7. q \in PositionType
      BY <2>3, <2>5, Widths, Zenon DEF PositionType
    <2>8. d \in ConfigType
      BY <2>5, Zenon DEF ConfigType
    <2>9. /\ SameLock(a, q)
          /\ q.eligible_amount = eligible
          /\ q.warming_amount = 0
      BY <2>3 DEF PositionType, SameLock
    <2>10. /\ SameSchedule(c, d)
           /\ d.total_locked = c.total_locked
           /\ d.pending_activation_locked = c.pending_activation_locked
           /\ d.warming_locked = warming_locked
           /\ d.eligible_locked = eligible_locked
      BY DEF ConfigType, SameSchedule
    <2> HIDE DEF q, d
    <2>11. SameLock(p, q)
      BY <2>3, <2>9 DEF SameLock
    <2>12. 0 <= p.warming_amount /\ 0 + eligible = p.warming_amount + p.eligible_amount
      BY <2>6, PositionNats
    <2>13. Matured(c, p, d, q)
      BY <2>4, <2>6, <2>7, <2>8, <2>9, <2>10, <2>11, <2>12 DEF Matured
    <2> QED
      BY <2>2, <2>13
  <1> QED
    BY <1>1, <1>2

\* mature_warming_if_ready and accrue_rewards, as every staker instruction runs them.
LEMMA SyncType ==
    ASSUME NEW c \in ConfigType, NEW p \in PositionType, sync_ok(c, p)
    PROVE  Matured(c, p, SyncedConfig(c, p), SyncedPosition(c, p))
  <1> DEFINE d == mature_warming_config(c, p)
             m == mature_warming_position(c, p)
             q == accrue_rewards(d, m)
  <1>1. mature_warming_ok(c, p) /\ accrue_rewards_ok(d, m)
    BY DEF sync_ok
  <1>2. Matured(c, p, d, m)
    BY <1>1, MatureType
  <1>3. SyncedConfig(c, p) = d /\ SyncedPosition(c, p) = q
    BY DEF SyncedConfig, SyncedPosition
  <1> HIDE DEF d, m
  <1>4. d \in ConfigType /\ m \in PositionType
    BY <1>2 DEF Matured
  <1>5. q \in PositionType /\ SameLock(m, q) /\ SameBuckets(m, q)
    BY <1>1, <1>4, AccrueType
  <1> HIDE DEF q
  <1>6. Matured(c, p, d, q)
    BY <1>2, <1>5 DEF Matured, SameLock, SameBuckets
  <1> QED
    BY <1>3, <1>6

-----------------------------------------------------------------------------
(* The early-exit split keeps its remainders below one unit. *)

SplitType ==
    [reward: Nat, burn: Nat,
     penalty_remainder: 0 .. BPS_DENOMINATOR - 1, burn_remainder: 0 .. BPS_DENOMINATOR - 1]

\* BPS_DENOMINATOR as a positive number.
LEMMA Denominator == BPS_DENOMINATOR \in Nat /\ BPS_DENOMINATOR > 0
  BY DEF BPS_DENOMINATOR

\* penalty_split carries less than one unit in each remainder, for every rate.
LEMMA SplitFields ==
    ASSUME NEW amount \in Nat, NEW pbps \in Nat, NEW bbps \in Nat,
           NEW prem \in 0 .. BPS_DENOMINATOR - 1, NEW brem \in 0 .. BPS_DENOMINATOR - 1
    PROVE  penalty_split(amount, pbps, bbps, prem, brem) \in SplitType
  <1> DEFINE scaled == amount * pbps + prem
             scaled_burn == IF bbps > 0 THEN amount * bbps + brem ELSE 0
             penalty == AtMost(amount, scaled \div BPS_DENOMINATOR)
             burn == AtMost(penalty, scaled_burn \div BPS_DENOMINATOR)
             split == [reward |-> penalty - burn, burn |-> burn,
                       penalty_remainder |-> scaled % BPS_DENOMINATOR,
                       burn_remainder |-> scaled_burn % BPS_DENOMINATOR]
  <1>1. CASE pbps = 0
    BY <1>1 DEF penalty_split, SplitType
  <1>2. CASE pbps # 0
    <2>1. penalty_split(amount, pbps, bbps, prem, brem) = split
      BY <1>2 DEF penalty_split, ScaledShare
    <2>2. amount * pbps \in Nat /\ amount * bbps \in Nat
      BY NatProduct
    <2>3. prem \in Nat /\ brem \in Nat
      BY Denominator
    <2>4. scaled \in Nat /\ scaled_burn \in Nat
      BY <2>2, <2>3
    <2> HIDE DEF scaled, scaled_burn
    <2>5. /\ scaled % BPS_DENOMINATOR \in 0 .. BPS_DENOMINATOR - 1
          /\ scaled_burn % BPS_DENOMINATOR \in 0 .. BPS_DENOMINATOR - 1
          /\ scaled \div BPS_DENOMINATOR \in Nat
          /\ scaled_burn \div BPS_DENOMINATOR \in Nat
      BY <2>4, RemainderBound, Denominator
    <2>6. penalty \in Nat /\ burn \in Nat /\ burn <= penalty
      BY <2>5 DEF AtMost
    <2> HIDE DEF penalty, burn
    <2>7. split \in SplitType
      BY <2>5, <2>6 DEF SplitType
    <2> QED
      BY <2>1, <2>7
  <1> QED
    BY <1>1, <1>2

\* So does the split of a withdrawal, also after unlock and with nobody left to share.
LEMMA ExitSplitType ==
    ASSUME policy \in PolicyType, NEW p \in PositionType,
           NEW amount \in Nat, NEW eligible_locked_after
    PROVE  ExitSplit(p, amount, eligible_locked_after) \in SplitType
  <1> DEFINE split == ExitPenalty(p, amount)
  <1>1. /\ policy.early_exit_penalty_bps \in Nat
        /\ policy.burn_penalty_bps \in Nat
    BY DEF PolicyType
  <1>2. penalty_split(amount, policy.early_exit_penalty_bps, policy.burn_penalty_bps,
                      p.penalty_remainder, p.burn_remainder) \in SplitType
    BY <1>1, SplitFields, PositionFields
  <1>3. [reward |-> 0, burn |-> 0, penalty_remainder |-> 0, burn_remainder |-> 0] \in SplitType
    BY Denominator DEF SplitType
  <1>4. split \in SplitType
    BY <1>2, <1>3 DEF ExitPenalty
  <1>5. split.burn + split.reward \in Nat
    BY <1>4 DEF SplitType
  <1>6. CASE eligible_locked_after = 0
    <2> DEFINE all == [split EXCEPT !.burn = split.burn + split.reward, !.reward = 0]
    <2>1. ExitSplit(p, amount, eligible_locked_after) = all
      BY <1>6 DEF ExitSplit
    <2> HIDE DEF split
    <2>2. all \in SplitType
      BY <1>4, <1>5, Zenon DEF SplitType
    <2> QED
      BY <2>1, <2>2
  <1>7. CASE eligible_locked_after # 0
    BY <1>4, <1>7 DEF ExitSplit
  <1> QED
    BY <1>6, <1>7

-----------------------------------------------------------------------------
(* The inductive invariant.                                                 *)

\* Nothing is deposited before the arena is initialized.
Untouched ==
    config.is_initialized \/ (config = EmptyConfig /\ \A u \in Owners : position[u] = EmptyPosition)

\* What holds of each position besides its type: without the epoch bound, stake
\* merged into a warming bag could be handed an epoch that is yet to come.
PositionInv(p) ==
    /\ PositionBuckets(p)
    /\ p.is_initialized \/ p.locked_amount = 0
    /\ p.warming_epoch <= config.current_epoch

IInv ==
    /\ TypeOK
    /\ Untouched
    /\ config.is_initialized => AcceptablePolicy(policy)
    /\ \A u \in Owners : PositionInv(position[u])
    /\ ConfigBuckets(config)
    /\ VaultBacksPrincipal
    /\ EpochsKeepSchedule

\* An initialized arena has the positive periods that assert_lock_policy demanded.
LEMMA Policy ==
    ASSUME IInv
    PROVE  /\ policy \in PolicyType
           /\ config.is_initialized =>
                 /\ policy.min_lock_seconds \in Nat
                 /\ policy.activation_delay_seconds \in Nat
                 /\ policy.epoch_seconds \in Nat
                 /\ policy.epoch_seconds > 0
                 /\ policy.activation_delay_seconds <= policy.min_lock_seconds
  <1>1. NoPolicy \in PolicyType
    BY Widths DEF NoPolicy, PolicyType
  <1>2. policy \in PolicyType
    BY <1>1, ArenaAssumption DEF IInv, TypeOK
  <1>3. config.is_initialized => assert_lock_policy(policy)
    BY DEF IInv, AcceptablePolicy
  <1>4. /\ policy.min_lock_seconds \in Int
        /\ policy.activation_delay_seconds \in Int
        /\ policy.epoch_seconds \in Int
    BY <1>2 DEF PolicyType
  <1> QED
    BY <1>2, <1>3, <1>4 DEF assert_lock_policy

\* An account of zero bytes is well typed.
LEMMA EmptyTypes == EmptyConfig \in ConfigType /\ EmptyPosition \in PositionType
  <1>1. 0 \in 0 .. BPS_DENOMINATOR - 1 /\ 0 \in 0 .. REWARD_INDEX_SCALE - 1
    BY Denominator, Widths
  <1>2. EmptyConfig \in ConfigType
    BY Widths, Times, Zenon DEF EmptyConfig, ConfigType
  <1>3. EmptyPosition \in PositionType
    BY <1>1, Widths, Times, Zenon DEF EmptyPosition, PositionType
  <1> QED
    BY <1>2, <1>3

\* The invariant holds of the untouched accounts.
LEMMA InitInv == Init => IInv
  <1> SUFFICES ASSUME Init PROVE IInv
    OBVIOUS
  <1>1. TypeOK
    BY EmptyTypes, ArenaAssumption, Times DEF Init, TypeOK
  <1>2. Untouched /\ ~config.is_initialized
    BY DEF Init, Untouched, EmptyConfig
  <1>3. \A u \in Owners : PositionInv(position[u])
    BY DEF Init, EmptyPosition, EmptyConfig, PositionInv, PositionBuckets
  <1>4. ConfigBuckets(config) /\ VaultBacksPrincipal
    BY DEF Init, EmptyConfig, ConfigBuckets, VaultBacksPrincipal
  <1> QED
    BY <1>1, <1>2, <1>3, <1>4 DEF IInv, EpochsKeepSchedule

-----------------------------------------------------------------------------
(* A staker instruction works on a settled config and position (c, p).      *)

Settled(u, c, p) ==
    /\ c \in ConfigType
    /\ p \in PositionType
    /\ config.is_initialized
    /\ SameSchedule(config, c)
    /\ c.total_locked = config.total_locked
    /\ ConfigBuckets(c)
    /\ PositionBuckets(p)
    /\ p.is_initialized
    /\ p.warming_epoch <= config.current_epoch
    /\ p.locked_amount = position[u].locked_amount
    /\ p.locked_amount > 0 => p.unlock_ts = position[u].unlock_ts
    /\ p.warming_amount <= position[u].warming_amount
    /\ p.warming_amount > 0 => p.warming_epoch = config.current_epoch
    /\ p.eligible_amount > position[u].eligible_amount
          => position[u].warming_epoch < config.current_epoch

\* The types of the state, one by one.
LEMMA StateTypes ==
    ASSUME IInv
    PROVE  /\ config \in ConfigType
           /\ \A u \in Owners : position[u] \in PositionType /\ PositionInv(position[u])
           /\ now \in Timestamp /\ now \in Nat
           /\ vault \in Nat
           /\ pool \in Nat
           /\ wallet \in [Users -> Nat]
           /\ stray \in [vault: Nat, pool: Nat]
  BY Times DEF IInv, TypeOK

\* The sync that opens every instruction on an existing position settles it.
LEMMA SyncSettles ==
    ASSUME IInv, NEW u \in Owners, position[u].is_initialized, sync_ok(config, position[u])
    PROVE  Settled(u, SyncedConfig(config, position[u]), SyncedPosition(config, position[u]))
  <1> DEFINE old == position[u]
             c == SyncedConfig(config, old)
             p == SyncedPosition(config, old)
  <1>1. config \in ConfigType /\ old \in PositionType /\ PositionInv(old)
    BY StateTypes
  <1>2. Matured(config, old, c, p)
    BY <1>1, SyncType
  <1>3. config.is_initialized
    BY DEF IInv, Untouched, EmptyPosition
  <1>4. ConfigBuckets(config)
    BY DEF IInv
  <1> HIDE DEF c, p, old
  <1>5. c \in ConfigType /\ p \in PositionType
    BY <1>2 DEF Matured
  <1>6. ConfigBuckets(c)
    BY <1>1, <1>2, <1>4, <1>5, ConfigNats DEF Matured, ConfigBuckets
  <1>7. PositionBuckets(p)
    BY <1>1, <1>2, <1>5, PositionNats DEF Matured, SameLock, PositionInv, PositionBuckets
  <1>8. p.warming_epoch <= config.current_epoch
    BY <1>1, <1>2 DEF Matured, SameLock, PositionInv
  <1>9. p.warming_amount > 0 => p.warming_epoch = config.current_epoch
    BY <1>1, <1>2, <1>5, <1>8, PositionNats, ConfigNats DEF Matured, SameLock
  <1>10. p.is_initialized
    BY <1>2 DEF Matured, SameLock, old
  <1> QED
    BY <1>2, <1>3, <1>6, <1>7, <1>8, <1>9, <1>10 DEF Settled, Matured, SameLock, c, p, old

\* A first deposit works on a new position, which is settled from the start.
LEMMA NewSettles ==
    ASSUME IInv, NEW u \in Owners, ~position[u].is_initialized, config.is_initialized
    PROVE  Settled(u, config, NewPosition)
  <1> DEFINE p == NewPosition
             index == config.reward_index
             generation == config.reward_index_generation
  <1>1. /\ config \in ConfigType
        /\ position[u] \in PositionType
        /\ PositionInv(position[u])
        /\ now \in Timestamp
    BY StateTypes
  <1>2. index \in U128 /\ generation \in U64
    BY <1>1, ConfigFields
  <1> HIDE DEF index, generation
  <1>3. p \in PositionType
    <2>1. TRUE \in BOOLEAN
      OBVIOUS
    <2>2. p = [EmptyPosition EXCEPT
                  !.is_initialized = TRUE,
                  !.lock_start_ts = now,
                  !.reward_index_checkpoint = index,
                  !.reward_index_generation_checkpoint = generation]
      BY DEF NewPosition, index, generation
    <2> QED
      BY <1>1, <1>2, <2>1, <2>2, EmptyTypes, Zenon DEF PositionType
  <1>4. /\ p.is_initialized
        /\ p.locked_amount = 0
        /\ p.pending_activation_amount = 0
        /\ p.warming_amount = 0
        /\ p.eligible_amount = 0
        /\ p.warming_epoch = 0
    BY DEF NewPosition, EmptyPosition
  <1>5. position[u].locked_amount = 0 /\ position[u].warming_amount \in Nat
        /\ position[u].eligible_amount \in Nat
    BY <1>1, PositionNats DEF PositionInv
  <1>6. config.current_epoch \in Nat
    BY <1>1, ConfigNats
  <1> HIDE DEF p
  <1>7. PositionBuckets(p)
    BY <1>4 DEF PositionBuckets
  <1>8. ConfigBuckets(config)
    BY DEF IInv
  <1>9. Settled(u, config, p)
    BY <1>1, <1>3, <1>4, <1>5, <1>6, <1>7, <1>8 DEF Settled, SameSchedule
  <1> QED
    BY <1>9 DEF p

-----------------------------------------------------------------------------
(* What every staker instruction does to the arena, and why it is safe.     *)

\* u's position becomes q and the config d; the vault still backs the principal.
StakerStep(u, d, q) ==
    /\ config.is_initialized
    /\ config' = d
    /\ position' = [position EXCEPT ![u] = q]
    /\ d \in ConfigType
    /\ q \in PositionType
    /\ SameSchedule(config, d)
    /\ ConfigBuckets(d)
    /\ PositionBuckets(q)
    /\ q.is_initialized
    /\ q.warming_epoch <= config.current_epoch
    /\ LockKept(position[u], q)
    /\ WaitsAnEpoch(position[u], q)
    /\ vault' = d.total_locked + stray.vault
    /\ wallet' \in [Users -> Nat]
    /\ vault' \in Nat
    /\ pool' \in Nat
    /\ UNCHANGED <<policy, now, stray>>

\* The invariant, and the two promises about single steps.
SafeStep ==
    /\ IInv'
    /\ \A u \in Owners : LockKept(position[u], position'[u])
    /\ \A u \in Owners : WaitsAnEpoch(position[u], position'[u])

\* A position that does not change keeps its lock and starts nothing.
LEMMA Unmoved ==
    ASSUME NEW p \in PositionType
    PROVE  LockKept(p, p) /\ WaitsAnEpoch(p, p)
  BY PositionNats DEF LockKept, WaitsAnEpoch

\* A staker step keeps the invariant and both promises, for every owner.
LEMMA StakerStepSafe ==
    ASSUME IInv, NEW u \in Owners, NEW d, NEW q, StakerStep(u, d, q)
    PROVE  SafeStep
  <1>1. /\ position \in [Owners -> PositionType]
        /\ policy' = policy /\ now' = now /\ stray' = stray
        /\ config' = d
        /\ position' = [position EXCEPT ![u] = q]
        /\ q \in PositionType
    BY DEF IInv, TypeOK, StakerStep
  <1>2. \A v \in Owners : position'[v] = IF v = u THEN q ELSE position[v]
    BY <1>1
  <1>3. TypeOK'
    BY <1>1 DEF IInv, TypeOK, StakerStep
  <1>4. config'.is_initialized /\ config.is_initialized
    BY DEF StakerStep, SameSchedule
  <1>5. Untouched'
    BY <1>4 DEF Untouched
  <1>6. (config.is_initialized => AcceptablePolicy(policy))'
    BY <1>1, <1>4 DEF IInv, AcceptablePolicy
  <1>7. \A v \in Owners : PositionInv(position[v])'
    BY <1>1, <1>2 DEF IInv, PositionInv, StakerStep, SameSchedule
  <1>8. ConfigBuckets(config)' /\ VaultBacksPrincipal'
    BY <1>1 DEF StakerStep, VaultBacksPrincipal
  <1>9. EpochsKeepSchedule'
    BY <1>1, <1>4 DEF IInv, EpochsKeepSchedule, StakerStep, SameSchedule
  <1>10. \A v \in Owners : LockKept(position[v], position'[v])
    BY <1>1, <1>2, Unmoved DEF StakerStep
  <1>11. \A v \in Owners : WaitsAnEpoch(position[v], position'[v])
    BY <1>1, <1>2, Unmoved DEF StakerStep
  <1> QED
    BY <1>3, <1>5, <1>6, <1>7, <1>8, <1>9, <1>10, <1>11 DEF IInv, SafeStep

\* Positions, and the vault, that stay as they are.
LEMMA ConfigStepSafe ==
    ASSUME IInv, config.is_initialized,
           config' \in ConfigType, SameSchedule(config, config'),
           SameStake(config, config'),
           pool' \in Nat, wallet' \in [Users -> Nat],
           UNCHANGED <<policy, position, vault, now, stray>>
    PROVE  SafeStep
  <1>1. TypeOK'
    BY DEF IInv, TypeOK
  <1>2. config'.is_initialized
    BY DEF SameSchedule
  <1>3. Untouched' /\ (config.is_initialized => AcceptablePolicy(policy))'
    BY <1>2 DEF IInv, Untouched, AcceptablePolicy
  <1>4. \A v \in Owners : PositionInv(position[v])'
    BY DEF IInv, PositionInv, SameSchedule
  <1>5. ConfigBuckets(config)' /\ VaultBacksPrincipal'
    BY DEF IInv, ConfigBuckets, VaultBacksPrincipal, SameStake
  <1>6. EpochsKeepSchedule'
    BY DEF IInv, EpochsKeepSchedule, SameSchedule
  <1>7. \A v \in Owners :
           LockKept(position[v], position'[v]) /\ WaitsAnEpoch(position[v], position'[v])
    BY StateTypes, Unmoved
  <1> QED
    BY <1>1, <1>3, <1>4, <1>5, <1>6, <1>7 DEF IInv, SafeStep

-----------------------------------------------------------------------------
(* Each staker instruction is a staker step. *)

LEMMA WalletType ==
    ASSUME IInv, NEW u \in Users, NEW n \in Nat
    PROVE  [wallet EXCEPT ![u] = n] \in [Users -> Nat] /\ wallet[u] \in Nat
  BY StateTypes

\* process_deposit: the top-up rule of the clocks is what keeps the lock.
LEMMA DepositSafe ==
    ASSUME IInv, NEW u \in Owners, NEW amount \in Deposits, Deposit(u, amount)
    PROVE  SafeStep
  <1> DEFINE old == position[u]
             c == IF old.is_initialized THEN SyncedConfig(config, old) ELSE config
             p == IF old.is_initialized THEN SyncedPosition(config, old) ELSE NewPosition
             had_locked == p.locked_amount > 0
             min_unlock == now + policy.min_lock_seconds
             min_activation == now + policy.activation_delay_seconds
             lock_start == IF had_locked THEN p.lock_start_ts ELSE now
             unlock == IF had_locked THEN Later(p.unlock_ts, min_unlock) ELSE min_unlock
             activation == IF had_locked /\ p.pending_activation_amount > 0
                           THEN Later(p.activation_ts, min_activation) ELSE min_activation
             locked == p.locked_amount + amount
             pending == p.pending_activation_amount + amount
             deposited == sat_add_u64(p.total_deposited, amount)
             q == [p EXCEPT !.locked_amount = locked,
                            !.pending_activation_amount = pending,
                            !.total_deposited = deposited,
                            !.lock_start_ts = lock_start,
                            !.unlock_ts = unlock,
                            !.activation_ts = activation]
             total == c.total_locked + amount
             pending_locked == c.pending_activation_locked + amount
             d == [c EXCEPT !.total_locked = total,
                            !.pending_activation_locked = pending_locked]
  <1>1. Settled(u, c, p)
    BY SyncSettles, NewSettles DEF Deposit
  <1>2. /\ amount <= wallet[u]
        /\ locked <= U64_MAX
        /\ pending <= U64_MAX
        /\ total <= U64_MAX
        /\ pending_locked <= U64_MAX
        /\ min_unlock <= I64_MAX
        /\ wallet' = [wallet EXCEPT ![u] = wallet[u] - amount]
        /\ vault' = vault + amount
        /\ UNCHANGED <<policy, pool, now, stray>>
    BY DEF Deposit
  <1>3. config' = d /\ position' = [position EXCEPT ![u] = q]
    BY DEF Deposit, DepositedPosition
  <1> HIDE DEF c, p, old
  <1>4. c \in ConfigType /\ p \in PositionType /\ config.is_initialized
    BY <1>1 DEF Settled
  <1>5. amount \in U64 /\ amount \in Nat
    BY ArenaAssumption, Widths
  <1>6. /\ locked \in U64
        /\ pending \in U64
        /\ total \in U64
        /\ pending_locked \in U64
    BY <1>2, <1>4, <1>5, PositionNats, ConfigNats, Widths DEF U64
  <1>7. deposited \in U64
    BY <1>4, <1>5, SatAdd, PositionFields
  <1>8. now \in Timestamp /\ min_unlock \in Timestamp /\ min_activation \in Timestamp
    <2>1. /\ now \in Timestamp /\ now \in Nat
          /\ min_unlock \in Nat
          /\ min_activation \in Nat
          /\ min_activation <= min_unlock
      BY <1>4, Policy, StateTypes
    <2>2. min_unlock <= I64_MAX
      BY <1>2
    <2> HIDE DEF min_unlock, min_activation
    <2>3. min_activation <= I64_MAX
      BY <2>1, <2>2, ArenaAssumption
    <2> QED
      BY <2>1, <2>2, <2>3, Times
  <1> HIDE DEF min_unlock, min_activation
  <1>9. lock_start \in Timestamp /\ unlock \in Timestamp /\ activation \in Timestamp
    BY <1>4, <1>8, PositionFields DEF Later
  <1>10. unlock >= min_unlock /\ (had_locked => unlock >= p.unlock_ts)
    BY <1>4, <1>8, Times, PositionFields DEF Later
  <1>11. locked > 0 => unlock >= min_unlock
    BY <1>10
  <1> HIDE DEF lock_start, unlock, activation, deposited
  <1>12. /\ locked = p.pending_activation_amount + amount + p.warming_amount + p.eligible_amount
         /\ total = c.pending_activation_locked + amount + c.warming_locked + c.eligible_locked
    BY <1>1, <1>4, <1>5, PositionNats, ConfigNats
    DEF Settled, PositionBuckets, ConfigBuckets
  <1>13. total = config.total_locked + amount
    BY <1>1 DEF Settled
  <1> HIDE DEF locked, pending, total, pending_locked
  <1>14. q \in PositionType
    BY <1>4, <1>6, <1>7, <1>9, Zenon DEF PositionType
  <1>15. d \in ConfigType
    BY <1>4, <1>6, Zenon DEF ConfigType
  <1>16. /\ q.is_initialized = p.is_initialized
         /\ q.locked_amount = locked
         /\ q.pending_activation_amount = pending
         /\ q.warming_amount = p.warming_amount
         /\ q.eligible_amount = p.eligible_amount
         /\ q.warming_epoch = p.warming_epoch
         /\ q.unlock_ts = unlock
    BY <1>4 DEF PositionType
  <1>17. /\ d.total_locked = total
         /\ d.pending_activation_locked = pending_locked
         /\ d.warming_locked = c.warming_locked
         /\ d.eligible_locked = c.eligible_locked
         /\ SameSchedule(c, d)
    BY <1>4 DEF ConfigType, SameSchedule
  <1> HIDE DEF q, d
  <1>18. PositionBuckets(q) /\ ConfigBuckets(d)
    BY <1>12, <1>16, <1>17 DEF PositionBuckets, ConfigBuckets, pending, pending_locked
  <1>19. LockKept(old, q)
    BY <1>1, <1>10, <1>16 DEF LockKept, Settled, old, min_unlock
  <1>20. old \in PositionType
    BY StateTypes DEF old
  <1>21. WaitsAnEpoch(old, q)
    BY <1>1, <1>4, <1>16, <1>20, PositionNats DEF WaitsAnEpoch, Settled, old
  <1>22. vault' = d.total_locked + stray.vault
    BY <1>2, <1>4, <1>5, <1>13, <1>17, StateTypes, ConfigNats DEF IInv, VaultBacksPrincipal
  <1>23. wallet' \in [Users -> Nat] /\ vault' \in Nat /\ pool' \in Nat
    BY <1>2, <1>5, WalletType, StateTypes DEF Users
  <1>24. StakerStep(u, d, q)
    BY <1>1, <1>2, <1>3, <1>14, <1>15, <1>16, <1>17, <1>18, <1>19, <1>21, <1>22, <1>23
    DEF StakerStep, Settled, SameSchedule, old
  <1> QED
    BY <1>24, StakerStepSafe

\* process_activate_position without pending stake.
LEMMA ActivateSyncOnlySafe ==
    ASSUME IInv, NEW u \in Owners, ActivateSyncOnly(u)
    PROVE  SafeStep
  <1> DEFINE old == position[u]
             c == SyncedConfig(config, old)
             p == SyncedPosition(config, old)
  <1>1. Settled(u, c, p)
    BY SyncSettles DEF ActivateSyncOnly
  <1>2. /\ config' = c
        /\ position' = [position EXCEPT ![u] = p]
        /\ UNCHANGED <<policy, wallet, vault, pool, now, stray>>
    BY DEF ActivateSyncOnly
  <1> HIDE DEF c, p, old
  <1>3. old \in PositionType /\ p \in PositionType /\ c \in ConfigType
    BY <1>1, StateTypes DEF Settled, old
  <1>4. LockKept(old, p) /\ WaitsAnEpoch(old, p)
    BY <1>1, <1>3, PositionNats DEF Settled, LockKept, WaitsAnEpoch, old
  <1>5. vault' = c.total_locked + stray.vault
    BY <1>1, <1>2 DEF IInv, VaultBacksPrincipal, Settled
  <1>6. StakerStep(u, c, p)
    BY <1>1, <1>2, <1>4, <1>5, StateTypes DEF StakerStep, Settled, old
  <1> QED
    BY <1>6, StakerStepSafe

\* process_activate_position with pending stake: unmatured stake already warming
\* started in this very epoch, so that the bag can be merged under its epoch.
LEMMA ActivatePendingSafe ==
    ASSUME IInv, NEW u \in Owners, ActivatePending(u)
    PROVE  SafeStep
  <1> DEFINE old == position[u]
             c == SyncedConfig(config, old)
             p == SyncedPosition(config, old)
             amount == p.pending_activation_amount
             epoch == IF p.warming_amount = 0 THEN c.current_epoch ELSE p.warming_epoch
             warming == p.warming_amount + amount
             q == [p EXCEPT !.pending_activation_amount = 0,
                            !.warming_epoch = epoch,
                            !.warming_amount = warming]
             pending_locked == c.pending_activation_locked - amount
             warming_locked == c.warming_locked + amount
             d == [c EXCEPT !.pending_activation_locked = pending_locked,
                            !.warming_locked = warming_locked]
  <1>1. Settled(u, c, p)
    BY SyncSettles DEF ActivatePending
  <1>2. /\ warming <= U64_MAX
        /\ amount <= c.pending_activation_locked
        /\ warming_locked <= U64_MAX
        /\ UNCHANGED <<policy, wallet, vault, pool, now, stray>>
    BY DEF ActivatePending
  <1>3. config' = d /\ position' = [position EXCEPT ![u] = q]
    BY DEF ActivatePending, WarmedPosition
  <1> HIDE DEF c, p, old
  <1>4. c \in ConfigType /\ p \in PositionType /\ c.current_epoch = config.current_epoch
    BY <1>1 DEF Settled, SameSchedule
  <1>5. warming \in U64 /\ pending_locked \in U64 /\ warming_locked \in U64 /\ epoch \in U64
    BY <1>2, <1>4, PositionFields, ConfigFields, PositionNats, ConfigNats, Widths DEF U64
  <1>6. epoch = config.current_epoch
    BY <1>1, <1>4, PositionNats DEF Settled
  <1>7. /\ p.locked_amount = 0 + warming + p.eligible_amount
        /\ c.total_locked = pending_locked + warming_locked + c.eligible_locked
    BY <1>1, <1>4, PositionNats, ConfigNats DEF Settled, PositionBuckets, ConfigBuckets
  <1> HIDE DEF warming, pending_locked, warming_locked, epoch
  <1>8. q \in PositionType
    BY <1>4, <1>5, Widths, Zenon DEF PositionType
  <1>9. d \in ConfigType
    BY <1>4, <1>5, Zenon DEF ConfigType
  <1>10. /\ q.is_initialized = p.is_initialized
         /\ q.locked_amount = p.locked_amount
         /\ q.pending_activation_amount = 0
         /\ q.warming_amount = warming
         /\ q.eligible_amount = p.eligible_amount
         /\ q.warming_epoch = config.current_epoch
         /\ q.unlock_ts = p.unlock_ts
    BY <1>4, <1>6 DEF PositionType
  <1>11. /\ d.total_locked = c.total_locked
         /\ d.pending_activation_locked = pending_locked
         /\ d.warming_locked = warming_locked
         /\ d.eligible_locked = c.eligible_locked
         /\ SameSchedule(c, d)
    BY <1>4 DEF ConfigType, SameSchedule
  <1> HIDE DEF q, d
  <1>12. PositionBuckets(q) /\ ConfigBuckets(d)
    BY <1>7, <1>10, <1>11 DEF PositionBuckets, ConfigBuckets
  <1>13. old \in PositionType /\ config \in ConfigType
    BY StateTypes DEF old
  <1>14. LockKept(old, q) /\ WaitsAnEpoch(old, q)
    BY <1>1, <1>4, <1>10, <1>13, PositionNats DEF Settled, LockKept, WaitsAnEpoch, old
  <1>15. vault' = d.total_locked + stray.vault
    BY <1>1, <1>2, <1>11 DEF IInv, VaultBacksPrincipal, Settled
  <1>16. q.warming_epoch <= config.current_epoch
    BY <1>10, <1>13, ConfigNats
  <1>17. StakerStep(u, d, q)
    BY <1>1, <1>2, <1>3, <1>8, <1>9, <1>10, <1>11, <1>12, <1>14, <1>15, <1>16, StateTypes
    DEF StakerStep, Settled, SameSchedule, old
  <1> QED
    BY <1>17, StakerStepSafe

\* pay_pending_rewards touches no stake, neither in the position ...
LEMMA PaidType ==
    ASSUME NEW p \in PositionType
    PROVE  /\ PaidPosition(p) \in PositionType
           /\ SameLock(p, PaidPosition(p))
           /\ SameBuckets(p, PaidPosition(p))
  <1> DEFINE claimed == sat_add_u64(p.total_rewards_claimed, p.pending_rewards)
             q == [p EXCEPT !.pending_rewards = 0, !.total_rewards_claimed = claimed]
  <1>1. claimed \in U64
    BY SatAdd, PositionFields
  <1>2. PaidPosition(p) = q
    BY DEF PaidPosition
  <1> HIDE DEF claimed
  <1>3. q \in PositionType
    BY <1>1, Widths, Zenon DEF PositionType
  <1>4. SameLock(p, q) /\ SameBuckets(p, q)
    BY DEF PositionType, SameLock, SameBuckets
  <1> QED
    BY <1>2, <1>3, <1>4

\* ... nor in the config.
LEMMA PaidConfigType ==
    ASSUME NEW c \in ConfigType, NEW amount \in U64
    PROVE  /\ PaidConfig(c, amount) \in ConfigType
           /\ SameStake(c, PaidConfig(c, amount))
           /\ SameSchedule(c, PaidConfig(c, amount))
  <1> DEFINE claimed == sat_add_u64(c.total_rewards_claimed, amount)
             d == [c EXCEPT !.total_rewards_claimed = claimed]
  <1>1. claimed \in U64
    BY SatAdd, ConfigFields
  <1>2. PaidConfig(c, amount) = d
    BY DEF PaidConfig
  <1> HIDE DEF claimed
  <1>3. d \in ConfigType
    BY <1>1, Zenon DEF ConfigType
  <1>4. SameStake(c, d) /\ SameSchedule(c, d)
    BY DEF ConfigType, SameStake, SameSchedule
  <1> QED
    BY <1>2, <1>3, <1>4

\* process_claim_rewards pays from the pool what the sync found pending.
LEMMA ClaimSafe ==
    ASSUME IInv, NEW u \in Owners, ClaimRewards(u)
    PROVE  SafeStep
  <1> DEFINE old == position[u]
             c == SyncedConfig(config, old)
             p == SyncedPosition(config, old)
             amount == p.pending_rewards
             d == PaidConfig(c, amount)
             q == PaidPosition(p)
  <1>1. Settled(u, c, p)
    BY SyncSettles DEF ClaimRewards
  <1>2. /\ amount <= pool
        /\ config' = d
        /\ position' = [position EXCEPT ![u] = q]
        /\ pool' = pool - amount
        /\ wallet' = [wallet EXCEPT ![u] = wallet[u] + amount]
        /\ UNCHANGED <<policy, vault, now, stray>>
    BY DEF ClaimRewards
  <1> HIDE DEF c, p, old
  <1>3. /\ c \in ConfigType /\ p \in PositionType
        /\ old \in PositionType
        /\ amount \in U64 /\ amount \in Nat
    BY <1>1, StateTypes, PositionFields, Widths DEF Settled, old
  <1>4. /\ q \in PositionType /\ SameLock(p, q) /\ SameBuckets(p, q)
        /\ d \in ConfigType /\ SameStake(c, d) /\ SameSchedule(c, d)
    BY <1>3, PaidType, PaidConfigType
  <1> HIDE DEF q, d
  <1>5. PositionBuckets(q) /\ ConfigBuckets(d)
    BY <1>1, <1>4
    DEF Settled, PositionBuckets, ConfigBuckets, SameLock, SameBuckets, SameStake
  <1>6. LockKept(old, q) /\ WaitsAnEpoch(old, q)
    BY <1>1, <1>3, <1>4, PositionNats
    DEF Settled, LockKept, WaitsAnEpoch, SameLock, SameBuckets, old
  <1>7. vault' = d.total_locked + stray.vault
    BY <1>1, <1>2, <1>4 DEF IInv, VaultBacksPrincipal, Settled, SameStake
  <1>8. wallet' \in [Users -> Nat] /\ pool' \in Nat /\ vault' \in Nat
    BY <1>2, <1>3, WalletType, StateTypes DEF Users
  <1>9. StakerStep(u, d, q)
    BY <1>1, <1>2, <1>4, <1>5, <1>6, <1>7, <1>8
    DEF StakerStep, Settled, SameSchedule, SameLock, old
  <1> QED
    BY <1>9, StakerStepSafe

\* The three parts of a reduction: none negative, none more than its bucket.
LEMMA ReductionParts ==
    ASSUME NEW p \in PositionType, NEW amount \in Nat
    PROVE  /\ PendingReduction(p, amount) \in Nat
           /\ PendingReduction(p, amount) <= p.pending_activation_amount
           /\ WarmingReduction(p, amount) \in Nat
           /\ WarmingReduction(p, amount) <= p.warming_amount
           /\ EligibleReduction(p, amount) \in Nat
           /\ PendingReduction(p, amount) + WarmingReduction(p, amount)
                 + EligibleReduction(p, amount) = amount
  <1>1. p.pending_activation_amount \in Nat /\ p.warming_amount \in Nat
    BY PositionNats
  <1>2. /\ PendingReduction(p, amount) \in Nat
        /\ PendingReduction(p, amount) <= p.pending_activation_amount
        /\ PendingReduction(p, amount) <= amount
    BY <1>1 DEF PendingReduction, AtMost
  <1>3. /\ WarmingReduction(p, amount) \in Nat
        /\ WarmingReduction(p, amount) <= p.warming_amount
        /\ WarmingReduction(p, amount) <= amount - PendingReduction(p, amount)
    BY <1>1, <1>2 DEF WarmingReduction, AtMost
  <1> QED
    BY <1>2, <1>3 DEF EligibleReduction

\* reduce_position_stake takes the amount out of the buckets, and out of the sum.
LEMMA ReducedPositionType ==
    ASSUME NEW p \in PositionType, NEW amount \in Nat, PositionBuckets(p),
           amount <= p.locked_amount, EligibleReduction(p, amount) <= p.eligible_amount
    PROVE  /\ ReducedPosition(p, amount) \in PositionType
           /\ PositionBuckets(ReducedPosition(p, amount))
           /\ ReducedPosition(p, amount).is_initialized = p.is_initialized
           /\ ReducedPosition(p, amount).locked_amount <= p.locked_amount
           /\ ReducedPosition(p, amount).warming_amount <= p.warming_amount
           /\ ReducedPosition(p, amount).eligible_amount <= p.eligible_amount
           /\ ReducedPosition(p, amount).warming_epoch = p.warming_epoch
           /\ ReducedPosition(p, amount).unlock_ts = p.unlock_ts
  <1> DEFINE pending == p.pending_activation_amount - PendingReduction(p, amount)
             warming == p.warming_amount - WarmingReduction(p, amount)
             eligible == p.eligible_amount - EligibleReduction(p, amount)
             locked == p.locked_amount - amount
             remainder == IF p.locked_amount = amount THEN 0 ELSE p.reward_accrual_remainder
             q == [p EXCEPT !.pending_activation_amount = pending,
                            !.warming_amount = warming,
                            !.eligible_amount = eligible,
                            !.locked_amount = locked,
                            !.reward_accrual_remainder = remainder]
  <1>1. ReducedPosition(p, amount) = q
    BY DEF ReducedPosition
  <1>2. /\ pending \in Nat /\ pending <= p.pending_activation_amount
        /\ warming \in Nat /\ warming <= p.warming_amount
        /\ eligible \in Nat /\ eligible <= p.eligible_amount
        /\ locked \in Nat /\ locked <= p.locked_amount
    <2>1. /\ p.pending_activation_amount \in Nat
          /\ p.warming_amount \in Nat
          /\ p.eligible_amount \in Nat
          /\ p.locked_amount \in Nat
      BY PositionNats
    <2>2. /\ PendingReduction(p, amount) \in Nat
          /\ PendingReduction(p, amount) <= p.pending_activation_amount
          /\ WarmingReduction(p, amount) \in Nat
          /\ WarmingReduction(p, amount) <= p.warming_amount
          /\ EligibleReduction(p, amount) \in Nat
      BY ReductionParts
    <2> QED
      BY <2>1, <2>2
  <1>3. locked = pending + warming + eligible
    <2>1. /\ PendingReduction(p, amount) \in Nat
          /\ WarmingReduction(p, amount) \in Nat
          /\ EligibleReduction(p, amount) \in Nat
          /\ PendingReduction(p, amount) + WarmingReduction(p, amount)
                + EligibleReduction(p, amount) = amount
      BY ReductionParts
    <2>2. p.locked_amount = p.pending_activation_amount + p.warming_amount + p.eligible_amount
      BY DEF PositionBuckets
    <2> QED
      BY <2>1, <2>2, PositionNats
  <1>4. remainder \in 0 .. REWARD_INDEX_SCALE - 1
    BY PositionFields, Widths
  <1> HIDE DEF pending, warming, eligible, locked, remainder
  <1>5. pending \in U64 /\ warming \in U64 /\ eligible \in U64 /\ locked \in U64
    BY <1>2, PositionFields, Widths DEF U64
  <1>6. q \in PositionType
    BY <1>4, <1>5, Zenon DEF PositionType
  <1>7. /\ q.is_initialized = p.is_initialized
        /\ q.locked_amount = locked
        /\ q.pending_activation_amount = pending
        /\ q.warming_amount = warming
        /\ q.eligible_amount = eligible
        /\ q.warming_epoch = p.warming_epoch
        /\ q.unlock_ts = p.unlock_ts
    BY DEF PositionType
  <1> HIDE DEF q
  <1> QED
    BY <1>1, <1>2, <1>3, <1>6, <1>7 DEF PositionBuckets

\* c is the config after the penalty was committed: its stake is still the old one.
LEMMA ReducedConfigType ==
    ASSUME NEW c \in ConfigType, NEW p \in PositionType, NEW amount \in Nat,
           ConfigBuckets(c), reduce_position_stake_ok(c, p, amount)
    PROVE  /\ ReducedConfig(c, p, amount) \in ConfigType
           /\ ConfigBuckets(ReducedConfig(c, p, amount))
           /\ SameSchedule(c, ReducedConfig(c, p, amount))
           /\ ReducedConfig(c, p, amount).total_locked = c.total_locked - amount
  <1> DEFINE pending == c.pending_activation_locked - PendingReduction(p, amount)
             warming == c.warming_locked - WarmingReduction(p, amount)
             eligible == c.eligible_locked - EligibleReduction(p, amount)
             total == c.total_locked - amount
             d == [c EXCEPT !.pending_activation_locked = pending,
                            !.warming_locked = warming,
                            !.eligible_locked = eligible,
                            !.total_locked = total]
  <1>1. ReducedConfig(c, p, amount) = d
    BY DEF ReducedConfig
  <1>2. /\ PendingReduction(p, amount) <= c.pending_activation_locked
        /\ WarmingReduction(p, amount) <= c.warming_locked
        /\ EligibleReduction(p, amount) <= c.eligible_locked
        /\ amount <= c.total_locked
    BY DEF reduce_position_stake_ok
  <1>3. /\ pending \in Nat /\ pending <= c.pending_activation_locked
        /\ warming \in Nat /\ warming <= c.warming_locked
        /\ eligible \in Nat /\ eligible <= c.eligible_locked
        /\ total \in Nat /\ total <= c.total_locked
    <2>1. /\ c.total_locked \in Nat
          /\ c.eligible_locked \in Nat
          /\ c.warming_locked \in Nat
          /\ c.pending_activation_locked \in Nat
      BY ConfigNats
    <2>2. /\ PendingReduction(p, amount) \in Nat
          /\ WarmingReduction(p, amount) \in Nat
          /\ EligibleReduction(p, amount) \in Nat
      BY ReductionParts
    <2> QED
      BY <1>2, <2>1, <2>2
  <1>4. total = pending + warming + eligible
    <2>1. /\ PendingReduction(p, amount) \in Nat
          /\ WarmingReduction(p, amount) \in Nat
          /\ EligibleReduction(p, amount) \in Nat
          /\ PendingReduction(p, amount) + WarmingReduction(p, amount)
                + EligibleReduction(p, amount) = amount
      BY ReductionParts
    <2>2. c.total_locked = c.pending_activation_locked + c.warming_locked + c.eligible_locked
      BY DEF ConfigBuckets
    <2> QED
      BY <2>1, <2>2, ConfigNats
  <1> HIDE DEF pending, warming, eligible, total
  <1>5. pending \in U64 /\ warming \in U64 /\ eligible \in U64 /\ total \in U64
    BY <1>3, ConfigFields, Widths DEF U64
  <1>6. d \in ConfigType
    BY <1>5, Zenon DEF ConfigType
  <1>7. /\ d.total_locked = total
        /\ d.pending_activation_locked = pending
        /\ d.warming_locked = warming
        /\ d.eligible_locked = eligible
        /\ SameSchedule(c, d)
    BY DEF ConfigType, SameSchedule
  <1> HIDE DEF d
  <1> QED
    BY <1>1, <1>4, <1>6, <1>7 DEF ConfigBuckets, total

\* The telemetry of a withdrawal touches no stake, neither in the position ...
LEMMA WithdrawnPositionType ==
    ASSUME NEW p \in PositionType, NEW amount \in U64, NEW split \in SplitType,
           split.reward + split.burn <= amount
    PROVE  /\ WithdrawnPosition(p, amount, split) \in PositionType
           /\ SameLock(p, WithdrawnPosition(p, amount, split))
           /\ SameBuckets(p, WithdrawnPosition(p, amount, split))
  <1> DEFINE penalty == split.reward + split.burn
             withdrawn == sat_add_u64(p.total_withdrawn, amount - penalty)
             paid == sat_add_u64(p.total_penalty_paid, penalty)
             burned == sat_add_u64(p.total_burned, split.burn)
             q == [p EXCEPT !.penalty_remainder = split.penalty_remainder,
                            !.burn_remainder = split.burn_remainder,
                            !.total_withdrawn = withdrawn,
                            !.total_penalty_paid = paid,
                            !.total_burned = burned]
  <1>1. WithdrawnPosition(p, amount, split) = q
    BY DEF WithdrawnPosition
  <1>2. /\ split.reward \in Nat /\ split.burn \in Nat
        /\ split.penalty_remainder \in 0 .. BPS_DENOMINATOR - 1
        /\ split.burn_remainder \in 0 .. BPS_DENOMINATOR - 1
    BY DEF SplitType
  <1>3. penalty \in U64 /\ split.burn \in U64 /\ amount - penalty \in U64
    BY <1>2, Widths DEF U64
  <1>4. withdrawn \in U64 /\ paid \in U64 /\ burned \in U64
    BY <1>3, SatAdd, PositionFields
  <1> HIDE DEF withdrawn, paid, burned, penalty
  <1>5. q \in PositionType
    BY <1>2, <1>4, Zenon DEF PositionType
  <1>6. SameLock(p, q) /\ SameBuckets(p, q)
    BY DEF PositionType, SameLock, SameBuckets
  <1> HIDE DEF q
  <1> QED
    BY <1>1, <1>5, <1>6

\* ... nor in the config.
LEMMA WithdrawnConfigType ==
    ASSUME NEW c \in ConfigType, NEW amount \in U64, NEW split \in SplitType,
           split.reward + split.burn <= amount
    PROVE  /\ WithdrawnConfig(c, split) \in ConfigType
           /\ SameStake(c, WithdrawnConfig(c, split))
           /\ SameSchedule(c, WithdrawnConfig(c, split))
  <1> DEFINE collected == sat_add_u64(c.total_penalties_collected, split.reward + split.burn)
             burned == sat_add_u64(c.total_burned, split.burn)
             d == [c EXCEPT !.total_penalties_collected = collected, !.total_burned = burned]
  <1>1. WithdrawnConfig(c, split) = d
    BY DEF WithdrawnConfig
  <1>2. split.reward \in Nat /\ split.burn \in Nat
    BY DEF SplitType
  <1>3. split.reward + split.burn \in U64 /\ split.burn \in U64
    BY <1>2, Widths DEF U64
  <1>4. collected \in U64 /\ burned \in U64
    BY <1>3, SatAdd, ConfigFields
  <1> HIDE DEF collected, burned
  <1>5. d \in ConfigType
    BY <1>4, Zenon DEF ConfigType
  <1>6. SameStake(c, d) /\ SameSchedule(c, d)
    BY DEF ConfigType, SameStake, SameSchedule
  <1> HIDE DEF d
  <1> QED
    BY <1>1, <1>5, <1>6

\* process_withdraw: sync, pay, commit the penalty, reduce, record.
LEMMA WithdrawSafe ==
    ASSUME IInv, NEW u \in Owners, NEW amount \in Exits, Withdraw(u, amount)
    PROVE  SafeStep
  <1> DEFINE old == position[u]
             c == SyncedConfig(config, old)
             p == SyncedPosition(config, old)
             after == c.eligible_locked - EligibleReduction(p, amount)
             split == ExitSplit(p, amount, after)
             payout == Payout(p, amount)
             paid == IF amount = p.locked_amount THEN PaidPosition(p) ELSE p
             counted == PaidConfig(c, payout)
             committed == try_commit_rewards_to_index(counted, split.reward, after)
             reduced == ReducedConfig(committed, p, amount)
             rest == ReducedPosition(paid, amount)
             d == WithdrawnConfig(reduced, split)
             q == WithdrawnPosition(rest, amount, split)
  <1>1. position[u].is_initialized /\ sync_ok(config, position[u])
    BY DEF Withdraw, WithdrawOk
  <1>2. Settled(u, c, p)
    BY <1>1, SyncSettles
  <1>3. /\ reduce_position_stake_ok(c, p, amount)
        /\ payout <= pool
        /\ split.reward + split.burn <= amount
        /\ amount <= vault
        /\ try_commit_rewards_to_index_ok(c, split.reward, after)
    BY DEF Withdraw, WithdrawOk
  <1>4. /\ config' = d
        /\ position' = [position EXCEPT ![u] = q]
        /\ vault' = vault - amount
        /\ pool' = pool - payout + split.reward
        /\ wallet' = [wallet EXCEPT ![u] =
                        wallet[u] + payout + amount - split.reward - split.burn]
        /\ UNCHANGED <<policy, now, stray>>
    BY DEF Withdraw
  <1> HIDE DEF c, p, old
  <1>5. /\ c \in ConfigType /\ p \in PositionType /\ old \in PositionType
        /\ ConfigBuckets(c) /\ PositionBuckets(p)
        /\ SameSchedule(config, c) /\ c.total_locked = config.total_locked
    BY <1>2, StateTypes DEF Settled, old
  <1>6. amount \in U64 /\ amount \in Nat
    BY ArenaAssumption, Widths
  <1>7. /\ amount <= p.locked_amount
        /\ EligibleReduction(p, amount) <= p.eligible_amount
        /\ EligibleReduction(p, amount) <= c.eligible_locked
        /\ amount <= c.total_locked
    BY <1>3 DEF reduce_position_stake_ok
  <1>8. split \in SplitType
    BY <1>5, <1>6, ExitSplitType, Policy
  <1>9. /\ split.reward \in Nat /\ split.burn \in Nat
        /\ split.reward \in U64
    BY <1>3, <1>6, <1>8, Widths DEF SplitType, U64
  <1>10. after \in U64
    <2>1. EligibleReduction(p, amount) \in Nat
      BY <1>5, <1>6, ReductionParts
    <2>2. c.eligible_locked \in U64 /\ c.eligible_locked \in Nat
      BY <1>5, ConfigFields, ConfigNats
    <2> QED
      BY <1>7, <2>1, <2>2, Widths DEF U64
  <1>11. payout \in U64 /\ payout \in Nat
    BY <1>5, PositionFields, Widths DEF Payout
  <1> HIDE DEF split, after, payout
  <1>12. paid \in PositionType /\ SameLock(p, paid) /\ SameBuckets(p, paid)
    BY <1>5, PaidType DEF SameLock, SameBuckets
  <1>13. counted \in ConfigType /\ SameStake(c, counted) /\ SameSchedule(c, counted)
    BY <1>5, <1>11, PaidConfigType
  <1> HIDE DEF paid
  <1>14. try_commit_rewards_to_index_ok(counted, split.reward, after)
    <2>1. /\ counted.reward_index = c.reward_index
          /\ counted.reward_index_generation = c.reward_index_generation
      BY <1>5 DEF PaidConfig, ConfigType
    <2> HIDE DEF counted
    <2> QED
      BY <1>3, <2>1 DEF try_commit_rewards_to_index_ok, add_reward_index_ok
  <1> HIDE DEF counted
  <1>15. /\ committed \in ConfigType
         /\ SameStake(counted, committed)
         /\ SameSchedule(counted, committed)
    BY <1>9, <1>10, <1>13, <1>14, TryCommitType
  <1> HIDE DEF committed
  <1>16. /\ ConfigBuckets(committed)
         /\ SameStake(c, committed)
         /\ SameSchedule(c, committed)
    BY <1>5, <1>13, <1>15 DEF SameStake, SameSchedule, ConfigBuckets
  <1>17. reduce_position_stake_ok(committed, p, amount)
    BY <1>3, <1>16 DEF reduce_position_stake_ok, SameStake
  <1>18. /\ reduced \in ConfigType
         /\ ConfigBuckets(reduced)
         /\ SameSchedule(committed, reduced)
         /\ reduced.total_locked = committed.total_locked - amount
    BY <1>5, <1>6, <1>15, <1>16, <1>17, ReducedConfigType
  <1>19. /\ PositionBuckets(paid)
         /\ amount <= paid.locked_amount
         /\ EligibleReduction(paid, amount) <= paid.eligible_amount
    BY <1>5, <1>7, <1>12
    DEF SameLock, SameBuckets, PositionBuckets,
        EligibleReduction, WarmingReduction, PendingReduction
  <1>20. /\ rest \in PositionType
         /\ PositionBuckets(rest)
         /\ rest.is_initialized = paid.is_initialized
         /\ rest.locked_amount <= paid.locked_amount
         /\ rest.warming_amount <= paid.warming_amount
         /\ rest.eligible_amount <= paid.eligible_amount
         /\ rest.warming_epoch = paid.warming_epoch
         /\ rest.unlock_ts = paid.unlock_ts
    BY <1>6, <1>12, <1>19, ReducedPositionType
  <1> HIDE DEF reduced, rest
  <1>21. d \in ConfigType /\ SameStake(reduced, d) /\ SameSchedule(reduced, d)
    BY <1>3, <1>6, <1>8, <1>18, WithdrawnConfigType
  <1>22. q \in PositionType /\ SameLock(rest, q) /\ SameBuckets(rest, q)
    BY <1>3, <1>6, <1>8, <1>20, WithdrawnPositionType
  <1> HIDE DEF d, q
  <1>23. PositionBuckets(q) /\ ConfigBuckets(d)
    BY <1>18, <1>20, <1>21, <1>22
    DEF PositionBuckets, ConfigBuckets, SameLock, SameBuckets, SameStake
  <1>24. /\ q.is_initialized = p.is_initialized
         /\ q.locked_amount <= p.locked_amount
         /\ q.warming_amount <= p.warming_amount
         /\ q.eligible_amount <= p.eligible_amount
         /\ q.warming_epoch = p.warming_epoch
         /\ q.unlock_ts = p.unlock_ts
    BY <1>12, <1>20, <1>22 DEF SameLock, SameBuckets
  <1>25. LockKept(old, q) /\ WaitsAnEpoch(old, q)
    BY <1>2, <1>5, <1>22, <1>24, PositionNats DEF Settled, LockKept, WaitsAnEpoch, old
  <1>26. d.total_locked = config.total_locked - amount
    BY <1>5, <1>16, <1>18, <1>21 DEF SameStake
  <1>27. config.total_locked \in Nat /\ stray.vault \in Nat
    BY StateTypes, ConfigNats
  <1>28. vault' = d.total_locked + stray.vault
    BY <1>4, <1>6, <1>26, <1>27 DEF IInv, VaultBacksPrincipal
  <1>29. vault' \in Nat /\ pool' \in Nat
    BY <1>3, <1>4, <1>6, <1>9, <1>11, StateTypes
  <1>30. wallet' \in [Users -> Nat]
    <2>1. wallet[u] \in Nat
      BY WalletType DEF Users
    <2>2. wallet[u] + payout + amount - split.reward - split.burn \in Nat
      BY <1>3, <1>6, <1>9, <1>11, <2>1
    <2> QED
      BY <1>4, <2>2, WalletType DEF Users
  <1>31. SameSchedule(config, d)
    BY <1>5, <1>16, <1>18, <1>21 DEF SameSchedule
  <1>32. StakerStep(u, d, q)
    BY <1>2, <1>4, <1>21, <1>22, <1>23, <1>24, <1>25, <1>28, <1>29, <1>30, <1>31
    DEF StakerStep, Settled, old
  <1> QED
    BY <1>32, StakerStepSafe

-----------------------------------------------------------------------------
(* The other instructions move no stake. *)

LEMMA InitializeConfigSafe ==
    ASSUME IInv, NEW pol \in Policies, InitializeConfig(pol)
    PROVE  SafeStep
  <1> DEFINE d == [EmptyConfig EXCEPT !.is_initialized = TRUE,
                                      !.created_ts = now,
                                      !.last_epoch_ts = now]
  <1>1. /\ ~config.is_initialized
        /\ AcceptablePolicy(pol)
        /\ policy' = pol
        /\ config' = d
        /\ UNCHANGED <<position, wallet, vault, pool, now, stray>>
    BY DEF InitializeConfig
  <1>2. config = EmptyConfig /\ \A u \in Owners : position[u] = EmptyPosition
    BY <1>1 DEF IInv, Untouched
  <1>3. now \in Timestamp /\ TRUE \in BOOLEAN
    BY StateTypes
  <1>4. d \in ConfigType
    BY <1>3, EmptyTypes, Zenon DEF ConfigType
  <1>5. /\ d.is_initialized = TRUE
        /\ d.created_ts = now
        /\ d.last_epoch_ts = now
        /\ d.current_epoch = 0
        /\ d.total_locked = 0
        /\ d.pending_activation_locked = 0
        /\ d.warming_locked = 0
        /\ d.eligible_locked = 0
    BY DEF EmptyConfig
  <1> HIDE DEF d
  <1>6. TypeOK'
    BY <1>1, <1>4 DEF IInv, TypeOK
  <1>7. Untouched' /\ (config.is_initialized => AcceptablePolicy(policy))'
    BY <1>1, <1>5 DEF Untouched, AcceptablePolicy
  <1>8. \A u \in Owners : PositionInv(position[u])'
    BY <1>1, <1>2, <1>5 DEF PositionInv, PositionBuckets, EmptyPosition
  <1>9. ConfigBuckets(config)'
    BY <1>1, <1>5 DEF ConfigBuckets
  <1>10. VaultBacksPrincipal'
    <2>1. config.total_locked = 0
      BY <1>2 DEF EmptyConfig
    <2> QED
      BY <1>1, <1>5, <2>1 DEF IInv, VaultBacksPrincipal
  <1>11. EpochsKeepSchedule'
    <2>1. pol.epoch_seconds \in Int
      BY ArenaAssumption DEF PolicyType
    <2>2. pol.epoch_seconds * 0 = 0
      BY <2>1
    <2> QED
      BY <1>1, <1>3, <1>5, <2>2, Times DEF EpochsKeepSchedule
  <1>12. \A u \in Owners :
            LockKept(position[u], position'[u]) /\ WaitsAnEpoch(position[u], position'[u])
    BY <1>1, StateTypes, Unmoved
  <1> QED
    BY <1>6, <1>7, <1>8, <1>9, <1>10, <1>11, <1>12 DEF IInv, SafeStep

\* process_fund_rewards moves the index, never the stake.
LEMMA FundSafe ==
    ASSUME IInv, NEW u \in Users, NEW amount \in Fundings, FundRewards(u, amount)
    PROVE  SafeStep
  <1> DEFINE c == commit_rewards_to_index(config, amount, config.eligible_locked)
             funded == sat_add_u64(c.total_rewards_funded, amount)
             d == [c EXCEPT !.total_rewards_funded = funded]
  <1>1. /\ config.is_initialized
        /\ amount <= wallet[u]
        /\ commit_rewards_to_index_ok(config, amount, config.eligible_locked)
        /\ config' = d
        /\ wallet' = [wallet EXCEPT ![u] = wallet[u] - amount]
        /\ pool' = pool + amount
        /\ UNCHANGED <<policy, position, vault, now, stray>>
    BY DEF FundRewards
  <1>2. amount \in U64 /\ amount \in Nat
    BY ArenaAssumption, Widths
  <1>3. c \in ConfigType /\ SameStake(config, c) /\ SameSchedule(config, c)
    BY <1>1, <1>2, StateTypes, ConfigFields, CommitType
  <1> HIDE DEF c
  <1>4. funded \in U64
    BY <1>2, <1>3, SatAdd, ConfigFields
  <1> HIDE DEF funded
  <1>5. d \in ConfigType
    BY <1>3, <1>4, Zenon DEF ConfigType
  <1>6. SameStake(c, d) /\ SameSchedule(c, d)
    BY <1>3 DEF ConfigType, SameStake, SameSchedule
  <1> HIDE DEF d
  <1>7. SameStake(config, d) /\ SameSchedule(config, d)
    BY <1>3, <1>6 DEF SameStake, SameSchedule
  <1>8. wallet' \in [Users -> Nat] /\ pool' \in Nat
    BY <1>1, <1>2, WalletType, StateTypes
  <1> QED
    BY <1>1, <1>5, <1>7, <1>8, ConfigStepSafe

\* process_finalize_rewards burns the pool, never the vault.
LEMMA FinalizeSafe ==
    ASSUME IInv, FinalizeRewards
    PROVE  SafeStep
  <1> DEFINE expired == sat_add_u64(config.total_rewards_expired, pool)
             burned == sat_add_u64(config.total_burned, pool)
             d == [config EXCEPT !.pending_rewards = 0,
                                 !.reward_dust = 0,
                                 !.total_rewards_expired = expired,
                                 !.total_burned = burned]
  <1>1. /\ config.is_initialized
        /\ config' = IF pool = 0 THEN config ELSE d
        /\ pool' = 0
        /\ UNCHANGED <<policy, position, wallet, vault, now, stray>>
    BY DEF FinalizeRewards, PoolBurnedConfig
  <1>2. config \in ConfigType /\ pool \in Nat /\ wallet \in [Users -> Nat]
    BY StateTypes
  <1>3. expired \in U64 /\ burned \in U64
    <2>1. /\ config.total_rewards_expired \in Nat
          /\ config.total_burned \in Nat
      BY <1>2, ConfigFields, Widths
    <2> QED
      BY <1>2, <2>1, Widths DEF sat_add_u64, U64
  <1> HIDE DEF expired, burned
  <1>4. d \in ConfigType
    BY <1>2, <1>3, Widths, Zenon DEF ConfigType
  <1>5. SameStake(config, d) /\ SameSchedule(config, d)
    BY <1>2 DEF ConfigType, SameStake, SameSchedule
  <1> HIDE DEF d
  <1>6. config' \in ConfigType /\ SameStake(config, config') /\ SameSchedule(config, config')
    BY <1>1, <1>2, <1>4, <1>5 DEF SameStake, SameSchedule
  <1>7. wallet' \in [Users -> Nat] /\ pool' \in Nat
    BY <1>1, <1>2
  <1> QED
    BY <1>1, <1>6, <1>7, ConfigStepSafe

\* One more period.
LEMMA NextMultiple == \A s \in Int, n \in Nat : s * (n + 1) = s * n + s
  OBVIOUS

\* process_roll_epoch adds one period to the schedule, not to the clock.
LEMMA RollEpochSafe ==
    ASSUME IInv, RollEpoch
    PROVE  SafeStep
  <1> DEFINE epoch == config.current_epoch + 1
             ts == config.last_epoch_ts + policy.epoch_seconds
             d == [config EXCEPT !.current_epoch = epoch, !.last_epoch_ts = ts]
  <1>1. /\ config.is_initialized
        /\ ts <= I64_MAX
        /\ now >= ts
        /\ config.current_epoch < U64_MAX
        /\ config' = d
        /\ UNCHANGED <<policy, position, wallet, vault, pool, now, stray>>
    BY DEF RollEpoch, NextEpochTs
  <1>2. /\ config \in ConfigType
        /\ config.current_epoch \in Nat
        /\ config.last_epoch_ts \in Nat
        /\ config.created_ts \in Nat
        /\ policy.epoch_seconds \in Nat
    BY <1>1, StateTypes, ConfigFields, ConfigNats, Policy
  <1>3. epoch \in U64 /\ ts \in Timestamp /\ ts \in Nat
    <2>1. epoch \in U64 /\ ts \in Nat
      BY <1>1, <1>2, Widths DEF U64
    <2> QED
      BY <1>1, <2>1, Times
  <1>4. policy.epoch_seconds * epoch
           = policy.epoch_seconds * config.current_epoch + policy.epoch_seconds
    BY <1>2, NextMultiple
  <1>5. config.last_epoch_ts = config.created_ts + policy.epoch_seconds * config.current_epoch
    BY <1>1 DEF IInv, EpochsKeepSchedule
  <1>6. policy.epoch_seconds * config.current_epoch \in Nat
    BY <1>2, NatProduct
  <1>7. ts = config.created_ts + policy.epoch_seconds * epoch
    BY <1>2, <1>4, <1>5, <1>6
  <1>8. config.current_epoch < epoch
    BY <1>2
  <1> HIDE DEF epoch, ts
  <1>9. d \in ConfigType
    BY <1>2, <1>3, Zenon DEF ConfigType
  <1>10. /\ d.is_initialized = config.is_initialized
         /\ d.created_ts = config.created_ts
         /\ d.last_epoch_ts = ts
         /\ d.current_epoch = epoch
         /\ SameStake(config, d)
    BY <1>2 DEF ConfigType, SameStake
  <1> HIDE DEF d
  <1>11. TypeOK'
    BY <1>1, <1>9 DEF IInv, TypeOK
  <1>12. Untouched' /\ (config.is_initialized => AcceptablePolicy(policy))'
    BY <1>1, <1>10 DEF IInv, Untouched, AcceptablePolicy
  <1>13. \A u \in Owners : PositionInv(position[u])'
    <2> TAKE u \in Owners
    <2>1. position[u] \in PositionType /\ PositionInv(position[u])
      BY StateTypes
    <2>2. position[u].warming_epoch <= epoch
      BY <1>2, <1>3, <1>8, <2>1, PositionNats, Widths DEF PositionInv
    <2> QED
      BY <1>1, <1>10, <2>1, <2>2 DEF PositionInv
  <1>14. ConfigBuckets(config)' /\ VaultBacksPrincipal'
    BY <1>1, <1>10 DEF IInv, ConfigBuckets, VaultBacksPrincipal, SameStake
  <1>15. EpochsKeepSchedule'
    BY <1>1, <1>7, <1>10 DEF EpochsKeepSchedule
  <1>16. \A u \in Owners :
            LockKept(position[u], position'[u]) /\ WaitsAnEpoch(position[u], position'[u])
    BY <1>1, StateTypes, Unmoved
  <1> QED
    BY <1>11, <1>12, <1>13, <1>14, <1>15, <1>16 DEF IInv, SafeStep

\* Transfers from outside and the passing of time.
LEMMA EnvironmentSafe ==
    ASSUME IInv,
           \/ \E u \in Users, amount \in Donations :
                 DonateToVault(u, amount) \/ DonateToPool(u, amount)
           \/ Tick
           \/ UNCHANGED vars
    PROVE  SafeStep
  <1>1. policy' = policy /\ config' = config /\ position' = position
    BY DEF DonateToVault, DonateToPool, Tick, vars
  <1>2. /\ now \in Nat /\ vault \in Nat /\ pool \in Nat
        /\ wallet \in [Users -> Nat]
        /\ stray \in [vault: Nat, pool: Nat]
        /\ config.total_locked \in Nat
    BY StateTypes, ConfigNats
  <1>3. now' \in Timestamp /\ now' >= now
    <2>1. CASE Tick
      <3> DEFINE t == now'
      <3>1. now < I64_MAX /\ t = now + 1
        BY <2>1 DEF Tick
      <3> HIDE DEF t
      <3>2. t \in Nat /\ t <= I64_MAX /\ t >= now
        BY <1>2, <3>1, ArenaAssumption
      <3> QED
        BY <3>2, Times DEF t
    <2>2. CASE ~Tick
      <3>1. now' = now
        BY <2>2 DEF DonateToVault, DonateToPool, vars
      <3> QED
        BY <1>2, <3>1, StateTypes
    <2> QED
      BY <2>1, <2>2
  <1>4. /\ wallet' \in [Users -> Nat]
        /\ vault' \in Nat
        /\ pool' \in Nat
        /\ stray' \in [vault: Nat, pool: Nat]
        /\ VaultBacksPrincipal'
    <2>1. CASE \E u \in Users, amount \in Donations :
                  DonateToVault(u, amount) \/ DonateToPool(u, amount)
      <3>1. PICK u \in Users, amount \in Donations :
                  DonateToVault(u, amount) \/ DonateToPool(u, amount)
        BY <2>1
      <3>2. amount \in Nat
        BY ArenaAssumption, Widths
      <3>3. wallet' \in [Users -> Nat]
        BY <3>1, <3>2, WalletType DEF DonateToVault, DonateToPool
      <3>4. /\ vault' \in Nat /\ pool' \in Nat
            /\ stray' \in [vault: Nat, pool: Nat]
            /\ vault' - stray'.vault = vault - stray.vault
        BY <1>2, <3>1, <3>2 DEF DonateToVault, DonateToPool
      <3>5. VaultBacksPrincipal'
        BY <1>1, <1>2, <3>4 DEF IInv, VaultBacksPrincipal
      <3> QED
        BY <3>3, <3>4, <3>5
    <2>2. CASE Tick \/ UNCHANGED vars
      BY <1>1, <1>2, <2>2 DEF IInv, VaultBacksPrincipal, Tick, vars
    <2> QED
      BY <2>1, <2>2
  <1>5. TypeOK'
    BY <1>1, <1>3, <1>4 DEF IInv, TypeOK
  <1>6. Untouched' /\ (config.is_initialized => AcceptablePolicy(policy))'
    BY <1>1 DEF IInv, Untouched, AcceptablePolicy
  <1>7. (\A u \in Owners : PositionInv(position[u]))' /\ ConfigBuckets(config)'
    BY <1>1 DEF IInv, PositionInv
  <1>8. EpochsKeepSchedule'
    BY <1>1, <1>2, <1>3, Times, StateTypes, ConfigFields DEF IInv, EpochsKeepSchedule
  <1>9. \A u \in Owners :
           LockKept(position[u], position'[u]) /\ WaitsAnEpoch(position[u], position'[u])
    BY <1>1, StateTypes, Unmoved
  <1> QED
    BY <1>4, <1>5, <1>6, <1>7, <1>8, <1>9 DEF IInv, SafeStep

\* Every instruction, and every step of the environment, is safe.
LEMMA NextSafe ==
    ASSUME IInv, [Next]_vars
    PROVE  SafeStep
  <1>1. CASE \E pol \in Policies : InitializeConfig(pol)
    BY <1>1, InitializeConfigSafe
  <1>2. ASSUME NEW u \in Owners, OwnerStep(u) PROVE SafeStep
    <2>1. CASE ActivatePosition(u)
      BY <2>1, ActivateSyncOnlySafe, ActivatePendingSafe DEF ActivatePosition
    <2>2. CASE ClaimRewards(u)
      BY <2>2, ClaimSafe
    <2>3. CASE \E amount \in Deposits : Deposit(u, amount)
      BY <2>3, DepositSafe
    <2>4. CASE \E amount \in Exits : Withdraw(u, amount)
      BY <2>4, WithdrawSafe
    <2> QED
      BY <1>2, <2>1, <2>2, <2>3, <2>4 DEF OwnerStep
  <1>3. ASSUME NEW u \in Funders, FunderStep(u) PROVE SafeStep
    <2>1. PICK amount \in Fundings :
             \/ FundRewards(u, amount)
             \/ \E s \in Snapshots : FundRewardsChecked(u, amount, s[1], s[2])
      BY <1>3 DEF FunderStep
    <2>2. FundRewards(u, amount)
      BY <2>1 DEF FundRewardsChecked
    <2> QED
      BY <2>2, FundSafe DEF Users
  <1>4. ASSUME NEW u \in Funders, DonorStep(u) PROVE SafeStep
    <2>1. u \in Users
      BY DEF Users
    <2> QED
      BY <1>4, <2>1, EnvironmentSafe DEF DonorStep
  <1>5. CASE RollEpoch
    BY <1>5, RollEpochSafe
  <1>6. CASE FinalizeRewards
    BY <1>6, FinalizeSafe
  <1>7. CASE Tick
    BY <1>7, EnvironmentSafe
  <1>8. CASE UNCHANGED vars
    BY <1>8, EnvironmentSafe
  <1> QED
    BY <1>1, <1>2, <1>3, <1>4, <1>5, <1>6, <1>7, <1>8 DEF Next

-----------------------------------------------------------------------------
(* The theorems. *)

\* The strengthened invariant holds in every reachable state, whatever the
\* owners, policies, amounts and widths.
THEOREM InvHolds == Spec => []IInv
  <1>1. IInv /\ [Next]_vars => IInv'
    BY NextSafe DEF SafeStep
  <1> QED
    BY <1>1, InitInv, PTL DEF Spec

\* No field leaves the width of its account, be it an amount, an index or a
\* timestamp (checked i64 additions included), no carried fraction reaches a
\* unit and no balance goes negative, in any interleaving of instructions.
THEOREM TypeCorrect == Spec => []TypeOK
  <1>1. IInv => TypeOK
    BY DEF IInv
  <1> QED
    BY <1>1, InvHolds, PTL

\* Every locked unit is always in exactly one bucket, of its position and of the config.
THEOREM StakeAccountedFor == Spec => []StakeBuckets
  <1>1. IInv => StakeBuckets
    BY DEF IInv, PositionInv, StakeBuckets
  <1> QED
    BY <1>1, InvHolds, PTL

\* The vault always holds the principal of the arena, plus what was sent to it
\* from outside: no claim, penalty or burn is ever paid out of it beyond the
\* stake that left.
THEOREM PrincipalBacked == Spec => []VaultBacksPrincipal
  <1>1. IInv => VaultBacksPrincipal
    BY DEF IInv
  <1> QED
    BY <1>1, InvHolds, PTL

\* Epoch n ends on the schedule fixed at creation, however late it is rolled.
THEOREM ScheduleKept == Spec => []EpochsKeepSchedule
  <1>1. IInv => EpochsKeepSchedule
    BY DEF IInv
  <1> QED
    BY <1>1, InvHolds, PTL

\* No instruction shortens the lock of stake that stays, for any policy.
THEOREM LockKeeps == Spec => LockNeverShortens
  <1>1. IInv /\ [Next]_vars
           => [\A u \in Owners : LockKept(position[u], position'[u])]_vars
    BY NextSafe DEF SafeStep
  <1> QED
    BY <1>1, InvHolds, PTL DEF Spec, LockNeverShortens

\* Stake becomes eligible only after an epoch boundary that followed its activation.
THEOREM FreshStakeWaits == Spec => FreshStakeWaitsAnEpoch
  <1>1. IInv /\ [Next]_vars
           => [\A u \in Owners : WaitsAnEpoch(position[u], position'[u])]_vars
    BY NextSafe DEF SafeStep
  <1> QED
    BY <1>1, InvHolds, PTL DEF Spec, FreshStakeWaitsAnEpoch

-----------------------------------------------------------------------------
(* Settling is exact: it changes when a staker is credited, never how much. *)

\* The identities that the account of a settlement needs.
LEMMA Scaling ==
    /\ \A m, n, k \in Nat : (m + n) * k = m * k + n * k
    /\ \A m \in Int : m * 0 = 0 /\ 0 * m = 0
    /\ \A m \in Nat, n \in Nat : (m + 1) * n = m * n + n
  OBVIOUS

\* Quotient and remainder make up what was divided.
LEMMA DivisionByUnit ==
    ASSUME NEW n \in Nat, NEW d \in Nat, d > 0
    PROVE  (n \div d) * d + (n % d) = n
  OBVIOUS

\* What reward_index_delta_since returns is how far the index moved, its wraps
\* unrolled: bridging a generation loses nothing, whatever the width.
LEMMA DistanceIsUnwrapped ==
    ASSUME NEW c \in ConfigType, NEW p \in PositionType, reward_index_delta_since_ok(c, p)
    PROVE  reward_index_delta_since(c, p)
              = Unwrapped(c.reward_index_generation, c.reward_index)
                - Unwrapped(p.reward_index_generation_checkpoint, p.reward_index_checkpoint)
  <1> DEFINE top == U128_MAX + 1
             g == c.reward_index_generation
             h == p.reward_index_generation_checkpoint
             i == c.reward_index
             j == p.reward_index_checkpoint
  <1>1. top \in Nat /\ g \in Nat /\ h \in Nat /\ i \in Nat /\ j \in Nat
    BY PositionNats, ConfigNats, Widths
  <1>2. h * top \in Nat /\ (h + 1) * top = h * top + top
    BY <1>1, NatProduct, Scaling
  <1>3. CASE g = h
    <2>1. reward_index_delta_since(c, p) = i - j
      BY <1>3 DEF reward_index_delta_since, SameGeneration
    <2> QED
      BY <1>1, <1>2, <1>3, <2>1 DEF Unwrapped
  <1>4. CASE g # h
    <2>1. g = h + 1 /\ reward_index_delta_since(c, p) = (U128_MAX - j) + 1 + i
      BY <1>4 DEF reward_index_delta_since_ok, reward_index_delta_since, SameGeneration, ToWrap
    <2>2. Unwrapped(g, i) = (h + 1) * top + i /\ Unwrapped(h, j) = h * top + j
      BY <2>1 DEF Unwrapped
    <2> DEFINE product == h * top
    <2> HIDE DEF product
    <2>3. Unwrapped(g, i) = product + top + i /\ Unwrapped(h, j) = product + j
      BY <1>2, <2>2 DEF product
    <2>4. product \in Nat
      BY <1>2 DEF product
    <2> QED
      BY <1>1, <2>1, <2>3, <2>4, Widths
  <1> QED
    BY <1>3, <1>4

\* accrue_rewards turns the debt accumulated in the index into pending rewards
\* and a fraction, to the last 1/REWARD_INDEX_SCALE.
LEMMA AccrueIsExact ==
    ASSUME NEW c \in ConfigType, NEW p \in PositionType, accrue_rewards_ok(c, p)
    PROVE  /\ OwedScaled(c, accrue_rewards(c, p)) = OwedScaled(c, p)
           /\ accrue_rewards(c, p).reward_index_checkpoint = c.reward_index
           /\ accrue_rewards(c, p).reward_index_generation_checkpoint
                 = c.reward_index_generation
  <1> DEFINE q == accrue_rewards(c, p)
             delta == reward_index_delta_since(c, p)
             share == p.eligible_amount * delta
             scaled == Scaled(c, p)
             unit == REWARD_INDEX_SCALE
  <1>1. delta \in Nat
    BY DistanceType DEF accrue_rewards_ok
  <1>2. delta = Unwrapped(c.reward_index_generation, c.reward_index)
                - Unwrapped(p.reward_index_generation_checkpoint, p.reward_index_checkpoint)
    BY DistanceIsUnwrapped DEF accrue_rewards_ok
  <1>3. OwedScaled(c, p) = p.pending_rewards * unit + p.reward_accrual_remainder + share
    BY <1>2 DEF OwedScaled
  <1>4. /\ q.pending_rewards = IF Earning(c, p) THEN p.pending_rewards + Earned(c, p)
                                               ELSE p.pending_rewards
        /\ q.reward_accrual_remainder = IF Earning(c, p) THEN scaled % unit
                                                         ELSE p.reward_accrual_remainder
        /\ q.reward_index_checkpoint = c.reward_index
        /\ q.reward_index_generation_checkpoint = c.reward_index_generation
        /\ q.eligible_amount = p.eligible_amount
    BY DEF accrue_rewards, PositionType
  <1>5. /\ p.eligible_amount \in Nat
        /\ p.pending_rewards \in Nat
        /\ p.reward_accrual_remainder \in Nat
        /\ unit \in Nat /\ unit > 0
    BY PositionFields, PositionNats, Widths
  <1>6. share \in Nat
    BY <1>1, <1>5, NatProduct
  <1>7. scaled = share + p.reward_accrual_remainder
    BY DEF Scaled
  <1>8. OwedScaled(c, q) = q.pending_rewards * unit + q.reward_accrual_remainder
    <2> DEFINE index == Unwrapped(c.reward_index_generation, c.reward_index)
    <2>1. index \in Nat
      <3>1. /\ c.reward_index_generation \in Nat
            /\ c.reward_index \in Nat
            /\ U128_MAX + 1 \in Nat
        BY ConfigNats, Widths
      <3>2. c.reward_index_generation * (U128_MAX + 1) \in Nat
        BY <3>1, NatProduct
      <3> QED
        BY <3>1, <3>2 DEF Unwrapped
    <2>2. OwedScaled(c, q) = q.pending_rewards * unit + q.reward_accrual_remainder
                             + p.eligible_amount * (index - index)
      BY <1>4 DEF OwedScaled
    <2> HIDE DEF index
    <2>3. p.eligible_amount * (index - index) = 0
      BY <1>5, <2>1, Scaling
    <2>4. q.pending_rewards \in Nat /\ q.reward_accrual_remainder \in Nat
      BY AccrueType, PositionFields, PositionNats, Widths
    <2>5. q.pending_rewards * unit \in Nat
      BY <1>5, <2>4, NatProduct
    <2> HIDE DEF q
    <2> QED
      BY <2>2, <2>3, <2>4, <2>5
  <1>9. CASE Earning(c, p)
    <2> DEFINE earned == Earned(c, p)
    <2>1. earned = scaled \div unit
      BY DEF Earned
    <2>2. scaled \in Nat
      BY <1>5, <1>6, <1>7
    <2> HIDE DEF scaled, share
    <2>3. /\ earned * unit + (scaled % unit) = scaled
          /\ earned \in Nat
          /\ scaled % unit \in Nat
      BY <1>5, <2>1, <2>2, DivisionByUnit, RemainderBound, Widths
    <2> HIDE DEF earned
    <2>4. (p.pending_rewards + earned) * unit = p.pending_rewards * unit + earned * unit
      BY <1>5, <2>3, Scaling
    <2>5. p.pending_rewards * unit \in Nat /\ earned * unit \in Nat
      BY <1>5, <2>3, NatProduct
    <2>6. OwedScaled(c, q) = (p.pending_rewards + earned) * unit + (scaled % unit)
      BY <1>4, <1>8, <1>9 DEF earned
    <2>7. OwedScaled(c, q) = p.pending_rewards * unit + (earned * unit + (scaled % unit))
      BY <2>3, <2>4, <2>5, <2>6
    <2> QED
      BY <1>3, <1>4, <1>5, <1>6, <1>7, <2>3, <2>5, <2>7
  <1>10. CASE ~Earning(c, p)
    <2>1. share = 0
      BY <1>1, <1>5, <1>10, Scaling DEF Earning
    <2>2. p.pending_rewards * unit \in Nat
      BY <1>5, NatProduct
    <2> QED
      BY <1>3, <1>4, <1>5, <1>8, <1>10, <2>1, <2>2
  <1> QED
    BY <1>4, <1>9, <1>10

\* Promotion of warming stake owes nothing new: the stake that joins starts at
\* the current index, and the stake that was there has been credited (H-02).
LEMMA MatureIsExact ==
    ASSUME NEW c \in ConfigType, NEW p \in PositionType, mature_warming_ok(c, p)
    PROVE  OwedScaled(mature_warming_config(c, p), mature_warming_position(c, p))
              = OwedScaled(c, p)
  <1>1. CASE ~MatureReady(c, p)
    BY <1>1 DEF mature_warming_config, mature_warming_position
  <1>2. CASE MatureReady(c, p)
    <2> DEFINE a == accrue_rewards(c, p)
               d == mature_warming_config(c, p)
               q == mature_warming_position(c, p)
               index == Unwrapped(c.reward_index_generation, c.reward_index)
    <2>1. accrue_rewards_ok(c, p)
      BY <1>2 DEF mature_warming_ok
    <2>2. a \in PositionType
      BY <2>1, AccrueType
    <2>3. /\ OwedScaled(c, a) = OwedScaled(c, p)
          /\ a.reward_index_checkpoint = c.reward_index
          /\ a.reward_index_generation_checkpoint = c.reward_index_generation
      BY <2>1, AccrueIsExact
    <2>4. /\ d.reward_index = c.reward_index
          /\ d.reward_index_generation = c.reward_index_generation
      BY <1>2 DEF mature_warming_config, ConfigType
    <2>5. q = [a EXCEPT !.eligible_amount = a.eligible_amount + p.warming_amount,
                        !.warming_amount = 0]
      BY <1>2 DEF mature_warming_position
    <2> HIDE DEF a
    <2>6. /\ q.pending_rewards = a.pending_rewards
          /\ q.reward_accrual_remainder = a.reward_accrual_remainder
          /\ q.reward_index_checkpoint = a.reward_index_checkpoint
          /\ q.reward_index_generation_checkpoint = a.reward_index_generation_checkpoint
      BY <2>2, <2>5 DEF PositionType
    <2>7. q \in PositionType
      BY MatureType DEF Matured
    <2>8. index \in Int
      <3>1. /\ c.reward_index_generation \in Nat
            /\ c.reward_index \in Nat
            /\ U128_MAX + 1 \in Nat
        BY ConfigNats, Widths
      <3>2. c.reward_index_generation * (U128_MAX + 1) \in Nat
        BY <3>1, NatProduct
      <3> QED
        BY <3>1, <3>2 DEF Unwrapped
    <2>9. OwedScaled(c, a) = a.pending_rewards * REWARD_INDEX_SCALE
                             + a.reward_accrual_remainder
                             + a.eligible_amount * (index - index)
      BY <2>3 DEF OwedScaled
    <2> HIDE DEF d, q
    <2>10. OwedScaled(d, q) = a.pending_rewards * REWARD_INDEX_SCALE
                              + a.reward_accrual_remainder
                              + q.eligible_amount * (index - index)
      BY <2>3, <2>4, <2>6 DEF OwedScaled
    <2> HIDE DEF index
    <2>11. index - index = 0
      BY <2>8
    <2>12. /\ a.eligible_amount * (index - index) = 0
           /\ q.eligible_amount * (index - index) = 0
      BY <2>2, <2>7, <2>11, PositionNats, Scaling
    <2> QED
      BY <2>3, <2>9, <2>10, <2>12 DEF d, q
  <1> QED
    BY <1>1, <1>2

\* The sync that opens every staker instruction leaves what the arena owes the
\* position exactly as it was: neither the order nor the number of touches, nor
\* a maturity or an index wrap in between, gains or loses a fraction.
THEOREM SettlingIsExact ==
    ASSUME NEW c \in ConfigType, NEW p \in PositionType, sync_ok(c, p)
    PROVE  OwedScaled(SyncedConfig(c, p), SyncedPosition(c, p)) = OwedScaled(c, p)
  <1> DEFINE d == mature_warming_config(c, p)
             m == mature_warming_position(c, p)
  <1>1. mature_warming_ok(c, p) /\ accrue_rewards_ok(d, m)
    BY DEF sync_ok
  <1>2. d \in ConfigType /\ m \in PositionType
    BY <1>1, MatureType DEF Matured
  <1>3. OwedScaled(d, m) = OwedScaled(c, p)
    BY <1>1, MatureIsExact
  <1>4. OwedScaled(d, accrue_rewards(d, m)) = OwedScaled(d, m)
    BY <1>1, <1>2, AccrueIsExact
  <1> QED
    BY <1>3, <1>4 DEF SyncedConfig, SyncedPosition

-----------------------------------------------------------------------------
(* Prompt owners and keepers: what the lock policy buys them.  Neither      *)
(* promise is inductive by itself.  Stake in every bucket needs an end of   *)
(* its lock that leaves room for what it still has to wait for, and the     *)
(* rolls must keep up with the clock.                                       *)

\* Pending stake is activated by activation_ts and then has two epochs left;
\* warming stake has them from the start of its epoch, and one once it is ready.
StillLocked(p) ==
    /\ p.pending_activation_amount > 0 =>
          /\ now <= p.activation_ts
          /\ p.activation_ts + 2 * policy.epoch_seconds <= p.unlock_ts
    /\ p.warming_amount > 0 =>
          IF p.warming_epoch = config.current_epoch
          THEN config.last_epoch_ts + 2 * policy.epoch_seconds <= p.unlock_ts
          ELSE now + policy.epoch_seconds <= p.unlock_ts

PromptInv ==
    /\ config.is_initialized => now <= NextEpochTs
    /\ \A u \in Owners : StillLocked(position[u])

\* No stake becomes eligible but what was ready.
Grown(p, q) == q.eligible_amount > p.eligible_amount => MatureReady(config, p)

\* Less stake waits behind the same clocks.
SameClocks(p, q) ==
    /\ q.pending_activation_amount <= p.pending_activation_amount
    /\ q.warming_amount <= p.warming_amount
    /\ q.warming_epoch = p.warming_epoch
    /\ q.activation_ts = p.activation_ts
    /\ q.unlock_ts = p.unlock_ts

LEMMA LessStillLocked ==
    ASSUME NEW p \in PositionType, NEW q \in PositionType, SameClocks(p, q), StillLocked(p)
    PROVE  StillLocked(q)
  <1>1. /\ p.pending_activation_amount \in Nat /\ q.pending_activation_amount \in Nat
        /\ p.warming_amount \in Nat /\ q.warming_amount \in Nat
    BY PositionNats
  <1> QED
    BY <1>1 DEF SameClocks, StillLocked

\* Settling moves no clock.
LEMMA SyncClocks ==
    ASSUME IInv, NEW u \in Owners, position[u].is_initialized, sync_ok(config, position[u])
    PROVE  LET p == SyncedPosition(config, position[u])
           IN  /\ p \in PositionType
               /\ SameClocks(position[u], p)
               /\ Grown(position[u], p)
  <1> DEFINE old == position[u]
             m == mature_warming_position(config, old)
             p == SyncedPosition(config, old)
  <1>1. config \in ConfigType /\ old \in PositionType
    BY StateTypes
  <1>2. Matured(config, old, SyncedConfig(config, old), p)
    BY <1>1, SyncType
  <1>3. p \in PositionType /\ SameLock(old, p) /\ p.warming_amount <= old.warming_amount
    BY <1>2 DEF Matured
  <1>4. m \in PositionType /\ m.activation_ts = old.activation_ts
    <2>1. m \in PositionType
      BY <1>1, MatureType DEF sync_ok, Matured
    <2>2. m.activation_ts = old.activation_ts
      BY <1>1 DEF mature_warming_position, accrue_rewards, PositionType
    <2> QED
      BY <2>1, <2>2
  <1>5. p.activation_ts = old.activation_ts
    <2> HIDE DEF m
    <2>1. SyncedPosition(config, old)
             = accrue_rewards(mature_warming_config(config, old), m)
      BY DEF SyncedPosition, m
    <2> QED
      BY <1>4, <2>1 DEF accrue_rewards, PositionType
  <1>6. p.pending_activation_amount <= old.pending_activation_amount
    BY <1>1, <1>3, PositionNats DEF SameLock
  <1>7. Grown(old, p)
    <2> SUFFICES ASSUME p.eligible_amount > old.eligible_amount
                 PROVE  MatureReady(config, old)
      BY DEF Grown
    <2>1. /\ p.warming_amount + p.eligible_amount = old.warming_amount + old.eligible_amount
          /\ old.warming_epoch < config.current_epoch
      BY <1>2 DEF Matured
    <2> HIDE DEF p, old
    <2>2. old.warming_amount > 0
      BY <1>1, <1>3, <2>1, PositionNats
    <2>3. config.current_epoch > old.warming_epoch
      BY <1>1, <2>1, PositionNats, ConfigNats
    <2> QED
      BY <2>2, <2>3 DEF MatureReady
  <1> QED
    BY <1>3, <1>5, <1>6, <1>7 DEF SameLock, SameClocks

\* What a staker instruction does to u's position, and how it ends.
PromptStep(u) ==
    /\ config.is_initialized
    /\ SameSchedule(config, config')
    /\ \A v \in Owners \ {u} : position'[v] = position[v]
    /\ UNCHANGED <<policy, now>>
    /\ StillLocked(position'[u])
    /\ Grown(position[u], position'[u])

\* The invariant of prompt behaviours, and the promise about growing stake.
SafePrompt ==
    /\ PromptInv'
    /\ \A u \in Owners : Grown(position[u], position'[u])

\* A position that does not change grows nothing.
LEMMA UnmovedGrown == ASSUME NEW p \in PositionType PROVE Grown(p, p)
  BY PositionNats DEF Grown

LEMMA PromptStepSafe ==
    ASSUME IInv, PromptInv, NEW u \in Owners, PromptStep(u)
    PROVE  SafePrompt
  <1>1. config'.is_initialized => now' <= NextEpochTs'
    BY DEF PromptStep, PromptInv, NextEpochTs, SameSchedule
  <1>2. ASSUME NEW v \in Owners PROVE StillLocked(position[v])'
    <2>1. StillLocked(position'[v])
      BY DEF PromptStep, PromptInv
    <2> QED
      BY <2>1 DEF PromptStep, SameSchedule, StillLocked
  <1>3. ASSUME NEW v \in Owners PROVE Grown(position[v], position'[v])
    <2>1. CASE v = u
      BY <2>1 DEF PromptStep
    <2>2. CASE v # u
      BY <2>2, StateTypes, UnmovedGrown DEF PromptStep
    <2> QED
      BY <2>1, <2>2
  <1> QED
    BY <1>1, <1>2, <1>3 DEF PromptInv, SafePrompt

\* Every policy leaves two epochs after activation, from the moment of the deposit.
LEMMA LockPolicy ==
    ASSUME IInv, config.is_initialized
    PROVE  /\ policy.epoch_seconds \in Nat /\ policy.epoch_seconds > 0
           /\ policy.activation_delay_seconds \in Nat
           /\ policy.min_lock_seconds \in Nat
           /\ policy.min_lock_seconds
                 >= policy.activation_delay_seconds + 2 * policy.epoch_seconds
           /\ config.last_epoch_ts \in Nat
           /\ config.last_epoch_ts <= now
           /\ now \in Nat
  <1>1. assert_lock_policy(policy) /\ config.last_epoch_ts <= now
    BY DEF IInv, AcceptablePolicy, EpochsKeepSchedule
  <1> QED
    BY <1>1, Policy, StateTypes, ConfigFields DEF assert_lock_policy

\* The position an instruction settles first, or the new one it opens.
LEMMA DepositPrompt ==
    ASSUME IInv, PromptInv, NEW u \in Owners, NEW amount \in Deposits, Deposit(u, amount)
    PROVE  PromptStep(u)
  <1> DEFINE old == position[u]
             p == IF old.is_initialized THEN SyncedPosition(config, old) ELSE NewPosition
             had_locked == p.locked_amount > 0
             min_unlock == now + policy.min_lock_seconds
             min_activation == now + policy.activation_delay_seconds
             q == DepositedPosition(p, amount)
  <1>1. /\ config.is_initialized
        /\ old.is_initialized => sync_ok(config, old)
        /\ position' = [position EXCEPT ![u] = q]
        /\ UNCHANGED <<policy, now>>
    BY DEF Deposit
  <1>2. SameSchedule(config, config')
    <2> DEFINE c == IF old.is_initialized THEN SyncedConfig(config, old) ELSE config
    <2>1. c \in ConfigType /\ SameSchedule(config, c)
      BY <1>1, SyncSettles, NewSettles DEF Settled
    <2>2. \E x, y : config' = [c EXCEPT !.total_locked = x, !.pending_activation_locked = y]
      BY DEF Deposit
    <2> HIDE DEF c
    <2> QED
      BY <2>1, <2>2 DEF ConfigType, SameSchedule
  <1>3. old \in PositionType /\ PositionInv(old) /\ StillLocked(old)
    BY StateTypes DEF PromptInv
  <1>4. p \in PositionType /\ PositionBuckets(p)
    BY <1>1, SyncSettles, NewSettles DEF Settled
  <1>5. StillLocked(p) /\ Grown(old, p)
    <2>1. CASE old.is_initialized
      BY <1>1, <1>3, <2>1, SyncClocks, LessStillLocked
    <2>2. CASE ~old.is_initialized
      <3>1. /\ p.pending_activation_amount = 0 /\ p.warming_amount = 0
            /\ p.eligible_amount = 0
        BY <2>2 DEF NewPosition, EmptyPosition
      <3> HIDE DEF p
      <3> QED
        BY <1>3, <3>1, PositionNats DEF StillLocked, Grown
    <2> QED
      BY <2>1, <2>2
  <1> HIDE DEF p
  <1>6. /\ q.warming_amount = p.warming_amount
        /\ q.warming_epoch = p.warming_epoch
        /\ q.eligible_amount = p.eligible_amount
        /\ q.unlock_ts = IF had_locked THEN Later(p.unlock_ts, min_unlock) ELSE min_unlock
        /\ q.activation_ts = IF had_locked /\ p.pending_activation_amount > 0
                             THEN Later(p.activation_ts, min_activation) ELSE min_activation
    BY <1>4 DEF DepositedPosition, PositionType
  <1> HIDE DEF q
  <1>7. /\ min_unlock \in Nat /\ min_activation \in Nat /\ min_activation >= now
        /\ min_activation + 2 * policy.epoch_seconds <= min_unlock
        /\ policy.epoch_seconds \in Nat /\ now \in Nat
    BY <1>1, LockPolicy
  <1> HIDE DEF min_unlock, min_activation
  <1>8. /\ p.unlock_ts \in Nat /\ p.activation_ts \in Nat /\ p.locked_amount \in Nat
        /\ p.pending_activation_amount \in Nat /\ p.warming_amount \in Nat
        /\ p.eligible_amount \in Nat
    BY <1>4, PositionNats, PositionFields
  <1>9. now <= q.activation_ts /\ q.activation_ts + 2 * policy.epoch_seconds <= q.unlock_ts
    BY <1>5, <1>6, <1>7, <1>8 DEF StillLocked, Later
  <1>10. q.warming_amount > 0 => q.unlock_ts >= p.unlock_ts
    <2>1. p.warming_amount > 0 => had_locked
      BY <1>4, <1>8 DEF PositionBuckets
    <2> QED
      BY <1>6, <1>7, <1>8, <2>1 DEF Later
  <1>11. StillLocked(q)
    <2>1. q.unlock_ts \in Nat /\ config.last_epoch_ts \in Nat
      BY <1>1, <1>6, <1>7, <1>8, LockPolicy DEF Later
    <2> QED
      BY <1>5, <1>6, <1>7, <1>8, <1>9, <1>10, <2>1 DEF StillLocked
  <1>12. Grown(old, q)
    BY <1>5, <1>6 DEF Grown
  <1>13. position'[u] = q /\ \A v \in Owners \ {u} : position'[v] = position[v]
    BY <1>1 DEF IInv, TypeOK
  <1> QED
    BY <1>1, <1>2, <1>11, <1>12, <1>13 DEF PromptStep

LEMMA ActivateSyncOnlyPrompt ==
    ASSUME IInv, PromptInv, NEW u \in Owners, ActivateSyncOnly(u)
    PROVE  PromptStep(u)
  <1> DEFINE old == position[u]
             c == SyncedConfig(config, old)
             p == SyncedPosition(config, old)
  <1>1. Settled(u, c, p)
    BY SyncSettles DEF ActivateSyncOnly
  <1>2. /\ config' = c
        /\ position' = [position EXCEPT ![u] = p]
        /\ UNCHANGED <<policy, now>>
    BY DEF ActivateSyncOnly
  <1>3. p \in PositionType /\ SameClocks(old, p) /\ Grown(old, p)
    BY SyncClocks DEF ActivateSyncOnly
  <1> HIDE DEF c, p
  <1>4. StillLocked(p)
    BY <1>3, StateTypes, LessStillLocked DEF PromptInv
  <1>5. position'[u] = p /\ \A v \in Owners \ {u} : position'[v] = position[v]
    BY <1>2 DEF IInv, TypeOK
  <1> QED
    BY <1>1, <1>2, <1>3, <1>4, <1>5 DEF PromptStep, Settled

\* Stake activated in time starts warming with two epochs of lock to go.
LEMMA ActivatePendingPrompt ==
    ASSUME IInv, PromptInv, NEW u \in Owners, ActivatePending(u)
    PROVE  PromptStep(u)
  <1> DEFINE old == position[u]
             c == SyncedConfig(config, old)
             p == SyncedPosition(config, old)
             amount == p.pending_activation_amount
             q == WarmedPosition(c, p)
             d == [c EXCEPT !.pending_activation_locked = c.pending_activation_locked - amount,
                            !.warming_locked = c.warming_locked + amount]
  <1>1. Settled(u, c, p)
    BY SyncSettles DEF ActivatePending
  <1>2. /\ config' = d
        /\ position' = [position EXCEPT ![u] = q]
        /\ amount > 0
        /\ UNCHANGED <<policy, now>>
    BY DEF ActivatePending
  <1>3. p \in PositionType /\ SameClocks(old, p) /\ Grown(old, p)
    BY SyncClocks DEF ActivatePending
  <1> HIDE DEF c, p
  <1>4. StillLocked(p)
    BY <1>3, StateTypes, LessStillLocked DEF PromptInv
  <1>5. /\ c \in ConfigType /\ SameSchedule(config, c) /\ config.is_initialized
        /\ p.warming_amount > 0 => p.warming_epoch = config.current_epoch
    BY <1>1 DEF Settled
  <1>6. /\ q.pending_activation_amount = 0
        /\ q.warming_epoch = IF p.warming_amount = 0 THEN c.current_epoch ELSE p.warming_epoch
        /\ q.eligible_amount = p.eligible_amount
        /\ q.unlock_ts = p.unlock_ts
    BY <1>3 DEF WarmedPosition, PositionType
  <1>7. SameSchedule(config, d)
    BY <1>5 DEF SameSchedule, ConfigType
  <1> HIDE DEF q, d
  <1>8. p.warming_amount \in Nat /\ p.activation_ts \in Nat /\ p.unlock_ts \in Nat
    BY <1>3, PositionNats, PositionFields
  <1>9. q.warming_epoch = config.current_epoch
    BY <1>5, <1>6, <1>8 DEF SameSchedule
  <1>10. config.last_epoch_ts + 2 * policy.epoch_seconds <= p.unlock_ts
    <2>1. now <= p.activation_ts /\ p.activation_ts + 2 * policy.epoch_seconds <= p.unlock_ts
      BY <1>2, <1>4 DEF StillLocked
    <2> QED
      BY <1>5, <1>8, <2>1, LockPolicy
  <1>11. StillLocked(q)
    BY <1>6, <1>9, <1>10 DEF StillLocked
  <1>12. Grown(old, q)
    BY <1>3, <1>6 DEF Grown
  <1>13. position'[u] = q /\ \A v \in Owners \ {u} : position'[v] = position[v]
    BY <1>2 DEF IInv, TypeOK
  <1> QED
    BY <1>2, <1>5, <1>7, <1>11, <1>12, <1>13 DEF PromptStep

LEMMA ClaimPrompt ==
    ASSUME IInv, PromptInv, NEW u \in Owners, ClaimRewards(u)
    PROVE  PromptStep(u)
  <1> DEFINE old == position[u]
             c == SyncedConfig(config, old)
             p == SyncedPosition(config, old)
             d == PaidConfig(c, p.pending_rewards)
             q == PaidPosition(p)
  <1>1. Settled(u, c, p)
    BY SyncSettles DEF ClaimRewards
  <1>2. /\ config' = d
        /\ position' = [position EXCEPT ![u] = q]
        /\ UNCHANGED <<policy, now>>
    BY DEF ClaimRewards
  <1>3. p \in PositionType /\ SameClocks(old, p) /\ Grown(old, p)
    BY SyncClocks DEF ClaimRewards
  <1> HIDE DEF c, p
  <1>4. c \in ConfigType /\ SameSchedule(config, c) /\ config.is_initialized
    BY <1>1 DEF Settled
  <1>5. /\ q \in PositionType
        /\ q.pending_activation_amount = p.pending_activation_amount
        /\ q.warming_amount = p.warming_amount
        /\ q.eligible_amount = p.eligible_amount
        /\ q.warming_epoch = p.warming_epoch
        /\ q.unlock_ts = p.unlock_ts
    BY <1>3, PaidType DEF SameLock, SameBuckets
  <1>6. q.activation_ts = p.activation_ts
    BY <1>3 DEF PaidPosition, PositionType
  <1>7. SameSchedule(config, d)
    BY <1>4 DEF PaidConfig, SameSchedule, ConfigType
  <1> HIDE DEF q, d
  <1>8. StillLocked(q) /\ Grown(old, q)
    <2>1. StillLocked(p)
      BY <1>3, StateTypes, LessStillLocked DEF PromptInv
    <2>2. SameClocks(p, q)
      BY <1>3, <1>5, <1>6, PositionNats DEF SameClocks
    <2> QED
      BY <1>3, <1>5, <2>1, <2>2, LessStillLocked DEF Grown
  <1>9. position'[u] = q /\ \A v \in Owners \ {u} : position'[v] = position[v]
    BY <1>2 DEF IInv, TypeOK
  <1> QED
    BY <1>2, <1>4, <1>7, <1>8, <1>9 DEF PromptStep

\* What process_withdraw does to the config leaves the schedule alone ...
LEMMA WithdrawnSchedule ==
    ASSUME NEW c \in ConfigType, NEW p, NEW amount, NEW payout, NEW batch, NEW after, NEW split
    PROVE  LET committed == try_commit_rewards_to_index(PaidConfig(c, payout), batch, after)
           IN  SameSchedule(c, WithdrawnConfig(ReducedConfig(committed, p, amount), split))
  BY DEF WithdrawnConfig, ReducedConfig, PaidConfig, try_commit_rewards_to_index,
         commit_rewards_to_index, add_reward_index, SameSchedule, ConfigType

\* ... and what it does to the position, the clocks.
LEMMA WithdrawnClocks ==
    ASSUME NEW p \in PositionType, NEW amount, NEW split
    PROVE  LET paid == IF amount = p.locked_amount THEN PaidPosition(p) ELSE p
               q == WithdrawnPosition(ReducedPosition(paid, amount), amount, split)
           IN  /\ q.pending_activation_amount
                     = p.pending_activation_amount - PendingReduction(p, amount)
               /\ q.warming_amount = p.warming_amount - WarmingReduction(p, amount)
               /\ q.eligible_amount = p.eligible_amount - EligibleReduction(p, amount)
               /\ q.warming_epoch = p.warming_epoch
               /\ q.activation_ts = p.activation_ts
               /\ q.unlock_ts = p.unlock_ts
  BY DEF WithdrawnPosition, ReducedPosition, PaidPosition, PositionType,
         PendingReduction, WarmingReduction, EligibleReduction

LEMMA WithdrawPrompt ==
    ASSUME IInv, PromptInv, NEW u \in Owners, NEW amount \in Exits, Withdraw(u, amount)
    PROVE  PromptStep(u)
  <1> DEFINE old == position[u]
             c == SyncedConfig(config, old)
             p == SyncedPosition(config, old)
             after == c.eligible_locked - EligibleReduction(p, amount)
             split == ExitSplit(p, amount, after)
             payout == Payout(p, amount)
             paid == IF amount = p.locked_amount THEN PaidPosition(p) ELSE p
             committed == try_commit_rewards_to_index(PaidConfig(c, payout), split.reward, after)
             d == WithdrawnConfig(ReducedConfig(committed, p, amount), split)
             q == WithdrawnPosition(ReducedPosition(paid, amount), amount, split)
  <1>1. old.is_initialized /\ sync_ok(config, old) /\ reduce_position_stake_ok(c, p, amount)
    BY DEF Withdraw, WithdrawOk
  <1>2. /\ config' = d
        /\ position' = [position EXCEPT ![u] = q]
        /\ UNCHANGED <<policy, now>>
    BY DEF Withdraw
  <1>3. p \in PositionType /\ SameClocks(old, p) /\ Grown(old, p)
    BY <1>1, SyncClocks
  <1>4. c \in ConfigType /\ SameSchedule(config, c) /\ config.is_initialized
    BY <1>1, SyncSettles DEF Settled
  <1>5. q \in PositionType
    <2>1. IInv'
      BY WithdrawSafe DEF SafeStep
    <2>2. position'[u] = q
      BY <1>2 DEF IInv, TypeOK
    <2> QED
      BY <2>1, <2>2 DEF IInv, TypeOK
  <1> HIDE DEF c, p, split, after, payout
  <1>6. /\ q.pending_activation_amount
              = p.pending_activation_amount - PendingReduction(p, amount)
        /\ q.warming_amount = p.warming_amount - WarmingReduction(p, amount)
        /\ q.eligible_amount = p.eligible_amount - EligibleReduction(p, amount)
        /\ q.warming_epoch = p.warming_epoch
        /\ q.activation_ts = p.activation_ts
        /\ q.unlock_ts = p.unlock_ts
    BY <1>3, WithdrawnClocks
  <1>7. SameSchedule(config, d)
    <2>1. SameSchedule(c, d)
      BY <1>4, WithdrawnSchedule
    <2> QED
      BY <1>4, <2>1 DEF SameSchedule
  <1> HIDE DEF q, d
  <1>8. /\ q.pending_activation_amount <= p.pending_activation_amount
        /\ q.warming_amount <= p.warming_amount
        /\ q.eligible_amount <= p.eligible_amount
        /\ p.eligible_amount \in Nat /\ q.eligible_amount \in Nat
    <2>1. amount \in Nat
      BY ArenaAssumption, Widths
    <2>2. /\ PendingReduction(p, amount) \in Nat
          /\ WarmingReduction(p, amount) \in Nat
          /\ EligibleReduction(p, amount) \in Nat
      BY <1>3, <2>1, ReductionParts
    <2> QED
      BY <1>3, <1>5, <1>6, <2>2, PositionNats
  <1>9. StillLocked(q)
    <2>1. StillLocked(p)
      BY <1>3, StateTypes, LessStillLocked DEF PromptInv
    <2> QED
      BY <1>3, <1>5, <1>6, <1>8, <2>1, LessStillLocked DEF SameClocks
  <1>10. Grown(old, q)
    <2>1. old.eligible_amount \in Nat
      BY StateTypes, PositionNats
    <2> QED
      BY <1>3, <1>8, <2>1 DEF Grown
  <1>11. position'[u] = q /\ \A v \in Owners \ {u} : position'[v] = position[v]
    BY <1>2 DEF IInv, TypeOK
  <1> QED
    BY <1>2, <1>4, <1>7, <1>9, <1>10, <1>11 DEF PromptStep

\* An instruction that moves no stake, and not the schedule.
LEMMA IdlePrompt ==
    ASSUME IInv, PromptInv, SameSchedule(config, config'), UNCHANGED <<policy, position, now>>
    PROVE  SafePrompt
  <1>1. config'.is_initialized => now' <= NextEpochTs'
    BY DEF PromptInv, NextEpochTs, SameSchedule
  <1>2. ASSUME NEW u \in Owners PROVE StillLocked(position[u])'
    <2>1. StillLocked(position[u])
      BY DEF PromptInv
    <2> QED
      BY <2>1 DEF SameSchedule, StillLocked
  <1>3. ASSUME NEW u \in Owners PROVE Grown(position[u], position'[u])
    BY StateTypes, UnmovedGrown
  <1> QED
    BY <1>1, <1>2, <1>3 DEF PromptInv, SafePrompt

LEMMA FundPrompt ==
    ASSUME IInv, PromptInv, NEW u \in Users, NEW amount \in Fundings, FundRewards(u, amount)
    PROVE  SafePrompt
  <1> DEFINE c == commit_rewards_to_index(config, amount, config.eligible_locked)
  <1>1. /\ commit_rewards_to_index_ok(config, amount, config.eligible_locked)
        /\ config' = [c EXCEPT !.total_rewards_funded = sat_add_u64(c.total_rewards_funded, amount)]
        /\ UNCHANGED <<policy, position, now>>
    BY DEF FundRewards
  <1>2. config \in ConfigType /\ amount \in U64
    BY StateTypes, ArenaAssumption
  <1>3. c \in ConfigType /\ SameSchedule(config, c)
    BY <1>1, <1>2, ConfigFields, CommitType
  <1> HIDE DEF c
  <1>4. SameSchedule(config, config')
    BY <1>1, <1>3 DEF ConfigType, SameSchedule
  <1> QED
    BY <1>1, <1>4, IdlePrompt

LEMMA InitializeConfigPrompt ==
    ASSUME IInv, PromptInv, NEW pol \in Policies, InitializeConfig(pol)
    PROVE  SafePrompt
  <1>1. IInv' /\ now' = now /\ position' = position
    BY InitializeConfigSafe DEF SafeStep, InitializeConfig
  <1>2. config'.last_epoch_ts = now /\ config'.is_initialized
    BY DEF InitializeConfig, EmptyConfig
  <1>3. now' <= NextEpochTs'
    <2>1. policy'.epoch_seconds > 0 /\ policy'.epoch_seconds \in Int
      BY <1>1, <1>2, ArenaAssumption
      DEF InitializeConfig, AcceptablePolicy, assert_lock_policy, PolicyType
    <2> DEFINE epoch == policy'.epoch_seconds
               last == config'.last_epoch_ts
    <2>2. epoch > 0 /\ epoch \in Int /\ last = now /\ now' = now /\ now \in Nat
      BY <1>1, <1>2, <2>1, StateTypes
    <2>3. NextEpochTs' = last + epoch
      BY DEF NextEpochTs
    <2> HIDE DEF epoch, last
    <2> QED
      BY <2>2, <2>3
  <1>4. ASSUME NEW u \in Owners PROVE StillLocked(position[u])'
    <2>1. position'[u] = EmptyPosition
      BY <1>1 DEF InitializeConfig, IInv, Untouched
    <2>2. position'[u].pending_activation_amount = 0 /\ position'[u].warming_amount = 0
      BY <2>1 DEF EmptyPosition
    <2> QED
      BY <2>2 DEF StillLocked
  <1>5. ASSUME NEW u \in Owners PROVE Grown(position[u], position'[u])
    BY <1>1, StateTypes, UnmovedGrown
  <1> QED
    BY <1>3, <1>4, <1>5 DEF PromptInv, SafePrompt

\* A roll comes exactly when it is due: stake that is ready by it has one epoch left.
LEMMA RollEpochPrompt ==
    ASSUME IInv, PromptInv, RollEpoch
    PROVE  SafePrompt
  <1> DEFINE epoch == policy.epoch_seconds
             last == config.last_epoch_ts
             lastNow == config'.last_epoch_ts
             current == config.current_epoch
             currentNow == config'.current_epoch
  <1>1. config \in ConfigType /\ now \in Nat
    BY StateTypes
  <1>2. /\ config.is_initialized /\ now >= last + epoch
        /\ lastNow = last + epoch
        /\ currentNow = current + 1
        /\ UNCHANGED <<policy, position, now>>
    BY <1>1 DEF RollEpoch, NextEpochTs, ConfigType
  <1>3. /\ epoch \in Nat /\ epoch > 0 /\ last \in Nat /\ current \in Nat
    BY <1>1, <1>2, LockPolicy, ConfigNats
  <1>4. now <= last + epoch
    BY <1>2 DEF PromptInv, NextEpochTs
  <1>5. now' <= NextEpochTs'
    <2>1. NextEpochTs' = lastNow + epoch
      BY <1>2 DEF NextEpochTs
    <2> HIDE DEF epoch, last, lastNow
    <2> QED
      BY <1>1, <1>2, <1>3, <1>4, <2>1
  <1>6. ASSUME NEW u \in Owners PROVE StillLocked(position[u])'
    <2> DEFINE p == position[u]
    <2>1. p \in PositionType /\ p.warming_epoch <= current /\ StillLocked(p)
      BY StateTypes DEF PositionInv, PromptInv
    <2>2. p.warming_epoch \in Nat /\ p.unlock_ts \in Nat
      BY <2>1, PositionNats
    <2>3. p.warming_epoch # currentNow
      <3> HIDE DEF p, current, currentNow
      <3> QED
        BY <1>2, <1>3, <2>1, <2>2
    <2>4. p.pending_activation_amount > 0 =>
             now <= p.activation_ts /\ p.activation_ts + 2 * epoch <= p.unlock_ts
      BY <2>1 DEF StillLocked
    <2>5. p.warming_amount > 0 => now + epoch <= p.unlock_ts
      <3>1. p.warming_amount > 0 =>
               \/ last + 2 * epoch <= p.unlock_ts
               \/ now + epoch <= p.unlock_ts
        BY <2>1 DEF StillLocked
      <3> HIDE DEF p, last, epoch
      <3> QED
        BY <1>1, <1>3, <1>4, <2>2, <3>1
    <2> QED
      BY <1>2, <2>3, <2>4, <2>5 DEF StillLocked
  <1>7. ASSUME NEW u \in Owners PROVE Grown(position[u], position'[u])
    BY <1>2, StateTypes, UnmovedGrown
  <1> QED
    BY <1>5, <1>6, <1>7 DEF PromptInv, SafePrompt

\* The clock waits for what is due.
LEMMA TickPrompt ==
    ASSUME IInv, PromptInv, Tick, Promptly
    PROVE  SafePrompt
  <1> DEFINE t == now'
  <1>1. /\ now \in Nat /\ config \in ConfigType
        /\ t = now + 1
        /\ UNCHANGED <<policy, config, position>>
    BY StateTypes DEF Tick
  <1>2. NothingDue
    BY <1>1 DEF Promptly
  <1>3. config'.is_initialized => now' <= NextEpochTs'
    <2> SUFFICES ASSUME config.is_initialized PROVE t <= NextEpochTs
      BY <1>1 DEF NextEpochTs
    <2>1. ~(now >= NextEpochTs)
      BY <1>2 DEF NothingDue, RollDue
    <2>2. NextEpochTs \in Nat
      BY LockPolicy DEF NextEpochTs
    <2> HIDE DEF t
    <2> QED
      BY <1>1, <2>1, <2>2
  <1>4. ASSUME NEW u \in Owners PROVE StillLocked(position[u])'
    <2> DEFINE p == position[u]
    <2>1. p \in PositionType /\ p.warming_epoch <= config.current_epoch /\ StillLocked(p)
      BY StateTypes DEF PositionInv, PromptInv
    <2>2. p.activation_ts \in Nat /\ p.warming_epoch \in Nat /\ config.current_epoch \in Nat
      BY <1>1, <2>1, PositionFields, PositionNats, ConfigNats
    <2>3. /\ ~ActivationDue(u)
          /\ ~MatureReady(config, p)
      BY <1>2 DEF NothingDue
    <2>4. p.pending_activation_amount > 0 => t <= p.activation_ts
      <3>1. p.pending_activation_amount > 0 => now < p.activation_ts
        BY <1>1, <2>2, <2>3 DEF ActivationDue
      <3> HIDE DEF t, p
      <3> QED
        BY <1>1, <2>2, <3>1
    <2>5. p.warming_amount > 0 => p.warming_epoch = config.current_epoch
      BY <2>1, <2>2, <2>3 DEF MatureReady
    <2> QED
      BY <1>1, <2>1, <2>4, <2>5 DEF StillLocked
  <1>5. ASSUME NEW u \in Owners PROVE Grown(position[u], position'[u])
    BY <1>1, StateTypes, UnmovedGrown
  <1> QED
    BY <1>3, <1>4, <1>5 DEF PromptInv, SafePrompt

LEMMA InitPrompt == Init => PromptInv
  BY DEF Init, EmptyConfig, EmptyPosition, PromptInv, StillLocked

LEMMA NextPrompt ==
    ASSUME IInv, PromptInv, [Next /\ Promptly]_vars
    PROVE  IInv' /\ SafePrompt
  <1>1. IInv'
    BY NextSafe DEF SafeStep
  <1>2. ASSUME NEW u \in Owners, OwnerStep(u) PROVE SafePrompt
    BY <1>2, DepositPrompt, ActivateSyncOnlyPrompt, ActivatePendingPrompt, ClaimPrompt,
       WithdrawPrompt, PromptStepSafe
    DEF OwnerStep, ActivatePosition
  <1>3. ASSUME NEW u \in Funders, FunderStep(u) PROVE SafePrompt
    BY <1>3, FundPrompt DEF FunderStep, FundRewardsChecked, Users
  <1>4. ASSUME NEW u \in Funders, DonorStep(u) PROVE SafePrompt
    <2>1. UNCHANGED <<policy, config, position, now>>
      BY <1>4 DEF DonorStep, DonateToVault, DonateToPool
    <2> QED
      BY <2>1, IdlePrompt DEF SameSchedule
  <1>5. CASE FinalizeRewards
    <2>1. SameSchedule(config, config') /\ UNCHANGED <<policy, position, now>>
      BY <1>5, StateTypes DEF FinalizeRewards, PoolBurnedConfig, ConfigType, SameSchedule
    <2> QED
      BY <1>1, <2>1, IdlePrompt
  <1>6. CASE UNCHANGED vars
    BY <1>1, <1>6, IdlePrompt DEF SameSchedule, vars
  <1>7. CASE Next /\ Promptly
    BY <1>1, <1>2, <1>3, <1>4, <1>5, <1>7, InitializeConfigPrompt, RollEpochPrompt, TickPrompt DEF Next
  <1> QED
    BY <1>1, <1>6, <1>7

\* What is ready has an epoch of lock left, and what is not ready yet has two
\* from the start of an epoch that has not ended.
LEMMA PromptLocks ==
    ASSUME IInv, PromptInv, NEW u \in Owners, position[u].warming_amount > 0
    PROVE  /\ MatureReady(config, position[u])
                 => now + policy.epoch_seconds <= position[u].unlock_ts
           /\ ~MatureReady(config, position[u]) => now < position[u].unlock_ts
  <1> DEFINE p == position[u]
             epoch == policy.epoch_seconds
  <1>1. /\ p \in PositionType /\ PositionInv(p) /\ StillLocked(p)
        /\ config \in ConfigType
    BY StateTypes DEF PromptInv
  <1>2. config.is_initialized
    BY DEF IInv, Untouched, EmptyPosition
  <1>3. /\ epoch \in Nat /\ epoch > 0 /\ config.last_epoch_ts \in Nat /\ now \in Nat
        /\ now <= config.last_epoch_ts + epoch
    BY <1>2, LockPolicy DEF PromptInv, NextEpochTs
  <1>4. /\ p.warming_epoch \in Nat /\ p.unlock_ts \in Nat /\ config.current_epoch \in Nat
        /\ p.warming_epoch <= config.current_epoch
    BY <1>1, PositionNats, ConfigNats DEF PositionInv
  <1>5. IF p.warming_epoch = config.current_epoch
        THEN config.last_epoch_ts + 2 * epoch <= p.unlock_ts
        ELSE now + epoch <= p.unlock_ts
    BY <1>1 DEF StillLocked
  <1>6. MatureReady(config, p) <=> p.warming_epoch # config.current_epoch
    BY <1>4 DEF MatureReady
  <1> HIDE DEF p, epoch
  <1>7. /\ MatureReady(config, p) => now + epoch <= p.unlock_ts
        /\ ~MatureReady(config, p) => now < p.unlock_ts
    BY <1>3, <1>4, <1>5, <1>6
  <1> QED
    BY <1>7 DEF p, epoch

\* The invariants of prompt behaviours.
THEOREM PromptInvHolds == PromptSpec => [](IInv /\ PromptInv)
  <1>1. Init => IInv /\ PromptInv
    BY InitInv, InitPrompt
  <1>2. (IInv /\ PromptInv) /\ [Next /\ Promptly]_vars => (IInv /\ PromptInv)'
    BY NextPrompt DEF SafePrompt
  <1> QED
    BY <1>1, <1>2, PTL DEF PromptSpec

\* With prompt owners and keepers, stake that waits out its warming epoch is still
\* locked (the lock policy of assert_lock_policy).
THEOREM WarmingLocked == PromptSpec => []LockOutlastsWarming
  <1>1. IInv /\ PromptInv => LockOutlastsWarming
    BY PromptLocks DEF LockOutlastsWarming
  <1> QED
    BY <1>1, PromptInvHolds, PTL

\* With prompt owners and keepers, stake that becomes eligible is exposed to the
\* early-exit penalty for one more epoch.
THEOREM EligibleExposed == PromptSpec => ExposedForAnEpoch
  <1>1. (IInv /\ PromptInv) /\ [Next /\ Promptly]_vars
           => [\A u \in Owners :
                  position'[u].eligible_amount > position[u].eligible_amount
                     => now + policy.epoch_seconds <= position[u].unlock_ts]_vars
    <2> SUFFICES ASSUME IInv, PromptInv, [Next /\ Promptly]_vars, NEW u \in Owners,
                        position'[u].eligible_amount > position[u].eligible_amount
                 PROVE  now + policy.epoch_seconds <= position[u].unlock_ts
      OBVIOUS
    <2>1. MatureReady(config, position[u])
      BY NextPrompt DEF SafePrompt, Grown
    <2> QED
      BY <2>1, PromptLocks DEF MatureReady
  <1> QED
    BY <1>1, PromptInvHolds, PTL DEF PromptSpec, ExposedForAnEpoch
=============================================================================
