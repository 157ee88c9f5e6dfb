--------------------------- MODULE ArenaExitProofs ---------------------------
(***************************************************************************)
(* Theorems about the way out, for every finite set of owners, every       *)
(* policy, amount and width: WrapTakesAllRewards, TrappedOnlyWhileIdle and *)
(* ExitNeverTrapped.                                                       *)
(*                                                                         *)
(* The argument: each guard of process_withdraw follows from one of the    *)
(* invariants.  The bucket guards follow from the sums (SumsCover), the    *)
(* payout and both overflow checks of the accrual from the pool, which     *)
(* covers what is owed and is no more than the supply (AccrualFits), the   *)
(* vault from the principal it backs.  What is left is the wrap of the     *)
(* index, and how far the index moves is bounded by the tokens that went   *)
(* through it (IndexBacked).                                               *)
(***************************************************************************)
EXTENDS ArenaRewardsProofs, ArenaLedgerProofs

\* Until its counter stops, no token has moved the index by more than one scale.
IndexBacked ==
    config.total_rewards_distributed < U64_MAX =>
        Index(config) <= config.total_rewards_distributed * REWARD_INDEX_SCALE

\* The index, and the counter of what went through it.
SameProgress(c, d) ==
    /\ SameIndex(c, d)
    /\ d.total_rewards_distributed = c.total_rewards_distributed

-----------------------------------------------------------------------------
(* How far the index moves. *)

\* Whoever is left to share a batch: a unit gets no more than all of it.
LEMMA ShareOfOne ==
    ASSUME NEW batch \in Nat, NEW eligible \in Nat
    PROVE  Share(batch, eligible) <= batch * REWARD_INDEX_SCALE
  <1> DEFINE n == batch * REWARD_INDEX_SCALE
  <1>1. n \in Nat
    BY Widths, NatProduct
  <1>2. eligible # 0 => n \div eligible <= n
    <2> HIDE DEF n
    <2> QED
      BY <1>1, QuotientBound
  <1> QED
    BY <1>1, <1>2 DEF Share

LEMMA CounterType == ASSUME NEW c \in ConfigType PROVE c.total_rewards_distributed \in U64
  BY DEF ConfigType

\* commit_rewards_to_index counts the batch with which it moves the index.
LEMMA CommitBacked ==
    ASSUME NEW c \in ConfigType, NEW d \in ConfigType,
           SameProgress(config, c), config \in ConfigType, IndexBacked,
           NEW amount \in U64, NEW eligible \in U64,
           commit_rewards_to_index_ok(c, amount, eligible),
           SameProgress(commit_rewards_to_index(c, amount, eligible), d),
           config' = d
    PROVE  IndexBacked'
  <1> DEFINE unit == REWARD_INDEX_SCALE
             total == config.total_rewards_distributed
             totalNow == d.total_rewards_distributed
             share == Share(amount, eligible)
             index == Index(config)
             indexNow == Index(d)
  <1>1. /\ total \in U64 /\ total \in Nat /\ amount \in Nat /\ eligible \in Nat
        /\ unit \in Nat /\ index \in Nat
    BY CounterType, IndexType, Widths
  <1>2. totalNow = sat_add_u64(total, amount)
    BY DEF SameProgress, commit_rewards_to_index, add_reward_index, ConfigType
  <1>3. indexNow = index + share
    BY CommitMoves DEF SameProgress, SameIndex, Index
  <1>4. share \in Nat /\ share <= amount * unit /\ amount * unit \in Nat /\ total * unit \in Nat
    BY <1>1, ShareType, ShareOfOne, NatProduct
  <1>5. total < U64_MAX => index <= total * unit
    BY DEF IndexBacked
  <1>6. (total + amount) * unit = total * unit + amount * unit
    BY <1>1, Distribute
  <1> HIDE DEF total, totalNow, index, indexNow, share, unit
  <1>7. ASSUME totalNow < U64_MAX PROVE indexNow <= totalNow * unit
    <2>1. totalNow = total + amount /\ total < U64_MAX
      BY <1>1, <1>2, <1>7, Unsaturated
    <2> DEFINE x == total * unit
               y == amount * unit
    <2>2. x \in Nat /\ y \in Nat /\ index <= x /\ share <= y /\ totalNow * unit = x + y
      BY <1>4, <1>5, <1>6, <2>1
    <2> HIDE DEF x, y
    <2> QED
      BY <1>1, <1>3, <1>4, <2>2
  <1> QED
    BY <1>7 DEF IndexBacked, totalNow, indexNow, unit

\* What does not touch the index keeps the bound.
LEMMA ProgressKept ==
    ASSUME IndexBacked, SameProgress(config, config')
    PROVE  IndexBacked'
  BY DEF IndexBacked, SameProgress, SameIndex, Index

LEMMA SyncProgress ==
    ASSUME NEW c \in ConfigType, NEW p
    PROVE  SameProgress(c, SyncedConfig(c, p))
  BY DEF SyncedConfig, mature_warming_config, ConfigType, SameProgress, SameIndex

\* Instructions that settle, and fund nothing.
LEMMA RestProgress ==
    ASSUME IInv, IndexBacked, NEW u \in Owners,
           \/ ActivatePosition(u)
           \/ ClaimRewards(u)
           \/ \E amount \in Deposits : Deposit(u, amount)
    PROVE  IndexBacked'
  <1> DEFINE old == position[u]
             c == SyncedConfig(config, old)
  <1>1. config \in ConfigType /\ old \in PositionType
    BY StateTypes
  <1>2. SameProgress(config, c) /\ SameProgress(config, config)
    BY <1>1, SyncProgress DEF SameProgress, SameIndex
  <1>3. CASE ActivatePosition(u)
    <2>1. c \in ConfigType
      BY <1>3, SyncSettles DEF ActivatePosition, ActivateSyncOnly, ActivatePending, Settled
    <2>2. \/ config' = c
          \/ \E x, y : config' = [c EXCEPT !.pending_activation_locked = x, !.warming_locked = y]
      BY <1>3 DEF ActivatePosition, ActivateSyncOnly, ActivatePending
    <2> HIDE DEF c
    <2>3. SameProgress(c, config')
      BY <2>1, <2>2 DEF ConfigType, SameProgress, SameIndex
    <2> QED
      BY <1>2, <2>3, ProgressKept DEF SameProgress, SameIndex
  <1>4. CASE ClaimRewards(u)
    <2>1. c \in ConfigType
      BY <1>4, SyncSettles DEF ClaimRewards, Settled
    <2>2. \E n : config' = PaidConfig(c, n)
      BY <1>4 DEF ClaimRewards
    <2> HIDE DEF c
    <2>3. SameProgress(c, config')
      BY <2>1, <2>2 DEF PaidConfig, ConfigType, SameProgress, SameIndex
    <2> QED
      BY <1>2, <2>3, ProgressKept DEF SameProgress, SameIndex
  <1>5. CASE \E amount \in Deposits : Deposit(u, amount)
    <2> DEFINE d == IF old.is_initialized THEN c ELSE config
    <2>1. d \in ConfigType /\ SameProgress(config, d)
      BY <1>1, <1>2, <1>5, SyncSettles DEF Deposit, Settled
    <2>2. \E x, y : config' = [d EXCEPT !.total_locked = x, !.pending_activation_locked = y]
      BY <1>5 DEF Deposit
    <2> HIDE DEF d
    <2>3. SameProgress(d, config')
      BY <2>1, <2>2 DEF ConfigType, SameProgress, SameIndex
    <2> QED
      BY <2>1, <2>3, ProgressKept DEF SameProgress, SameIndex
  <1> QED
    BY <1>3, <1>4, <1>5

\* process_withdraw: the penalty moves the index, or is too small to.
LEMMA WithdrawProgress ==
    ASSUME IInv, IndexBacked, NEW u \in Owners, NEW amount \in Exits, Withdraw(u, amount)
    PROVE  IndexBacked'
  <1> DEFINE old == position[u]
             c == SyncedConfig(config, old)
             p == SyncedPosition(config, old)
             after == c.eligible_locked - EligibleReduction(p, amount)
             split == ExitSplit(p, amount, after)
             payout == Payout(p, amount)
             counted == PaidConfig(c, payout)
             batch == split.reward
             committed == try_commit_rewards_to_index(counted, batch, after)
             d == WithdrawnConfig(ReducedConfig(committed, p, amount), split)
  <1>1. /\ old.is_initialized /\ sync_ok(config, old)
        /\ reduce_position_stake_ok(c, p, amount)
        /\ split.reward + split.burn <= amount
        /\ try_commit_rewards_to_index_ok(c, batch, after)
        /\ config' = d
    BY DEF Withdraw, WithdrawOk
  <1>2. config \in ConfigType /\ IInv'
    BY StateTypes, WithdrawSafe DEF SafeStep
  <1>3. c \in ConfigType /\ p \in PositionType
    BY <1>1, SyncSettles DEF Settled
  <1>4. SameProgress(config, c)
    BY <1>2, SyncProgress
  <1> HIDE DEF c, p
  <1>5. amount \in U64 /\ amount \in Nat
    BY ArenaAssumption, Widths
  <1>6. split \in SplitType
    BY <1>3, <1>5, ExitSplitType, Policy
  <1>7. batch \in U64
    BY <1>1, <1>5, <1>6, Widths DEF SplitType, U64
  <1>8. after \in U64
    <2>1. EligibleReduction(p, amount) \in Nat
      BY <1>3, <1>5, ReductionParts
    <2>2. c.eligible_locked \in U64 /\ c.eligible_locked \in Nat
      BY <1>3, ConfigFields, ConfigNats
    <2>3. EligibleReduction(p, amount) <= c.eligible_locked
      BY <1>1 DEF reduce_position_stake_ok
    <2> QED
      BY <2>1, <2>2, <2>3, Widths DEF U64
  <1>9. payout \in U64
    BY <1>3, PositionFields, Widths DEF Payout
  <1> HIDE DEF split, after, payout, batch
  <1>10. counted \in ConfigType /\ SameProgress(c, counted)
    BY <1>3, <1>9, PaidConfigType DEF PaidConfig, ConfigType, SameProgress, SameIndex
  <1> HIDE DEF counted
  <1>11. SameProgress(config, counted)
    BY <1>4, <1>10 DEF SameProgress, SameIndex
  <1>12. try_commit_rewards_to_index_ok(counted, batch, after)
    BY <1>1, <1>10 DEF try_commit_rewards_to_index_ok, add_reward_index_ok, SameProgress, SameIndex
  <1>13. committed \in ConfigType
    BY <1>7, <1>8, <1>10, <1>12, TryCommitType
  <1> HIDE DEF committed
  <1>14. SameProgress(committed, d)
    BY <1>13 DEF WithdrawnConfig, ReducedConfig, ConfigType, SameProgress, SameIndex
  <1>15. d \in ConfigType
    BY <1>1, <1>2, StateTypes DEF IInv, TypeOK
  <1> HIDE DEF d
  <1>16. CASE reward_index_delta_ok(batch, after)
    <2>1. commit_rewards_to_index_ok(counted, batch, after)
      BY <1>12, <1>16 DEF try_commit_rewards_to_index_ok, commit_rewards_to_index_ok
    <2>2. committed = commit_rewards_to_index(counted, batch, after)
      BY <1>16 DEF try_commit_rewards_to_index, committed
    <2> QED
      BY <1>1, <1>2, <1>7, <1>8, <1>10, <1>11, <1>14, <1>15, <2>1, <2>2, CommitBacked
  <1>17. CASE ~reward_index_delta_ok(batch, after)
    <2>1. committed = counted
      BY <1>17 DEF try_commit_rewards_to_index, committed
    <2> QED
      BY <1>1, <1>11, <1>14, <2>1, ProgressKept DEF SameProgress, SameIndex
  <1> QED
    BY <1>16, <1>17

\* process_fund_rewards.
LEMMA FundProgress ==
    ASSUME IInv, IndexBacked, NEW u \in Users, NEW amount \in Fundings, FundRewards(u, amount)
    PROVE  IndexBacked'
  <1> DEFINE c == commit_rewards_to_index(config, amount, config.eligible_locked)
  <1>1. /\ commit_rewards_to_index_ok(config, amount, config.eligible_locked)
        /\ config' = [c EXCEPT !.total_rewards_funded = sat_add_u64(c.total_rewards_funded, amount)]
    BY DEF FundRewards
  <1>2. config \in ConfigType /\ config' \in ConfigType
    BY FundSafe DEF SafeStep, IInv, TypeOK
  <1>3. amount \in U64 /\ config.eligible_locked \in U64
    BY <1>2, ArenaAssumption, ConfigFields
  <1>4. c \in ConfigType
    BY <1>1, <1>2, <1>3, CommitType
  <1> HIDE DEF c
  <1>5. SameProgress(c, config')
    BY <1>1, <1>4 DEF ConfigType, SameProgress, SameIndex
  <1>6. SameProgress(config, config)
    BY DEF SameProgress, SameIndex
  <1> QED
    BY <1>1, <1>2, <1>3, <1>5, <1>6, CommitBacked DEF c

\* What is left does not touch the index.
LEMMA OtherProgress ==
    ASSUME IInv, IndexBacked,
           \/ \E pol \in Policies : InitializeConfig(pol)
           \/ \E u \in Users, amount \in Donations :
                 DonateToVault(u, amount) \/ DonateToPool(u, amount)
           \/ RollEpoch
           \/ FinalizeRewards
           \/ Tick
           \/ UNCHANGED vars
    PROVE  IndexBacked'
  <1>1. config \in ConfigType
    BY StateTypes
  <1>2. CASE \E pol \in Policies : InitializeConfig(pol)
    BY <1>2, ProgressKept
    DEF InitializeConfig, IInv, Untouched, EmptyConfig, SameProgress, SameIndex
  <1>3. CASE RollEpoch
    BY <1>1, <1>3, ProgressKept DEF RollEpoch, ConfigType, SameProgress, SameIndex
  <1>4. CASE FinalizeRewards
    BY <1>1, <1>4, ProgressKept
    DEF FinalizeRewards, PoolBurnedConfig, ConfigType, SameProgress, SameIndex
  <1>5. CASE config' = config
    BY <1>5, ProgressKept DEF SameProgress, SameIndex
  <1> QED
    BY <1>2, <1>3, <1>4, <1>5 DEF DonateToVault, DonateToPool, Tick, vars

LEMMA NextProgress ==
    ASSUME IInv, IndexBacked, [Next]_vars
    PROVE  IndexBacked'
  <1>1. ASSUME NEW u \in Owners, OwnerStep(u) PROVE IndexBacked'
    BY <1>1, RestProgress, WithdrawProgress DEF OwnerStep
  <1>2. ASSUME NEW u \in Funders, FunderStep(u) PROVE IndexBacked'
    BY <1>2, FundProgress DEF FunderStep, FundRewardsChecked, Users
  <1>3. ASSUME NEW u \in Funders, DonorStep(u) PROVE IndexBacked'
    BY <1>3, OtherProgress DEF DonorStep, Users
  <1> QED
    BY <1>1, <1>2, <1>3, OtherProgress DEF Next

LEMMA InitProgress == Init => IndexBacked
  <1> SUFFICES ASSUME Init PROVE IndexBacked
    OBVIOUS
  <1>1. /\ config.reward_index = 0
        /\ config.reward_index_generation = 0
        /\ config.total_rewards_distributed = 0
    BY DEF Init, EmptyConfig
  <1>2. 0 * (U128_MAX + 1) = 0 /\ 0 * REWARD_INDEX_SCALE = 0
    BY Widths, Distribute
  <1>3. Index(config) = 0
    BY <1>1, <1>2 DEF Index, Unwrapped
  <1> QED
    BY <1>1, <1>2, <1>3 DEF IndexBacked

\* A counter below its limit bounds the index below its first wrap.
LEMMA NoWrapYet ==
    ASSUME IInv, IndexBacked, config.total_rewards_distributed < U64_MAX
    PROVE  Index(config) <= U128_MAX /\ config.reward_index_generation = 0
  <1> DEFINE total == config.total_rewards_distributed
             unit == REWARD_INDEX_SCALE
             g == config.reward_index_generation
             top == U128_MAX + 1
             index == Index(config)
  <1>1. /\ total \in Nat /\ unit \in Nat /\ g \in Nat /\ top \in Nat /\ index \in Nat
        /\ config.reward_index \in Nat
    <2>1. config \in ConfigType
      BY StateTypes
    <2>2. total \in Nat /\ unit \in Nat
      BY <2>1, CounterType, Widths
    <2>3. g \in Nat /\ config.reward_index \in Nat /\ index \in Nat
      BY <2>1, ConfigNats, IndexType
    <2> QED
      BY <2>2, <2>3, Widths
  <1>2. index <= total * unit
    BY DEF IndexBacked
  <1>3. total * unit <= U64_MAX * unit /\ total * unit \in Nat /\ U64_MAX * unit \in Nat
    BY <1>1, ProductMonotone, NatProduct, Widths
  <1>4. U64_MAX * unit <= U128_MAX /\ U128_MAX \in Nat
    BY WidthAssumption
  <1>5. index <= U128_MAX
    <2> DEFINE x == total * unit
               y == U64_MAX * unit
    <2>1. x \in Nat /\ y \in Nat /\ index <= x /\ x <= y /\ y <= U128_MAX
      BY <1>2, <1>3, <1>4
    <2> HIDE DEF x, y, index
    <2> QED
      BY <1>1, <1>4, <2>1
  <1>6. g = 0
    <2> SUFFICES ASSUME g > 0 PROVE FALSE
      BY <1>1
    <2>1. 1 * top <= g * top /\ 1 * top = top /\ g * top \in Nat
      BY <1>1, ProductMonotone, Distribute, NatProduct
    <2>2. index = g * top + config.reward_index
      BY DEF Index, Unwrapped
    <2> DEFINE z == g * top
    <2>3. z \in Nat /\ index = z + config.reward_index /\ top <= z
      BY <2>1, <2>2
    <2> HIDE DEF z, index, g
    <2> QED
      BY <1>1, <1>4, <1>5, <2>3
  <1> QED
    BY <1>5, <1>6

-----------------------------------------------------------------------------
(* The accrual fits. *)

\* A common factor can be dropped.
LEMMA Cancel ==
    ASSUME NEW a \in Nat, NEW b \in Nat, NEW k \in Nat, k > 0, a * k <= b * k
    PROVE  a <= b
  <1> SUFFICES ASSUME b + 1 <= a PROVE FALSE
    OBVIOUS
  <1>1. (b + 1) * k <= a * k
    BY ProductMonotone
  <1>2. (b + 1) * k = b * k + 1 * k /\ 1 * k = k /\ b * k \in Nat /\ a * k \in Nat
    BY Distribute, NatProduct
  <1> DEFINE x == a * k
             y == b * k
  <1>3. y + k <= x /\ x <= y /\ x \in Nat /\ y \in Nat
    BY <1>1, <1>2
  <1> HIDE DEF x, y
  <1> QED
    BY <1>3

\* An index that moved by no more than its range is bridged, over one wrap at most.
LEMMA DistanceBridged ==
    ASSUME NEW c \in ConfigType, NEW p \in PositionType,
           Mark(p) <= Index(c), Index(c) - Mark(p) <= U128_MAX
    PROVE  reward_index_delta_since_ok(c, p)
  <1> DEFINE top == U128_MAX + 1
             g == c.reward_index_generation
             h == p.reward_index_generation_checkpoint
             i == c.reward_index
             j == p.reward_index_checkpoint
             m == g * top
             n == h * top
  <1>1. /\ g \in Nat /\ h \in Nat /\ top \in Nat /\ U128_MAX \in Nat
        /\ i \in Nat /\ i <= U128_MAX /\ j \in Nat /\ j <= U128_MAX
    BY PositionNats, ConfigNats, PositionFields, ConfigFields, Widths DEF U128
  <1>2. m \in Nat /\ n \in Nat
    BY <1>1, NatProduct
  <1>3. n + j <= m + i /\ (m + i) - (n + j) <= U128_MAX
    BY DEF Index, Mark, Unwrapped
  <1>4. (g + 1) * top = m + top /\ (h + 1) * top = n + top /\ (h + 2) * top = n + (top + top)
    <2> HIDE DEF top, g, h
    <2>1. 1 * top = top /\ 2 * top = top + top
      BY <1>1
    <2>2. /\ (g + 1) * top = g * top + 1 * top
          /\ (h + 1) * top = h * top + 1 * top
          /\ (h + 2) * top = h * top + 2 * top
      BY <1>1, Distribute
    <2> QED
      BY <2>1, <2>2
  <1> HIDE DEF g, h, i, j
  <1>5. ~(g < h)
    <2> SUFFICES ASSUME g + 1 <= h PROVE FALSE
      BY <1>1
    <2>1. (g + 1) * top <= h * top
      BY <1>1, ProductMonotone
    <2>2. m + top <= n
      BY <1>4, <2>1
    <2> HIDE DEF m, n
    <2> QED
      BY <1>1, <1>2, <1>3, <2>2
  <1>6. ~(g > h + 1)
    <2> SUFFICES ASSUME h + 2 <= g PROVE FALSE
      BY <1>1
    <2>1. (h + 2) * top <= g * top
      BY <1>1, ProductMonotone
    <2>2. n + (top + top) <= m
      BY <1>4, <2>1
    <2> HIDE DEF m, n
    <2> QED
      BY <1>1, <1>2, <1>3, <2>2
  <1>7. g = h \/ g = h + 1
    BY <1>1, <1>5, <1>6
  <1>8. CASE g = h
    <2>1. m = n
      BY <1>8
    <2> HIDE DEF m, n
    <2>2. i >= j
      BY <1>1, <1>2, <1>3, <2>1
    <2> QED
      BY <1>8, <2>2 DEF reward_index_delta_since_ok, SameGeneration, g, h, i, j
  <1>9. CASE g = h + 1
    <2>1. m = n + top
      BY <1>4, <1>9
    <2> HIDE DEF m, n
    <2>2. (U128_MAX - j) + 1 <= U128_MAX /\ (U128_MAX - j) + 1 + i <= U128_MAX
      BY <1>1, <1>2, <1>3, <2>1
    <2> QED
      BY <1>1, <1>9, <2>2 DEF reward_index_delta_since_ok, SameGeneration, ToWrap, g, h, i, j
  <1> QED
    BY <1>7, <1>8, <1>9

\* What a pool of n tokens backs fits the accounts, and so does the distance that
\* the index moved past stake that earned it.
LEMMA AccrualFits ==
    ASSUME NEW c \in ConfigType, NEW p \in PositionType, NEW n \in Nat, n <= U64_MAX,
           Mark(p) <= Index(c),
           OwedScaled(c, p) <= n * REWARD_INDEX_SCALE,
           p.eligible_amount > 0 \/ Index(c) - Mark(p) <= U128_MAX
    PROVE  accrue_rewards_ok(c, p)
  <1> DEFINE unit == REWARD_INDEX_SCALE
             e == p.eligible_amount
             r == p.reward_accrual_remainder
             k == p.pending_rewards
             d == Index(c) - Mark(p)
             earned == e * d
             scaled == earned + r
             booked == k * unit
             backed == n * unit
  <1>1. /\ unit \in Nat /\ unit > 0 /\ e \in Nat /\ r \in Nat /\ k \in Nat /\ d \in Nat
        /\ U128_MAX \in Nat /\ U64_MAX \in Nat
    <2>1. Index(c) \in Nat /\ Mark(p) \in Nat
      BY IndexType, MarkType
    <2>2. d \in Nat
      BY <2>1
    <2> QED
      BY <2>2, PositionNats, Widths
  <1>2. earned \in Nat /\ booked \in Nat /\ backed \in Nat
    BY <1>1, NatProduct
  <1>3. booked + r + earned <= backed
    BY OwedParts DEF Booked
  <1>4. backed <= U128_MAX
    <2>1. backed <= U64_MAX * unit /\ U64_MAX * unit \in Nat /\ U64_MAX * unit <= U128_MAX
      BY <1>1, ProductMonotone, NatProduct, WidthAssumption
    <2> DEFINE most == U64_MAX * unit
    <2>2. backed <= most /\ most \in Nat /\ most <= U128_MAX
      BY <2>1
    <2> HIDE DEF backed, most
    <2> QED
      BY <1>1, <1>2, <2>2
  <1>5. earned <= U128_MAX /\ scaled <= U128_MAX /\ scaled \in Nat /\ booked + scaled <= backed
    <2> HIDE DEF earned, booked, backed, r
    <2> QED
      BY <1>1, <1>2, <1>3, <1>4
  <1>6. d <= U128_MAX
    <2>1. CASE e > 0
      <3>1. 1 * d <= e * d /\ 1 * d = d
        BY <1>1, <2>1, ProductMonotone, Distribute
      <3>2. d <= earned
        BY <3>1
      <3> HIDE DEF earned, d
      <3> QED
        BY <1>1, <1>2, <1>5, <3>2
    <2>2. CASE ~(e > 0)
      BY <2>2
    <2> QED
      BY <2>1, <2>2
  <1>7. reward_index_delta_since_ok(c, p)
    BY <1>6, DistanceBridged
  <1>8. reward_index_delta_since(c, p) = d
    BY <1>7, DistanceIsUnwrapped DEF Index, Mark
  <1>9. Scaled(c, p) = scaled
    BY <1>8 DEF Scaled
  <1>10. k + Earned(c, p) <= U64_MAX
    <2> DEFINE q == scaled \div unit
               part == q * unit
    <2>1. Earned(c, p) = q
      BY <1>9 DEF Earned
    <2> HIDE DEF scaled
    <2>2. q \in Nat /\ part <= scaled
      BY <1>1, <1>5, QuotientBound, DivisionFloor
    <2> HIDE DEF q
    <2>3. (k + q) * unit = booked + part /\ part \in Nat /\ k + q \in Nat
      BY <1>1, <2>2, Distribute, NatProduct
    <2>4. booked + part <= backed
      <3> HIDE DEF booked, part, backed
      <3> QED
        BY <1>2, <1>5, <2>2, <2>3
    <2>5. k + q <= n
      BY <1>1, <2>3, <2>4, Cancel
    <2> QED
      BY <1>1, <2>1, <2>2, <2>3, <2>5
  <1> QED
    BY <1>5, <1>7, <1>9, <1>10 DEF accrue_rewards_ok

-----------------------------------------------------------------------------
(* What the guards of process_withdraw compare with. *)

ExitInv ==
    /\ IInv
    /\ RewardInv
    /\ LedgerInv
    /\ TokensConserved
    /\ IndexBacked

\* The pool holds a part of the supply, so that what it backs fits a u64.
LEMMA PoolInSupply ==
    ASSUME ExitInv
    PROVE  pool \in Nat /\ pool <= U64_MAX
  <1> DEFINE held == Held
             burned == config.total_burned
  <1>1. pool \in Nat /\ vault \in Nat /\ held \in Nat
    BY StateTypes, HeldType DEF ExitInv
  <1>2. burned \in Nat
    BY StateTypes, ConfigFields, Widths DEF ExitInv
  <1>3. held + vault + pool + burned = Supply /\ Supply <= U64_MAX
    BY SupplyAssumption DEF ExitInv, TokensConserved, Held
  <1> HIDE DEF held, burned
  <1> QED
    BY <1>1, <1>2, <1>3, Widths

\* What is owed to one position is part of what is owed to all.
LEMMA OwedFromPool ==
    ASSUME ExitInv, NEW u \in Owners
    PROVE  /\ OwedScaled(config, position[u]) \in Nat
           /\ OwedScaled(config, position[u]) <= pool * REWARD_INDEX_SCALE
  <1> DEFINE owed == OwedScaled(config, position[u])
             total == SumOver(Owners, Owed)
             backed == pool * REWARD_INDEX_SCALE
  <1>1. Owed \in [Owners -> Nat] /\ owed \in Nat
    BY OwedType DEF ExitInv
  <1>2. Owed[u] = owed
    BY DEF Owed
  <1>3. owed <= total /\ total \in Nat
    BY <1>1, <1>2, OwnersAssumption, SumBoundsTerm, SumType
  <1>4. total <= backed
    BY DEF ExitInv, RewardInv, Solvent, SumOverOwners, Owed
  <1>5. backed \in Nat
    BY PoolInSupply, NatProduct, Widths
  <1> HIDE DEF owed, total, backed
  <1>6. owed <= backed
    BY <1>1, <1>3, <1>4, <1>5
  <1> QED
    BY <1>1, <1>6 DEF owed, backed

\* A bucket of the config covers the bucket of every position.
LEMMA SumsCover ==
    ASSUME ExitInv, NEW u \in Owners
    PROVE  /\ position[u].pending_activation_amount <= config.pending_activation_locked
           /\ position[u].warming_amount <= config.warming_locked
           /\ position[u].eligible_amount <= config.eligible_locked
           /\ position[u].locked_amount <= config.total_locked
  <1> DEFINE pending == [v \in Owners |-> position[v].pending_activation_amount]
             warming == [v \in Owners |-> position[v].warming_amount]
             eligible == [v \in Owners |-> position[v].eligible_amount]
  <1>1. \A v \in Owners : position[v] \in PositionType /\ PositionBuckets(position[v])
    BY StateTypes DEF ExitInv, PositionInv
  <1>2. /\ pending \in [Owners -> Nat]
        /\ warming \in [Owners -> Nat]
        /\ eligible \in [Owners -> Nat]
    BY <1>1, PositionNats
  <1>3. /\ config.pending_activation_locked = SumOver(Owners, pending)
        /\ config.warming_locked = SumOver(Owners, warming)
        /\ config.eligible_locked = SumOver(Owners, eligible)
    BY DEF ExitInv, RewardInv, TotalsAreSums, SumOverOwners
  <1>4. /\ pending[u] = position[u].pending_activation_amount
        /\ warming[u] = position[u].warming_amount
        /\ eligible[u] = position[u].eligible_amount
    OBVIOUS
  <1> HIDE DEF pending, warming, eligible
  <1>5. /\ pending[u] <= SumOver(Owners, pending)
        /\ warming[u] <= SumOver(Owners, warming)
        /\ eligible[u] <= SumOver(Owners, eligible)
    BY <1>2, OwnersAssumption, SumBoundsTerm
  <1>6. /\ position[u].pending_activation_amount <= config.pending_activation_locked
        /\ position[u].warming_amount <= config.warming_locked
        /\ position[u].eligible_amount <= config.eligible_locked
    BY <1>3, <1>4, <1>5
  <1>7. config \in ConfigType /\ ConfigBuckets(config)
    BY StateTypes DEF ExitInv, IInv
  <1> QED
    BY <1>1, <1>6, <1>7, PositionNats, ConfigNats DEF PositionBuckets, ConfigBuckets

\* A settled position has nothing to accrue.
LEMMA SettledAccrues ==
    ASSUME NEW c \in ConfigType, NEW p, Marked(c, p)
    PROVE  accrue_rewards_ok(c, p)
  <1>1. c.reward_index \in Nat
    BY ConfigNats
  <1>2. reward_index_delta_since_ok(c, p)
    BY <1>1 DEF reward_index_delta_since_ok, SameGeneration, Marked
  <1>3. reward_index_delta_since(c, p) = 0
    BY <1>1 DEF reward_index_delta_since, SameGeneration, Marked
  <1> QED
    BY <1>2, <1>3 DEF accrue_rewards_ok, Earning

\* The sync of a position that earned, or that the index did not leave too far behind.
LEMMA SyncFits ==
    ASSUME ExitInv, NEW u \in Owners,
           position[u].eligible_amount > 0 \/ Index(config) - Mark(position[u]) <= U128_MAX
    PROVE  sync_ok(config, position[u])
  <1> DEFINE p == position[u]
             d == mature_warming_config(config, p)
             m == mature_warming_position(config, p)
  <1>1. config \in ConfigType /\ p \in PositionType /\ PositionBuckets(p)
    BY StateTypes DEF ExitInv, PositionInv
  <1>2. accrue_rewards_ok(config, p)
    <2>1. Mark(p) <= Index(config)
      BY DEF ExitInv, RewardInv
    <2> HIDE DEF p
    <2> QED
      BY <1>1, <2>1, PoolInSupply, OwedFromPool, AccrualFits DEF p
  <1>3. /\ p.eligible_amount + p.warming_amount <= U64_MAX
        /\ p.warming_amount <= config.warming_locked
        /\ config.eligible_locked + p.warming_amount <= U64_MAX
    <2>1. /\ p.locked_amount <= U64_MAX /\ config.total_locked <= U64_MAX
          /\ U64_MAX \in Nat
      BY <1>1, PositionFields, ConfigFields, Widths DEF U64
    <2>2. p.warming_amount <= config.warming_locked
      BY SumsCover
    <2>3. ConfigBuckets(config)
      BY DEF ExitInv, IInv
    <2> HIDE DEF p
    <2> QED
      BY <1>1, <2>1, <2>2, <2>3, PositionNats, ConfigNats DEF PositionBuckets, ConfigBuckets
  <1>4. mature_warming_ok(config, p)
    BY <1>2, <1>3 DEF mature_warming_ok
  <1>5. accrue_rewards_ok(d, m)
    <2>1. CASE ~MatureReady(config, p)
      BY <1>2, <2>1 DEF mature_warming_config, mature_warming_position
    <2>2. CASE MatureReady(config, p)
      <3> DEFINE a == accrue_rewards(config, p)
      <3>1. a \in PositionType /\ Marked(config, a)
        BY <1>1, <1>2, AccrueType, AccrueIsExact DEF Marked
      <3>2. m = [a EXCEPT !.eligible_amount = a.eligible_amount + p.warming_amount,
                          !.warming_amount = 0]
        BY <2>2 DEF mature_warming_position
      <3> HIDE DEF a
      <3>3. Marked(config, m)
        BY <3>1, <3>2 DEF Marked, PositionType
      <3>4. d \in ConfigType /\ SameIndex(config, d)
        BY <1>1, <1>4, MatureType, MatureMoves DEF Matured
      <3> HIDE DEF d, m
      <3>5. Marked(d, m)
        BY <3>3, <3>4 DEF Marked, SameIndex
      <3> QED
        BY <3>4, <3>5, SettledAccrues
    <2> QED
      BY <2>1, <2>2
  <1> QED
    BY <1>4, <1>5 DEF sync_ok

\* No exit is charged more than it takes out, at whatever rates.
LEMMA ChargedAtMost ==
    ASSUME policy \in PolicyType, NEW p \in PositionType,
           NEW amount \in Nat, NEW eligible_locked_after
    PROVE  LET split == ExitSplit(p, amount, eligible_locked_after)
           IN  split.reward + split.burn <= amount
  <1> DEFINE bps == policy.early_exit_penalty_bps
             burn_bps == policy.burn_penalty_bps
             charged == penalty_split(amount, bps, burn_bps, p.penalty_remainder, p.burn_remainder)
             penalty == AtMost(amount, ScaledShare(amount, bps, p.penalty_remainder)
                                         \div BPS_DENOMINATOR)
             split == ExitPenalty(p, amount)
             exit == ExitSplit(p, amount, eligible_locked_after)
  <1>1. bps \in Nat /\ burn_bps \in Nat
    BY DEF PolicyType
  <1>2. charged \in SplitType
    BY <1>1, SplitFields, PositionFields
  <1>3. charged.reward + charged.burn <= amount
    <2>1. CASE bps = 0
      BY <2>1 DEF penalty_split
    <2>2. CASE bps # 0
      <3> DEFINE scaled_burn == IF burn_bps > 0
                                THEN ScaledShare(amount, burn_bps, p.burn_remainder) ELSE 0
                 burn == AtMost(penalty, scaled_burn \div BPS_DENOMINATOR)
      <3>1. charged.reward = penalty - burn /\ charged.burn = burn
        BY <2>2 DEF penalty_split
      <3>2. amount * bps \in Nat /\ amount * burn_bps \in Nat
        BY <1>1, NatProduct
      <3>3. p.penalty_remainder \in Nat /\ p.burn_remainder \in Nat
        BY PositionFields, Denominator
      <3>4. /\ ScaledShare(amount, bps, p.penalty_remainder) \in Nat
            /\ scaled_burn \in Nat
        BY <3>2, <3>3 DEF ScaledShare
      <3>5. /\ ScaledShare(amount, bps, p.penalty_remainder) \div BPS_DENOMINATOR \in Nat
            /\ scaled_burn \div BPS_DENOMINATOR \in Nat
        <4> HIDE DEF scaled_burn
        <4> QED
          BY <3>4, QuotientBound, Denominator
      <3> HIDE DEF scaled_burn, charged
      <3>6. penalty \in Nat /\ penalty <= amount /\ burn \in Nat
        BY <3>5 DEF AtMost
      <3> HIDE DEF penalty, burn
      <3> QED
        BY <3>1, <3>6
    <2> QED
      BY <2>1, <2>2
  <1> HIDE DEF charged
  <1>4. split \in SplitType /\ split.reward + split.burn <= amount
    <2>1. [reward |-> 0, burn |-> 0, penalty_remainder |-> 0, burn_remainder |-> 0] \in SplitType
      BY Denominator DEF SplitType
    <2> QED
      BY <1>2, <1>3, <2>1 DEF ExitPenalty, charged
  <1>5. exit = IF eligible_locked_after = 0
               THEN [split EXCEPT !.burn = split.burn + split.reward, !.reward = 0]
               ELSE split
    BY DEF ExitSplit
  <1> HIDE DEF split, exit
  <1>6. exit.reward + exit.burn = split.reward + split.burn
    BY <1>4, <1>5 DEF SplitType
  <1> QED
    BY <1>4, <1>6 DEF exit

\* The stake to be taken out is there: in the position, and in the config totals.
LEMMA ReductionFits ==
    ASSUME NEW c \in ConfigType, NEW p \in PositionType, PositionBuckets(p),
           p.pending_activation_amount <= c.pending_activation_locked,
           p.warming_amount <= c.warming_locked,
           p.eligible_amount <= c.eligible_locked,
           p.locked_amount <= c.total_locked,
           NEW amount \in Nat, amount <= p.locked_amount
    PROVE  reduce_position_stake_ok(c, p, amount)
  <1> DEFINE pending == PendingReduction(p, amount)
             warming == WarmingReduction(p, amount)
             eligible == EligibleReduction(p, amount)
  <1>1. /\ pending \in Nat /\ pending <= p.pending_activation_amount
        /\ warming \in Nat /\ warming <= p.warming_amount
    BY ReductionParts
  <1>2. eligible <= p.eligible_amount
    BY PositionNats
    DEF PositionBuckets, EligibleReduction, WarmingReduction, PendingReduction, AtMost
  <1>3. eligible \in Nat
    BY ReductionParts
  <1> HIDE DEF pending, warming, eligible
  <1>4. /\ pending <= c.pending_activation_locked
        /\ warming <= c.warming_locked
        /\ eligible <= c.eligible_locked
        /\ amount <= c.total_locked
    BY <1>1, <1>2, <1>3, PositionNats, ConfigNats
  <1> QED
    BY <1>2, <1>4 DEF reduce_position_stake_ok, pending, warming, eligible

\* Every guard of process_withdraw, for stake that earned or that the index did
\* not leave too far behind.
LEMMA ExitOpen ==
    ASSUME ExitInv, NEW u \in Owners, NEW amount \in 1 .. position[u].locked_amount,
           position[u].eligible_amount > 0 \/ Index(config) - Mark(position[u]) <= U128_MAX,
           config.reward_index_generation < U64_MAX
    PROVE  WithdrawOk(u, amount)
  <1> DEFINE old == position[u]
             c == SyncedConfig(config, old)
             p == SyncedPosition(config, old)
             after == c.eligible_locked - EligibleReduction(p, amount)
             split == ExitSplit(p, amount, after)
  <1>1. /\ IInv /\ config \in ConfigType /\ old \in PositionType /\ PositionInv(old)
        /\ old.locked_amount \in Nat
    BY StateTypes, PositionNats DEF ExitInv
  <1>2. amount \in Nat /\ amount > 0 /\ amount <= old.locked_amount /\ old.is_initialized
    BY <1>1 DEF PositionInv
  <1>3. sync_ok(config, old)
    BY SyncFits
  <1>4. Settled(u, c, p) /\ Synced(config, old, c, p)
    BY <1>1, <1>2, <1>3, SyncSettles, SyncSynced
  <1> HIDE DEF c, p
  <1>5. /\ c \in ConfigType /\ p \in PositionType /\ PositionBuckets(p)
        /\ p.locked_amount = old.locked_amount
        /\ c.total_locked = config.total_locked
    BY <1>4 DEF Settled
  <1>6. reduce_position_stake_ok(c, p, amount)
    <2>1. /\ old.pending_activation_amount <= config.pending_activation_locked
          /\ old.warming_amount <= config.warming_locked
          /\ old.eligible_amount <= config.eligible_locked
          /\ old.locked_amount <= config.total_locked
      BY SumsCover
    <2>2. Moved(config, old, c, p)
      BY <1>4 DEF Synced
    <2> HIDE DEF old
    <2>3. /\ p.pending_activation_amount <= c.pending_activation_locked
          /\ p.warming_amount <= c.warming_locked
          /\ p.eligible_amount <= c.eligible_locked
      BY <1>1, <1>5, <2>1, <2>2, PositionNats, ConfigNats DEF Moved
    <2> QED
      BY <1>2, <1>5, <2>1, <2>3, ReductionFits
  <1>7. Payout(p, amount) <= pool
    <2>1. pool \in Nat
      BY PoolInSupply
    <2>2. p.pending_rewards <= pool
      <3> DEFINE x == p.pending_rewards * REWARD_INDEX_SCALE
                 r == p.reward_accrual_remainder
                 y == pool * REWARD_INDEX_SCALE
      <3>1. x + r <= y
        BY <1>4, OwedFromPool DEF Synced, Booked
      <3>2. x \in Nat /\ y \in Nat /\ r \in Nat /\ p.pending_rewards \in Nat
        BY <1>5, <2>1, PositionNats, NatProduct, Widths
      <3>3. x <= y
        <4> HIDE DEF x, y, r
        <4> QED
          BY <3>1, <3>2
      <3> QED
        BY <2>1, <3>2, <3>3, Cancel, Widths
    <2> QED
      BY <2>1, <2>2 DEF Payout
  <1>8. split.reward + split.burn <= amount
    BY <1>1, <1>2, <1>5, Policy, ChargedAtMost
  <1>9. amount <= vault
    <2>1. vault = config.total_locked + stray.vault
      BY <1>1 DEF IInv, VaultBacksPrincipal
    <2>2. stray.vault \in Nat /\ config.total_locked \in Nat
      BY <1>1, StateTypes, ConfigNats
    <2>3. old.locked_amount <= config.total_locked
      BY SumsCover
    <2> QED
      BY <1>1, <1>2, <2>1, <2>2, <2>3
  <1>10. try_commit_rewards_to_index_ok(c, split.reward, after)
    BY <1>4 DEF Synced, SameIndex, try_commit_rewards_to_index_ok, add_reward_index_ok
  <1> QED
    BY <1>2, <1>3, <1>6, <1>7, <1>8, <1>9, <1>10 DEF WithdrawOk, c, p

-----------------------------------------------------------------------------
(* The theorems. *)

\* The invariants that the way out rests on, together.
THEOREM ExitInvHolds == Spec => []ExitInv
  <1>1. Init => ExitInv
    BY InitInv, InitRewards, InitLedger, InitTokens, InitProgress DEF ExitInv
  <1>2. ExitInv /\ [Next]_vars => ExitInv'
    BY NextRewards, NextLedger, NextTokens, NextProgress DEF ExitInv
  <1> QED
    BY <1>1, <1>2, PTL DEF Spec

\* The index does not wrap before u64::MAX reward tokens went through it,
\* however the stake they are shared by shrinks and grows (add_reward_index).
THEOREM WrapTakesAll == Spec => []WrapTakesAllRewards
  <1>1. ExitInv => WrapTakesAllRewards
    <2> SUFFICES ASSUME ExitInv, config.total_rewards_distributed # U64_MAX,
                        config.reward_index_generation > 0
                 PROVE  FALSE
      BY DEF WrapTakesAllRewards
    <2>1. config.total_rewards_distributed < U64_MAX
      BY StateTypes, CounterType, Widths DEF ExitInv, U64
    <2>2. config.reward_index_generation = 0
      BY <2>1, NoWrapYet DEF ExitInv
    <2> QED
      BY <2>2
  <1> QED
    BY <1>1, ExitInvHolds, PTL

\* With an index that can wrap, process_withdraw fails only for stake that sat
\* untouched and earned nothing while the index moved through its whole range.
THEOREM OnlyIdleTrapped == Spec => []TrappedOnlyWhileIdle
  <1>1. ExitInv => TrappedOnlyWhileIdle
    <2> SUFFICES ASSUME ExitInv, config.reward_index_generation < U64_MAX,
                        NEW u \in Owners, NEW amount \in 1 .. position[u].locked_amount,
                        ~WithdrawOk(u, amount)
                 PROVE  position[u].eligible_amount = 0 /\ IndexDistance(u) > U128_MAX
      BY DEF TrappedOnlyWhileIdle
    <2>1. /\ ~(position[u].eligible_amount > 0)
          /\ ~(Index(config) - Mark(position[u]) <= U128_MAX)
      BY ExitOpen
    <2>2. /\ position[u].eligible_amount \in Nat
          /\ Index(config) \in Nat /\ Mark(position[u]) \in Nat
      BY StateTypes, PositionNats, IndexType, MarkType DEF ExitInv
    <2>3. IndexDistance(u) = Index(config) - Mark(position[u])
      BY DEF IndexDistance, Index, Mark
    <2> QED
      BY <2>1, <2>2, <2>3, Widths
  <1> QED
    BY <1>1, ExitInvHolds, PTL

\* Before u64::MAX reward tokens went through the index no error exit of
\* process_withdraw keeps an owner from taking out any part of the stake.
THEOREM ExitOpenUntilWrap ==
    Spec => [](config.total_rewards_distributed < U64_MAX => ExitNeverTrapped)
  <1>1. ExitInv => (config.total_rewards_distributed < U64_MAX => ExitNeverTrapped)
    <2> SUFFICES ASSUME ExitInv, config.total_rewards_distributed < U64_MAX,
                        NEW u \in Owners, NEW amount \in 1 .. position[u].locked_amount
                 PROVE  WithdrawOk(u, amount)
      BY DEF ExitNeverTrapped
    <2>1. Index(config) <= U128_MAX /\ config.reward_index_generation = 0
      BY NoWrapYet DEF ExitInv
    <2>2. Index(config) \in Nat /\ Mark(position[u]) \in Nat /\ U128_MAX \in Nat
      BY StateTypes, IndexType, MarkType, Widths DEF ExitInv
    <2>3. Index(config) - Mark(position[u]) <= U128_MAX
      BY <2>1, <2>2
    <2>4. config.reward_index_generation < U64_MAX
      BY <2>1, WidthAssumption
    <2> QED
      BY <2>3, <2>4, ExitOpen
  <1> QED
    BY <1>1, ExitInvHolds, PTL
=============================================================================
