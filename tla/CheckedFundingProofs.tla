------------------------- MODULE CheckedFundingProofs -------------------------
(***************************************************************************)
(* Theorems about a funding client, for any number of owners, any delay    *)
(* and any number of copies: no stake cuts in after the read, and whoever  *)
(* shares in a checked funding shares as quoted.                           *)
(*                                                                         *)
(* The argument: within an epoch no instruction makes more of a position   *)
(* share, because what enters warming is marked with this epoch and what   *)
(* matures could have matured at the read.                                 *)
(***************************************************************************)
EXTENDS CheckedFunding, ArenaRewardsProofs

\* SharingStake, with the config as a parameter.
Sharing(c, p) == p.eligible_amount + IF MatureReady(c, p) THEN p.warming_amount ELSE 0

\* Nothing that warms can mature in this epoch.
StillWarming(c, p) == p.warming_amount > 0 => p.warming_epoch >= c.current_epoch

\* A staker instruction adds nothing to what shares.
SharesNoMore(u) ==
    /\ \A v \in Owners \ {u} : position'[v] = position[v]
    /\ config'.is_initialized = config.is_initialized
    /\ config'.current_epoch = config.current_epoch
    /\ position'[u] \in PositionType
    /\ StillWarming(config, position'[u])
    /\ position'[u].eligible_amount <= Sharing(config, position[u])

QuoteType == [eligible: Nat, epoch: Nat, admissible: [Owners -> Nat], landed: Nat]

QuoteInv ==
    /\ quote \in QuoteType
    /\ quote # NoQuote => config.is_initialized /\ quote.epoch <= config.current_epoch
    /\ NoLatecomer

-----------------------------------------------------------------------------
(* What shares in a batch. *)

LEMMA SharingType ==
    ASSUME NEW c \in ConfigType, NEW p \in PositionType
    PROVE  Sharing(c, p) \in Nat /\ p.eligible_amount <= Sharing(c, p)
  BY PositionNats DEF Sharing

\* The epoch of the config is all that decides.
LEMMA SharingByEpoch ==
    ASSUME NEW c, NEW d, NEW p, d.current_epoch = c.current_epoch
    PROVE  Sharing(d, p) = Sharing(c, p)
  BY DEF Sharing, MatureReady

\* While nothing can mature only the eligible stake shares.
LEMMA StillWarmingShares ==
    ASSUME NEW c \in ConfigType, NEW p \in PositionType, StillWarming(c, p)
    PROVE  Sharing(c, p) = p.eligible_amount
  BY PositionNats, ConfigNats, PositionFields, ConfigFields, Widths
  DEF Sharing, StillWarming, MatureReady

\* Settling a position makes eligible what could have matured, and no more.
LEMMA SyncShares ==
    ASSUME NEW c \in ConfigType, NEW p \in PositionType, sync_ok(c, p)
    PROVE  /\ StillWarming(c, SyncedPosition(c, p))
           /\ SyncedPosition(c, p).eligible_amount <= Sharing(c, p)
  <1> DEFINE d == SyncedConfig(c, p)
             q == SyncedPosition(c, p)
  <1>1. Matured(c, p, d, q)
    BY SyncType
  <1> HIDE DEF d, q
  <1>2. /\ q \in PositionType
        /\ q.warming_epoch = p.warming_epoch
        /\ q.warming_amount + q.eligible_amount = p.warming_amount + p.eligible_amount
        /\ q.warming_amount <= p.warming_amount
        /\ q.eligible_amount > p.eligible_amount => p.warming_epoch < c.current_epoch
        /\ q.warming_amount > 0 => p.warming_epoch >= c.current_epoch
    BY <1>1 DEF Matured, SameLock
  <1>3. StillWarming(c, q)
    BY <1>2 DEF StillWarming
  <1>4. /\ p.warming_amount \in Nat /\ p.eligible_amount \in Nat
        /\ q.warming_amount \in Nat /\ q.eligible_amount \in Nat
        /\ p.warming_epoch \in Nat /\ c.current_epoch \in Nat
    BY <1>2, PositionFields, ConfigFields, Widths
  <1>5. q.eligible_amount <= Sharing(c, p)
    BY <1>2, <1>4 DEF Sharing, MatureReady
  <1> QED
    BY <1>3, <1>5 DEF q

-----------------------------------------------------------------------------
(* Each staker instruction. *)

\* process_deposit: a top-up is pending, whatever else the position holds.
LEMMA DepositShares ==
    ASSUME IInv, NEW u \in Owners, NEW amount \in Deposits, Deposit(u, amount)
    PROVE  IInv' /\ SharesNoMore(u)
  <1> DEFINE old == position[u]
             c == IF old.is_initialized THEN SyncedConfig(config, old) ELSE config
             p == IF old.is_initialized THEN SyncedPosition(config, old) ELSE NewPosition
             q == DepositedPosition(p, amount)
             d == [c EXCEPT !.total_locked = @ + amount, !.pending_activation_locked = @ + amount]
  <1>1. IInv'
    BY DepositSafe DEF SafeStep
  <1>2. config \in ConfigType /\ old \in PositionType /\ position \in [Owners -> PositionType]
    BY DEF IInv, TypeOK
  <1>3. Settled(u, c, p)
    BY SyncSettles, NewSettles DEF Deposit
  <1>4. StillWarming(config, p) /\ p.eligible_amount <= Sharing(config, old)
    <2>1. CASE old.is_initialized
      BY <1>2, <2>1, SyncShares DEF Deposit
    <2>2. CASE ~old.is_initialized
      <3>1. p.warming_amount = 0 /\ p.eligible_amount = 0
        BY <2>2 DEF NewPosition, EmptyPosition
      <3>2. 0 <= Sharing(config, old)
        BY <1>2, SharingType
      <3> QED
        BY <3>1, <3>2 DEF StillWarming
    <2> QED
      BY <2>1, <2>2
  <1>5. config' = d /\ position' = [position EXCEPT ![u] = q]
    BY DEF Deposit
  <1>6. position'[u] = q /\ \A v \in Owners \ {u} : position'[v] = position[v]
    BY <1>2, <1>5
  <1> HIDE DEF c, p
  <1>7. c \in ConfigType /\ p \in PositionType /\ SameSchedule(config, c)
    BY <1>3 DEF Settled
  <1>8. /\ q.warming_amount = p.warming_amount
        /\ q.warming_epoch = p.warming_epoch
        /\ q.eligible_amount = p.eligible_amount
    BY <1>7 DEF DepositedPosition, PositionType
  <1>9. d.is_initialized = c.is_initialized /\ d.current_epoch = c.current_epoch
    BY <1>7 DEF ConfigType
  <1>10. position'[u] \in PositionType
    BY <1>1 DEF IInv, TypeOK
  <1> HIDE DEF q, d
  <1> QED
    BY <1>1, <1>4, <1>5, <1>6, <1>7, <1>8, <1>9, <1>10
    DEF SharesNoMore, StillWarming, SameSchedule

\* process_activate_position: what starts warming waits for the end of this epoch.
LEMMA ActivateShares ==
    ASSUME IInv, NEW u \in Owners, ActivatePosition(u)
    PROVE  IInv' /\ SharesNoMore(u)
  <1> DEFINE old == position[u]
             c == SyncedConfig(config, old)
             p == SyncedPosition(config, old)
             amount == p.pending_activation_amount
             q == WarmedPosition(c, p)
             d == [c EXCEPT !.pending_activation_locked = @ - amount,
                            !.warming_locked = @ + amount]
  <1>1. IInv'
    BY ActivateSyncOnlySafe, ActivatePendingSafe DEF SafeStep, ActivatePosition
  <1>2. config \in ConfigType /\ old \in PositionType /\ position \in [Owners -> PositionType]
    BY DEF IInv, TypeOK
  <1>3. old.is_initialized /\ sync_ok(config, old)
    BY DEF ActivatePosition, ActivateSyncOnly, ActivatePending
  <1>4. StillWarming(config, p) /\ p.eligible_amount <= Sharing(config, old)
    BY <1>2, <1>3, SyncShares
  <1>5. Settled(u, c, p)
    BY <1>3, SyncSettles
  <1>6. position'[u] \in PositionType
    BY <1>1 DEF IInv, TypeOK
  <1>7. c \in ConfigType /\ p \in PositionType /\ SameSchedule(config, c)
    BY <1>5 DEF Settled
  <1>8. CASE ActivateSyncOnly(u)
    <2>1. config' = c /\ position' = [position EXCEPT ![u] = p]
      BY <1>8 DEF ActivateSyncOnly
    <2> HIDE DEF c, p
    <2>2. position'[u] = p /\ \A v \in Owners \ {u} : position'[v] = position[v]
      BY <1>2, <2>1
    <2> QED
      BY <1>1, <1>4, <1>6, <1>7, <2>1, <2>2 DEF SharesNoMore, SameSchedule
  <1>9. CASE ActivatePending(u)
    <2>1. config' = d /\ position' = [position EXCEPT ![u] = q]
      BY <1>9 DEF ActivatePending
    <2> HIDE DEF c, p
    <2>2. position'[u] = q /\ \A v \in Owners \ {u} : position'[v] = position[v]
      BY <1>2, <2>1
    <2>3. /\ q.warming_epoch = IF p.warming_amount = 0 THEN c.current_epoch ELSE p.warming_epoch
          /\ q.eligible_amount = p.eligible_amount
      BY <1>7 DEF WarmedPosition, PositionType
    <2>4. d.is_initialized = c.is_initialized /\ d.current_epoch = c.current_epoch
      BY <1>7 DEF ConfigType
    <2> HIDE DEF q, d
    <2>5. /\ config.current_epoch \in Nat
          /\ c.current_epoch = config.current_epoch
          /\ p.warming_amount \in Nat
      BY <1>2, <1>7, PositionNats, ConfigFields, Widths DEF SameSchedule
    <2>6. StillWarming(config, q)
      BY <1>4, <2>3, <2>5 DEF StillWarming
    <2> QED
      BY <1>1, <1>4, <1>6, <1>7, <2>1, <2>2, <2>3, <2>4, <2>6 DEF SharesNoMore, SameSchedule
  <1> QED
    BY <1>8, <1>9 DEF ActivatePosition

\* process_claim_rewards moves no stake but what matured.
LEMMA ClaimShares ==
    ASSUME IInv, NEW u \in Owners, ClaimRewards(u)
    PROVE  IInv' /\ SharesNoMore(u)
  <1> DEFINE old == position[u]
             c == SyncedConfig(config, old)
             p == SyncedPosition(config, old)
             amount == p.pending_rewards
             d == PaidConfig(c, amount)
             q == PaidPosition(p)
  <1>1. IInv'
    BY ClaimSafe DEF SafeStep
  <1>2. config \in ConfigType /\ old \in PositionType /\ position \in [Owners -> PositionType]
    BY DEF IInv, TypeOK
  <1>3. old.is_initialized /\ sync_ok(config, old)
    BY DEF ClaimRewards
  <1>4. StillWarming(config, p) /\ p.eligible_amount <= Sharing(config, old)
    BY <1>2, <1>3, SyncShares
  <1>5. Settled(u, c, p)
    BY <1>3, SyncSettles
  <1>6. position'[u] \in PositionType
    BY <1>1 DEF IInv, TypeOK
  <1>7. config' = d /\ position' = [position EXCEPT ![u] = q]
    BY DEF ClaimRewards
  <1> HIDE DEF c, p
  <1>8. c \in ConfigType /\ p \in PositionType /\ SameSchedule(config, c)
    BY <1>5 DEF Settled
  <1>9. position'[u] = q /\ \A v \in Owners \ {u} : position'[v] = position[v]
    BY <1>2, <1>7
  <1>10. SameLock(p, q) /\ SameBuckets(p, q)
    BY <1>8, PaidType
  <1>11. SameSchedule(c, d)
    BY <1>8 DEF PaidConfig, ConfigType, SameSchedule
  <1> HIDE DEF q, d
  <1> QED
    BY <1>1, <1>4, <1>6, <1>7, <1>8, <1>9, <1>10, <1>11
    DEF SharesNoMore, StillWarming, SameSchedule, SameLock, SameBuckets

\* Where a position's buckets are, and since when, after part of it has left.
LEMMA LeftShares ==
    ASSUME NEW c \in ConfigType, NEW p \in PositionType, NEW amount \in Nat, NEW split,
           StillWarming(c, p)
    PROVE  LET q == WithdrawnPosition(ReducedPosition(p, amount), amount, split)
           IN  StillWarming(c, q) /\ q.eligible_amount <= p.eligible_amount
  <1> DEFINE q == WithdrawnPosition(ReducedPosition(p, amount), amount, split)
             w == WarmingReduction(p, amount)
             e == EligibleReduction(p, amount)
  <1>1. /\ q.warming_amount = p.warming_amount - w
        /\ q.eligible_amount = p.eligible_amount - e
    BY WithdrawnFields
  <1>2. q.warming_epoch = p.warming_epoch
    BY DEF WithdrawnPosition, ReducedPosition, PositionType
  <1>3. w \in Nat /\ e \in Nat
    BY ReductionParts
  <1>4. p.warming_amount \in Nat /\ p.eligible_amount \in Nat
    BY PositionNats
  <1> HIDE DEF q, w, e
  <1>5. StillWarming(c, q) /\ q.eligible_amount <= p.eligible_amount
    BY <1>1, <1>2, <1>3, <1>4 DEF StillWarming
  <1> QED
    BY <1>5 DEF q

\* process_withdraw: stake only leaves.
LEMMA WithdrawShares ==
    ASSUME IInv, NEW u \in Owners, NEW amount \in Exits, Withdraw(u, amount)
    PROVE  IInv' /\ SharesNoMore(u)
  <1> DEFINE old == position[u]
             c == SyncedConfig(config, old)
             p == SyncedPosition(config, old)
             after == c.eligible_locked - EligibleReduction(p, amount)
             split == ExitSplit(p, amount, after)
             payout == Payout(p, amount)
             paid == IF amount = p.locked_amount THEN PaidPosition(p) ELSE p
             committed == try_commit_rewards_to_index(PaidConfig(c, payout), split.reward, after)
             d == WithdrawnConfig(ReducedConfig(committed, p, amount), split)
             q == WithdrawnPosition(ReducedPosition(paid, amount), amount, split)
  <1>1. IInv'
    BY WithdrawSafe DEF SafeStep
  <1>2. config \in ConfigType /\ old \in PositionType /\ position \in [Owners -> PositionType]
    BY DEF IInv, TypeOK
  <1>3. old.is_initialized /\ sync_ok(config, old)
    BY DEF Withdraw, WithdrawOk
  <1>4. StillWarming(config, p) /\ p.eligible_amount <= Sharing(config, old)
    BY <1>2, <1>3, SyncShares
  <1>5. Settled(u, c, p)
    BY <1>3, SyncSettles
  <1>6. position'[u] \in PositionType
    BY <1>1 DEF IInv, TypeOK
  <1>7. config' = d /\ position' = [position EXCEPT ![u] = q]
    BY DEF Withdraw
  <1> HIDE DEF c, p
  <1>8. c \in ConfigType /\ p \in PositionType /\ SameSchedule(config, c)
    BY <1>5 DEF Settled
  <1>9. position'[u] = q /\ \A v \in Owners \ {u} : position'[v] = position[v]
    BY <1>2, <1>7
  <1> HIDE DEF after, split, payout
  <1>10. paid \in PositionType /\ SameLock(p, paid) /\ SameBuckets(p, paid)
    BY <1>8, PaidType DEF SameLock, SameBuckets
  <1>11. d.is_initialized = c.is_initialized /\ d.current_epoch = c.current_epoch
    BY <1>8 DEF WithdrawnConfig, ReducedConfig, try_commit_rewards_to_index,
                commit_rewards_to_index, add_reward_index, PaidConfig, ConfigType
  <1>12. amount \in Nat
    BY ArenaAssumption, Widths
  <1> HIDE DEF paid, committed, d
  <1>13. StillWarming(config, paid)
    BY <1>4, <1>10 DEF StillWarming, SameLock, SameBuckets
  <1>14. StillWarming(config, q) /\ q.eligible_amount <= paid.eligible_amount
    BY <1>2, <1>10, <1>12, <1>13, LeftShares
  <1>15. /\ paid.eligible_amount = p.eligible_amount
         /\ q.eligible_amount \in Nat /\ p.eligible_amount \in Nat
         /\ Sharing(config, old) \in Nat
    BY <1>2, <1>6, <1>8, <1>9, <1>10, PositionNats, SharingType DEF SameBuckets
  <1> HIDE DEF q
  <1>16. q.eligible_amount <= Sharing(config, old)
    BY <1>4, <1>14, <1>15
  <1> QED
    BY <1>1, <1>6, <1>7, <1>8, <1>9, <1>11, <1>14, <1>16 DEF SharesNoMore, SameSchedule

-----------------------------------------------------------------------------
(* Any step of the arena. *)

\* Epochs only advance, and within one nobody shares with more.
NobodyJoins ==
    /\ config'.is_initialized
    /\ config.current_epoch <= config'.current_epoch
    /\ config'.current_epoch = config.current_epoch =>
          \A u \in Owners : Sharing(config', position'[u]) <= Sharing(config, position[u])

LEMMA StakerJoins ==
    ASSUME IInv, config.is_initialized, NEW u \in Owners, IInv', SharesNoMore(u)
    PROVE  NobodyJoins
  <1>1. /\ config \in ConfigType /\ config' \in ConfigType
        /\ \A v \in Owners : position[v] \in PositionType
    BY DEF IInv, TypeOK
  <1>2. config'.current_epoch = config.current_epoch /\ config.current_epoch \in Nat
    BY <1>1, ConfigNats DEF SharesNoMore
  <1>3. ASSUME NEW v \in Owners
        PROVE  Sharing(config', position'[v]) <= Sharing(config, position[v])
    <2>1. Sharing(config', position'[v]) = Sharing(config, position'[v])
      BY <1>2, SharingByEpoch
    <2>2. Sharing(config, position[v]) \in Nat
      BY <1>1, SharingType
    <2>3. CASE v = u
      <3>1. Sharing(config, position'[u]) = position'[u].eligible_amount
        BY <1>1, StillWarmingShares DEF SharesNoMore
      <3> QED
        BY <2>1, <2>3, <3>1 DEF SharesNoMore
    <2>4. CASE v # u
      BY <2>1, <2>2, <2>4 DEF SharesNoMore
    <2> QED
      BY <2>3, <2>4
  <1> QED
    BY <1>2, <1>3 DEF NobodyJoins, SharesNoMore

\* Where no position changes, only the epoch can make more of it share.
LEMMA IdleJoins ==
    ASSUME IInv, position' = position, config'.is_initialized,
           \/ config'.current_epoch = config.current_epoch
           \/ config'.current_epoch = config.current_epoch + 1
    PROVE  NobodyJoins
  <1>1. /\ config \in ConfigType /\ config.current_epoch \in Nat
        /\ \A v \in Owners : Sharing(config, position[v]) \in Nat
    BY ConfigNats, SharingType DEF IInv, TypeOK
  <1>2. ASSUME NEW v \in Owners, config'.current_epoch = config.current_epoch
        PROVE  Sharing(config', position'[v]) <= Sharing(config, position[v])
    <2>1. Sharing(config', position'[v]) = Sharing(config, position[v])
      BY <1>2, SharingByEpoch
    <2> QED
      BY <1>1, <2>1
  <1> QED
    BY <1>1, <1>2 DEF NobodyJoins

\* process_fund_rewards leaves the schedule alone.
LEMMA FundSchedule ==
    ASSUME IInv, NEW u \in Users, NEW amount \in Fundings, FundRewards(u, amount)
    PROVE  SameSchedule(config, config')
  <1> DEFINE c == commit_rewards_to_index(config, amount, config.eligible_locked)
  <1>1. config \in ConfigType /\ amount \in U64 /\ config.eligible_locked \in U64
    BY ArenaAssumption, ConfigFields DEF IInv, TypeOK
  <1>2. c \in ConfigType /\ SameSchedule(config, c)
    BY <1>1, CommitType DEF FundRewards
  <1>3. config' = [c EXCEPT !.total_rewards_funded = sat_add_u64(@, amount)]
    BY DEF FundRewards
  <1> HIDE DEF c
  <1> QED
    BY <1>2, <1>3 DEF ConfigType, SameSchedule

LEMMA NextJoins ==
    ASSUME IInv, config.is_initialized, [Next]_vars
    PROVE  IInv' /\ NobodyJoins
  <1>1. IInv'
    BY NextSafe DEF SafeStep
  <1>2. ASSUME NEW u \in Owners, OwnerStep(u) PROVE NobodyJoins
    <2>1. SharesNoMore(u)
      BY <1>2, ActivateShares, ClaimShares, DepositShares, WithdrawShares DEF OwnerStep
    <2> QED
      BY <1>1, <2>1, StakerJoins
  <1>3. ASSUME NEW u \in Funders, FunderStep(u) PROVE NobodyJoins
    <2>1. PICK amount \in Fundings :
             \/ FundRewards(u, amount)
             \/ \E s \in Snapshots : FundRewardsChecked(u, amount, s[1], s[2])
      BY <1>3 DEF FunderStep
    <2>2. FundRewards(u, amount)
      BY <2>1 DEF FundRewardsChecked
    <2>3. SameSchedule(config, config') /\ position' = position
      BY <2>2, FundSchedule DEF Users, FundRewards
    <2> QED
      BY <2>3, IdleJoins DEF SameSchedule
  <1>4. CASE RollEpoch
    <2>1. config \in ConfigType
      BY DEF IInv, TypeOK
    <2>2. /\ position' = position
          /\ config'.is_initialized
          /\ config'.current_epoch = config.current_epoch + 1
      BY <1>4, <2>1 DEF RollEpoch, ConfigType
    <2> QED
      BY <1>1, <2>2, IdleJoins
  <1>5. CASE FinalizeRewards
    <2>1. config \in ConfigType
      BY DEF IInv, TypeOK
    <2>2. /\ position' = position
          /\ config'.is_initialized
          /\ config'.current_epoch = config.current_epoch
      BY <1>5, <2>1 DEF FinalizeRewards, PoolBurnedConfig, ConfigType
    <2> QED
      BY <1>1, <2>2, IdleJoins
  <1>6. CASE \/ \E u \in Funders : DonorStep(u)
             \/ Tick
             \/ UNCHANGED vars
    <2>1. position' = position /\ config' = config
      BY <1>6 DEF DonorStep, DonateToVault, DonateToPool, Tick, vars
    <2> QED
      BY <1>1, <2>1, IdleJoins
  <1>7. CASE \E pol \in Policies : InitializeConfig(pol)
    BY <1>7 DEF InitializeConfig
  <1> QED
    BY <1>1, <1>2, <1>3, <1>4, <1>5, <1>6, <1>7 DEF Next

-----------------------------------------------------------------------------
(* The client. *)

\* NoLatecomer, in the terms of this module.
LEMMA LatecomerParts ==
    NoLatecomer <=>
       (config.is_initialized /\ config.current_epoch = quote.epoch /\ quote # NoQuote =>
           \A u \in Owners : Sharing(config, position[u]) <= quote.admissible[u])
  BY DEF NoLatecomer, SharingStake, Sharing

\* A step of the arena under a quote that is kept, landed copies apart.
LEMMA QuoteKept ==
    ASSUME IInv, QuoteInv, IInv', quote # NoQuote, NobodyJoins,
           quote' \in QuoteType,
           quote'.epoch = quote.epoch,
           quote'.admissible = quote.admissible
    PROVE  QuoteInv'
  <1>1. /\ config \in ConfigType /\ config' \in ConfigType
        /\ \A u \in Owners : position[u] \in PositionType /\ position'[u] \in PositionType
    BY DEF IInv, TypeOK
  <1>2. /\ config.is_initialized
        /\ quote.epoch <= config.current_epoch
        /\ quote.epoch \in Nat
        /\ \A u \in Owners : quote.admissible[u] \in Nat
    BY DEF QuoteInv, QuoteType
  <1>3. config.current_epoch \in Nat /\ config'.current_epoch \in Nat
    BY <1>1, ConfigNats
  <1>4. config'.is_initialized /\ config.current_epoch <= config'.current_epoch
    BY DEF NobodyJoins
  <1>5. ASSUME config'.current_epoch = quote.epoch, NEW u \in Owners
        PROVE  Sharing(config', position'[u]) <= quote.admissible[u]
    <2>1. config.current_epoch = quote.epoch /\ config'.current_epoch = config.current_epoch
      BY <1>2, <1>3, <1>4, <1>5
    <2>2. Sharing(config, position[u]) <= quote.admissible[u]
      BY <1>2, <2>1, LatecomerParts DEF QuoteInv
    <2>3. Sharing(config', position'[u]) <= Sharing(config, position[u])
      BY <2>1 DEF NobodyJoins
    <2>4. Sharing(config, position[u]) \in Nat /\ Sharing(config', position'[u]) \in Nat
      BY <1>1, SharingType
    <2> QED
      BY <1>2, <2>2, <2>3, <2>4
  <1>6. NoLatecomer'
    <2>1. NoLatecomer' <=>
             (config'.is_initialized /\ config'.current_epoch = quote'.epoch /\ quote' # NoQuote =>
                 \A u \in Owners : Sharing(config', position'[u]) <= quote'.admissible[u])
      BY DEF NoLatecomer, SharingStake, Sharing, NoQuote
    <2> QED
      BY <1>5, <2>1
  <1> QED
    BY <1>2, <1>3, <1>4, <1>6 DEF QuoteInv

\* Without a quote nothing is promised.
LEMMA NoQuoteInv == ASSUME quote = NoQuote PROVE QuoteInv
  <1>1. NoQuote \in QuoteType
    BY DEF NoQuote, QuoteType
  <1> QED
    BY <1>1 DEF QuoteInv, NoLatecomer

\* A read binds what it saw.
LEMMA ReadKeeps ==
    ASSUME IInv, ReadSnapshot
    PROVE  IInv' /\ QuoteInv'
  <1>1. /\ config.is_initialized
        /\ quote' = [eligible |-> config.eligible_locked,
                     epoch |-> config.current_epoch,
                     admissible |-> [u \in Owners |-> Sharing(config, position[u])],
                     landed |-> 0]
        /\ UNCHANGED vars
    BY DEF ReadSnapshot, SharingStake, Sharing
  <1>2. IInv'
    BY <1>1, NextSafe DEF SafeStep
  <1>3. /\ config' = config /\ position' = position
        /\ config.eligible_locked \in Nat /\ config.current_epoch \in Nat
        /\ \A u \in Owners : Sharing(config, position[u]) \in Nat
    BY <1>1, ConfigNats, SharingType DEF vars, IInv, TypeOK
  <1>4. /\ quote' \in QuoteType
        /\ quote'.epoch = config.current_epoch
        /\ \A u \in Owners : quote'.admissible[u] = Sharing(config, position[u])
    BY <1>1, <1>3 DEF QuoteType
  <1>5. \A u \in Owners : Sharing(config', position'[u]) <= quote'.admissible[u]
    BY <1>3, <1>4
  <1>6. NoLatecomer'
    BY <1>5 DEF NoLatecomer, SharingStake, Sharing
  <1> QED
    BY <1>1, <1>2, <1>3, <1>4, <1>6 DEF QuoteInv

\* Only a quote that was read can fund: the batch needs a denominator.
LEMMA FundingIsQuoted ==
    ASSUME IInv, NEW u \in Funders, NEW amount \in Fundings, FundingLands(u, amount)
    PROVE  /\ FundRewards(u, amount)
           /\ config.eligible_locked = quote.eligible
           /\ config.current_epoch <= quote.epoch
           /\ quote # NoQuote
  <1>1. /\ FundRewards(u, amount)
        /\ config.eligible_locked = quote.eligible
        /\ config.current_epoch <= quote.epoch
    BY DEF FundingLands, FundRewardsChecked
  <1>2. config.eligible_locked > 0
    BY <1>1 DEF FundRewards, commit_rewards_to_index_ok, reward_index_delta_ok
  <1> QED
    BY <1>1, <1>2 DEF NoQuote

LEMMA FundingKeeps ==
    ASSUME IInv, QuoteInv, NEW u \in Funders, NEW amount \in Fundings, FundingLands(u, amount)
    PROVE  IInv' /\ QuoteInv'
  <1>1. FundRewards(u, amount) /\ quote # NoQuote /\ u \in Users
    BY FundingIsQuoted DEF Users
  <1>2. IInv'
    BY <1>1, FundSafe DEF SafeStep
  <1>3. SameSchedule(config, config') /\ position' = position /\ config.is_initialized
    BY <1>1, FundSchedule DEF FundRewards
  <1>4. NobodyJoins
    BY <1>3, IdleJoins DEF SameSchedule
  <1>5. /\ quote' \in QuoteType
        /\ quote'.epoch = quote.epoch
        /\ quote'.admissible = quote.admissible
    BY DEF FundingLands, QuoteInv, QuoteType
  <1> QED
    BY <1>1, <1>2, <1>4, <1>5, QuoteKept

LEMMA QuoteStep ==
    ASSUME IInv, QuoteInv, [CFNext]_<<vars, quote>>
    PROVE  IInv' /\ QuoteInv'
  <1>1. CASE ReadSnapshot
    BY <1>1, ReadKeeps
  <1>2. CASE \E u \in Funders, amount \in Fundings : FundingLands(u, amount)
    BY <1>2, FundingKeeps
  <1>3. CASE [Next]_vars /\ UNCHANGED quote
    <2>1. IInv'
      BY <1>3, NextSafe DEF SafeStep
    <2>2. CASE quote = NoQuote
      <3>1. quote' = NoQuote /\ NoQuote \in QuoteType
        BY <1>3, <2>2 DEF QuoteInv
      <3> QED
        BY <2>1, <3>1 DEF QuoteInv, NoLatecomer, NoQuote
    <2>3. CASE quote # NoQuote
      <3>1. NobodyJoins
        BY <1>3, <2>3, NextJoins DEF QuoteInv
      <3> QED
        BY <1>3, <2>1, <2>3, <3>1, QuoteKept DEF QuoteInv
    <2> QED
      BY <2>2, <2>3
  <1> QED
    BY <1>1, <1>2, <1>3 DEF CFNext

\* What one owner gets from a funding that lands.
LEMMA GainIsShare ==
    ASSUME IInv, NEW u \in Users, NEW amount \in Fundings, FundRewards(u, amount),
           NEW v \in Owners
    PROVE  /\ Gain(v) = position[v].eligible_amount
                           * reward_index_delta(amount, config.eligible_locked)
           /\ reward_index_delta(amount, config.eligible_locked) \in Nat
  <1> DEFINE e == config.eligible_locked
             k == Share(amount, e)
             c == commit_rewards_to_index(config, amount, e)
             p == position[v]
  <1>1. /\ config \in ConfigType /\ p \in PositionType
        /\ amount \in U64 /\ e \in U64 /\ amount \in Nat /\ e \in Nat
    BY ArenaAssumption, ConfigFields, Widths DEF IInv, TypeOK
  <1>2. /\ commit_rewards_to_index_ok(config, amount, e)
        /\ config' = [c EXCEPT !.total_rewards_funded = sat_add_u64(@, amount)]
        /\ position' = position
    BY DEF FundRewards
  <1>3. c \in ConfigType /\ Index(c) = Index(config) + k /\ k \in Nat
    BY <1>1, <1>2, CommitType, CommitMoves, ShareType
  <1>4. k = reward_index_delta(amount, e)
    BY <1>2 DEF commit_rewards_to_index_ok, reward_index_delta_ok, Share, reward_index_delta
  <1> HIDE DEF c, k
  <1>5. Index(config') = Index(config) + k
    BY <1>2, <1>3 DEF ConfigType, Index
  <1>6. config' \in ConfigType
    BY FundSafe DEF SafeStep, IInv, TypeOK
  <1>7. OwedScaled(config', p) = OwedScaled(config, p) + p.eligible_amount * k
    BY <1>1, <1>3, <1>5, <1>6, OwedGrows
  <1>8. OwedScaled(config, p) \in Int /\ p.eligible_amount * k \in Int
    <2>1. /\ Index(config) \in Nat /\ Mark(p) \in Nat
          /\ Booked(p) \in Nat /\ p.eligible_amount \in Nat
      BY <1>1, IndexType, MarkType, BookedType, PositionNats
    <2>2. Index(config) - Mark(p) \in Int
      BY <2>1
    <2>3. p.eligible_amount * (Index(config) - Mark(p)) \in Int
      BY <2>1, <2>2, Distribute
    <2>4. p.eligible_amount * k \in Int
      BY <1>3, <2>1, Distribute
    <2> QED
      BY <2>1, <2>3, <2>4, OwedParts
  <1>9. Gain(v) = OwedScaled(config', p) - OwedScaled(config, p)
    BY <1>2 DEF Gain
  <1> DEFINE x == OwedScaled(config, p)
             y == p.eligible_amount * k
  <1>10. Gain(v) = (x + y) - x /\ x \in Int /\ y \in Int
    BY <1>7, <1>8, <1>9
  <1> HIDE DEF x, y
  <1>11. Gain(v) = y
    BY <1>10
  <1> QED
    BY <1>3, <1>4, <1>11 DEF y

\* A funding that lands shares no more than was quoted.
LEMMA FundingAsQuoted ==
    ASSUME IInv, QuoteInv, NEW u \in Funders, NEW amount \in Fundings, FundingLands(u, amount)
    PROVE  /\ pool' = pool + amount
           /\ \A v \in Owners :
                 Gain(v) <= quote.admissible[v] * reward_index_delta(amount, quote.eligible)
  <1>1. /\ FundRewards(u, amount) /\ u \in Users
        /\ config.eligible_locked = quote.eligible
        /\ config.current_epoch <= quote.epoch
        /\ quote # NoQuote
    BY FundingIsQuoted DEF Users
  <1>2. /\ config.is_initialized
        /\ quote.epoch <= config.current_epoch
        /\ quote.epoch \in Nat
        /\ \A v \in Owners : quote.admissible[v] \in Nat
    BY <1>1 DEF QuoteInv, QuoteType
  <1>3. config \in ConfigType /\ config.current_epoch \in Nat
    BY ConfigNats DEF IInv, TypeOK
  <1>4. config.current_epoch = quote.epoch
    BY <1>1, <1>2, <1>3
  <1>5. ASSUME NEW v \in Owners
        PROVE  Gain(v) <= quote.admissible[v] * reward_index_delta(amount, quote.eligible)
    <2> DEFINE n == position[v].eligible_amount
               k == reward_index_delta(amount, quote.eligible)
    <2>1. Gain(v) = n * k /\ k \in Nat
      BY <1>1, GainIsShare
    <2>2. position[v] \in PositionType
      BY DEF IInv, TypeOK
    <2>3. n \in Nat /\ Sharing(config, position[v]) \in Nat /\ n <= Sharing(config, position[v])
      BY <1>3, <2>2, SharingType, PositionNats
    <2>4. Sharing(config, position[v]) <= quote.admissible[v]
      BY <1>1, <1>2, <1>4, LatecomerParts DEF QuoteInv
    <2>5. n <= quote.admissible[v] /\ quote.admissible[v] \in Nat
      BY <1>2, <2>3, <2>4
    <2> HIDE DEF n, k
    <2>6. n * k <= quote.admissible[v] * k
      BY <2>1, <2>3, <2>5, ProductMonotone
    <2> QED
      BY <2>1, <2>6 DEF k
  <1> QED
    BY <1>1, <1>5 DEF FundRewards

-----------------------------------------------------------------------------
(* The theorems. *)

LEMMA QuoteInvHolds == CFSpec => [](IInv /\ QuoteInv)
  <1>1. CFInit => IInv /\ QuoteInv
    BY InitInv, NoQuoteInv DEF CFInit
  <1>2. (IInv /\ QuoteInv) /\ [CFNext]_<<vars, quote>> => (IInv /\ QuoteInv)'
    BY QuoteStep
  <1> QED
    BY <1>1, <1>2, PTL DEF CFSpec

\* Within the epoch of the read no position can have more stake sharing than it
\* had at the read, whatever the owners deposit, activate, touch or withdraw.
THEOREM NoStakeCutsIn == CFSpec => []NoLatecomer
  <1>1. IInv /\ QuoteInv => NoLatecomer
    BY DEF QuoteInv
  <1> QED
    BY <1>1, QuoteInvHolds, PTL

\* However late a checked funding lands, and however often, nobody gets more
\* from it than the stake that was mature at the read earns at the quoted
\* denominator.
THEOREM QuoteBinds == CFSpec => SharedAsQuoted
  <1> DEFINE Bound == quote'.landed > quote.landed =>
                         \E amount \in Fundings :
                            /\ pool' = pool + amount
                            /\ \A u \in Owners :
                                  Gain(u) <= quote.admissible[u]
                                                * reward_index_delta(amount, quote.eligible)
  <1>1. (IInv /\ QuoteInv) /\ [CFNext]_<<vars, quote>> => [Bound]_<<vars, quote>>
    <2> SUFFICES ASSUME IInv, QuoteInv, [CFNext]_<<vars, quote>>
                 PROVE  Bound
      OBVIOUS
    <2>1. quote.landed \in Nat
      BY DEF QuoteInv, QuoteType
    <2>2. CASE ReadSnapshot
      <3>1. quote'.landed = 0
        BY <2>2 DEF ReadSnapshot
      <3> QED
        BY <2>1, <3>1
    <2>3. CASE \E u \in Funders, amount \in Fundings : FundingLands(u, amount)
      BY <2>3, FundingAsQuoted
    <2>4. CASE quote' = quote
      BY <2>1, <2>4
    <2> QED
      BY <2>2, <2>3, <2>4 DEF CFNext
  <1> QED
    BY <1>1, QuoteInvHolds, PTL DEF CFSpec, SharedAsQuoted
=============================================================================
