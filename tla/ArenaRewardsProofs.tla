-------------------------- MODULE ArenaRewardsProofs --------------------------
(***************************************************************************)
(* Theorems about the rewards of one arena, for every finite set of owners: *)
(* the incrementally kept totals are sums, nobody who left is owed          *)
(* anything, lazy settlement implements the immediate split of              *)
(* RewardShares, and the pool covers every debt.                            *)
(*                                                                         *)
(* The argument: a staker instruction moves stake between one position and  *)
(* the config (Moved), pays from and shares into the pool, and leaves the   *)
(* position marked at the index before its own penalty (RewardStep).  Every *)
(* such step is one of RewardShares.                                        *)
(***************************************************************************)
EXTENDS ArenaLockProofs, TotalsProofs

\* The index, and how far a position has been settled, their wraps unrolled.
Index(c) == Unwrapped(c.reward_index_generation, c.reward_index)
Mark(p) == Unwrapped(p.reward_index_generation_checkpoint, p.reward_index_checkpoint)

\* What a position has been credited, in units of 1/REWARD_INDEX_SCALE.
Booked(p) == p.pending_rewards * REWARD_INDEX_SCALE + p.reward_accrual_remainder

\* What each unit of stake gets from a batch.
Share(batch, eligible) ==
    IF eligible = 0 THEN 0 ELSE (batch * REWARD_INDEX_SCALE) \div eligible

-----------------------------------------------------------------------------
(* Numbers. *)

\* Products distribute over sums and differences.
LEMMA Distribute ==
    /\ \A n, a, b \in Int : n * (a + b) = n * a + n * b
    /\ \A n, a, b \in Int : (a + b) * n = a * n + b * n
    /\ \A n, a, b \in Int : n * (a - b) = n * a - n * b
    /\ \A n, a, b, c \in Int : ((a - b) + c) * n = (a * n - b * n) + c * n
    /\ \A n, a \in Int : n * a \in Int
    /\ \A n \in Int : n * 0 = 0 /\ 0 * n = 0 /\ n * 1 = n /\ 1 * n = n
  OBVIOUS

\* Quotient and remainder are the only ones.
LEMMA DivisionUnique ==
    ASSUME NEW n \in Nat, NEW d \in Nat, d > 0, NEW m \in Nat, NEW r \in Nat, r < d,
           n = m * d + r
    PROVE  n \div d = m /\ n % d = r
  OBVIOUS

\* A quotient times the divisor is at most what was divided.
LEMMA DivisionFloor ==
    ASSUME NEW n \in Nat, NEW d \in Nat, d > 0
    PROVE  d * (n \div d) <= n /\ (n \div d) * d <= n
  <1> DEFINE k == n \div d
             r == n % d
  <1>1. k * d + r = n /\ r \in Nat /\ k \in Nat
    BY DivisionByUnit, RemainderBound
  <1> HIDE DEF k, r
  <1>2. d * k = k * d /\ k * d \in Nat
    BY <1>1
  <1> DEFINE m == k * d
  <1>3. m \in Nat /\ m + r = n /\ d * k = m
    BY <1>1, <1>2
  <1> HIDE DEF m
  <1>4. m <= n
    BY <1>1, <1>3
  <1> QED
    BY <1>3, <1>4 DEF k, m

LEMMA UnwrappedType == \A g, i \in Nat : Unwrapped(g, i) \in Nat
  <1> TAKE g, i \in Nat
  <1>1. U128_MAX + 1 \in Nat
    BY Widths
  <1>2. g * (U128_MAX + 1) \in Nat
    BY <1>1, NatProduct
  <1> QED
    BY <1>2 DEF Unwrapped

LEMMA IndexType == ASSUME NEW c \in ConfigType PROVE Index(c) \in Nat
  BY ConfigNats, UnwrappedType DEF Index

LEMMA MarkType == ASSUME NEW p \in PositionType PROVE Mark(p) \in Nat
  BY PositionNats, UnwrappedType DEF Mark

LEMMA BookedType == ASSUME NEW p \in PositionType PROVE Booked(p) \in Nat
  <1>1. p.pending_rewards * REWARD_INDEX_SCALE \in Nat
    BY PositionNats, Widths, NatProduct
  <1> QED
    BY <1>1, PositionNats DEF Booked

LEMMA ShareType ==
    ASSUME NEW batch \in Nat, NEW eligible \in Nat
    PROVE  Share(batch, eligible) \in Nat
  <1>1. batch * REWARD_INDEX_SCALE \in Nat
    BY Widths, NatProduct
  <1> DEFINE n == batch * REWARD_INDEX_SCALE
  <1> HIDE DEF n
  <1>2. eligible > 0 => n \div eligible \in Nat
    BY <1>1, QuotientBound DEF n
  <1> QED
    BY <1>2 DEF Share, n

\* Nobody is shared more than the batch.
LEMMA ShareBound ==
    ASSUME NEW batch \in Nat, NEW eligible \in Nat
    PROVE  eligible * Share(batch, eligible) <= batch * REWARD_INDEX_SCALE
  <1>1. batch * REWARD_INDEX_SCALE \in Nat
    BY Widths, NatProduct
  <1> DEFINE n == batch * REWARD_INDEX_SCALE
  <1>2. CASE eligible = 0
    BY <1>1, <1>2 DEF Share
  <1>3. CASE eligible # 0
    <2>1. n \in Nat /\ eligible > 0
      BY <1>1, <1>3
    <2>2. Share(batch, eligible) = n \div eligible
      BY <1>3 DEF Share
    <2> HIDE DEF n
    <2>3. eligible * (n \div eligible) <= n
      BY <2>1, DivisionFloor
    <2> QED
      BY <2>2, <2>3 DEF n
  <1> QED
    BY <1>2, <1>3

\* What a position is owed: what is booked, and what its stake earned since.
LEMMA OwedParts ==
    ASSUME NEW c, NEW p
    PROVE  OwedScaled(c, p) = Booked(p) + p.eligible_amount * (Index(c) - Mark(p))
  BY DEF OwedScaled, Booked, Index, Mark

\* A settled position is owed what is booked.
LEMMA OwedAtMark ==
    ASSUME NEW c \in ConfigType, NEW p \in PositionType, Mark(p) = Index(c)
    PROVE  OwedScaled(c, p) = Booked(p)
  <1> DEFINE i == Index(c)
  <1>1. i \in Nat /\ p.eligible_amount \in Nat /\ Booked(p) \in Nat
    BY IndexType, BookedType, PositionNats
  <1>2. OwedScaled(c, p) = Booked(p) + p.eligible_amount * (i - i)
    BY OwedParts
  <1> HIDE DEF i
  <1>3. i - i = 0
    BY <1>1
  <1>4. p.eligible_amount * (i - i) = 0
    BY <1>1, <1>3, Distribute
  <1> QED
    BY <1>1, <1>2, <1>4

\* When the index moves on by k, a position is owed k more for each unit that shares.
LEMMA OwedGrows ==
    ASSUME NEW c \in ConfigType, NEW d \in ConfigType, NEW p \in PositionType, NEW k \in Nat,
           Index(d) = Index(c) + k
    PROVE  OwedScaled(d, p) = OwedScaled(c, p) + p.eligible_amount * k
  <1> DEFINE i == Index(c)
             m == Mark(p)
             n == p.eligible_amount
  <1>1. i \in Nat /\ m \in Nat /\ n \in Nat /\ Booked(p) \in Nat
    BY IndexType, MarkType, BookedType, PositionNats
  <1>2. OwedScaled(d, p) = Booked(p) + n * ((i + k) - m)
    BY OwedParts
  <1>3. OwedScaled(c, p) = Booked(p) + n * (i - m)
    BY OwedParts
  <1> HIDE DEF i, m, n
  <1>4. (i + k) - m = (i - m) + k /\ i - m \in Int
    BY <1>1
  <1>5. n * ((i - m) + k) = n * (i - m) + n * k /\ n * (i - m) \in Int /\ n * k \in Int
    BY <1>1, <1>4, Distribute
  <1> DEFINE x == n * (i - m)
             y == n * k
  <1>6. x \in Int /\ y \in Int /\ n * ((i + k) - m) = x + y
    BY <1>4, <1>5
  <1> HIDE DEF x, y
  <1> QED
    BY <1>1, <1>2, <1>3, <1>6 DEF x, y, n

-----------------------------------------------------------------------------
(* Settling, as far as the rewards and the totals can tell. *)

\* What enters or leaves a bucket of the position does so in the config.
Moved(c, p, d, q) ==
    /\ d.pending_activation_locked + p.pending_activation_amount
          = c.pending_activation_locked + q.pending_activation_amount
    /\ d.warming_locked + p.warming_amount = c.warming_locked + q.warming_amount
    /\ d.eligible_locked + p.eligible_amount = c.eligible_locked + q.eligible_amount

SameIndex(c, d) ==
    /\ d.reward_index = c.reward_index
    /\ d.reward_index_generation = c.reward_index_generation

\* The position is marked at the index.
Marked(c, p) ==
    /\ p.reward_index_checkpoint = c.reward_index
    /\ p.reward_index_generation_checkpoint = c.reward_index_generation

LEMMA MarkedAtIndex == \A c, p : Marked(c, p) => Mark(p) = Index(c)
  BY DEF Marked, Mark, Index

\* Nothing of p is lost when it becomes q: all it was owed is booked.
Synced(c, p, d, q) ==
    /\ d \in ConfigType
    /\ q \in PositionType
    /\ Moved(c, p, d, q)
    /\ SameIndex(c, d)
    /\ Marked(c, q)
    /\ q.locked_amount = p.locked_amount
    /\ q.eligible_amount >= p.eligible_amount
    /\ Booked(q) = OwedScaled(c, p)

\* Maturity moves the bag from one bucket to the next on both sides.
LEMMA MatureMoves ==
    ASSUME NEW c \in ConfigType, NEW p \in PositionType, mature_warming_ok(c, p)
    PROVE  /\ Moved(c, p, mature_warming_config(c, p), mature_warming_position(c, p))
           /\ SameIndex(c, mature_warming_config(c, p))
           /\ mature_warming_position(c, p).eligible_amount >= p.eligible_amount
  <1>1. CASE ~MatureReady(c, p)
    <2>1. mature_warming_config(c, p) = c /\ mature_warming_position(c, p) = p
      BY <1>1 DEF mature_warming_config, mature_warming_position
    <2> QED
      BY <2>1, PositionNats DEF Moved, SameIndex
  <1>2. CASE MatureReady(c, p)
    <2> DEFINE a == accrue_rewards(c, p)
               d == mature_warming_config(c, p)
               q == mature_warming_position(c, p)
    <2>1. a \in PositionType /\ SameLock(p, a) /\ SameBuckets(p, a)
      BY <1>2, AccrueType DEF mature_warming_ok
    <2>2. q = [a EXCEPT !.eligible_amount = a.eligible_amount + p.warming_amount,
                        !.warming_amount = 0]
      BY <1>2 DEF mature_warming_position
    <2>3. /\ d.pending_activation_locked = c.pending_activation_locked
          /\ d.warming_locked = c.warming_locked - p.warming_amount
          /\ d.eligible_locked = c.eligible_locked + p.warming_amount
          /\ SameIndex(c, d)
      BY <1>2 DEF mature_warming_config, ConfigType, SameIndex
    <2> HIDE DEF a
    <2>4. /\ q.pending_activation_amount = p.pending_activation_amount
          /\ q.warming_amount = 0
          /\ q.eligible_amount = p.eligible_amount + p.warming_amount
      BY <2>1, <2>2 DEF PositionType, SameLock, SameBuckets
    <2> HIDE DEF d, q
    <2>5. Moved(c, p, d, q)
      BY <2>3, <2>4, PositionNats, ConfigNats DEF Moved
    <2>6. q.eligible_amount >= p.eligible_amount
      BY <2>4, PositionNats
    <2> QED
      BY <2>3, <2>5, <2>6 DEF d, q
  <1> QED
    BY <1>1, <1>2

\* The sync that opens an instruction on an existing position.
LEMMA SyncSynced ==
    ASSUME NEW c \in ConfigType, NEW p \in PositionType, sync_ok(c, p)
    PROVE  Synced(c, p, SyncedConfig(c, p), SyncedPosition(c, p))
  <1> DEFINE d == mature_warming_config(c, p)
             m == mature_warming_position(c, p)
             q == accrue_rewards(d, m)
  <1>1. mature_warming_ok(c, p) /\ accrue_rewards_ok(d, m)
    BY DEF sync_ok
  <1>2. Matured(c, p, d, m)
    BY <1>1, MatureType
  <1>3. Moved(c, p, d, m) /\ SameIndex(c, d) /\ m.eligible_amount >= p.eligible_amount
    BY <1>1, MatureMoves
  <1>4. SyncedConfig(c, p) = d /\ SyncedPosition(c, p) = q
    BY DEF SyncedConfig, SyncedPosition
  <1>5. OwedScaled(d, q) = OwedScaled(c, p)
    BY <1>4, SettlingIsExact
  <1> HIDE DEF d, m
  <1>6. d \in ConfigType /\ m \in PositionType /\ m.locked_amount = p.locked_amount
    BY <1>2 DEF Matured, SameLock
  <1>7. q \in PositionType /\ SameLock(m, q) /\ SameBuckets(m, q)
    BY <1>1, <1>6, AccrueType
  <1>8. Marked(d, q)
    BY <1>1, <1>6, AccrueIsExact DEF Marked
  <1> HIDE DEF q
  <1>9. OwedScaled(d, q) = Booked(q)
    BY <1>6, <1>7, <1>8, MarkedAtIndex, OwedAtMark
  <1>10. Moved(c, p, d, q) /\ Marked(c, q)
    BY <1>3, <1>7, <1>8 DEF Moved, SameLock, SameBuckets, Marked, SameIndex
  <1> QED
    BY <1>3, <1>4, <1>5, <1>6, <1>7, <1>9, <1>10 DEF Synced, SameLock, SameBuckets

-----------------------------------------------------------------------------
(* The invariant of the rewards, and what a staker instruction does to it. *)

Stake == [u \in Owners |-> position[u].eligible_amount]
Owed == [u \in Owners |-> OwedScaled(config, position[u])]

RewardInv ==
    /\ TotalsAreSums
    /\ \A u \in Owners : Mark(position[u]) <= Index(config)
    /\ \A u \in Owners : position[u].locked_amount = 0 => Booked(position[u]) = 0
    /\ Solvent

\* u's position is settled up to the old index; then u is paid, and a batch is
\* shared by the stake that is eligible now.
RewardStep(u, paid, batch) ==
    LET p == position[u]
        q == position'[u]
        owed == OwedScaled(config, p)
    IN  /\ \A v \in Owners \ {u} : position'[v] = position[v]
        /\ Moved(config, p, config', q)
        /\ paid \in U64
        /\ batch \in U64
        /\ pool' = pool - paid + batch
        /\ batch > 0 => config'.eligible_locked > 0
        /\ Index(config') = Index(config) + Share(batch, config'.eligible_locked)
        /\ Mark(q) = Index(config)
        /\ q.locked_amount = 0 => Booked(q) = 0
        /\ \/ \* Restake
              paid = 0 /\ Booked(q) = owed
           \/ \* Claim
              /\ batch = 0
              /\ paid = owed \div REWARD_INDEX_SCALE
              /\ owed >= REWARD_INDEX_SCALE
              /\ Booked(q) = owed % REWARD_INDEX_SCALE
              /\ q.eligible_amount >= p.eligible_amount
           \/ \* Quit
              /\ q.eligible_amount = 0
              /\ Booked(q) = 0
              /\ paid = owed \div REWARD_INDEX_SCALE

\* The types of stake and debts.
LEMMA OwedType ==
    ASSUME IInv, RewardInv
    PROVE  /\ Stake \in [Owners -> Nat]
           /\ Owed \in [Owners -> Nat]
           /\ \A u \in Owners : OwedScaled(config, position[u]) \in Nat
           /\ \A u \in Owners : position[u].eligible_amount \in U64
  <1>1. ASSUME NEW u \in Owners PROVE OwedScaled(config, position[u]) \in Nat
    <2> DEFINE p == position[u]
               n == p.eligible_amount
               i == Index(config)
               m == Mark(p)
               b == Booked(p)
    <2>1. config \in ConfigType /\ p \in PositionType
      BY StateTypes
    <2>2. i \in Nat /\ m \in Nat /\ b \in Nat /\ n \in Nat
      BY <2>1, IndexType, MarkType, BookedType, PositionNats
    <2>3. m <= i
      BY DEF RewardInv
    <2>4. OwedScaled(config, p) = b + n * (i - m)
      BY OwedParts
    <2> HIDE DEF n, i, m, b
    <2>5. i - m \in Nat
      BY <2>2, <2>3
    <2>6. n * (i - m) \in Nat
      BY <2>2, <2>5, NatProduct
    <2> QED
      BY <2>2, <2>4, <2>6
  <1>2. \A u \in Owners : position[u].eligible_amount \in U64
    BY StateTypes, PositionFields
  <1> QED
    BY <1>1, <1>2, Widths DEF Stake, Owed

\* A total that moves with one position stays a sum.
LEMMA TotalMoves ==
    ASSUME NEW f \in [Owners -> Nat], NEW g \in [Owners -> Nat], NEW u \in Owners,
           NEW c \in Nat, NEW d \in Nat,
           c = SumOverOwners(f), d + f[u] = c + g[u], \A v \in Owners \ {u} : g[v] = f[v]
    PROVE  d = SumOverOwners(g)
  <1>1. SumOver(Owners, g) + f[u] = SumOver(Owners, f) + g[u]
    BY OwnersAssumption, SumUpdate
  <1>2. SumOver(Owners, g) \in Nat /\ f[u] \in Nat /\ g[u] \in Nat
    BY OwnersAssumption, SumType
  <1> QED
    BY <1>1, <1>2 DEF SumOverOwners

LEMMA TotalsMove ==
    ASSUME IInv, RewardInv, IInv', NEW u \in Owners,
           \A v \in Owners \ {u} : position'[v] = position[v],
           Moved(config, position[u], config', position'[u])
    PROVE  TotalsAreSums'
  <1> DEFINE pending == [v \in Owners |-> position[v].pending_activation_amount]
             warming == [v \in Owners |-> position[v].warming_amount]
             eligible == [v \in Owners |-> position[v].eligible_amount]
             pendingNow == [v \in Owners |-> position'[v].pending_activation_amount]
             warmingNow == [v \in Owners |-> position'[v].warming_amount]
             eligibleNow == [v \in Owners |-> position'[v].eligible_amount]
  <1>1. /\ config \in ConfigType /\ config' \in ConfigType
        /\ \A v \in Owners : position[v] \in PositionType /\ position'[v] \in PositionType
    BY DEF IInv, TypeOK
  <1>2. /\ pending \in [Owners -> Nat] /\ pendingNow \in [Owners -> Nat]
        /\ warming \in [Owners -> Nat] /\ warmingNow \in [Owners -> Nat]
        /\ eligible \in [Owners -> Nat] /\ eligibleNow \in [Owners -> Nat]
    BY <1>1, PositionNats
  <1>3. /\ config.pending_activation_locked = SumOverOwners(pending)
        /\ config.warming_locked = SumOverOwners(warming)
        /\ config.eligible_locked = SumOverOwners(eligible)
    BY DEF RewardInv, TotalsAreSums
  <1>4. /\ config'.pending_activation_locked + pending[u]
              = config.pending_activation_locked + pendingNow[u]
        /\ config'.warming_locked + warming[u] = config.warming_locked + warmingNow[u]
        /\ config'.eligible_locked + eligible[u] = config.eligible_locked + eligibleNow[u]
    BY DEF Moved
  <1>5. \A v \in Owners \ {u} : /\ pendingNow[v] = pending[v]
                               /\ warmingNow[v] = warming[v]
                               /\ eligibleNow[v] = eligible[v]
    OBVIOUS
  <1> DEFINE c1 == config.pending_activation_locked
             c2 == config.warming_locked
             c3 == config.eligible_locked
             d1 == config'.pending_activation_locked
             d2 == config'.warming_locked
             d3 == config'.eligible_locked
  <1>9. c1 \in Nat /\ c2 \in Nat /\ c3 \in Nat /\ d1 \in Nat /\ d2 \in Nat /\ d3 \in Nat
    BY <1>1, ConfigNats
  <1> HIDE DEF pending, warming, eligible, pendingNow, warmingNow, eligibleNow
  <1>6. c1 = SumOverOwners(pending) /\ d1 + pending[u] = c1 + pendingNow[u]
    BY <1>3, <1>4
  <1>7. c2 = SumOverOwners(warming) /\ d2 + warming[u] = c2 + warmingNow[u]
    BY <1>3, <1>4
  <1>8. c3 = SumOverOwners(eligible) /\ d3 + eligible[u] = c3 + eligibleNow[u]
    BY <1>3, <1>4
  <1> HIDE DEF c1, c2, c3, d1, d2, d3
  <1>10. d1 = SumOverOwners(pendingNow)
    <2>1. pending \in [Owners -> Nat] /\ pendingNow \in [Owners -> Nat]
      BY <1>2
    <2>2. \A v \in Owners \ {u} : pendingNow[v] = pending[v]
      BY <1>5
    <2>3. c1 \in Nat /\ d1 \in Nat
      BY <1>9
    <2> QED
      BY <1>6, <2>1, <2>2, <2>3, TotalMoves
  <1>11. d2 = SumOverOwners(warmingNow)
    <2>1. warming \in [Owners -> Nat] /\ warmingNow \in [Owners -> Nat]
      BY <1>2
    <2>2. \A v \in Owners \ {u} : warmingNow[v] = warming[v]
      BY <1>5
    <2>3. c2 \in Nat /\ d2 \in Nat
      BY <1>9
    <2> QED
      BY <1>7, <2>1, <2>2, <2>3, TotalMoves
  <1>12. d3 = SumOverOwners(eligibleNow)
    <2>1. eligible \in [Owners -> Nat] /\ eligibleNow \in [Owners -> Nat]
      BY <1>2
    <2>2. \A v \in Owners \ {u} : eligibleNow[v] = eligible[v]
      BY <1>5
    <2>3. c3 \in Nat /\ d3 \in Nat
      BY <1>9
    <2> QED
      BY <1>8, <2>1, <2>2, <2>3, TotalMoves
  <1> QED
    BY <1>10, <1>11, <1>12
    DEF TotalsAreSums, pendingNow, warmingNow, eligibleNow, d1, d2, d3, SumOverOwners

\* A debt that was booked grows by k for each unit that shares.
LEMMA StakerOwed ==
    ASSUME IInv, RewardInv, IInv', NEW u \in Owners, NEW paid, NEW batch, NEW k \in Nat,
           RewardStep(u, paid, batch), k = Share(batch, config'.eligible_locked)
    PROVE  /\ \A v \in Owners \ {u} :
                 OwedScaled(config', position'[v])
                    = OwedScaled(config, position[v]) + position'[v].eligible_amount * k
           /\ OwedScaled(config', position'[u])
                 = Booked(position'[u]) + position'[u].eligible_amount * k
  <1>1. /\ config \in ConfigType /\ config' \in ConfigType
        /\ \A v \in Owners : position[v] \in PositionType /\ position'[v] \in PositionType
    BY DEF IInv, TypeOK
  <1>2. Index(config') = Index(config) + k
    BY DEF RewardStep
  <1>3. \A v \in Owners \ {u} : position'[v] = position[v]
    BY DEF RewardStep
  <1>4. \A v \in Owners \ {u} :
           OwedScaled(config', position'[v])
              = OwedScaled(config, position[v]) + position'[v].eligible_amount * k
    BY <1>1, <1>2, <1>3, OwedGrows
  <1>5. OwedScaled(config', position'[u])
           = OwedScaled(config, position'[u]) + position'[u].eligible_amount * k
    BY <1>1, <1>2, OwedGrows
  <1>6. OwedScaled(config, position'[u]) = Booked(position'[u])
    BY <1>1, OwedAtMark DEF RewardStep
  <1> QED
    BY <1>4, <1>5, <1>6

\* What is booked and what is paid come out of what was owed.
LEMMA PaidFromOwed ==
    ASSUME IInv, RewardInv, NEW u \in Owners, NEW paid, NEW batch, RewardStep(u, paid, batch)
    PROVE  Booked(position'[u]) + paid * REWARD_INDEX_SCALE <= OwedScaled(config, position[u])
  <1> DEFINE owed == OwedScaled(config, position[u])
             unit == REWARD_INDEX_SCALE
             booked == Booked(position'[u])
  <1>1. owed \in Nat /\ unit \in Nat /\ unit > 0
    BY OwedType, Widths
  <1>2. \/ paid = 0 /\ booked = owed
        \/ paid = owed \div unit /\ booked = owed % unit
        \/ paid = owed \div unit /\ booked = 0
    BY DEF RewardStep
  <1> HIDE DEF owed, unit, booked
  <1>3. (owed \div unit) * unit <= owed /\ (owed \div unit) * unit + (owed % unit) = owed
    BY <1>1, DivisionFloor, DivisionByUnit
  <1>4. owed % unit \in Nat /\ owed \div unit \in Nat
    BY <1>1, RemainderBound
  <1>5. (owed \div unit) * unit \in Nat /\ 0 * unit = 0
    BY <1>1, <1>4, NatProduct, Distribute
  <1> DEFINE m == (owed \div unit) * unit
             r == owed % unit
  <1>6. CASE paid = 0 /\ booked = owed
    BY <1>1, <1>5, <1>6 DEF owed, unit, booked
  <1>7. CASE paid = owed \div unit /\ booked = r
    <2>1. m + r = owed /\ m \in Nat /\ r \in Nat /\ paid * unit = m
      BY <1>3, <1>4, <1>5, <1>7
    <2> HIDE DEF m, r
    <2>2. r + m <= owed
      BY <1>1, <2>1
    <2> QED
      BY <1>7, <2>1, <2>2 DEF owed, unit, booked
  <1>8. CASE paid = owed \div unit /\ booked = 0
    <2>1. m <= owed /\ m \in Nat /\ paid * unit = m
      BY <1>3, <1>5, <1>8
    <2> HIDE DEF m
    <2>2. 0 + m <= owed
      BY <1>1, <2>1
    <2> QED
      BY <1>8, <2>1, <2>2 DEF owed, unit, booked
  <1> QED
    BY <1>2, <1>6, <1>7, <1>8

\* The pool pays for what leaves the debts and takes in what is pushed into them.
LEMMA PoolCovers ==
    ASSUME NEW a \in Nat, NEW b \in Nat, NEW c \in Nat, NEW s \in Nat,
           NEW owed \in Nat, NEW booked \in Nat,
           NEW paid \in Nat, NEW batch \in Nat, NEW n \in Nat,
           b + owed = a + booked,
           c <= b + s,
           booked + paid * REWARD_INDEX_SCALE <= owed,
           s <= batch * REWARD_INDEX_SCALE,
           a <= n * REWARD_INDEX_SCALE
    PROVE  c <= ((n - paid) + batch) * REWARD_INDEX_SCALE
  <1> DEFINE unit == REWARD_INDEX_SCALE
             x == paid * unit
             y == batch * unit
             z == n * unit
  <1>1. x \in Nat /\ y \in Nat /\ z \in Nat
    BY Widths, NatProduct
  <1>2. ((n - paid) + batch) * unit = (z - x) + y
    <2>1. unit \in Int /\ n \in Int /\ paid \in Int /\ batch \in Int
      BY Widths
    <2> HIDE DEF unit
    <2> QED
      BY <2>1, Distribute
  <1>3. booked + x <= owed /\ s <= y /\ a <= z
    OBVIOUS
  <1> HIDE DEF x, y, z
  <1>4. c <= (z - x) + y
    BY <1>1, <1>3
  <1> QED
    BY <1>2, <1>4 DEF unit

\* The total that shares a batch is not shared more than the batch.
LEMMA SharedBound ==
    ASSUME IInv, RewardInv, NEW batch \in U64, NEW k \in Nat,
           k = Share(batch, config.eligible_locked)
    PROVE  SumOver(Owners, Stake) * k <= batch * REWARD_INDEX_SCALE
  <1>1. config.eligible_locked \in Nat /\ batch \in Nat
    BY StateTypes, ConfigNats, Widths
  <1>2. SumOver(Owners, Stake) = config.eligible_locked
    BY DEF RewardInv, TotalsAreSums, Stake, SumOverOwners
  <1> QED
    BY <1>1, <1>2, ShareBound

\* A staker step keeps the invariant of the rewards.
LEMMA StakerKeeps ==
    ASSUME IInv, RewardInv, IInv', NEW u \in Owners, NEW paid, NEW batch,
           RewardStep(u, paid, batch)
    PROVE  RewardInv'
  <1> DEFINE k == Share(batch, config'.eligible_locked)
             old == Owed
             mid == [v \in Owners |-> IF v = u THEN Booked(position'[u]) ELSE old[v]]
             new == [v \in Owners |-> OwedScaled(config', position'[v])]
             stake == [v \in Owners |-> position'[v].eligible_amount]
  <1>1. /\ config \in ConfigType /\ config' \in ConfigType /\ pool \in Nat /\ pool' \in Nat
        /\ \A v \in Owners : position[v] \in PositionType /\ position'[v] \in PositionType
    BY DEF IInv, TypeOK
  <1>2. /\ \A v \in Owners \ {u} : position'[v] = position[v]
        /\ Moved(config, position[u], config', position'[u])
        /\ paid \in U64 /\ batch \in U64
        /\ pool' = pool - paid + batch
        /\ Index(config') = Index(config) + k
        /\ Mark(position'[u]) = Index(config)
        /\ position'[u].locked_amount = 0 => Booked(position'[u]) = 0
    BY DEF RewardStep
  <1>3. paid \in Nat /\ batch \in Nat
    BY <1>2, Widths
  <1>4. k \in Nat
    BY <1>1, <1>3, ConfigNats, ShareType
  <1>5. TotalsAreSums'
    BY <1>2, TotalsMove
  <1>6. \A v \in Owners : Mark(position'[v]) <= Index(config')
    <2>1. Index(config) \in Nat /\ \A v \in Owners : Mark(position[v]) \in Nat
      BY <1>1, IndexType, MarkType
    <2>2. \A v \in Owners : Mark(position[v]) <= Index(config)
      BY DEF RewardInv
    <2> HIDE DEF k
    <2> QED
      BY <1>2, <1>4, <2>1, <2>2
  <1>7. \A v \in Owners : position'[v].locked_amount = 0 => Booked(position'[v]) = 0
    BY <1>2 DEF RewardInv
  <1>8. /\ \A v \in Owners \ {u} :
              new[v] = old[v] + stake[v] * k
        /\ new[u] = Booked(position'[u]) + stake[u] * k
    BY <1>4, StakerOwed DEF Owed
  <1>9. old \in [Owners -> Nat]
    BY OwedType
  <1>10. mid \in [Owners -> Nat] /\ stake \in [Owners -> Nat]
    BY <1>1, <1>9, BookedType, PositionNats
  <1>11. /\ \A v \in Owners : new[v] = mid[v] + stake[v] * k
         /\ \A v \in Owners \ {u} : mid[v] = old[v]
         /\ mid[u] = Booked(position'[u])
         /\ old[u] = OwedScaled(config, position[u])
    BY <1>8 DEF Owed
  <1>12. new \in [Owners -> Nat]
    <2> SUFFICES ASSUME NEW v \in Owners PROVE new[v] \in Nat
      OBVIOUS
    <2>1. mid[v] \in Nat /\ stake[v] \in Nat
      BY <1>10
    <2>2. new[v] = mid[v] + stake[v] * k
      BY <1>11
    <2> HIDE DEF new, mid, stake, k
    <2>3. stake[v] * k \in Nat
      BY <1>4, <2>1, NatProduct
    <2> QED
      BY <2>1, <2>2, <2>3
  <1>13. mid[u] + paid * REWARD_INDEX_SCALE <= old[u]
    BY <1>11, PaidFromOwed
  <1>14. SumOver(Owners, stake) * k <= batch * REWARD_INDEX_SCALE
    <2>1. config'.eligible_locked \in Nat
      BY <1>1, ConfigNats
    <2>2. SumOver(Owners, stake) = config'.eligible_locked
      BY <1>5 DEF TotalsAreSums, SumOverOwners
    <2> QED
      BY <1>3, <2>1, <2>2, ShareBound
  <1>15. SumOver(Owners, old) <= pool * REWARD_INDEX_SCALE
    BY DEF RewardInv, Solvent, Owed, SumOverOwners
  <1> DEFINE sumOld == SumOver(Owners, old)
             sumMid == SumOver(Owners, mid)
             sumNew == SumOver(Owners, new)
             shared == SumOver(Owners, stake) * k
  <1>16. Solvent'
    <2> HIDE DEF new, mid, old, stake, k
    <2>1. sumMid + old[u] = sumOld + mid[u]
      <3>1. \A v \in Owners \ {u} : mid[v] = old[v]
        BY <1>11
      <3>2. old \in [Owners -> Nat] /\ mid \in [Owners -> Nat]
        BY <1>9, <1>10
      <3> QED
        BY <3>1, <3>2, OwnersAssumption, SumUpdate
    <2>2. sumNew <= sumMid + shared
      <3>1. \A v \in Owners : new[v] = mid[v] + stake[v] * k
        BY <1>11
      <3> QED
        BY <1>4, <1>10, <1>12, <3>1, OwnersAssumption, SumPushed
    <2>3. sumOld \in Nat /\ sumMid \in Nat /\ sumNew \in Nat
      BY <1>9, <1>10, <1>12, OwnersAssumption, SumType
    <2>4. shared \in Nat
      BY <1>4, <1>10, OwnersAssumption, SumType, NatProduct
    <2>5. old[u] \in Nat /\ mid[u] \in Nat
      BY <1>9, <1>10
    <2>6. pool \in Nat
      BY <1>1
    <2>7. shared <= batch * REWARD_INDEX_SCALE /\ sumOld <= pool * REWARD_INDEX_SCALE
      BY <1>14, <1>15
    <2> HIDE DEF sumOld, sumMid, sumNew, shared
    <2>8. sumNew <= ((pool - paid) + batch) * REWARD_INDEX_SCALE
      BY <1>3, <1>13, <2>1, <2>2, <2>3, <2>4, <2>5, <2>6, <2>7, PoolCovers
    <2>9. sumNew <= pool' * REWARD_INDEX_SCALE
      BY <1>2, <2>8
    <2> QED
      BY <2>9 DEF Solvent, SumOverOwners, sumNew, new
  <1> QED
    BY <1>5, <1>6, <1>7, <1>16 DEF RewardInv

-----------------------------------------------------------------------------
(* A staker step is a step of the immediate accounting. *)

LEMMA SharesTotal == \A s : Shares!Total(s) = SumOver(Owners, s)
  BY DEF Shares!Total, Shares!SumOver, SumOver, Shares!Units, Units,
         Shares!Cardinality, Cardinality

LEMMA StakerShares ==
    ASSUME IInv, RewardInv, IInv', NEW u \in Owners, NEW paid, NEW batch,
           RewardStep(u, paid, batch)
    PROVE  Shares!Next
  <1> DEFINE q == position'[u]
             k == Share(batch, config'.eligible_locked)
             StakeNow == [v \in Owners |-> position'[v].eligible_amount]
             OwedNow == [v \in Owners |-> OwedScaled(config', position'[v])]
             n == q.eligible_amount
  <1>1. /\ config' \in ConfigType /\ pool \in Nat
        /\ \A v \in Owners : position'[v] \in PositionType
    BY DEF IInv, TypeOK
  <1>2. /\ \A v \in Owners \ {u} : position'[v] = position[v]
        /\ Moved(config, position[u], config', position'[u])
        /\ paid \in U64 /\ batch \in U64
        /\ pool' = pool - paid + batch
        /\ batch > 0 => config'.eligible_locked > 0
    BY DEF RewardStep
  <1>3. paid \in Nat /\ batch \in Nat
    BY <1>2, Widths
  <1>4. k \in Nat /\ n \in U64
    BY <1>1, <1>3, ConfigNats, ShareType, PositionFields
  <1>5. TotalsAreSums'
    BY <1>2, TotalsMove
  <1>6. Shares!Total(StakeNow) = config'.eligible_locked
    BY <1>5, SharesTotal DEF TotalsAreSums, SumOverOwners
  <1>7. Shares!PerStake(StakeNow, batch) = k
    BY <1>6 DEF Shares!PerStake, Share
  <1>8. StakeNow = [Stake EXCEPT ![u] = n]
    BY <1>2 DEF Stake
  <1>9. /\ \A v \in Owners \ {u} : OwedNow[v] = Owed[v] + StakeNow[v] * k
        /\ OwedNow[u] = Booked(q) + StakeNow[u] * k
    BY <1>4, StakerOwed DEF Owed
  <1>10. Stake' = StakeNow /\ Owed' = OwedNow
    BY DEF Stake, Owed
  <1>11. Owed[u] \in Nat /\ Owed[u] = OwedScaled(config, position[u])
    BY OwedType DEF Owed
  <1>12. CASE paid = 0 /\ Booked(q) = OwedScaled(config, position[u])
    <2>1. OwedNow = Shares!Pushed(StakeNow, Owed, batch)
      <3> HIDE DEF k
      <3> QED
        BY <1>7, <1>9, <1>11, <1>12 DEF Shares!Pushed
    <2>2. pool' = pool + batch
      BY <1>1, <1>2, <1>3, <1>12
    <2>3. Shares!Restake(u)
      BY <1>2, <1>4, <1>6, <1>8, <1>10, <2>1, <2>2 DEF Shares!Restake, Stake, Owed
    <2> QED
      BY <2>3 DEF Shares!Next
  <1>13. StakeNow \in [Owners -> Nat] /\ Owed \in [Owners -> Nat]
    BY <1>1, OwedType, PositionNats
  <1>14. CASE /\ batch = 0
              /\ paid = OwedScaled(config, position[u]) \div REWARD_INDEX_SCALE
              /\ OwedScaled(config, position[u]) >= REWARD_INDEX_SCALE
              /\ Booked(q) = OwedScaled(config, position[u]) % REWARD_INDEX_SCALE
              /\ n >= position[u].eligible_amount
    <2>1. k = 0
      <3>1. 0 * REWARD_INDEX_SCALE = 0
        BY Widths, Distribute
      <3>2. \A e \in Nat : e # 0 => 0 \div e = 0
        OBVIOUS
      <3>3. config'.eligible_locked \in Nat
        BY <1>1, ConfigNats
      <3> QED
        BY <1>14, <3>1, <3>2, <3>3 DEF Share
    <2> HIDE DEF k, OwedNow, StakeNow
    <2>2. \A v \in Owners : StakeNow[v] * k = 0 /\ Owed[v] \in Nat
      BY <1>13, <2>1, Distribute
    <2>3. Booked(q) \in Nat
      BY <1>1, BookedType
    <2>4. \A v \in Owners : OwedNow[v] = IF v = u THEN Owed[u] % REWARD_INDEX_SCALE ELSE Owed[v]
      BY <1>9, <1>11, <1>14, <2>2, <2>3
    <2>5. OwedNow = [Owed EXCEPT ![u] = Owed[u] % REWARD_INDEX_SCALE]
      BY <1>13, <2>4 DEF OwedNow
    <2>6. pool' = pool - Owed[u] \div REWARD_INDEX_SCALE
      BY <1>1, <1>2, <1>3, <1>11, <1>14
    <2>7. Owed[u] >= REWARD_INDEX_SCALE /\ n >= Stake[u]
      BY <1>11, <1>14 DEF Stake
    <2>8. Shares!Claim(u)
      BY <1>4, <1>8, <1>10, <2>5, <2>6, <2>7 DEF Shares!Claim, Stake, Owed
    <2> QED
      BY <2>8 DEF Shares!Next
  <1>15. CASE /\ n = 0
              /\ Booked(q) = 0
              /\ paid = OwedScaled(config, position[u]) \div REWARD_INDEX_SCALE
    <2> HIDE DEF k, OwedNow, StakeNow
    <2>1. StakeNow = [Stake EXCEPT ![u] = 0]
      BY <1>8, <1>15
    <2>2. OwedNow[u] = 0 + StakeNow[u] * k
      BY <1>9, <1>15
    <2>3. OwedNow = Shares!Pushed(StakeNow, [Owed EXCEPT ![u] = 0], batch)
      BY <1>7, <1>9, <1>13, <2>2 DEF Shares!Pushed, OwedNow
    <2>4. pool' = pool - Owed[u] \div REWARD_INDEX_SCALE + batch
      BY <1>2, <1>11, <1>15
    <2>5. Shares!Quit(u)
      BY <1>2, <1>6, <1>10, <2>1, <2>3, <2>4 DEF Shares!Quit, Stake, Owed
    <2> QED
      BY <2>5 DEF Shares!Next
  <1> QED
    BY <1>12, <1>14, <1>15 DEF RewardStep

-----------------------------------------------------------------------------
(* Committing a batch moves the index by the share of each unit of stake.   *)

LEMMA CommitMoves ==
    ASSUME NEW c \in ConfigType, NEW amount \in U64, NEW eligible \in U64,
           commit_rewards_to_index_ok(c, amount, eligible)
    PROVE  /\ Index(commit_rewards_to_index(c, amount, eligible))
                 = Index(c) + Share(amount, eligible)
           /\ Share(amount, eligible) > 0
  <1> DEFINE delta == reward_index_delta(amount, eligible)
             top == U128_MAX + 1
             i == c.reward_index
             g == c.reward_index_generation
             d == commit_rewards_to_index(c, amount, eligible)
             wrapped == i + delta > U128_MAX
  <1>1. eligible > 0 /\ delta > 0
    BY DEF commit_rewards_to_index_ok, reward_index_delta_ok
  <1>2. Share(amount, eligible) = delta
    BY <1>1, Widths DEF Share, reward_index_delta, U64
  <1>3. delta \in Nat
    BY <1>1, DeltaType, Widths
  <1>4. /\ d.reward_index = IF wrapped THEN i + delta - top ELSE i + delta
        /\ d.reward_index_generation = IF wrapped THEN g + 1 ELSE g
    BY DEF commit_rewards_to_index, add_reward_index, ConfigType
  <1>5. i \in Nat /\ g \in Nat /\ top \in Nat
    BY ConfigNats, Widths
  <1>6. g * top \in Nat /\ (g + 1) * top = g * top + top
    BY <1>5, NatProduct, Scaling
  <1> DEFINE base == g * top
  <1>7. Index(c) = base + i
    BY DEF Index, Unwrapped
  <1>8. Index(d) = base + i + delta
    <2>1. CASE wrapped
      <3>1. Index(d) = (g + 1) * top + (i + delta - top)
        BY <1>4, <2>1 DEF Index, Unwrapped
      <3>2. Index(d) = (base + top) + (i + delta - top)
        BY <1>6, <3>1
      <3> HIDE DEF base, top, delta, i, d
      <3> QED
        BY <1>3, <1>5, <1>6, <3>2 DEF base
    <2>2. CASE ~wrapped
      <3>1. Index(d) = base + (i + delta)
        BY <1>4, <2>2 DEF Index, Unwrapped
      <3>2. base \in Nat
        BY <1>6
      <3> HIDE DEF base, delta, i, d
      <3> QED
        BY <1>3, <1>5, <3>1, <3>2
    <2> QED
      BY <2>1, <2>2
  <1> QED
    BY <1>1, <1>2, <1>7, <1>8

\* The withdraw path: a batch that shares out to nothing moves nothing.
LEMMA TryCommitMoves ==
    ASSUME NEW c \in ConfigType, NEW amount \in U64, NEW eligible \in U64,
           try_commit_rewards_to_index_ok(c, amount, eligible)
    PROVE  Index(try_commit_rewards_to_index(c, amount, eligible))
              = Index(c) + Share(amount, eligible)
  <1>1. CASE reward_index_delta_ok(amount, eligible)
    <2>1. commit_rewards_to_index_ok(c, amount, eligible)
      BY <1>1 DEF try_commit_rewards_to_index_ok, commit_rewards_to_index_ok
    <2>2. try_commit_rewards_to_index(c, amount, eligible)
             = commit_rewards_to_index(c, amount, eligible)
      BY <1>1 DEF try_commit_rewards_to_index
    <2> QED
      BY <2>1, <2>2, CommitMoves
  <1>2. CASE ~reward_index_delta_ok(amount, eligible)
    <2>1. try_commit_rewards_to_index(c, amount, eligible) = c
      BY <1>2 DEF try_commit_rewards_to_index
    <2>2. amount \in Nat /\ eligible \in Nat
      BY Widths
    <2>3. Share(amount, eligible) \in Nat
      BY <2>2, ShareType
    <2>4. Share(amount, eligible) = 0
      <3>1. CASE eligible = 0
        BY <3>1 DEF Share
      <3>2. CASE eligible # 0 /\ amount = 0
        <4>1. 0 * REWARD_INDEX_SCALE = 0 /\ 0 \div eligible = 0
          BY <2>2, <3>2, Widths, Distribute
        <4> QED
          BY <3>2, <4>1 DEF Share
      <3>3. CASE eligible # 0 /\ amount # 0
        <4>1. ~(reward_index_delta(amount, eligible) > 0)
          BY <1>2, <2>2, <3>3 DEF reward_index_delta_ok
        <4>2. Share(amount, eligible) = reward_index_delta(amount, eligible)
          BY <3>3 DEF Share, reward_index_delta
        <4> QED
          BY <2>3, <4>1, <4>2
      <3> QED
        BY <3>1, <3>2, <3>3
    <2> QED
      BY <2>1, <2>4, IndexType
  <1> QED
    BY <1>1, <1>2

-----------------------------------------------------------------------------
(* Each staker instruction settles the position, then is a step of it.      *)

LEMMA ShareOfNothing == \A e \in Nat : Share(0, e) = 0
  <1> TAKE e \in Nat
  <1>1. 0 * REWARD_INDEX_SCALE = 0
    BY Widths, Distribute
  <1>2. e # 0 => 0 \div e = 0
    OBVIOUS
  <1> QED
    BY <1>1, <1>2 DEF Share

LEMMA MovedOn ==
    ASSUME NEW c \in ConfigType, NEW d \in ConfigType, NEW e \in ConfigType,
           NEW p \in PositionType, NEW q \in PositionType, NEW r \in PositionType,
           Moved(c, p, d, q), Moved(d, q, e, r)
    PROVE  Moved(c, p, e, r)
  BY PositionNats, ConfigNats DEF Moved

\* A position without stake is owed nothing.
LEMMA EmptyOwed ==
    ASSUME IInv, RewardInv, NEW u \in Owners, position[u].locked_amount = 0
    PROVE  /\ OwedScaled(config, position[u]) = 0
           /\ position[u].pending_activation_amount = 0
           /\ position[u].warming_amount = 0
           /\ position[u].eligible_amount = 0
  <1> DEFINE p == position[u]
             i == Index(config)
             m == Mark(p)
  <1>1. config \in ConfigType /\ p \in PositionType /\ PositionBuckets(p)
    BY StateTypes DEF PositionInv
  <1>2. /\ p.pending_activation_amount = 0
        /\ p.warming_amount = 0
        /\ p.eligible_amount = 0
    BY <1>1, PositionNats DEF PositionBuckets
  <1>3. Booked(p) = 0
    BY DEF RewardInv
  <1>4. OwedScaled(config, p) = 0 + 0 * (i - m)
    BY <1>2, <1>3, OwedParts
  <1>5. i \in Nat /\ m \in Nat
    BY <1>1, IndexType, MarkType
  <1> HIDE DEF i, m
  <1>6. i - m \in Int /\ 0 * (i - m) = 0
    BY <1>5, Distribute
  <1> QED
    BY <1>2, <1>4, <1>6

\* The first deposit opens a position at the current index.
LEMMA NewSynced ==
    ASSUME IInv, RewardInv, NEW u \in Owners, ~position[u].is_initialized, config.is_initialized
    PROVE  Synced(config, position[u], config, NewPosition)
  <1> DEFINE p == position[u]
             q == NewPosition
  <1>1. config \in ConfigType /\ p \in PositionType /\ p.locked_amount = 0
    BY StateTypes DEF PositionInv
  <1>2. /\ OwedScaled(config, p) = 0
        /\ p.pending_activation_amount = 0
        /\ p.warming_amount = 0
        /\ p.eligible_amount = 0
    BY <1>1, EmptyOwed
  <1>3. q \in PositionType
    BY NewSettles DEF Settled
  <1>4. /\ q.locked_amount = 0
        /\ q.pending_activation_amount = 0
        /\ q.warming_amount = 0
        /\ q.eligible_amount = 0
        /\ q.pending_rewards = 0
        /\ q.reward_accrual_remainder = 0
        /\ Marked(config, q)
    BY DEF NewPosition, EmptyPosition, Marked
  <1> HIDE DEF q
  <1>5. Booked(q) = 0
    BY <1>4, Widths, Distribute DEF Booked
  <1>6. Moved(config, p, config, q)
    BY <1>1, <1>2, <1>4, ConfigNats DEF Moved
  <1> QED
    BY <1>1, <1>2, <1>3, <1>4, <1>5, <1>6 DEF Synced, SameIndex, q

\* An instruction that leaves the index and what is booked alone.
LEMMA RestStep ==
    ASSUME IInv, RewardInv, IInv', NEW u \in Owners, NEW c, NEW p,
           Synced(config, position[u], c, p),
           \A v \in Owners \ {u} : position'[v] = position[v],
           Moved(c, p, config', position'[u]),
           SameIndex(c, config'),
           Booked(position'[u]) = Booked(p),
           Mark(position'[u]) = Mark(p),
           position'[u].locked_amount = 0 => p.locked_amount = 0,
           pool' = pool
    PROVE  RewardStep(u, 0, 0)
  <1> DEFINE old == position[u]
             q == position'[u]
  <1>1. /\ config \in ConfigType /\ config' \in ConfigType
        /\ old \in PositionType /\ q \in PositionType
        /\ pool \in Nat
    BY DEF IInv, TypeOK
  <1>2. /\ c \in ConfigType /\ p \in PositionType
        /\ Moved(config, old, c, p)
        /\ SameIndex(config, c)
        /\ Marked(config, p)
        /\ p.locked_amount = old.locked_amount
        /\ Booked(p) = OwedScaled(config, old)
    BY DEF Synced
  <1>3. Moved(config, old, config', q)
    BY <1>1, <1>2, MovedOn
  <1>4. Index(config') = Index(config) + Share(0, config'.eligible_locked)
    BY <1>1, <1>2, ShareOfNothing, ConfigNats, IndexType DEF SameIndex, Index
  <1>5. Mark(q) = Index(config)
    BY <1>2, MarkedAtIndex
  <1>6. q.locked_amount = 0 => Booked(q) = 0
    BY <1>2, EmptyOwed
  <1>7. pool' = pool - 0 + 0 /\ 0 \in U64 /\ ~(0 > 0)
    BY <1>1, Widths
  <1> QED
    BY <1>2, <1>3, <1>4, <1>5, <1>6, <1>7 DEF RewardStep

\* process_deposit: stake enters the pending bucket.
LEMMA DepositStep ==
    ASSUME IInv, RewardInv, NEW u \in Owners, NEW amount \in Deposits, Deposit(u, amount)
    PROVE  IInv' /\ RewardStep(u, 0, 0)
  <1> DEFINE old == position[u]
             c == IF old.is_initialized THEN SyncedConfig(config, old) ELSE config
             p == IF old.is_initialized THEN SyncedPosition(config, old) ELSE NewPosition
             q == DepositedPosition(p, amount)
             d == [c EXCEPT !.total_locked = @ + amount, !.pending_activation_locked = @ + amount]
  <1>1. IInv'
    BY DepositSafe DEF SafeStep
  <1>2. config \in ConfigType /\ old \in PositionType /\ position \in [Owners -> PositionType]
    BY DEF IInv, TypeOK
  <1>3. Synced(config, old, c, p)
    BY <1>2, SyncSynced, NewSynced DEF Deposit
  <1>4. config' = d /\ position' = [position EXCEPT ![u] = q] /\ pool' = pool
    BY DEF Deposit
  <1>5. position'[u] = q /\ \A v \in Owners \ {u} : position'[v] = position[v]
    BY <1>2, <1>4
  <1>6. amount \in Nat
    BY ArenaAssumption, Widths
  <1> HIDE DEF c, p
  <1>7. c \in ConfigType /\ p \in PositionType
    BY <1>3 DEF Synced
  <1>8. /\ q.pending_activation_amount = p.pending_activation_amount + amount
        /\ q.warming_amount = p.warming_amount
        /\ q.eligible_amount = p.eligible_amount
        /\ q.locked_amount = p.locked_amount + amount
        /\ q.pending_rewards = p.pending_rewards
        /\ q.reward_accrual_remainder = p.reward_accrual_remainder
        /\ q.reward_index_checkpoint = p.reward_index_checkpoint
        /\ q.reward_index_generation_checkpoint = p.reward_index_generation_checkpoint
    BY <1>7 DEF DepositedPosition, PositionType
  <1>9. /\ d.pending_activation_locked = c.pending_activation_locked + amount
        /\ d.warming_locked = c.warming_locked
        /\ d.eligible_locked = c.eligible_locked
        /\ SameIndex(c, d)
    BY <1>7 DEF ConfigType, SameIndex
  <1> HIDE DEF q, d
  <1>10. Moved(c, p, d, q)
    BY <1>6, <1>7, <1>8, <1>9, PositionNats, ConfigNats DEF Moved
  <1>11. q.locked_amount = 0 => p.locked_amount = 0
    BY <1>6, <1>7, <1>8, PositionNats
  <1>12. Booked(q) = Booked(p) /\ Mark(q) = Mark(p)
    BY <1>8 DEF Booked, Mark
  <1>13. RewardStep(u, 0, 0)
    BY <1>1, <1>3, <1>4, <1>5, <1>9, <1>10, <1>11, <1>12, RestStep
  <1> QED
    BY <1>1, <1>13

\* process_activate_position, the maturity touch.
LEMMA ActivateSyncOnlyStep ==
    ASSUME IInv, RewardInv, NEW u \in Owners, ActivateSyncOnly(u)
    PROVE  IInv' /\ RewardStep(u, 0, 0)
  <1> DEFINE old == position[u]
             c == SyncedConfig(config, old)
             p == SyncedPosition(config, old)
  <1>1. IInv'
    BY ActivateSyncOnlySafe DEF SafeStep
  <1>2. config \in ConfigType /\ old \in PositionType /\ position \in [Owners -> PositionType]
    BY DEF IInv, TypeOK
  <1>3. Synced(config, old, c, p)
    BY <1>2, SyncSynced DEF ActivateSyncOnly
  <1>4. config' = c /\ position' = [position EXCEPT ![u] = p] /\ pool' = pool
    BY DEF ActivateSyncOnly
  <1>5. position'[u] = p /\ \A v \in Owners \ {u} : position'[v] = position[v]
    BY <1>2, <1>4
  <1> HIDE DEF c, p
  <1>6. c \in ConfigType /\ p \in PositionType
    BY <1>3 DEF Synced
  <1>7. Moved(c, p, c, p) /\ SameIndex(c, c)
    BY <1>6, PositionNats, ConfigNats DEF Moved, SameIndex
  <1>8. RewardStep(u, 0, 0)
    BY <1>1, <1>3, <1>4, <1>5, <1>7, RestStep
  <1> QED
    BY <1>1, <1>8

\* process_activate_position, from pending to warming.
LEMMA ActivatePendingStep ==
    ASSUME IInv, RewardInv, NEW u \in Owners, ActivatePending(u)
    PROVE  IInv' /\ RewardStep(u, 0, 0)
  <1> DEFINE old == position[u]
             c == SyncedConfig(config, old)
             p == SyncedPosition(config, old)
             amount == p.pending_activation_amount
             q == WarmedPosition(c, p)
             d == [c EXCEPT !.pending_activation_locked = @ - amount,
                            !.warming_locked = @ + amount]
  <1>1. IInv'
    BY ActivatePendingSafe DEF SafeStep
  <1>2. config \in ConfigType /\ old \in PositionType /\ position \in [Owners -> PositionType]
    BY DEF IInv, TypeOK
  <1>3. Synced(config, old, c, p)
    BY <1>2, SyncSynced DEF ActivatePending
  <1>4. config' = d /\ position' = [position EXCEPT ![u] = q] /\ pool' = pool
    BY DEF ActivatePending
  <1>5. position'[u] = q /\ \A v \in Owners \ {u} : position'[v] = position[v]
    BY <1>2, <1>4
  <1> HIDE DEF c, p
  <1>6. c \in ConfigType /\ p \in PositionType
    BY <1>3 DEF Synced
  <1>7. /\ q.pending_activation_amount = 0
        /\ q.warming_amount = p.warming_amount + amount
        /\ q.eligible_amount = p.eligible_amount
        /\ q.locked_amount = p.locked_amount
        /\ q.pending_rewards = p.pending_rewards
        /\ q.reward_accrual_remainder = p.reward_accrual_remainder
        /\ q.reward_index_checkpoint = p.reward_index_checkpoint
        /\ q.reward_index_generation_checkpoint = p.reward_index_generation_checkpoint
    BY <1>6 DEF WarmedPosition, PositionType
  <1>8. /\ d.pending_activation_locked = c.pending_activation_locked - amount
        /\ d.warming_locked = c.warming_locked + amount
        /\ d.eligible_locked = c.eligible_locked
        /\ SameIndex(c, d)
    BY <1>6 DEF ConfigType, SameIndex
  <1> HIDE DEF q, d
  <1>9. Moved(c, p, d, q)
    BY <1>6, <1>7, <1>8, PositionNats, ConfigNats DEF Moved
  <1>10. Booked(q) = Booked(p) /\ Mark(q) = Mark(p)
    BY <1>7 DEF Booked, Mark
  <1>11. RewardStep(u, 0, 0)
    BY <1>1, <1>3, <1>4, <1>5, <1>7, <1>8, <1>9, <1>10, RestStep
  <1> QED
    BY <1>1, <1>11

\* The whole tokens of what is booked are the pending rewards.
LEMMA BookedParts ==
    ASSUME NEW p \in PositionType
    PROVE  /\ Booked(p) \div REWARD_INDEX_SCALE = p.pending_rewards
           /\ Booked(p) % REWARD_INDEX_SCALE = p.reward_accrual_remainder
           /\ p.pending_rewards > 0 => Booked(p) >= REWARD_INDEX_SCALE
  <1> DEFINE m == p.pending_rewards
             r == p.reward_accrual_remainder
             unit == REWARD_INDEX_SCALE
  <1>1. m \in Nat /\ r \in Nat /\ unit \in Nat /\ unit > 0 /\ r < unit
    BY PositionNats, PositionFields, Widths
  <1>2. Booked(p) = m * unit + r /\ Booked(p) \in Nat
    BY BookedType DEF Booked
  <1> DEFINE b == Booked(p)
  <1> HIDE DEF m, r, unit, b
  <1>3. b \div unit = m /\ b % unit = r
    BY <1>1, <1>2, DivisionUnique DEF b
  <1>4. m > 0 => b >= unit
    <2> SUFFICES ASSUME m > 0 PROVE b >= unit
      OBVIOUS
    <2>1. 1 * unit <= m * unit
      BY <1>1, ProductMonotone
    <2>2. 1 * unit = unit /\ m * unit \in Nat
      BY <1>1, NatProduct, Distribute
    <2> DEFINE n == m * unit
    <2>3. unit <= n /\ n \in Nat /\ b = n + r
      BY <1>2, <2>1, <2>2 DEF b
    <2> HIDE DEF n
    <2> QED
      BY <1>1, <2>3
  <1> QED
    BY <1>3, <1>4 DEF m, r, unit, b

\* process_claim_rewards: all whole tokens are paid, the fraction stays.
LEMMA ClaimStep ==
    ASSUME IInv, RewardInv, NEW u \in Owners, ClaimRewards(u)
    PROVE  IInv' /\ \E paid \in U64 : RewardStep(u, paid, 0)
  <1> DEFINE old == position[u]
             c == SyncedConfig(config, old)
             p == SyncedPosition(config, old)
             amount == p.pending_rewards
             d == PaidConfig(c, amount)
             q == PaidPosition(p)
  <1>1. IInv'
    BY ClaimSafe DEF SafeStep
  <1>2. /\ config \in ConfigType /\ old \in PositionType
        /\ position \in [Owners -> PositionType]
        /\ pool \in Nat
    BY DEF IInv, TypeOK
  <1>3. Synced(config, old, c, p)
    BY <1>2, SyncSynced DEF ClaimRewards
  <1>4. /\ config' = d /\ position' = [position EXCEPT ![u] = q]
        /\ pool' = pool - amount
        /\ old.locked_amount > 0
    BY DEF ClaimRewards
  <1>5. position'[u] = q /\ \A v \in Owners \ {u} : position'[v] = position[v]
    BY <1>2, <1>4
  <1> HIDE DEF c, p
  <1>6. /\ c \in ConfigType /\ p \in PositionType
        /\ SameIndex(config, c) /\ Marked(config, p)
        /\ Moved(config, old, c, p)
        /\ p.locked_amount = old.locked_amount
        /\ p.eligible_amount >= old.eligible_amount
        /\ Booked(p) = OwedScaled(config, old)
    BY <1>3 DEF Synced
  <1>7. /\ q.pending_activation_amount = p.pending_activation_amount
        /\ q.warming_amount = p.warming_amount
        /\ q.eligible_amount = p.eligible_amount
        /\ q.locked_amount = p.locked_amount
        /\ q.pending_rewards = 0
        /\ q.reward_accrual_remainder = p.reward_accrual_remainder
        /\ q.reward_index_checkpoint = p.reward_index_checkpoint
        /\ q.reward_index_generation_checkpoint = p.reward_index_generation_checkpoint
    BY <1>6 DEF PaidPosition, PositionType
  <1>8. /\ d.pending_activation_locked = c.pending_activation_locked
        /\ d.warming_locked = c.warming_locked
        /\ d.eligible_locked = c.eligible_locked
        /\ SameIndex(c, d)
    BY <1>6 DEF PaidConfig, ConfigType, SameIndex
  <1>9. amount \in U64 /\ amount \in Nat
    BY <1>6, PositionFields, Widths
  <1> HIDE DEF q, d
  <1>10. Moved(c, p, d, q)
    BY <1>6, <1>7, <1>8, PositionNats, ConfigNats DEF Moved
  <1>11. CASE amount = 0
    <2>1. Booked(q) = Booked(p) /\ Mark(q) = Mark(p)
      BY <1>7, <1>11 DEF Booked, Mark
    <2>2. pool' = pool
      BY <1>2, <1>4, <1>11
    <2>3. RewardStep(u, 0, 0)
      BY <1>1, <1>3, <1>4, <1>5, <1>7, <1>8, <1>10, <2>1, <2>2, RestStep
    <2> QED
      BY <1>1, <2>3, Widths
  <1>12. CASE amount > 0
    <2> DEFINE owed == OwedScaled(config, old)
    <2>1. /\ amount = owed \div REWARD_INDEX_SCALE
          /\ owed >= REWARD_INDEX_SCALE
          /\ p.reward_accrual_remainder = owed % REWARD_INDEX_SCALE
      BY <1>6, <1>12, BookedParts
    <2>2. Booked(q) = p.reward_accrual_remainder
      <3>1. p.reward_accrual_remainder \in Nat /\ 0 * REWARD_INDEX_SCALE = 0
        BY <1>6, PositionNats, Widths, Distribute
      <3> QED
        BY <1>7, <3>1 DEF Booked
    <2> HIDE DEF owed
    <2>3. Moved(config, old, d, q)
      BY <1>6, <1>7, <1>8 DEF Moved
    <2>4. Index(d) = Index(config) + Share(0, d.eligible_locked)
      <3>1. d \in ConfigType
        BY <1>1, <1>4 DEF IInv, TypeOK
      <3> QED
        BY <1>2, <1>6, <1>8, <3>1, ShareOfNothing, ConfigNats, IndexType DEF SameIndex, Index
    <2>5. Mark(q) = Index(config)
      BY <1>6, <1>7, MarkedAtIndex DEF Marked
    <2>6. ~(q.locked_amount = 0)
      BY <1>2, <1>4, <1>6, <1>7, PositionNats
    <2>7. pool' = pool - amount + 0 /\ 0 \in U64 /\ ~(0 > 0)
      BY <1>2, <1>4, <1>9, Widths
    <2>8. RewardStep(u, amount, 0)
      BY <1>4, <1>5, <1>6, <1>7, <1>9, <2>1, <2>2, <2>3, <2>4, <2>5, <2>6, <2>7
      DEF RewardStep, owed
    <2> QED
      BY <1>1, <1>9, <2>8
  <1> QED
    BY <1>9, <1>11, <1>12

\* What a withdrawal leaves of the fields that count here, in the position ...
LEMMA WithdrawnFields ==
    ASSUME NEW p \in PositionType, NEW amount, NEW split
    PROVE  LET q == WithdrawnPosition(ReducedPosition(p, amount), amount, split)
           IN  /\ q.pending_activation_amount
                     = p.pending_activation_amount - PendingReduction(p, amount)
               /\ q.warming_amount = p.warming_amount - WarmingReduction(p, amount)
               /\ q.eligible_amount = p.eligible_amount - EligibleReduction(p, amount)
               /\ q.locked_amount = p.locked_amount - amount
               /\ q.pending_rewards = p.pending_rewards
               /\ q.reward_accrual_remainder
                     = IF p.locked_amount = amount THEN 0 ELSE p.reward_accrual_remainder
               /\ q.reward_index_checkpoint = p.reward_index_checkpoint
               /\ q.reward_index_generation_checkpoint = p.reward_index_generation_checkpoint
  BY DEF WithdrawnPosition, ReducedPosition, PositionType

\* ... and in the config, whose stake the penalty has not touched.
LEMMA WithdrawnConfigFields ==
    ASSUME NEW c \in ConfigType, NEW p, NEW amount, NEW split
    PROVE  LET d == WithdrawnConfig(ReducedConfig(c, p, amount), split)
           IN  /\ d.pending_activation_locked
                     = c.pending_activation_locked - PendingReduction(p, amount)
               /\ d.warming_locked = c.warming_locked - WarmingReduction(p, amount)
               /\ d.eligible_locked = c.eligible_locked - EligibleReduction(p, amount)
               /\ SameIndex(c, d)
  BY DEF WithdrawnConfig, ReducedConfig, ConfigType, SameIndex

\* process_withdraw: part of the stake leaves, or all of it with the rewards.
LEMMA WithdrawStep ==
    ASSUME IInv, RewardInv, NEW u \in Owners, NEW amount \in Exits, Withdraw(u, amount)
    PROVE  IInv' /\ \E paid \in U64 : \E batch \in U64 : RewardStep(u, paid, batch)
  <1> DEFINE old == position[u]
             c == SyncedConfig(config, old)
             p == SyncedPosition(config, old)
             after == c.eligible_locked - EligibleReduction(p, amount)
             split == ExitSplit(p, amount, after)
             payout == Payout(p, amount)
             paid == IF amount = p.locked_amount THEN PaidPosition(p) ELSE p
             counted == PaidConfig(c, payout)
             committed == try_commit_rewards_to_index(counted, split.reward, after)
             d == WithdrawnConfig(ReducedConfig(committed, p, amount), split)
             q == WithdrawnPosition(ReducedPosition(paid, amount), amount, split)
             batch == split.reward
             owed == OwedScaled(config, old)
  <1>1. IInv'
    BY WithdrawSafe DEF SafeStep
  <1>2. /\ config \in ConfigType /\ old \in PositionType
        /\ position \in [Owners -> PositionType]
        /\ pool \in Nat
    BY DEF IInv, TypeOK
  <1>3. Synced(config, old, c, p)
    BY <1>2, SyncSynced DEF Withdraw, WithdrawOk
  <1>4. /\ reduce_position_stake_ok(c, p, amount)
        /\ split.reward + split.burn <= amount
        /\ try_commit_rewards_to_index_ok(c, split.reward, after)
        /\ amount > 0
    BY DEF Withdraw, WithdrawOk
  <1>5. /\ config' = d
        /\ position' = [position EXCEPT ![u] = q]
        /\ pool' = pool - payout + batch
    BY DEF Withdraw
  <1>6. position'[u] = q /\ \A v \in Owners \ {u} : position'[v] = position[v]
    BY <1>2, <1>5
  <1>7. after = 0 => batch = 0
    BY DEF ExitSplit
  <1> HIDE DEF c, p
  <1>8. /\ c \in ConfigType /\ p \in PositionType
        /\ SameIndex(config, c) /\ Marked(config, p)
        /\ Moved(config, old, c, p)
        /\ Booked(p) = owed
    BY <1>3 DEF Synced
  <1>9. amount \in U64 /\ amount \in Nat
    BY ArenaAssumption, Widths
  <1>10. /\ amount <= p.locked_amount
         /\ EligibleReduction(p, amount) <= c.eligible_locked
    BY <1>4 DEF reduce_position_stake_ok
  <1>11. split \in SplitType
    BY <1>8, <1>9, ExitSplitType, Policy
  <1>12. batch \in U64 /\ batch \in Nat
    BY <1>4, <1>9, <1>11, Widths DEF SplitType, U64
  <1>13. after \in U64 /\ after \in Nat
    <2>1. EligibleReduction(p, amount) \in Nat
      BY <1>8, <1>9, ReductionParts
    <2>2. c.eligible_locked \in U64 /\ c.eligible_locked \in Nat
      BY <1>8, ConfigFields, ConfigNats
    <2> QED
      BY <1>10, <2>1, <2>2, Widths DEF U64
  <1>14. payout \in U64
    BY <1>8, PositionFields, Widths DEF Payout
  <1> HIDE DEF split, after, payout
  <1>15. counted \in ConfigType /\ SameStake(c, counted)
    BY <1>8, <1>14, PaidConfigType
  <1>16. SameIndex(c, counted)
    BY <1>8 DEF PaidConfig, ConfigType, SameIndex
  <1> HIDE DEF counted
  <1>17. try_commit_rewards_to_index_ok(counted, batch, after)
    BY <1>4, <1>16 DEF try_commit_rewards_to_index_ok, add_reward_index_ok, SameIndex
  <1>18. /\ committed \in ConfigType
         /\ SameStake(counted, committed)
         /\ Index(committed) = Index(counted) + Share(batch, after)
    BY <1>12, <1>13, <1>15, <1>17, TryCommitType, TryCommitMoves
  <1> HIDE DEF committed
  <1>19. /\ d.pending_activation_locked
               = committed.pending_activation_locked - PendingReduction(p, amount)
         /\ d.warming_locked = committed.warming_locked - WarmingReduction(p, amount)
         /\ d.eligible_locked = committed.eligible_locked - EligibleReduction(p, amount)
         /\ SameIndex(committed, d)
    BY <1>18, WithdrawnConfigFields
  <1> HIDE DEF d
  <1>20. /\ d.pending_activation_locked
               = c.pending_activation_locked - PendingReduction(p, amount)
         /\ d.warming_locked = c.warming_locked - WarmingReduction(p, amount)
         /\ d.eligible_locked = after
    BY <1>15, <1>18, <1>19 DEF SameStake, after
  <1>21. Index(d) = Index(config) + Share(batch, d.eligible_locked)
    BY <1>8, <1>16, <1>18, <1>19, <1>20 DEF SameIndex, Index
  <1>22. paid \in PositionType /\ SameLock(p, paid) /\ SameBuckets(p, paid)
    BY <1>8, PaidType DEF SameLock, SameBuckets
  <1>23. Marked(config, paid)
    BY <1>8 DEF PaidPosition, PositionType, Marked
  <1>24. /\ paid.pending_rewards = IF amount = p.locked_amount THEN 0 ELSE p.pending_rewards
         /\ paid.reward_accrual_remainder = p.reward_accrual_remainder
    BY <1>8 DEF PaidPosition, PositionType
  <1> HIDE DEF paid
  <1>25. /\ PendingReduction(paid, amount) = PendingReduction(p, amount)
         /\ WarmingReduction(paid, amount) = WarmingReduction(p, amount)
         /\ EligibleReduction(paid, amount) = EligibleReduction(p, amount)
    BY <1>22 DEF SameLock, SameBuckets, EligibleReduction, WarmingReduction, PendingReduction
  <1>26. /\ q.pending_activation_amount
               = p.pending_activation_amount - PendingReduction(p, amount)
         /\ q.warming_amount = p.warming_amount - WarmingReduction(p, amount)
         /\ q.eligible_amount = p.eligible_amount - EligibleReduction(p, amount)
         /\ q.locked_amount = p.locked_amount - amount
         /\ q.pending_rewards = IF amount = p.locked_amount THEN 0 ELSE p.pending_rewards
         /\ q.reward_accrual_remainder
               = IF amount = p.locked_amount THEN 0 ELSE p.reward_accrual_remainder
         /\ Marked(config, q)
    BY <1>22, <1>23, <1>24, <1>25, WithdrawnFields DEF SameLock, SameBuckets, Marked
  <1>27. q \in PositionType /\ PositionBuckets(q)
    BY <1>1, <1>6, StateTypes DEF IInv, TypeOK, PositionInv
  <1> HIDE DEF q
  <1>28. Moved(c, p, d, q)
    <2>1. /\ PendingReduction(p, amount) \in Nat
          /\ WarmingReduction(p, amount) \in Nat
          /\ EligibleReduction(p, amount) \in Nat
      BY <1>8, <1>9, ReductionParts
    <2> QED
      BY <1>8, <1>20, <1>26, <2>1, PositionNats, ConfigNats DEF Moved, after
  <1>29. Moved(config, old, d, q)
    <2>1. d \in ConfigType
      BY <1>1, <1>5 DEF IInv, TypeOK
    <2> QED
      BY <1>2, <1>8, <1>27, <1>28, <2>1, MovedOn
  <1>30. Mark(q) = Index(config)
    BY <1>26, MarkedAtIndex
  <1>31. batch > 0 => d.eligible_locked > 0
    BY <1>7, <1>13, <1>20
  <1>32. CASE amount = p.locked_amount
    <2>1. q.locked_amount = 0
      BY <1>9, <1>26, <1>32
    <2>2. q.eligible_amount = 0
      BY <1>27, <2>1, PositionNats DEF PositionBuckets
    <2>3. Booked(q) = 0
      BY <1>26, <1>32, Widths, Distribute DEF Booked
    <2>4. payout = owed \div REWARD_INDEX_SCALE
      BY <1>8, <1>32, BookedParts DEF Payout, payout
    <2> HIDE DEF owed
    <2>5. RewardStep(u, payout, batch)
      BY <1>5, <1>6, <1>12, <1>14, <1>21, <1>29, <1>30, <1>31, <2>2, <2>3, <2>4
      DEF RewardStep, owed
    <2> QED
      BY <1>1, <1>12, <1>14, <2>5
  <1>33. CASE amount # p.locked_amount
    <2>1. q.locked_amount # 0
      BY <1>8, <1>9, <1>10, <1>26, <1>33, PositionNats
    <2>2. Booked(q) = owed
      BY <1>8, <1>26, <1>33 DEF Booked
    <2>3. payout = 0
      BY <1>33 DEF Payout, payout
    <2> HIDE DEF owed
    <2>4. RewardStep(u, payout, batch)
      BY <1>5, <1>6, <1>12, <1>14, <1>21, <1>29, <1>30, <1>31, <2>1, <2>2, <2>3
      DEF RewardStep, owed
    <2> QED
      BY <1>1, <1>12, <1>14, <2>4
  <1> QED
    BY <1>32, <1>33

-----------------------------------------------------------------------------
(* The other instructions leave the positions alone. *)

\* Without a move of the index, what is owed stays as it is.
LEMMA Idle ==
    ASSUME RewardInv, position' = position, SameStake(config, config'),
           SameIndex(config, config')
    PROVE  /\ TotalsAreSums'
           /\ \A u \in Owners : Mark(position'[u]) <= Index(config')
           /\ \A u \in Owners : position'[u].locked_amount = 0 => Booked(position'[u]) = 0
           /\ Stake' = Stake
           /\ Owed' = Owed
  <1>1. Index(config') = Index(config)
    BY DEF SameIndex, Index
  <1>2. \A u \in Owners : OwedScaled(config', position[u]) = OwedScaled(config, position[u])
    BY <1>1, OwedParts
  <1>3. TotalsAreSums'
    BY DEF RewardInv, TotalsAreSums, SameStake, SumOverOwners
  <1>4. Stake' = Stake
    BY DEF Stake
  <1>5. Owed' = Owed
    BY <1>2 DEF Owed
  <1> QED
    BY <1>1, <1>3, <1>4, <1>5 DEF RewardInv

\* The pool may grow.
LEMMA IdleKeeps ==
    ASSUME IInv, RewardInv, IInv', position' = position, SameStake(config, config'),
           SameIndex(config, config'), pool' >= pool
    PROVE  RewardInv' /\ Stake' = Stake /\ Owed' = Owed
  <1>1. pool \in Nat /\ pool' \in Nat /\ SumOver(Owners, Owed) \in Nat
    BY OwedType, OwnersAssumption, SumType DEF IInv, TypeOK
  <1>2. pool * REWARD_INDEX_SCALE <= pool' * REWARD_INDEX_SCALE
    BY <1>1, ProductMonotone, Widths
  <1>3. SumOver(Owners, Owed) <= pool * REWARD_INDEX_SCALE
    BY DEF RewardInv, Solvent, SumOverOwners, Owed
  <1>4. pool * REWARD_INDEX_SCALE \in Nat /\ pool' * REWARD_INDEX_SCALE \in Nat
    BY <1>1, Widths, NatProduct
  <1> DEFINE a == pool * REWARD_INDEX_SCALE
             b == pool' * REWARD_INDEX_SCALE
             s == SumOver(Owners, Owed)
  <1>5. s <= b
    <2>1. s \in Nat /\ a \in Nat /\ b \in Nat /\ s <= a /\ a <= b
      BY <1>1, <1>2, <1>3, <1>4
    <2> HIDE DEF s, a, b
    <2> QED
      BY <2>1
  <1>6. Owed' = Owed
    BY Idle
  <1>7. Solvent'
    BY <1>5, <1>6 DEF Solvent, SumOverOwners, Owed
  <1> QED
    BY <1>6, <1>7, Idle DEF RewardInv

\* process_fund_rewards: the batch is shared out at once.
LEMMA FundStep ==
    ASSUME IInv, RewardInv, NEW u \in Users, NEW amount \in Fundings, FundRewards(u, amount)
    PROVE  IInv' /\ RewardInv' /\ Shares!Fund
  <1> DEFINE k == Share(amount, config.eligible_locked)
             c == commit_rewards_to_index(config, amount, config.eligible_locked)
             d == [c EXCEPT !.total_rewards_funded = sat_add_u64(@, amount)]
             OwedNow == [v \in Owners |-> OwedScaled(config', position[v])]
  <1>1. IInv'
    BY FundSafe DEF SafeStep
  <1>2. /\ config \in ConfigType /\ config' \in ConfigType /\ pool \in Nat
        /\ \A v \in Owners : position[v] \in PositionType
    BY <1>1 DEF IInv, TypeOK
  <1>3. /\ commit_rewards_to_index_ok(config, amount, config.eligible_locked)
        /\ config' = d
        /\ pool' = pool + amount
        /\ position' = position
    BY DEF FundRewards
  <1>4. amount \in U64 /\ amount \in Nat /\ config.eligible_locked \in U64
        /\ config.eligible_locked \in Nat
    BY <1>2, ArenaAssumption, Widths, ConfigFields
  <1>5. /\ c \in ConfigType /\ SameStake(config, c)
        /\ Index(c) = Index(config) + k /\ k > 0
    BY <1>2, <1>3, <1>4, CommitType, CommitMoves
  <1> HIDE DEF c
  <1>6. SameStake(c, d) /\ Index(d) = Index(c)
    BY <1>5 DEF ConfigType, SameStake, Index
  <1> HIDE DEF d
  <1>7. k \in Nat
    BY <1>4, ShareType
  <1> HIDE DEF k
  <1>8. SameStake(config, config') /\ Index(config') = Index(config) + k
    BY <1>3, <1>5, <1>6 DEF SameStake
  <1>9. TotalsAreSums'
    BY <1>3, <1>8 DEF RewardInv, TotalsAreSums, SameStake, SumOverOwners
  <1>10. \A v \in Owners : Mark(position'[v]) <= Index(config')
    <2>1. Index(config) \in Nat /\ \A v \in Owners : Mark(position[v]) \in Nat
      BY <1>2, IndexType, MarkType
    <2> QED
      BY <1>3, <1>7, <1>8, <2>1 DEF RewardInv
  <1>11. \A v \in Owners : position'[v].locked_amount = 0 => Booked(position'[v]) = 0
    BY <1>3 DEF RewardInv
  <1>12. Stake' = Stake /\ Owed' = OwedNow
    BY <1>3 DEF Stake, Owed
  <1>13. \A v \in Owners : OwedNow[v] = Owed[v] + Stake[v] * k
    BY <1>2, <1>7, <1>8, OwedGrows DEF Stake, Owed
  <1>14. Stake \in [Owners -> Nat] /\ Owed \in [Owners -> Nat]
    BY OwedType
  <1>15. OwedNow \in [Owners -> Nat]
    <2> SUFFICES ASSUME NEW v \in Owners PROVE OwedNow[v] \in Nat
      OBVIOUS
    <2>1. Owed[v] \in Nat /\ Stake[v] \in Nat /\ OwedNow[v] = Owed[v] + Stake[v] * k
      BY <1>13, <1>14
    <2> HIDE DEF OwedNow
    <2>2. Stake[v] * k \in Nat
      BY <1>7, <2>1, NatProduct
    <2> QED
      BY <2>1, <2>2
  <1> DEFINE unit == REWARD_INDEX_SCALE
             a == SumOver(Owners, Owed)
             b == SumOver(Owners, OwedNow)
             s == SumOver(Owners, Stake) * k
             x == pool * unit
             y == amount * unit
  <1>16. b <= a + s
    <2> HIDE DEF OwedNow
    <2> QED
      BY <1>7, <1>13, <1>14, <1>15, OwnersAssumption, SumPushed
  <1>17. s <= y /\ a <= x
    <2>1. s <= y
      BY <1>4, <1>7, SharedBound DEF k
    <2>2. a <= x
      BY DEF RewardInv, Solvent, SumOverOwners, Owed
    <2> QED
      BY <2>1, <2>2
  <1>18. a \in Nat /\ b \in Nat /\ s \in Nat /\ x \in Nat /\ y \in Nat
    BY <1>2, <1>4, <1>7, <1>14, <1>15, OwnersAssumption, SumType, NatProduct, Widths
  <1>19. pool' * unit = x + y
    BY <1>2, <1>3, <1>4, Widths, Scaling
  <1>20. Solvent'
    <2> HIDE DEF a, s, x, y, b
    <2>1. b <= x + y
      BY <1>16, <1>17, <1>18
    <2> QED
      BY <1>3, <1>19, <2>1 DEF Solvent, SumOverOwners, b
  <1>21. Shares!Fund
    <2>1. Shares!Total(Stake) = config.eligible_locked
      BY SharesTotal DEF RewardInv, TotalsAreSums, SumOverOwners, Stake
    <2>2. Shares!PerStake(Stake, amount) = k
      BY <2>1 DEF Shares!PerStake, Share, k
    <2>3. OwedNow = Shares!Pushed(Stake, Owed, amount)
      BY <1>13, <2>2 DEF Shares!Pushed
    <2> QED
      BY <1>3, <1>4, <1>5, <1>12, <2>2, <2>3 DEF Shares!Fund, Stake, Owed
  <1> QED
    BY <1>1, <1>9, <1>10, <1>11, <1>20, <1>21 DEF RewardInv

\* process_finalize_rewards: without stake nobody is owed anything.
LEMMA FinalizeStep ==
    ASSUME IInv, RewardInv, FinalizeRewards
    PROVE  IInv' /\ RewardInv' /\ Shares!Burn
  <1>1. IInv'
    BY FinalizeSafe DEF SafeStep
  <1>2. config \in ConfigType /\ \A v \in Owners : position[v] \in PositionType
    BY DEF IInv, TypeOK
  <1>3. /\ config.total_locked = 0
        /\ position' = position
        /\ pool' = 0
        /\ config' = IF pool = 0 THEN config ELSE PoolBurnedConfig(config, pool)
    BY DEF FinalizeRewards, NoStakeOrDebt
  <1>4. SameStake(config, config') /\ SameIndex(config, config')
    BY <1>2, <1>3 DEF PoolBurnedConfig, ConfigType, SameStake, SameIndex
  <1>5. /\ config.pending_activation_locked = 0
        /\ config.warming_locked = 0
        /\ config.eligible_locked = 0
    BY <1>2, <1>3, ConfigNats DEF IInv, ConfigBuckets
  <1>6. \A u \in Owners : position[u].locked_amount = 0
    <2> SUFFICES ASSUME NEW u \in Owners PROVE position[u].locked_amount = 0
      OBVIOUS
    <2> DEFINE pending == [v \in Owners |-> position[v].pending_activation_amount]
               warming == [v \in Owners |-> position[v].warming_amount]
               eligible == [v \in Owners |-> position[v].eligible_amount]
    <2>1. /\ SumOver(Owners, pending) = 0
          /\ SumOver(Owners, warming) = 0
          /\ SumOver(Owners, eligible) = 0
      BY <1>5 DEF RewardInv, TotalsAreSums, SumOverOwners
    <2>2. /\ pending \in [Owners -> Nat]
          /\ warming \in [Owners -> Nat]
          /\ eligible \in [Owners -> Nat]
      BY <1>2, PositionNats
    <2>3. pending[u] <= 0 /\ warming[u] <= 0 /\ eligible[u] <= 0
      <3> HIDE DEF pending, warming, eligible
      <3>1. pending[u] <= 0
        BY <2>1, <2>2, OwnersAssumption, SumBoundsTerm
      <3>2. warming[u] <= 0
        BY <2>1, <2>2, OwnersAssumption, SumBoundsTerm
      <3>3. eligible[u] <= 0
        BY <2>1, <2>2, OwnersAssumption, SumBoundsTerm
      <3> QED
        BY <3>1, <3>2, <3>3
    <2>4. PositionBuckets(position[u])
      BY DEF IInv, PositionInv
    <2> QED
      BY <1>2, <2>3, <2>4, PositionNats DEF PositionBuckets
  <1>7. \A u \in Owners : Stake[u] = 0 /\ Owed[u] = 0
    BY <1>6, EmptyOwed DEF Stake, Owed
  <1>8. SumOver(Owners, Owed) = 0
    BY <1>7, SumZero
  <1>9. Stake' = Stake /\ Owed' = Owed
    BY <1>3, <1>4, Idle
  <1>10. Solvent'
    <2>1. 0 * REWARD_INDEX_SCALE = 0
      BY Widths, Distribute
    <2>2. SumOver(Owners, Owed') <= pool' * REWARD_INDEX_SCALE
      BY <1>3, <1>8, <1>9, <2>1
    <2> QED
      BY <2>2 DEF Solvent, SumOverOwners, Owed
  <1>11. RewardInv'
    BY <1>3, <1>4, <1>10, Idle DEF RewardInv
  <1>12. Shares!Burn
    BY <1>3, <1>7, <1>9 DEF Shares!Burn, Stake, Owed
  <1> QED
    BY <1>1, <1>11, <1>12

\* Everything starts at zero.
LEMMA InitRewards ==
    ASSUME Init
    PROVE  RewardInv /\ Shares!Init
  <1>1. /\ config = EmptyConfig
        /\ \A u \in Owners : position[u] = EmptyPosition
        /\ pool = 0
    BY DEF Init
  <1>2. \A u \in Owners : position[u].locked_amount = 0 /\ Booked(position[u]) = 0
    BY <1>1, Widths, Distribute DEF EmptyPosition, Booked
  <1>3. \A u \in Owners : Mark(position[u]) = Index(config)
    BY <1>1 DEF Mark, Index, EmptyPosition, EmptyConfig
  <1>4. \A u \in Owners : /\ position[u].pending_activation_amount = 0
                          /\ position[u].warming_amount = 0
                          /\ position[u].eligible_amount = 0
    BY <1>1 DEF EmptyPosition
  <1>5. \A u \in Owners : OwedScaled(config, position[u]) = 0
    <2>1. config \in ConfigType /\ \A u \in Owners : position[u] \in PositionType
      BY <1>1, EmptyTypes
    <2> QED
      BY <1>2, <1>3, <2>1, OwedAtMark
  <1>6. TotalsAreSums
    <2>1. /\ config.pending_activation_locked = 0
          /\ config.warming_locked = 0
          /\ config.eligible_locked = 0
      BY <1>1 DEF EmptyConfig
    <2>2. /\ SumOver(Owners, [u \in Owners |-> position[u].pending_activation_amount]) = 0
          /\ SumOver(Owners, [u \in Owners |-> position[u].warming_amount]) = 0
          /\ SumOver(Owners, [u \in Owners |-> position[u].eligible_amount]) = 0
      BY <1>4, SumZero
    <2> QED
      BY <2>1, <2>2 DEF TotalsAreSums, SumOverOwners
  <1>7. Solvent
    <2>1. SumOver(Owners, [u \in Owners |-> OwedScaled(config, position[u])]) = 0
      BY <1>5, SumZero
    <2>2. 0 * REWARD_INDEX_SCALE = 0
      BY Widths, Distribute
    <2> QED
      BY <1>1, <2>1, <2>2 DEF Solvent, SumOverOwners
  <1>8. \A u \in Owners : Mark(position[u]) <= Index(config)
    <2>1. config \in ConfigType
      BY <1>1, EmptyTypes
    <2> QED
      BY <1>3, <2>1, IndexType
  <1>9. Shares!Init
    BY <1>1, <1>4, <1>5 DEF Shares!Init
  <1> QED
    BY <1>2, <1>6, <1>7, <1>8, <1>9 DEF RewardInv

\* Steps that neither settle, pay nor share anything.
LEMMA OtherStep ==
    ASSUME IInv, RewardInv,
           \/ \E pol \in Policies : InitializeConfig(pol)
           \/ RollEpoch
           \/ \E u \in Users, amount \in Donations : DonateToVault(u, amount)
           \/ Tick
           \/ UNCHANGED vars
    PROVE  IInv' /\ RewardInv' /\ UNCHANGED Shares!vars
  <1>1. IInv'
    BY InitializeConfigSafe, RollEpochSafe, EnvironmentSafe DEF SafeStep
  <1>2. position' = position /\ pool' = pool
    BY DEF InitializeConfig, RollEpoch, DonateToVault, Tick, vars
  <1>3. config \in ConfigType /\ pool \in Nat
    BY DEF IInv, TypeOK
  <1>4. SameStake(config, config') /\ SameIndex(config, config')
    <2>1. CASE \E pol \in Policies : InitializeConfig(pol)
      <3>1. /\ config = EmptyConfig
            /\ config' = [EmptyConfig EXCEPT !.is_initialized = TRUE,
                                             !.created_ts = now,
                                             !.last_epoch_ts = now]
        BY <2>1 DEF InitializeConfig, IInv, Untouched
      <3> QED
        BY <3>1 DEF EmptyConfig, SameStake, SameIndex
    <2>2. CASE RollEpoch
      BY <1>3, <2>2 DEF RollEpoch, ConfigType, SameStake, SameIndex
    <2>3. CASE config' = config
      BY <2>3 DEF SameStake, SameIndex
    <2> QED
      BY <2>1, <2>2, <2>3 DEF DonateToVault, Tick, vars
  <1>5. RewardInv' /\ Stake' = Stake /\ Owed' = Owed
    BY <1>1, <1>2, <1>3, <1>4, IdleKeeps
  <1> QED
    BY <1>1, <1>2, <1>5 DEF Shares!vars, Stake, Owed

\* Tokens sent to the pool from outside are owed to nobody.
LEMMA DonateStep ==
    ASSUME IInv, RewardInv, NEW u \in Users, NEW amount \in Donations, DonateToPool(u, amount)
    PROVE  IInv' /\ RewardInv' /\ Shares!Donate
  <1>1. IInv'
    BY EnvironmentSafe DEF SafeStep
  <1>2. position' = position /\ config' = config /\ pool' = pool + amount
    BY DEF DonateToPool
  <1>3. pool \in Nat /\ amount \in Nat /\ amount \in U64
    BY ArenaAssumption, Widths DEF IInv, TypeOK
  <1>4. RewardInv' /\ Stake' = Stake /\ Owed' = Owed
    BY <1>1, <1>2, <1>3, IdleKeeps DEF SameStake, SameIndex
  <1>5. Shares!Donate
    BY <1>2, <1>3, <1>4 DEF Shares!Donate, Stake, Owed
  <1> QED
    BY <1>1, <1>4, <1>5

-----------------------------------------------------------------------------
(* The theorems. *)

\* Every instruction keeps the invariant and is a step of the immediate accounting.
LEMMA NextRewards ==
    ASSUME IInv, RewardInv, [Next]_vars
    PROVE  IInv' /\ RewardInv' /\ [Shares!Next]_Shares!vars
  <1> DEFINE Kept == IInv' /\ RewardInv' /\ [Shares!Next]_Shares!vars
  <1>1. ASSUME NEW u \in Owners, NEW paid, NEW batch, IInv', RewardStep(u, paid, batch)
        PROVE  Kept
    BY <1>1, StakerKeeps, StakerShares
  <1>2. ASSUME NEW u \in Owners, OwnerStep(u) PROVE Kept
    <2>1. CASE ActivatePosition(u)
      BY <1>1, <2>1, ActivateSyncOnlyStep, ActivatePendingStep DEF ActivatePosition
    <2>2. CASE ClaimRewards(u)
      BY <1>1, <2>2, ClaimStep
    <2>3. CASE \E amount \in Deposits : Deposit(u, amount)
      BY <1>1, <2>3, DepositStep
    <2>4. CASE \E amount \in Exits : Withdraw(u, amount)
      BY <1>1, <2>4, WithdrawStep
    <2> QED
      BY <1>2, <2>1, <2>2, <2>3, <2>4 DEF OwnerStep
  <1>3. ASSUME NEW u \in Funders, FunderStep(u) PROVE Kept
    <2>1. PICK amount \in Fundings :
             \/ FundRewards(u, amount)
             \/ \E s \in Snapshots : FundRewardsChecked(u, amount, s[1], s[2])
      BY <1>3 DEF FunderStep
    <2>2. FundRewards(u, amount)
      BY <2>1 DEF FundRewardsChecked
    <2> QED
      BY <2>2, FundStep DEF Users, Shares!Next
  <1>4. ASSUME NEW u \in Funders, DonorStep(u) PROVE Kept
    <2>1. PICK amount \in Donations : DonateToVault(u, amount) \/ DonateToPool(u, amount)
      BY <1>4 DEF DonorStep
    <2>2. u \in Users
      BY DEF Users
    <2>3. CASE DonateToVault(u, amount)
      BY <2>2, <2>3, OtherStep
    <2>4. CASE DonateToPool(u, amount)
      BY <2>2, <2>4, DonateStep DEF Shares!Next
    <2> QED
      BY <2>1, <2>3, <2>4
  <1>5. CASE FinalizeRewards
    BY <1>5, FinalizeStep DEF Shares!Next
  <1>6. CASE \/ \E pol \in Policies : InitializeConfig(pol)
             \/ RollEpoch
             \/ Tick
             \/ UNCHANGED vars
    BY <1>6, OtherStep
  <1> QED
    BY <1>2, <1>3, <1>4, <1>5, <1>6 DEF Next

\* The invariant of the rewards holds in every reachable state.
THEOREM RewardInvHolds == Spec => [](IInv /\ RewardInv)
  <1>1. Init => IInv /\ RewardInv
    BY InitInv, InitRewards
  <1>2. (IInv /\ RewardInv) /\ [Next]_vars => (IInv /\ RewardInv)'
    BY NextRewards
  <1> QED
    BY <1>1, <1>2, PTL DEF Spec

\* The totals the code adjusts one position at a time are the sums over all
\* positions: the denominator of every reward and the guard of finalization.
THEOREM TotalsKept == Spec => []TotalsAreSums
  <1>1. IInv /\ RewardInv => TotalsAreSums
    BY DEF RewardInv
  <1> QED
    BY <1>1, RewardInvHolds, PTL

\* The pool always covers everything owed to all owners together, roundings
\* included, in whatever order they fund, touch, claim and leave.
THEOREM PoolCoversDebts == Spec => []Solvent
  <1>1. IInv /\ RewardInv => Solvent
    BY DEF RewardInv
  <1> QED
    BY <1>1, RewardInvHolds, PTL

\* Nobody who left is owed anything, not even a fraction: what finalization
\* burns belonged to nobody.
THEOREM LeaversAreOwedNothing == Spec => []FullExitLeavesNoDebt
  <1>1. IInv /\ RewardInv => FullExitLeavesNoDebt
    BY EmptyOwed DEF FullExitLeavesNoDebt
  <1> QED
    BY <1>1, RewardInvHolds, PTL

\* Lazy settlement through an index implements the immediate split of each
\* batch, for every number of owners and every account width.
THEOREM LazyAccountingExact == Spec => LazyAccountingIsExact
  <1>1. Init => Shares!Init
    BY InitRewards
  <1>2. (IInv /\ RewardInv) /\ [Next]_vars => [Shares!Next]_Shares!vars
    BY NextRewards
  <1> QED
    BY <1>1, <1>2, RewardInvHolds, PTL DEF Spec, LazyAccountingIsExact, Shares!Spec
=============================================================================
