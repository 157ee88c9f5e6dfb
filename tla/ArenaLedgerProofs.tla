-------------------------- MODULE ArenaLedgerProofs --------------------------
(***************************************************************************)
(* Theorems about what the counters of one arena record, for every finite  *)
(* set of owners and every width: LedgersAgree, RewardsConserved and       *)
(* TokensConserved.                                                        *)
(*                                                                         *)
(* The argument: a staker instruction records the same amounts in the      *)
(* position and in the config, and moves as many tokens (LedgerStep); two  *)
(* counters that saturate at the same limit still agree on the sum below   *)
(* it (SaturatedSum).  What is burned was in somebody's hands before, so   *)
(* that no more is burned than the supply (TokensKept).                    *)
(***************************************************************************)
EXTENDS ArenaLockProofs, TotalsProofs

\* What one owner's counters say of that owner's stake.
OwnLedger(p) ==
    p.total_deposited < U64_MAX =>
        p.total_deposited = p.locked_amount + p.total_withdrawn + p.total_penalty_paid

\* A position nobody has opened has recorded nothing: opening it forgets nothing.
Unopened == \A u \in Owners : position[u].is_initialized \/ position[u] = EmptyPosition

LedgerInv == LedgersAgree /\ RewardsConserved /\ Unopened

\* u adds `added` to the stake or takes out `taken`, of which `reward` and
\* `burn` are forfeited, and is paid `paid`: position and config record it.
LedgerStep(u, added, paid, taken, reward, burn) ==
    LET p == position[u]
        q == position'[u]
        penalty == reward + burn
    IN  /\ \A v \in Owners \ {u} : position'[v] = position[v]
        /\ added \in Nat /\ paid \in Nat /\ taken \in Nat /\ reward \in Nat /\ burn \in Nat
        /\ penalty <= taken
        /\ taken <= p.locked_amount
        /\ q.is_initialized
        /\ q.locked_amount = p.locked_amount + added - taken
        /\ q.total_deposited = sat_add_u64(p.total_deposited, added)
        /\ q.total_withdrawn = sat_add_u64(p.total_withdrawn, taken - penalty)
        /\ q.total_penalty_paid = sat_add_u64(p.total_penalty_paid, penalty)
        /\ q.total_burned = sat_add_u64(p.total_burned, burn)
        /\ q.total_rewards_claimed = sat_add_u64(p.total_rewards_claimed, paid)
        /\ config'.total_penalties_collected
              = sat_add_u64(config.total_penalties_collected, penalty)
        /\ config'.total_burned = sat_add_u64(config.total_burned, burn)
        /\ config'.total_rewards_claimed = sat_add_u64(config.total_rewards_claimed, paid)
        /\ config'.total_rewards_funded = config.total_rewards_funded
        /\ config'.total_rewards_expired = config.total_rewards_expired
        /\ pool' = pool - paid + reward
        /\ vault' = vault + added - taken
        /\ wallet'[u] = wallet[u] + paid + (taken - penalty) - added
        /\ \A v \in Users \ {u} : wallet'[v] = wallet[v]
        /\ stray' = stray

-----------------------------------------------------------------------------
(* Counters that saturate. *)

LEMMA AddNothing == \A a \in U64 : sat_add_u64(a, 0) = a
  BY Widths DEF sat_add_u64, U64

\* A counter below its limit has counted everything.
LEMMA Unsaturated ==
    ASSUME NEW a \in U64, NEW x \in Nat, sat_add_u64(a, x) < U64_MAX
    PROVE  sat_add_u64(a, x) = a + x /\ a < U64_MAX
  BY Widths DEF sat_add_u64, U64

\* The counter of the config and the counter of one position count the same
\* amount: the first stays the sum of the second ones, up to its limit.
LEMMA SaturatedSum ==
    ASSUME NEW f \in [Owners -> Nat], NEW g \in [Owners -> Nat], NEW u \in Owners,
           NEW k \in Nat, NEW x \in Nat, NEW c \in Nat,
           \A v \in Owners \ {u} : g[v] = f[v],
           f[u] <= U64_MAX,
           g[u] = sat_add_u64(f[u], x),
           c = AtMost(U64_MAX, SumOverOwners(f) + k)
    PROVE  sat_add_u64(c, x) = AtMost(U64_MAX, SumOverOwners(g) + k)
  <1> DEFINE a == SumOverOwners(f)
             b == SumOverOwners(g)
             m == f[u]
             n == g[u]
  <1>1. b + m = a + n
    BY OwnersAssumption, SumUpdate DEF SumOverOwners
  <1>2. a \in Nat /\ b \in Nat
    BY OwnersAssumption, SumType DEF SumOverOwners
  <1>3. m \in Nat /\ n \in Nat /\ m <= U64_MAX /\ n = sat_add_u64(m, x)
    OBVIOUS
  <1>4. m <= a
    BY OwnersAssumption, SumBoundsTerm DEF SumOverOwners
  <1>5. c = AtMost(U64_MAX, a + k)
    OBVIOUS
  <1> HIDE DEF a, b, m, n
  <1>6. sat_add_u64(c, x) = AtMost(U64_MAX, b + k)
    BY <1>1, <1>2, <1>3, <1>4, <1>5, Widths DEF sat_add_u64, AtMost
  <1> QED
    BY <1>6 DEF b

-----------------------------------------------------------------------------
(* What a staker instruction does to the invariant. *)

\* The owner's own ledger.
LEMMA OwnLedgerKept ==
    ASSUME NEW p \in PositionType, NEW q \in PositionType, OwnLedger(p),
           NEW added \in Nat, NEW taken \in Nat, NEW penalty \in Nat,
           penalty <= taken, taken <= p.locked_amount,
           q.locked_amount = p.locked_amount + added - taken,
           q.total_deposited = sat_add_u64(p.total_deposited, added),
           q.total_withdrawn = sat_add_u64(p.total_withdrawn, taken - penalty),
           q.total_penalty_paid = sat_add_u64(p.total_penalty_paid, penalty)
    PROVE  OwnLedger(q)
  <1> SUFFICES ASSUME q.total_deposited < U64_MAX
               PROVE  q.total_deposited
                         = q.locked_amount + q.total_withdrawn + q.total_penalty_paid
    BY DEF OwnLedger
  <1> DEFINE deposited == p.total_deposited
             locked == p.locked_amount
             withdrawn == p.total_withdrawn
             paid == p.total_penalty_paid
  <1>1. deposited \in Nat /\ locked \in Nat /\ withdrawn \in Nat /\ paid \in Nat
    BY PositionFields, Widths
  <1>2. deposited < U64_MAX /\ q.total_deposited = deposited + added
    BY PositionFields, Unsaturated
  <1>3. deposited = locked + withdrawn + paid
    BY <1>2 DEF OwnLedger
  <1> HIDE DEF deposited, locked, withdrawn, paid
  <1>4. withdrawn + (taken - penalty) <= U64_MAX /\ paid + penalty <= U64_MAX
    BY <1>1, <1>2, <1>3, Widths DEF locked
  <1>5. q.total_withdrawn = withdrawn + (taken - penalty) /\ q.total_penalty_paid = paid + penalty
    BY <1>1, <1>4, Widths DEF sat_add_u64, withdrawn, paid
  <1> QED
    BY <1>1, <1>2, <1>3, <1>5 DEF locked

\* The counters of the config.
LEMMA SumsKept ==
    ASSUME IInv, LedgersAgree, IInv', NEW u \in Owners,
           NEW added, NEW paid, NEW taken, NEW reward, NEW burn,
           LedgerStep(u, added, paid, taken, reward, burn)
    PROVE  /\ config'.total_penalties_collected
                 = AtMost(U64_MAX,
                          SumOverOwners([v \in Owners |-> position'[v].total_penalty_paid]))
           /\ config'.total_burned
                 = AtMost(U64_MAX, SumOverOwners([v \in Owners |-> position'[v].total_burned])
                                   + config'.total_rewards_expired)
           /\ config'.total_rewards_claimed
                 = AtMost(U64_MAX,
                          SumOverOwners([v \in Owners |-> position'[v].total_rewards_claimed]))
  <1> DEFINE penalties == [v \in Owners |-> position[v].total_penalty_paid]
             burned == [v \in Owners |-> position[v].total_burned]
             claimed == [v \in Owners |-> position[v].total_rewards_claimed]
             penaltiesNow == [v \in Owners |-> position'[v].total_penalty_paid]
             burnedNow == [v \in Owners |-> position'[v].total_burned]
             claimedNow == [v \in Owners |-> position'[v].total_rewards_claimed]
             c1 == config.total_penalties_collected
             c2 == config.total_burned
             c3 == config.total_rewards_claimed
             expired == config.total_rewards_expired
  <1>1. /\ config \in ConfigType
        /\ \A v \in Owners : position[v] \in PositionType /\ position'[v] \in PositionType
    BY DEF IInv, TypeOK
  <1>2. /\ penalties \in [Owners -> Nat] /\ penaltiesNow \in [Owners -> Nat]
        /\ burned \in [Owners -> Nat] /\ burnedNow \in [Owners -> Nat]
        /\ claimed \in [Owners -> Nat] /\ claimedNow \in [Owners -> Nat]
    BY <1>1, PositionFields, Widths
  <1>3. penalties[u] <= U64_MAX /\ burned[u] <= U64_MAX /\ claimed[u] <= U64_MAX
    BY <1>1, PositionFields DEF U64
  <1>4. c1 \in Nat /\ c2 \in Nat /\ c3 \in Nat /\ expired \in Nat
    BY <1>1, ConfigFields, Widths
  <1>5. /\ c1 = AtMost(U64_MAX, SumOverOwners(penalties))
        /\ c2 = AtMost(U64_MAX, SumOverOwners(burned) + expired)
        /\ c3 = AtMost(U64_MAX, SumOverOwners(claimed))
    BY DEF LedgersAgree
  <1>6. /\ paid \in Nat /\ burn \in Nat /\ reward + burn \in Nat
        /\ penaltiesNow[u] = sat_add_u64(penalties[u], reward + burn)
        /\ burnedNow[u] = sat_add_u64(burned[u], burn)
        /\ claimedNow[u] = sat_add_u64(claimed[u], paid)
        /\ config'.total_penalties_collected = sat_add_u64(c1, reward + burn)
        /\ config'.total_burned = sat_add_u64(c2, burn)
        /\ config'.total_rewards_claimed = sat_add_u64(c3, paid)
        /\ config'.total_rewards_expired = expired
    BY DEF LedgerStep
  <1>7. \A v \in Owners \ {u} : /\ penaltiesNow[v] = penalties[v]
                               /\ burnedNow[v] = burned[v]
                               /\ claimedNow[v] = claimed[v]
    BY DEF LedgerStep
  <1> HIDE DEF penalties, burned, claimed, penaltiesNow, burnedNow, claimedNow,
               c1, c2, c3, expired
  <1>8. /\ SumOverOwners(penalties) \in Nat /\ SumOverOwners(penaltiesNow) \in Nat
        /\ SumOverOwners(claimed) \in Nat /\ SumOverOwners(claimedNow) \in Nat
    BY <1>2, OwnersAssumption, SumType DEF SumOverOwners
  <1>9. config'.total_penalties_collected = AtMost(U64_MAX, SumOverOwners(penaltiesNow))
    <2>1. penalties \in [Owners -> Nat] /\ penaltiesNow \in [Owners -> Nat]
      BY <1>2
    <2>2. /\ \A v \in Owners \ {u} : penaltiesNow[v] = penalties[v]
          /\ penalties[u] <= U64_MAX
          /\ penaltiesNow[u] = sat_add_u64(penalties[u], reward + burn)
      BY <1>3, <1>6, <1>7
    <2>3. c1 \in Nat /\ reward + burn \in Nat /\ c1 = AtMost(U64_MAX, SumOverOwners(penalties) + 0)
      BY <1>4, <1>5, <1>6, <1>8
    <2>4. sat_add_u64(c1, reward + burn) = AtMost(U64_MAX, SumOverOwners(penaltiesNow) + 0)
      BY <2>1, <2>2, <2>3, SaturatedSum
    <2> QED
      BY <1>6, <1>8, <2>4
  <1>10. config'.total_burned = AtMost(U64_MAX, SumOverOwners(burnedNow) + expired)
    <2>1. burned \in [Owners -> Nat] /\ burnedNow \in [Owners -> Nat]
      BY <1>2
    <2>2. /\ \A v \in Owners \ {u} : burnedNow[v] = burned[v]
          /\ burned[u] <= U64_MAX
          /\ burnedNow[u] = sat_add_u64(burned[u], burn)
      BY <1>3, <1>6, <1>7
    <2>3. /\ c2 \in Nat /\ burn \in Nat /\ expired \in Nat
          /\ c2 = AtMost(U64_MAX, SumOverOwners(burned) + expired)
      BY <1>4, <1>5, <1>6
    <2>4. sat_add_u64(c2, burn) = AtMost(U64_MAX, SumOverOwners(burnedNow) + expired)
      BY <2>1, <2>2, <2>3, SaturatedSum
    <2> QED
      BY <1>6, <2>4
  <1>11. config'.total_rewards_claimed = AtMost(U64_MAX, SumOverOwners(claimedNow))
    <2>1. claimed \in [Owners -> Nat] /\ claimedNow \in [Owners -> Nat]
      BY <1>2
    <2>2. /\ \A v \in Owners \ {u} : claimedNow[v] = claimed[v]
          /\ claimed[u] <= U64_MAX
          /\ claimedNow[u] = sat_add_u64(claimed[u], paid)
      BY <1>3, <1>6, <1>7
    <2>3. c3 \in Nat /\ paid \in Nat /\ c3 = AtMost(U64_MAX, SumOverOwners(claimed) + 0)
      BY <1>4, <1>5, <1>6, <1>8
    <2>4. sat_add_u64(c3, paid) = AtMost(U64_MAX, SumOverOwners(claimedNow) + 0)
      BY <2>1, <2>2, <2>3, SaturatedSum
    <2> QED
      BY <1>6, <1>8, <2>4
  <1> QED
    BY <1>6, <1>9, <1>10, <1>11 DEF penaltiesNow, burnedNow, claimedNow

\* What enters and leaves the pool is counted.
LEMMA ConservedStep ==
    ASSUME IInv, RewardsConserved, NEW u \in Owners,
           NEW added, NEW paid, NEW taken, NEW reward, NEW burn,
           LedgerStep(u, added, paid, taken, reward, burn)
    PROVE  RewardsConserved'
  <1> DEFINE funded == config.total_rewards_funded
             claimed == config.total_rewards_claimed
             collected == config.total_penalties_collected
             burned == config.total_burned
             expired == config.total_rewards_expired
             fundedNow == config'.total_rewards_funded
             claimedNow == config'.total_rewards_claimed
             collectedNow == config'.total_penalties_collected
             burnedNow == config'.total_burned
             expiredNow == config'.total_rewards_expired
  <1>1. /\ funded \in U64 /\ claimed \in U64 /\ collected \in U64
        /\ burned \in U64 /\ expired \in U64
    BY StateTypes, ConfigFields
  <1>2. pool \in Nat /\ stray.pool \in Nat
    BY DEF IInv, TypeOK
  <1>3. /\ paid \in Nat /\ reward \in Nat /\ burn \in Nat
        /\ collectedNow = sat_add_u64(collected, reward + burn)
        /\ burnedNow = sat_add_u64(burned, burn)
        /\ claimedNow = sat_add_u64(claimed, paid)
        /\ fundedNow = funded
        /\ expiredNow = expired
        /\ pool' = pool - paid + reward
        /\ stray' = stray
    BY DEF LedgerStep
  <1>4. /\ funded < U64_MAX
        /\ claimed < U64_MAX
        /\ collected < U64_MAX
        /\ burned < U64_MAX
        => pool + claimed + expired = funded + stray.pool + collected - (burned - expired)
    BY DEF RewardsConserved
  <1> HIDE DEF funded, claimed, collected, burned, expired,
               fundedNow, claimedNow, collectedNow, burnedNow, expiredNow
  <1>5. ASSUME fundedNow < U64_MAX, claimedNow < U64_MAX, collectedNow < U64_MAX,
               burnedNow < U64_MAX
        PROVE  pool' + claimedNow + expiredNow
                  = fundedNow + stray'.pool + collectedNow - (burnedNow - expiredNow)
    <2>1. reward + burn \in Nat
      BY <1>3
    <2>2. collectedNow = collected + (reward + burn) /\ collected < U64_MAX
      BY <1>1, <1>3, <1>5, <2>1, Unsaturated
    <2>3. burnedNow = burned + burn /\ burned < U64_MAX
      BY <1>1, <1>3, <1>5, Unsaturated
    <2>4. claimedNow = claimed + paid /\ claimed < U64_MAX
      BY <1>1, <1>3, <1>5, Unsaturated
    <2> QED
      BY <1>1, <1>2, <1>3, <1>4, <1>5, <2>2, <2>3, <2>4, Widths
  <1> QED
    BY <1>5 DEF RewardsConserved, fundedNow, claimedNow, collectedNow, burnedNow, expiredNow

\* A staker instruction keeps the invariant.
LEMMA LedgerKept ==
    ASSUME IInv, LedgerInv, IInv', NEW u \in Owners,
           NEW added, NEW paid, NEW taken, NEW reward, NEW burn,
           LedgerStep(u, added, paid, taken, reward, burn)
    PROVE  LedgerInv'
  <1>1. RewardsConserved'
    BY ConservedStep DEF LedgerInv
  <1>2. Unopened'
    BY DEF LedgerInv, Unopened, LedgerStep
  <1>3. \A v \in Owners : OwnLedger(position'[v])
    <2> SUFFICES ASSUME NEW v \in Owners PROVE OwnLedger(position'[v])
      OBVIOUS
    <2>1. OwnLedger(position[v])
      BY DEF LedgerInv, LedgersAgree, OwnLedger
    <2>2. CASE v = u
      <3>1. position[u] \in PositionType /\ position'[u] \in PositionType
        BY DEF IInv, TypeOK
      <3>2. /\ added \in Nat /\ taken \in Nat /\ reward + burn \in Nat
            /\ reward + burn <= taken
            /\ taken <= position[u].locked_amount
            /\ position'[u].locked_amount = position[u].locked_amount + added - taken
            /\ position'[u].total_deposited = sat_add_u64(position[u].total_deposited, added)
            /\ position'[u].total_withdrawn
                  = sat_add_u64(position[u].total_withdrawn, taken - (reward + burn))
            /\ position'[u].total_penalty_paid
                  = sat_add_u64(position[u].total_penalty_paid, reward + burn)
        BY DEF LedgerStep
      <3> QED
        BY <2>1, <2>2, <3>1, <3>2, OwnLedgerKept
    <2>3. CASE v # u
      BY <2>1, <2>3 DEF LedgerStep
    <2> QED
      BY <2>2, <2>3
  <1>4. LedgersAgree'
    <2>1. LedgersAgree
      BY DEF LedgerInv
    <2> QED
      BY <1>3, <2>1, SumsKept DEF LedgersAgree, OwnLedger
  <1> QED
    BY <1>1, <1>2, <1>4 DEF LedgerInv

-----------------------------------------------------------------------------
(* Settling records nothing. *)

SameCounters(c, d) ==
    /\ d.total_rewards_funded = c.total_rewards_funded
    /\ d.total_rewards_claimed = c.total_rewards_claimed
    /\ d.total_penalties_collected = c.total_penalties_collected
    /\ d.total_burned = c.total_burned
    /\ d.total_rewards_expired = c.total_rewards_expired

SameRecords(p, q) ==
    /\ q.locked_amount = p.locked_amount
    /\ q.total_deposited = p.total_deposited
    /\ q.total_withdrawn = p.total_withdrawn
    /\ q.total_penalty_paid = p.total_penalty_paid
    /\ q.total_burned = p.total_burned
    /\ q.total_rewards_claimed = p.total_rewards_claimed

\* accrue_rewards.
LEMMA AccrueRecords ==
    ASSUME NEW c, NEW p \in PositionType
    PROVE  SameRecords(p, accrue_rewards(c, p))
  BY DEF accrue_rewards, PositionType, SameRecords

\* mature_warming_if_ready.
LEMMA MatureRecords ==
    ASSUME NEW c \in ConfigType, NEW p \in PositionType, mature_warming_ok(c, p)
    PROVE  /\ SameCounters(c, mature_warming_config(c, p))
           /\ SameRecords(p, mature_warming_position(c, p))
  <1>1. SameCounters(c, mature_warming_config(c, p))
    BY DEF mature_warming_config, ConfigType, SameCounters
  <1>2. CASE ~MatureReady(c, p)
    BY <1>1, <1>2 DEF mature_warming_position, SameRecords
  <1>3. CASE MatureReady(c, p)
    <2> DEFINE a == accrue_rewards(c, p)
    <2>1. a \in PositionType /\ SameRecords(p, a)
      BY <1>3, AccrueType, AccrueRecords DEF mature_warming_ok
    <2>2. mature_warming_position(c, p)
             = [a EXCEPT !.eligible_amount = a.eligible_amount + p.warming_amount,
                         !.warming_amount = 0]
      BY <1>3 DEF mature_warming_position
    <2> HIDE DEF a
    <2> QED
      BY <1>1, <2>1, <2>2 DEF PositionType, SameRecords
  <1> QED
    BY <1>2, <1>3

\* The sync that opens an instruction on an existing position.
LEMMA SyncRecords ==
    ASSUME NEW c \in ConfigType, NEW p \in PositionType, sync_ok(c, p)
    PROVE  /\ SameCounters(c, SyncedConfig(c, p))
           /\ SameRecords(p, SyncedPosition(c, p))
  <1> DEFINE d == mature_warming_config(c, p)
             m == mature_warming_position(c, p)
  <1>1. mature_warming_ok(c, p)
    BY DEF sync_ok
  <1>2. m \in PositionType
    BY <1>1, MatureType DEF Matured
  <1>3. SameCounters(c, d) /\ SameRecords(p, m)
    BY <1>1, MatureRecords
  <1>4. SyncedConfig(c, p) = d /\ SyncedPosition(c, p) = accrue_rewards(d, m)
    BY DEF SyncedConfig, SyncedPosition
  <1> HIDE DEF d, m
  <1>5. SameRecords(m, accrue_rewards(d, m))
    BY <1>2, AccrueRecords
  <1> QED
    BY <1>3, <1>4, <1>5 DEF SameRecords

\* A position that is opened starts with the empty ledger it had.
LEMMA NewRecords ==
    ASSUME LedgerInv, NEW u \in Owners, ~position[u].is_initialized
    PROVE  SameRecords(position[u], NewPosition) /\ SameCounters(config, config)
  <1>1. position[u] = EmptyPosition
    BY DEF LedgerInv, Unopened
  <1> QED
    BY <1>1 DEF NewPosition, EmptyPosition, SameRecords, SameCounters

\* What was recorded before the instruction is what the sync left.
LEMMA Nothing ==
    ASSUME NEW p \in PositionType, NEW c \in ConfigType
    PROVE  /\ sat_add_u64(p.total_deposited, 0) = p.total_deposited
           /\ sat_add_u64(p.total_withdrawn, 0) = p.total_withdrawn
           /\ sat_add_u64(p.total_penalty_paid, 0) = p.total_penalty_paid
           /\ sat_add_u64(p.total_burned, 0) = p.total_burned
           /\ sat_add_u64(p.total_rewards_claimed, 0) = p.total_rewards_claimed
           /\ sat_add_u64(c.total_penalties_collected, 0) = c.total_penalties_collected
           /\ sat_add_u64(c.total_burned, 0) = c.total_burned
           /\ sat_add_u64(c.total_rewards_claimed, 0) = c.total_rewards_claimed
           /\ p.locked_amount \in Nat
  BY PositionFields, ConfigFields, AddNothing, Widths

-----------------------------------------------------------------------------
(* Each staker instruction is a ledger step. *)

\* process_deposit.
LEMMA DepositRecords ==
    ASSUME IInv, LedgerInv, NEW u \in Owners, NEW amount \in Deposits, Deposit(u, amount)
    PROVE  IInv' /\ LedgerStep(u, amount, 0, 0, 0, 0)
  <1> DEFINE old == position[u]
             c == IF old.is_initialized THEN SyncedConfig(config, old) ELSE config
             p == IF old.is_initialized THEN SyncedPosition(config, old) ELSE NewPosition
             q == DepositedPosition(p, amount)
             d == [c EXCEPT !.total_locked = @ + amount, !.pending_activation_locked = @ + amount]
  <1>1. IInv'
    BY DepositSafe DEF SafeStep
  <1>2. config \in ConfigType /\ old \in PositionType /\ position \in [Owners -> PositionType]
    BY DEF IInv, TypeOK
  <1>3. SameCounters(config, c) /\ SameRecords(old, p)
    BY <1>2, SyncRecords, NewRecords DEF Deposit
  <1>4. c \in ConfigType /\ p \in PositionType /\ p.is_initialized
    BY SyncSettles, NewSettles DEF Deposit, Settled
  <1>5. /\ config' = d /\ position' = [position EXCEPT ![u] = q]
        /\ pool' = pool /\ stray' = stray
        /\ vault' = vault + amount
        /\ wallet' = [wallet EXCEPT ![u] = wallet[u] - amount]
    BY DEF Deposit
  <1>6. position'[u] = q /\ \A v \in Owners \ {u} : position'[v] = position[v]
    BY <1>2, <1>5
  <1>7. /\ amount \in Nat /\ pool \in Nat /\ vault \in Nat
        /\ wallet \in [Users -> Nat] /\ u \in Users
    BY ArenaAssumption, Widths DEF IInv, TypeOK, Users
  <1> HIDE DEF c, p
  <1>8. /\ q.is_initialized
        /\ q.locked_amount = p.locked_amount + amount
        /\ q.total_deposited = sat_add_u64(p.total_deposited, amount)
        /\ q.total_withdrawn = p.total_withdrawn
        /\ q.total_penalty_paid = p.total_penalty_paid
        /\ q.total_burned = p.total_burned
        /\ q.total_rewards_claimed = p.total_rewards_claimed
    BY <1>4 DEF DepositedPosition, PositionType
  <1>9. SameCounters(c, d)
    BY <1>4 DEF ConfigType, SameCounters
  <1> HIDE DEF q, d, old
  <1>10. LedgerStep(u, amount, 0, 0, 0, 0)
    <2>1. /\ 0 \in Nat /\ 0 + 0 = 0 /\ 0 - 0 = 0 /\ pool - 0 + 0 = pool
          /\ vault' = vault + amount - 0
      BY <1>5, <1>7
    <2>2. old.locked_amount \in Nat /\ q.locked_amount = old.locked_amount + amount - 0
      BY <1>2, <1>3, <1>7, <1>8, Nothing DEF SameRecords
    <2>3. /\ wallet'[u] = wallet[u] + 0 + (0 - 0) - amount
          /\ \A v \in Users \ {u} : wallet'[v] = wallet[v]
      BY <1>5, <1>7
    <2> QED
      BY <1>2, <1>3, <1>5, <1>6, <1>7, <1>8, <1>9, <2>1, <2>2, <2>3, Nothing
      DEF LedgerStep, SameCounters, SameRecords, old
  <1> QED
    BY <1>1, <1>10

\* Instructions that settle, and move stake between the buckets of one position.
LEMMA RestRecords ==
    ASSUME IInv, NEW u \in Owners,
           NEW d, NEW q, SameCounters(config, d), SameRecords(position[u], q),
           q.is_initialized,
           config' = d, position' = [position EXCEPT ![u] = q],
           UNCHANGED <<pool, vault, wallet, stray>>
    PROVE  LedgerStep(u, 0, 0, 0, 0, 0)
  <1> DEFINE old == position[u]
  <1>1. /\ config \in ConfigType /\ old \in PositionType
        /\ position \in [Owners -> PositionType]
        /\ pool \in Nat /\ vault \in Nat /\ wallet[u] \in Nat
    BY DEF IInv, TypeOK, Users
  <1>2. position'[u] = q /\ \A v \in Owners \ {u} : position'[v] = position[v]
    BY <1>1
  <1>3. /\ 0 \in Nat /\ 0 + 0 = 0 /\ 0 - 0 = 0 /\ pool - 0 + 0 = pool
        /\ vault + 0 - 0 = vault
        /\ wallet[u] + 0 + (0 - 0) - 0 = wallet[u]
    BY <1>1
  <1>4. old.locked_amount \in Nat /\ q.locked_amount = old.locked_amount + 0 - 0
    BY <1>1, Nothing DEF SameRecords
  <1> HIDE DEF old
  <1> QED
    BY <1>1, <1>2, <1>3, <1>4, Nothing DEF LedgerStep, SameCounters, SameRecords, old

\* process_activate_position.
LEMMA ActivateRecords ==
    ASSUME IInv, LedgerInv, NEW u \in Owners, ActivatePosition(u)
    PROVE  IInv' /\ LedgerStep(u, 0, 0, 0, 0, 0)
  <1> DEFINE old == position[u]
             c == SyncedConfig(config, old)
             p == SyncedPosition(config, old)
             amount == p.pending_activation_amount
             q == WarmedPosition(c, p)
             d == [c EXCEPT !.pending_activation_locked = @ - amount,
                            !.warming_locked = @ + amount]
  <1>1. IInv'
    BY ActivateSyncOnlySafe, ActivatePendingSafe DEF SafeStep, ActivatePosition
  <1>2. old.is_initialized /\ sync_ok(config, old)
    BY DEF ActivatePosition, ActivateSyncOnly, ActivatePending
  <1>3. config \in ConfigType /\ old \in PositionType
    BY DEF IInv, TypeOK
  <1>4. SameCounters(config, c) /\ SameRecords(old, p)
    BY <1>2, <1>3, SyncRecords
  <1>5. c \in ConfigType /\ p \in PositionType /\ p.is_initialized
    BY <1>2, SyncSettles DEF Settled
  <1>6. CASE ActivateSyncOnly(u)
    <2>1. /\ config' = c /\ position' = [position EXCEPT ![u] = p]
          /\ UNCHANGED <<pool, vault, wallet, stray>>
      BY <1>6 DEF ActivateSyncOnly
    <2> HIDE DEF c, p
    <2> QED
      BY <1>1, <1>4, <1>5, <2>1, RestRecords
  <1>7. CASE ActivatePending(u)
    <2>1. /\ config' = d /\ position' = [position EXCEPT ![u] = q]
          /\ UNCHANGED <<pool, vault, wallet, stray>>
      BY <1>7 DEF ActivatePending
    <2> HIDE DEF c, p
    <2>2. SameRecords(p, q) /\ q.is_initialized
      BY <1>5 DEF WarmedPosition, PositionType, SameRecords
    <2>3. SameCounters(c, d)
      BY <1>5 DEF ConfigType, SameCounters
    <2> HIDE DEF d, q
    <2>4. SameRecords(old, q) /\ SameCounters(config, d)
      BY <1>4, <2>2, <2>3 DEF SameRecords, SameCounters
    <2> QED
      BY <1>1, <2>1, <2>2, <2>4, RestRecords
  <1> QED
    BY <1>6, <1>7 DEF ActivatePosition

\* process_claim_rewards.
LEMMA ClaimRecords ==
    ASSUME IInv, LedgerInv, NEW u \in Owners, ClaimRewards(u)
    PROVE  IInv' /\ \E paid \in Nat : LedgerStep(u, 0, paid, 0, 0, 0)
  <1> DEFINE old == position[u]
             c == SyncedConfig(config, old)
             p == SyncedPosition(config, old)
             amount == p.pending_rewards
             d == PaidConfig(c, amount)
             q == PaidPosition(p)
  <1>1. IInv'
    BY ClaimSafe DEF SafeStep
  <1>2. /\ config \in ConfigType /\ old \in PositionType
        /\ position \in [Owners -> PositionType]
        /\ pool \in Nat /\ vault \in Nat
        /\ wallet \in [Users -> Nat] /\ u \in Users
    BY DEF IInv, TypeOK, Users
  <1>3. SameCounters(config, c) /\ SameRecords(old, p)
    BY <1>2, SyncRecords DEF ClaimRewards
  <1>4. c \in ConfigType /\ p \in PositionType /\ p.is_initialized
    BY SyncSettles DEF ClaimRewards, Settled
  <1>5. /\ config' = d /\ position' = [position EXCEPT ![u] = q]
        /\ pool' = pool - amount /\ stray' = stray /\ vault' = vault
        /\ wallet' = [wallet EXCEPT ![u] = wallet[u] + amount]
    BY DEF ClaimRewards
  <1>6. position'[u] = q /\ \A v \in Owners \ {u} : position'[v] = position[v]
    BY <1>2, <1>5
  <1> HIDE DEF c, p
  <1>7. amount \in Nat
    BY <1>4, PositionNats
  <1>8. /\ q.is_initialized
        /\ q.locked_amount = p.locked_amount
        /\ q.total_deposited = p.total_deposited
        /\ q.total_withdrawn = p.total_withdrawn
        /\ q.total_penalty_paid = p.total_penalty_paid
        /\ q.total_burned = p.total_burned
        /\ q.total_rewards_claimed = sat_add_u64(p.total_rewards_claimed, amount)
    BY <1>4 DEF PaidPosition, PositionType
  <1>9. /\ d.total_rewards_funded = c.total_rewards_funded
        /\ d.total_rewards_claimed = sat_add_u64(c.total_rewards_claimed, amount)
        /\ d.total_penalties_collected = c.total_penalties_collected
        /\ d.total_burned = c.total_burned
        /\ d.total_rewards_expired = c.total_rewards_expired
    BY <1>4 DEF PaidConfig, ConfigType
  <1> HIDE DEF q, d, old, amount
  <1>10. LedgerStep(u, 0, amount, 0, 0, 0)
    <2>1. /\ 0 \in Nat /\ 0 + 0 = 0 /\ 0 - 0 = 0 /\ pool - amount + 0 = pool - amount
          /\ vault + 0 - 0 = vault
      BY <1>2, <1>7
    <2>2. old.locked_amount \in Nat /\ q.locked_amount = old.locked_amount + 0 - 0
      BY <1>2, <1>3, <1>8, Nothing DEF SameRecords
    <2>3. /\ wallet'[u] = wallet[u] + amount + (0 - 0) - 0
          /\ \A v \in Users \ {u} : wallet'[v] = wallet[v]
      BY <1>2, <1>5, <1>7
    <2> QED
      BY <1>2, <1>3, <1>5, <1>6, <1>7, <1>8, <1>9, <2>1, <2>2, <2>3, Nothing
      DEF LedgerStep, SameCounters, SameRecords, old
  <1> QED
    BY <1>1, <1>7, <1>10

\* Moving the index counts nothing that LedgersAgree is about.
LEMMA TryCommitRecords ==
    ASSUME NEW c \in ConfigType, NEW amount, NEW eligible
    PROVE  SameCounters(c, try_commit_rewards_to_index(c, amount, eligible))
  BY DEF try_commit_rewards_to_index, commit_rewards_to_index, add_reward_index,
         ConfigType, SameCounters

\* What a withdrawal records in the position ...
LEMMA WithdrawnRecords ==
    ASSUME NEW p \in PositionType, NEW amount, NEW split
    PROVE  LET q == WithdrawnPosition(ReducedPosition(p, amount), amount, split)
               penalty == split.reward + split.burn
           IN  /\ q.is_initialized = p.is_initialized
               /\ q.locked_amount = p.locked_amount - amount
               /\ q.total_deposited = p.total_deposited
               /\ q.total_withdrawn = sat_add_u64(p.total_withdrawn, amount - penalty)
               /\ q.total_penalty_paid = sat_add_u64(p.total_penalty_paid, penalty)
               /\ q.total_burned = sat_add_u64(p.total_burned, split.burn)
               /\ q.total_rewards_claimed = p.total_rewards_claimed
  BY DEF WithdrawnPosition, ReducedPosition, PositionType

\* ... and in the config.
LEMMA WithdrawnCounters ==
    ASSUME NEW c \in ConfigType, NEW p, NEW amount, NEW split
    PROVE  LET d == WithdrawnConfig(ReducedConfig(c, p, amount), split)
           IN  /\ d.total_rewards_funded = c.total_rewards_funded
               /\ d.total_rewards_claimed = c.total_rewards_claimed
               /\ d.total_penalties_collected
                     = sat_add_u64(c.total_penalties_collected, split.reward + split.burn)
               /\ d.total_burned = sat_add_u64(c.total_burned, split.burn)
               /\ d.total_rewards_expired = c.total_rewards_expired
  BY DEF WithdrawnConfig, ReducedConfig, ConfigType

\* process_withdraw: the rewards are paid on the way out of the whole stake.
LEMMA WithdrawRecords ==
    ASSUME IInv, LedgerInv, NEW u \in Owners, NEW amount \in Exits, Withdraw(u, amount)
    PROVE  IInv' /\ \E paid, reward, burn \in Nat : LedgerStep(u, 0, paid, amount, reward, burn)
  <1> DEFINE old == position[u]
             c == SyncedConfig(config, old)
             p == SyncedPosition(config, old)
             after == c.eligible_locked - EligibleReduction(p, amount)
             split == ExitSplit(p, amount, after)
             payout == Payout(p, amount)
             paid == IF amount = p.locked_amount THEN PaidPosition(p) ELSE p
             counted == PaidConfig(c, payout)
             committed == try_commit_rewards_to_index(counted, split.reward, after)
             d == WithdrawnConfig(ReducedConfig(committed, p, amount), split)
             q == WithdrawnPosition(ReducedPosition(paid, amount), amount, split)
             reward == split.reward
             burn == split.burn
  <1>1. IInv'
    BY WithdrawSafe DEF SafeStep
  <1>2. /\ config \in ConfigType /\ old \in PositionType
        /\ position \in [Owners -> PositionType]
        /\ pool \in Nat /\ vault \in Nat
        /\ wallet \in [Users -> Nat] /\ u \in Users
    BY DEF IInv, TypeOK, Users
  <1>3. /\ old.is_initialized /\ sync_ok(config, old)
        /\ reduce_position_stake_ok(c, p, amount)
        /\ reward + burn <= amount
        /\ try_commit_rewards_to_index_ok(c, reward, after)
    BY DEF Withdraw, WithdrawOk
  <1>4. SameCounters(config, c) /\ SameRecords(old, p)
    BY <1>2, <1>3, SyncRecords
  <1>5. c \in ConfigType /\ p \in PositionType /\ p.is_initialized
    BY <1>3, SyncSettles DEF Settled
  <1>6. /\ config' = d
        /\ position' = [position EXCEPT ![u] = q]
        /\ pool' = pool - payout + reward
        /\ vault' = vault - amount
        /\ wallet' = [wallet EXCEPT ![u] = wallet[u] + payout + amount - reward - burn]
        /\ stray' = stray
    BY DEF Withdraw
  <1>7. position'[u] = q /\ \A v \in Owners \ {u} : position'[v] = position[v]
    BY <1>2, <1>6
  <1> HIDE DEF c, p
  <1>8. amount \in U64 /\ amount \in Nat
    BY ArenaAssumption, Widths
  <1>9. /\ amount <= p.locked_amount
        /\ EligibleReduction(p, amount) <= c.eligible_locked
    BY <1>3 DEF reduce_position_stake_ok
  <1>10. split \in SplitType
    BY <1>5, <1>8, ExitSplitType, Policy
  <1>11. reward \in Nat /\ burn \in Nat
    BY <1>10 DEF SplitType
  <1>12. reward \in U64
    BY <1>3, <1>8, <1>11, Widths DEF U64
  <1>13. after \in U64
    <2>1. EligibleReduction(p, amount) \in Nat
      BY <1>5, <1>8, ReductionParts
    <2>2. c.eligible_locked \in U64 /\ c.eligible_locked \in Nat
      BY <1>5, ConfigFields, ConfigNats
    <2> QED
      BY <1>9, <2>1, <2>2, Widths DEF U64
  <1>14. payout \in U64 /\ payout \in Nat
    BY <1>5, PositionFields, Widths DEF Payout
  <1>15. /\ paid \in PositionType
         /\ paid.is_initialized
         /\ paid.locked_amount = p.locked_amount
         /\ paid.total_deposited = p.total_deposited
         /\ paid.total_withdrawn = p.total_withdrawn
         /\ paid.total_penalty_paid = p.total_penalty_paid
         /\ paid.total_burned = p.total_burned
         /\ paid.total_rewards_claimed = sat_add_u64(p.total_rewards_claimed, payout)
    <2>1. CASE amount = p.locked_amount
      <3>1. paid = PaidPosition(p) /\ payout = p.pending_rewards
        BY <2>1 DEF Payout
      <3>2. paid \in PositionType
        BY <1>5, <3>1, PaidType
      <3> QED
        BY <1>5, <3>1, <3>2 DEF PaidPosition, PositionType
    <2>2. CASE amount # p.locked_amount
      <3>1. paid = p /\ payout = 0
        BY <2>2 DEF Payout
      <3> QED
        BY <1>2, <1>5, <3>1, Nothing
    <2> QED
      BY <2>1, <2>2
  <1> HIDE DEF split, after, payout, paid
  <1>16. counted \in ConfigType
    BY <1>5, <1>14, PaidConfigType
  <1>17. /\ counted.total_rewards_funded = c.total_rewards_funded
         /\ counted.total_rewards_claimed = sat_add_u64(c.total_rewards_claimed, payout)
         /\ counted.total_penalties_collected = c.total_penalties_collected
         /\ counted.total_burned = c.total_burned
         /\ counted.total_rewards_expired = c.total_rewards_expired
         /\ counted.reward_index = c.reward_index
         /\ counted.reward_index_generation = c.reward_index_generation
    BY <1>5 DEF PaidConfig, ConfigType
  <1> HIDE DEF counted
  <1>18. try_commit_rewards_to_index_ok(counted, reward, after)
    BY <1>3, <1>17 DEF try_commit_rewards_to_index_ok, add_reward_index_ok
  <1>19. committed \in ConfigType /\ SameCounters(counted, committed)
    BY <1>12, <1>13, <1>16, <1>18, TryCommitType, TryCommitRecords
  <1> HIDE DEF committed
  <1>20. /\ d.total_rewards_funded = committed.total_rewards_funded
         /\ d.total_rewards_claimed = committed.total_rewards_claimed
         /\ d.total_penalties_collected
               = sat_add_u64(committed.total_penalties_collected, reward + burn)
         /\ d.total_burned = sat_add_u64(committed.total_burned, burn)
         /\ d.total_rewards_expired = committed.total_rewards_expired
    BY <1>19, WithdrawnCounters
  <1>21. /\ q.is_initialized
         /\ q.locked_amount = paid.locked_amount - amount
         /\ q.total_deposited = paid.total_deposited
         /\ q.total_withdrawn = sat_add_u64(paid.total_withdrawn, amount - (reward + burn))
         /\ q.total_penalty_paid = sat_add_u64(paid.total_penalty_paid, reward + burn)
         /\ q.total_burned = sat_add_u64(paid.total_burned, burn)
         /\ q.total_rewards_claimed = paid.total_rewards_claimed
    BY <1>15, WithdrawnRecords
  <1> HIDE DEF d, q, old, reward, burn
  <1>22. LedgerStep(u, 0, payout, amount, reward, burn)
    <2>1. old.locked_amount \in Nat /\ q.locked_amount = old.locked_amount + 0 - amount
      BY <1>2, <1>4, <1>8, <1>15, <1>21, Nothing DEF SameRecords
    <2>2. /\ q.total_deposited = sat_add_u64(old.total_deposited, 0)
          /\ q.total_withdrawn = sat_add_u64(old.total_withdrawn, amount - (reward + burn))
          /\ q.total_penalty_paid = sat_add_u64(old.total_penalty_paid, reward + burn)
          /\ q.total_burned = sat_add_u64(old.total_burned, burn)
          /\ q.total_rewards_claimed = sat_add_u64(old.total_rewards_claimed, payout)
      BY <1>2, <1>4, <1>15, <1>21, Nothing DEF SameRecords
    <2>3. /\ d.total_rewards_funded = config.total_rewards_funded
          /\ d.total_rewards_claimed = sat_add_u64(config.total_rewards_claimed, payout)
          /\ d.total_penalties_collected
                = sat_add_u64(config.total_penalties_collected, reward + burn)
          /\ d.total_burned = sat_add_u64(config.total_burned, burn)
          /\ d.total_rewards_expired = config.total_rewards_expired
      BY <1>4, <1>17, <1>19, <1>20 DEF SameCounters
    <2>4. amount <= old.locked_amount /\ 0 \in Nat
      BY <1>4, <1>9 DEF SameRecords
    <2>5. vault' = vault + 0 - amount
      BY <1>2, <1>6, <1>8
    <2>6. /\ wallet'[u] = wallet[u] + payout + (amount - (reward + burn)) - 0
          /\ \A v \in Users \ {u} : wallet'[v] = wallet[v]
      BY <1>2, <1>6, <1>8, <1>11, <1>14
    <2> QED
      BY <1>3, <1>6, <1>7, <1>8, <1>11, <1>14, <1>21, <2>1, <2>2, <2>3, <2>4, <2>5, <2>6
      DEF LedgerStep, old
  <1> QED
    BY <1>1, <1>11, <1>14, <1>22

-----------------------------------------------------------------------------
(* The other instructions leave the positions alone. *)

\* Without a change of the positions, the config and the pool decide.
LEMMA IdleLedger ==
    ASSUME LedgerInv, position' = position,
           RewardsConserved',
           config'.total_penalties_collected = config.total_penalties_collected,
           config'.total_rewards_claimed = config.total_rewards_claimed,
           config'.total_burned
              = AtMost(U64_MAX, SumOverOwners([u \in Owners |-> position[u].total_burned])
                                + config'.total_rewards_expired)
    PROVE  LedgerInv'
  <1>1. Unopened'
    BY DEF LedgerInv, Unopened
  <1>2. LedgersAgree'
    BY DEF LedgerInv, LedgersAgree
  <1> QED
    BY <1>1, <1>2 DEF LedgerInv

\* Tokens that enter the pool with a record of them.
LEMMA PoolFilled ==
    ASSUME IInv, RewardsConserved, NEW n \in Nat, NEW m \in Nat,
           config'.total_rewards_funded = sat_add_u64(config.total_rewards_funded, n),
           config'.total_rewards_claimed = config.total_rewards_claimed,
           config'.total_penalties_collected = config.total_penalties_collected,
           config'.total_burned = config.total_burned,
           config'.total_rewards_expired = config.total_rewards_expired,
           pool' = pool + n + m, stray'.pool = stray.pool + m
    PROVE  RewardsConserved'
  <1> DEFINE funded == config.total_rewards_funded
             claimed == config.total_rewards_claimed
             collected == config.total_penalties_collected
             burned == config.total_burned
             expired == config.total_rewards_expired
             fundedNow == sat_add_u64(funded, n)
             sent == stray.pool
  <1>1. /\ funded \in U64 /\ funded \in Nat /\ claimed \in Nat /\ collected \in Nat
        /\ burned \in Nat /\ expired \in Nat
    BY StateTypes, ConfigFields, Widths
  <1>2. pool \in Nat /\ sent \in Nat
    BY DEF IInv, TypeOK
  <1>3. /\ funded < U64_MAX
        /\ claimed < U64_MAX
        /\ collected < U64_MAX
        /\ burned < U64_MAX
        => pool + claimed + expired = funded + sent + collected - (burned - expired)
    BY DEF RewardsConserved
  <1>4. fundedNow < U64_MAX => fundedNow = funded + n /\ funded < U64_MAX
    BY <1>1, Unsaturated
  <1> HIDE DEF funded, claimed, collected, burned, expired, fundedNow, sent
  <1>5. ASSUME fundedNow < U64_MAX, claimed < U64_MAX, collected < U64_MAX, burned < U64_MAX
        PROVE  (pool + n + m) + claimed + expired
                  = fundedNow + (sent + m) + collected - (burned - expired)
    BY <1>1, <1>2, <1>3, <1>4, <1>5
  <1> QED
    BY <1>5 DEF RewardsConserved, funded, claimed, collected, burned, expired, fundedNow, sent

\* process_fund_rewards: the funding is counted as it enters the pool.
LEMMA FundRecords ==
    ASSUME IInv, LedgerInv, NEW u \in Users, NEW amount \in Fundings, FundRewards(u, amount)
    PROVE  IInv' /\ LedgerInv'
  <1> DEFINE c == commit_rewards_to_index(config, amount, config.eligible_locked)
             d == [c EXCEPT !.total_rewards_funded = sat_add_u64(c.total_rewards_funded, amount)]
             funded == config.total_rewards_funded
  <1>1. IInv'
    BY FundSafe DEF SafeStep
  <1>2. config \in ConfigType /\ pool \in Nat /\ stray.pool \in Nat
    BY DEF IInv, TypeOK
  <1>3. amount \in U64 /\ amount \in Nat
    BY ArenaAssumption, Widths
  <1>4. /\ commit_rewards_to_index_ok(config, amount, config.eligible_locked)
        /\ config' = d
        /\ pool' = pool + amount
        /\ UNCHANGED <<position, stray>>
    BY DEF FundRewards
  <1>5. c \in ConfigType
    BY <1>2, <1>3, <1>4, ConfigFields, CommitType
  <1>6. SameCounters(config, c)
    BY <1>2 DEF commit_rewards_to_index, add_reward_index, ConfigType, SameCounters
  <1> HIDE DEF c
  <1>7. /\ d.total_rewards_funded = sat_add_u64(funded, amount)
        /\ d.total_rewards_claimed = config.total_rewards_claimed
        /\ d.total_penalties_collected = config.total_penalties_collected
        /\ d.total_burned = config.total_burned
        /\ d.total_rewards_expired = config.total_rewards_expired
    BY <1>5, <1>6 DEF ConfigType, SameCounters
  <1> HIDE DEF d
  <1>8. RewardsConserved'
    <2>1. pool' = pool + amount + 0 /\ stray'.pool = stray.pool + 0 /\ 0 \in Nat
      BY <1>2, <1>3, <1>4
    <2> QED
      BY <1>3, <1>4, <1>7, <2>1, PoolFilled DEF LedgerInv
  <1>9. LedgerInv'
    BY <1>4, <1>7, <1>8, IdleLedger DEF LedgerInv, LedgersAgree
  <1> QED
    BY <1>1, <1>9

\* process_finalize_rewards: what is burned is counted as expired and as burned.
LEMMA FinalizeRecords ==
    ASSUME IInv, LedgerInv, FinalizeRewards
    PROVE  IInv' /\ LedgerInv'
  <1> DEFINE burned == config.total_burned
             expired == config.total_rewards_expired
             forfeited == SumOverOwners([u \in Owners |-> position[u].total_burned])
  <1>1. IInv'
    BY FinalizeSafe DEF SafeStep
  <1>2. /\ config \in ConfigType /\ pool \in Nat /\ stray.pool \in Nat
        /\ \A u \in Owners : position[u] \in PositionType
    BY DEF IInv, TypeOK
  <1>3. /\ config' = IF pool = 0 THEN config ELSE PoolBurnedConfig(config, pool)
        /\ pool' = 0
        /\ UNCHANGED <<position, stray>>
    BY DEF FinalizeRewards
  <1>4. /\ burned \in U64 /\ burned \in Nat /\ expired \in U64 /\ expired \in Nat
        /\ config.total_rewards_funded \in Nat
        /\ config.total_rewards_claimed \in Nat
        /\ config.total_penalties_collected \in Nat
    BY <1>2, ConfigFields, Widths
  <1>5. /\ config'.total_rewards_funded = config.total_rewards_funded
        /\ config'.total_rewards_claimed = config.total_rewards_claimed
        /\ config'.total_penalties_collected = config.total_penalties_collected
        /\ config'.total_burned = sat_add_u64(burned, pool)
        /\ config'.total_rewards_expired = sat_add_u64(expired, pool)
    <2>1. CASE pool = 0
      BY <1>3, <1>4, <2>1, AddNothing
    <2>2. CASE pool # 0
      BY <1>2, <1>3, <2>2 DEF PoolBurnedConfig, ConfigType
    <2> QED
      BY <2>1, <2>2
  <1>6. forfeited \in Nat
    <2> DEFINE f == [u \in Owners |-> position[u].total_burned]
    <2>1. f \in [Owners -> Nat]
      BY <1>2, PositionFields, Widths
    <2> HIDE DEF f
    <2>2. SumOverOwners(f) \in Nat
      BY <2>1, OwnersAssumption, SumType DEF SumOverOwners
    <2> QED
      BY <2>2 DEF f
  <1>7. burned = AtMost(U64_MAX, forfeited + expired)
    BY DEF LedgerInv, LedgersAgree
  <1> HIDE DEF forfeited
  <1>8. config'.total_burned = AtMost(U64_MAX, forfeited + config'.total_rewards_expired)
    <2> HIDE DEF burned, expired
    <2>1. sat_add_u64(burned, pool) = AtMost(U64_MAX, forfeited + sat_add_u64(expired, pool))
      BY <1>2, <1>4, <1>6, <1>7, Widths DEF sat_add_u64, AtMost, U64
    <2> QED
      BY <1>5, <2>1
  <1>9. RewardsConserved'
    <2>1. sat_add_u64(burned, pool) < U64_MAX
              => /\ burned < U64_MAX
                 /\ sat_add_u64(burned, pool) = burned + pool
                 /\ sat_add_u64(expired, pool) = expired + pool
      <3> HIDE DEF burned, expired
      <3> QED
        BY <1>2, <1>4, <1>6, <1>7, Widths DEF sat_add_u64, AtMost, U64
    <2> QED
      BY <1>2, <1>3, <1>4, <1>5, <2>1 DEF LedgerInv, RewardsConserved
  <1>10. LedgerInv'
    BY <1>3, <1>5, <1>8, <1>9, IdleLedger DEF forfeited
  <1> QED
    BY <1>1, <1>10

\* Tokens sent to the pool from outside are known as such; the rest counts nothing.
LEMMA OtherRecords ==
    ASSUME IInv, LedgerInv,
           \/ \E pol \in Policies : InitializeConfig(pol)
           \/ RollEpoch
           \/ \E u \in Users, amount \in Donations :
                 DonateToVault(u, amount) \/ DonateToPool(u, amount)
           \/ Tick
           \/ UNCHANGED vars
    PROVE  IInv' /\ LedgerInv'
  <1>1. IInv'
    BY InitializeConfigSafe, RollEpochSafe, EnvironmentSafe DEF SafeStep
  <1>2. config \in ConfigType /\ pool \in Nat /\ stray \in [vault: Nat, pool: Nat]
    BY DEF IInv, TypeOK
  <1>3. position' = position
    BY DEF InitializeConfig, RollEpoch, DonateToVault, DonateToPool, Tick, vars
  <1>4. SameCounters(config, config')
    <2>1. CASE \E pol \in Policies : InitializeConfig(pol)
      <3>1. /\ config = EmptyConfig
            /\ config' = [EmptyConfig EXCEPT !.is_initialized = TRUE,
                                             !.created_ts = now,
                                             !.last_epoch_ts = now]
        BY <2>1 DEF InitializeConfig, IInv, Untouched
      <3> QED
        BY <3>1 DEF EmptyConfig, SameCounters
    <2>2. CASE RollEpoch
      BY <1>2, <2>2 DEF RollEpoch, ConfigType, SameCounters
    <2>3. CASE config' = config
      BY <2>3 DEF SameCounters
    <2> QED
      BY <2>1, <2>2, <2>3 DEF DonateToVault, DonateToPool, Tick, vars
  <1>5. \E n \in Nat : pool' = pool + n /\ stray'.pool = stray.pool + n
    <2>1. CASE \E u \in Users, amount \in Donations : DonateToPool(u, amount)
      <3>1. PICK u \in Users, amount \in Donations : DonateToPool(u, amount)
        BY <2>1
      <3>2. amount \in Nat
        BY ArenaAssumption, Widths
      <3> QED
        BY <1>2, <3>1, <3>2 DEF DonateToPool
    <2>2. CASE pool' = pool /\ stray'.pool = stray.pool
      BY <1>2, <2>2
    <2>3. CASE \E u \in Users, amount \in Donations : DonateToVault(u, amount)
      BY <1>2, <2>2, <2>3 DEF DonateToVault
    <2> QED
      BY <2>1, <2>2, <2>3 DEF InitializeConfig, RollEpoch, Tick, vars
  <1>6. RewardsConserved'
    <2>1. PICK n \in Nat : pool' = pool + n /\ stray'.pool = stray.pool + n
      BY <1>5
    <2>2. pool' = pool + 0 + n /\ 0 \in Nat
      BY <1>2, <2>1
    <2>3. config'.total_rewards_funded = sat_add_u64(config.total_rewards_funded, 0)
      BY <1>2, <1>4, ConfigFields, AddNothing DEF SameCounters
    <2> QED
      BY <1>4, <2>1, <2>2, <2>3, PoolFilled DEF LedgerInv, SameCounters
  <1>7. LedgerInv'
    BY <1>3, <1>4, <1>6, IdleLedger DEF LedgerInv, LedgersAgree, SameCounters
  <1> QED
    BY <1>1, <1>7

\* Everything starts at zero.
LEMMA InitLedger ==
    ASSUME Init
    PROVE  LedgerInv
  <1>1. /\ config = EmptyConfig
        /\ \A u \in Owners : position[u] = EmptyPosition
        /\ pool = 0
        /\ stray.pool = 0
    BY DEF Init
  <1>2. \A u \in Owners : /\ position[u].total_deposited = 0
                          /\ position[u].locked_amount = 0
                          /\ position[u].total_withdrawn = 0
                          /\ position[u].total_penalty_paid = 0
                          /\ position[u].total_burned = 0
                          /\ position[u].total_rewards_claimed = 0
    BY <1>1 DEF EmptyPosition
  <1>3. /\ config.total_rewards_funded = 0
        /\ config.total_rewards_claimed = 0
        /\ config.total_penalties_collected = 0
        /\ config.total_burned = 0
        /\ config.total_rewards_expired = 0
    BY <1>1 DEF EmptyConfig
  <1>4. /\ SumOver(Owners, [u \in Owners |-> position[u].total_penalty_paid]) = 0
        /\ SumOver(Owners, [u \in Owners |-> position[u].total_burned]) = 0
        /\ SumOver(Owners, [u \in Owners |-> position[u].total_rewards_claimed]) = 0
    BY <1>2, SumZero
  <1>5. AtMost(U64_MAX, 0) = 0 /\ AtMost(U64_MAX, 0 + 0) = 0
    BY Widths DEF AtMost
  <1>6. LedgersAgree
    BY <1>2, <1>3, <1>4, <1>5 DEF LedgersAgree, SumOverOwners
  <1> QED
    BY <1>1, <1>3, <1>6 DEF LedgerInv, RewardsConserved, Unopened

-----------------------------------------------------------------------------
(* The theorems. *)

\* Every instruction keeps the ledgers.
LEMMA NextLedger ==
    ASSUME IInv, LedgerInv, [Next]_vars
    PROVE  IInv' /\ LedgerInv'
  <1>1. ASSUME NEW u \in Owners, OwnerStep(u) PROVE IInv' /\ LedgerInv'
    <2>1. CASE ActivatePosition(u)
      BY <2>1, ActivateRecords, LedgerKept
    <2>2. CASE ClaimRewards(u)
      BY <2>2, ClaimRecords, LedgerKept
    <2>3. CASE \E amount \in Deposits : Deposit(u, amount)
      BY <2>3, DepositRecords, LedgerKept
    <2>4. CASE \E amount \in Exits : Withdraw(u, amount)
      BY <2>4, WithdrawRecords, LedgerKept
    <2> QED
      BY <1>1, <2>1, <2>2, <2>3, <2>4 DEF OwnerStep
  <1>2. ASSUME NEW u \in Funders, FunderStep(u) PROVE IInv' /\ LedgerInv'
    BY <1>2, FundRecords DEF FunderStep, FundRewardsChecked, Users
  <1>3. ASSUME NEW u \in Funders, DonorStep(u) PROVE IInv' /\ LedgerInv'
    BY <1>3, OtherRecords DEF DonorStep, Users
  <1>4. CASE FinalizeRewards
    BY <1>4, FinalizeRecords
  <1>5. CASE \/ \E pol \in Policies : InitializeConfig(pol)
             \/ RollEpoch
             \/ Tick
             \/ UNCHANGED vars
    BY <1>5, OtherRecords
  <1> QED
    BY <1>1, <1>2, <1>3, <1>4, <1>5 DEF Next

\* The invariant of the ledgers holds in every reachable state.
THEOREM LedgerInvHolds == Spec => [](IInv /\ LedgerInv)
  <1>1. Init => IInv /\ LedgerInv
    BY InitInv, InitLedger
  <1>2. (IInv /\ LedgerInv) /\ [Next]_vars => (IInv /\ LedgerInv)'
    BY NextLedger
  <1> QED
    BY <1>1, <1>2, PTL DEF Spec

\* What each owner put in is locked, returned or forfeited, and the counters of
\* the arena are the sums of the owners', as far as a u64 can say.
THEOREM LedgersKept == Spec => []LedgersAgree
  <1>1. IInv /\ LedgerInv => LedgersAgree
    BY DEF LedgerInv
  <1> QED
    BY <1>1, LedgerInvHolds, PTL

\* No reward token appears or disappears: funding, penalties and direct
\* transfers are in the pool, were claimed, or were burned at finalization.
THEOREM RewardTokensConserved == Spec => []RewardsConserved
  <1>1. IInv /\ LedgerInv => RewardsConserved
    BY DEF LedgerInv
  <1> QED
    BY <1>1, LedgerInvHolds, PTL

-----------------------------------------------------------------------------
(* Tokens are moved or burned, never made or lost. *)

Held == SumOver(Users, wallet)

LEMMA UsersFinite == IsFiniteSet(Users)
  BY OwnersAssumption, SupplyAssumption, FS_Union DEF Users

LEMMA HeldType == ASSUME IInv PROVE Held \in Nat
  BY UsersFinite, SumType DEF Held, IInv, TypeOK

\* When one account changes, what is held changes by as much.
LEMMA HeldMoves ==
    ASSUME IInv, IInv', NEW u \in Users, \A v \in Users \ {u} : wallet'[v] = wallet[v]
    PROVE  Held' + wallet[u] = Held + wallet'[u]
  <1>1. wallet \in [Users -> Nat] /\ wallet' \in [Users -> Nat]
    BY DEF IInv, TypeOK
  <1> QED
    BY <1>1, UsersFinite, SumUpdate DEF Held

\* What is burned was held or in custody: total_burned has room for it.
LEMMA TokensKept ==
    ASSUME IInv, IInv', TokensConserved, NEW burnt \in Nat,
           config'.total_burned = sat_add_u64(config.total_burned, burnt),
           Held' + vault' + pool' + burnt = Held + vault + pool
    PROVE  TokensConserved'
  <1> DEFINE burned == config.total_burned
             burnedNow == config'.total_burned
             in == Held + vault + pool
             inNow == Held' + vault' + pool'
  <1>1. burned \in Nat
    BY StateTypes, ConfigFields, Widths
  <1>2. in \in Nat /\ inNow \in Nat
    <2> DEFINE held == Held
               heldNow == Held'
               vaultNow == vault'
               poolNow == pool'
    <2>1. held \in Nat /\ heldNow \in Nat
      BY UsersFinite, SumType DEF Held, IInv, TypeOK
    <2>2. vault \in Nat /\ pool \in Nat /\ vaultNow \in Nat /\ poolNow \in Nat
      BY DEF IInv, TypeOK
    <2> HIDE DEF held, heldNow, vaultNow, poolNow
    <2>3. held + vault + pool \in Nat /\ heldNow + vaultNow + poolNow \in Nat
      BY <2>1, <2>2
    <2> QED
      BY <2>3 DEF held, heldNow, vaultNow, poolNow
  <1>3. in + burned = Supply
    BY DEF TokensConserved, Held
  <1>4. Supply <= U64_MAX /\ U64_MAX \in Nat
    BY SupplyAssumption, Widths
  <1>5. inNow + burnt = in /\ burnedNow = sat_add_u64(burned, burnt)
    OBVIOUS
  <1> HIDE DEF burned, burnedNow, in, inNow
  <1>6. burned + burnt <= U64_MAX
    BY <1>1, <1>2, <1>3, <1>4, <1>5
  <1>7. burnedNow = burned + burnt
    BY <1>1, <1>4, <1>5, <1>6 DEF sat_add_u64
  <1>8. inNow + burnedNow = Supply
    BY <1>1, <1>2, <1>3, <1>5, <1>7
  <1> QED
    BY <1>8 DEF TokensConserved, Held, Supply, Users, inNow, burnedNow

\* The tokens of a staker instruction.
LEMMA StakerTokens ==
    ASSUME IInv, IInv', TokensConserved, NEW u \in Owners,
           NEW added, NEW paid, NEW taken, NEW reward, NEW burn,
           LedgerStep(u, added, paid, taken, reward, burn)
    PROVE  TokensConserved'
  <1> DEFINE old == wallet[u]
             new == wallet'[u]
             before == Held
             after == Held'
  <1>1. /\ old \in Nat /\ new \in Nat
        /\ vault \in Nat /\ pool \in Nat
    BY DEF IInv, TypeOK, Users
  <1>2. before \in Nat /\ after \in Nat
    BY UsersFinite, SumType DEF Held, IInv, TypeOK
  <1>3. after + old = before + new
    BY HeldMoves DEF LedgerStep, Users
  <1>4. /\ added \in Nat /\ paid \in Nat /\ taken \in Nat /\ reward \in Nat /\ burn \in Nat
        /\ config'.total_burned = sat_add_u64(config.total_burned, burn)
        /\ new = old + paid + (taken - (reward + burn)) - added
        /\ vault' = vault + added - taken
        /\ pool' = pool - paid + reward
    BY DEF LedgerStep
  <1> HIDE DEF old, new, before, after
  <1>5. after + vault' + pool' + burn = before + vault + pool
    BY <1>1, <1>2, <1>3, <1>4
  <1> QED
    BY <1>4, <1>5, TokensKept DEF before, after

\* Tokens that one account sends to custody.
LEMMA SentTokens ==
    ASSUME IInv, IInv', TokensConserved, NEW u \in Users, NEW amount \in Nat,
           wallet' = [wallet EXCEPT ![u] = wallet[u] - amount],
           vault' + pool' = vault + pool + amount,
           config'.total_burned = config.total_burned
    PROVE  TokensConserved'
  <1> DEFINE old == wallet[u]
             new == wallet'[u]
             before == Held
             after == Held'
             vaultNow == vault'
             poolNow == pool'
  <1>1. /\ wallet \in [Users -> Nat] /\ old \in Nat
        /\ vault \in Nat /\ pool \in Nat /\ vaultNow \in Nat /\ poolNow \in Nat
    BY DEF IInv, TypeOK
  <1>2. new = old - amount /\ \A v \in Users \ {u} : wallet'[v] = wallet[v]
    BY <1>1
  <1>3. before \in Nat /\ after \in Nat
    BY UsersFinite, SumType DEF Held, IInv, TypeOK
  <1>4. after + old = before + new /\ new \in Nat
    BY <1>2, HeldMoves DEF IInv, TypeOK
  <1>5. config'.total_burned = sat_add_u64(config.total_burned, 0)
    BY StateTypes, ConfigFields, AddNothing
  <1>6. vaultNow + poolNow = vault + pool + amount
    OBVIOUS
  <1> HIDE DEF old, new, before, after, vaultNow, poolNow
  <1>7. after + vaultNow + poolNow + 0 = before + vault + pool
    BY <1>1, <1>2, <1>3, <1>4, <1>6
  <1> QED
    BY <1>5, <1>7, TokensKept DEF before, after, vaultNow, poolNow

\* The instructions on one position.
LEMMA OwnerTokens ==
    ASSUME IInv, LedgerInv, TokensConserved, NEW u \in Owners, OwnerStep(u)
    PROVE  TokensConserved'
  <1>1. CASE ActivatePosition(u)
    BY <1>1, ActivateRecords, StakerTokens
  <1>2. CASE ClaimRewards(u)
    BY <1>2, ClaimRecords, StakerTokens
  <1>3. CASE \E amount \in Deposits : Deposit(u, amount)
    BY <1>3, DepositRecords, StakerTokens
  <1>4. CASE \E amount \in Exits : Withdraw(u, amount)
    BY <1>4, WithdrawRecords, StakerTokens
  <1> QED
    BY <1>1, <1>2, <1>3, <1>4 DEF OwnerStep

\* Funding and donations.
LEMMA FundTokens ==
    ASSUME IInv, TokensConserved, NEW u \in Users, NEW amount \in Fundings, FundRewards(u, amount)
    PROVE  TokensConserved'
  <1> DEFINE c == commit_rewards_to_index(config, amount, config.eligible_locked)
  <1>1. IInv'
    BY FundSafe DEF SafeStep
  <1>2. config \in ConfigType /\ pool \in Nat /\ vault \in Nat
    BY DEF IInv, TypeOK
  <1>3. amount \in U64 /\ amount \in Nat
    BY ArenaAssumption, Widths
  <1>4. /\ commit_rewards_to_index_ok(config, amount, config.eligible_locked)
        /\ config' = [c EXCEPT !.total_rewards_funded = sat_add_u64(c.total_rewards_funded, amount)]
        /\ wallet' = [wallet EXCEPT ![u] = wallet[u] - amount]
        /\ pool' = pool + amount /\ vault' = vault
    BY DEF FundRewards
  <1>5. c \in ConfigType
    BY <1>2, <1>3, <1>4, ConfigFields, CommitType
  <1>6. c.total_burned = config.total_burned
    BY <1>2 DEF commit_rewards_to_index, add_reward_index, ConfigType
  <1> HIDE DEF c
  <1>7. config'.total_burned = config.total_burned
    BY <1>4, <1>5, <1>6 DEF ConfigType
  <1>8. vault' + pool' = vault + pool + amount
    BY <1>2, <1>3, <1>4
  <1> QED
    BY <1>1, <1>3, <1>4, <1>7, <1>8, SentTokens

LEMMA DonateTokens ==
    ASSUME IInv, TokensConserved, NEW u \in Users, NEW amount \in Donations,
           DonateToVault(u, amount) \/ DonateToPool(u, amount)
    PROVE  TokensConserved'
  <1>1. IInv'
    BY EnvironmentSafe DEF SafeStep
  <1>2. amount \in Nat /\ pool \in Nat /\ vault \in Nat
    BY ArenaAssumption, Widths DEF IInv, TypeOK
  <1>3. /\ wallet' = [wallet EXCEPT ![u] = wallet[u] - amount]
        /\ config'.total_burned = config.total_burned
    BY DEF DonateToVault, DonateToPool
  <1>4. vault' + pool' = vault + pool + amount
    BY <1>2 DEF DonateToVault, DonateToPool
  <1> QED
    BY <1>1, <1>2, <1>3, <1>4, SentTokens

\* process_finalize_rewards burns the pool.
LEMMA FinalizeTokens ==
    ASSUME IInv, TokensConserved, FinalizeRewards
    PROVE  TokensConserved'
  <1>1. IInv'
    BY FinalizeSafe DEF SafeStep
  <1>2. config \in ConfigType /\ pool \in Nat /\ vault \in Nat /\ Held \in Nat
    BY HeldType DEF IInv, TypeOK
  <1>3. /\ config' = IF pool = 0 THEN config ELSE PoolBurnedConfig(config, pool)
        /\ pool' = 0 /\ vault' = vault /\ wallet' = wallet
    BY DEF FinalizeRewards
  <1>4. config'.total_burned = sat_add_u64(config.total_burned, pool)
    <2>1. CASE pool = 0
      BY <1>2, <1>3, <2>1, ConfigFields, AddNothing
    <2>2. CASE pool # 0
      BY <1>2, <1>3, <2>2 DEF PoolBurnedConfig, ConfigType
    <2> QED
      BY <2>1, <2>2
  <1>5. Held' = Held
    BY <1>3 DEF Held, Users
  <1>6. Held' + vault' + pool' + pool = Held + vault + pool
    BY <1>2, <1>3, <1>5
  <1> QED
    BY <1>1, <1>2, <1>4, <1>6, TokensKept

\* What moves no token.
LEMMA OtherTokens ==
    ASSUME IInv, TokensConserved,
           \/ \E pol \in Policies : InitializeConfig(pol)
           \/ RollEpoch
           \/ Tick
           \/ UNCHANGED vars
    PROVE  TokensConserved'
  <1>1. UNCHANGED <<wallet, vault, pool>>
    BY DEF InitializeConfig, RollEpoch, Tick, vars
  <1>2. config'.total_burned = config.total_burned
    <2>1. CASE \E pol \in Policies : InitializeConfig(pol)
      BY <2>1 DEF InitializeConfig, IInv, Untouched, EmptyConfig
    <2>2. CASE RollEpoch
      BY <2>2, StateTypes DEF RollEpoch, ConfigType
    <2> QED
      BY <2>1, <2>2 DEF Tick, vars
  <1> QED
    BY <1>1, <1>2 DEF TokensConserved, Supply, Users

LEMMA NextTokens ==
    ASSUME IInv, LedgerInv, TokensConserved, [Next]_vars
    PROVE  TokensConserved'
  <1>1. ASSUME NEW u \in Funders, FunderStep(u) PROVE TokensConserved'
    BY <1>1, FundTokens DEF FunderStep, FundRewardsChecked, Users
  <1>2. ASSUME NEW u \in Funders, DonorStep(u) PROVE TokensConserved'
    BY <1>2, DonateTokens DEF DonorStep, Users
  <1> QED
    BY <1>1, <1>2, OwnerTokens, FinalizeTokens, OtherTokens DEF Next

\* At first all tokens are in the accounts of the users.
LEMMA InitTokens ==
    ASSUME Init
    PROVE  TokensConserved
  <1>1. /\ wallet = [u \in Users |-> InitialWallet]
        /\ vault = 0 /\ pool = 0 /\ config.total_burned = 0
    BY DEF Init, EmptyConfig
  <1>2. Supply \in Nat
    <2> DEFINE f == [u \in Users |-> InitialWallet]
    <2>1. f \in [Users -> Nat]
      BY ArenaAssumption
    <2> HIDE DEF f
    <2>2. SumOver(Users, f) \in Nat
      BY <2>1, UsersFinite, SumType
    <2> QED
      BY <2>2 DEF f, Supply
  <1>3. SumOver(Users, wallet) = Supply
    BY <1>1 DEF Supply
  <1> QED
    BY <1>1, <1>2, <1>3 DEF TokensConserved

\* However instructions, exits, penalties and finalizations follow each other:
\* no token is made or lost, and total_burned is exactly what was burned.
THEOREM AllTokensConserved == Spec => []TokensConserved
  <1>1. Init => IInv /\ LedgerInv /\ TokensConserved
    BY InitInv, InitLedger, InitTokens
  <1>2. (IInv /\ LedgerInv /\ TokensConserved) /\ [Next]_vars
           => (IInv /\ LedgerInv /\ TokensConserved)'
    BY NextLedger, NextTokens
  <1> QED
    BY <1>1, <1>2, PTL DEF Spec
=============================================================================
