---------------------------- MODULE RewardShares ----------------------------
(***************************************************************************)
(* What the reward accounting promises, without an index, checkpoints or   *)
(* lazy settlement: each batch of rewards is split at once among the stake *)
(* that is sharing when the batch arrives, and every owner's credit is     *)
(* exact to 1/Unit of a token.                                             *)
(***************************************************************************)
EXTENDS Integers, Totals

CONSTANTS
    Owners,
    Unit,       \* parts a token is divided into
    Amount      \* token amounts

VARIABLES
    stake,      \* owner -> stake sharing in the rewards
    credit,     \* owner -> what the pool owes, in 1/Unit
    pool        \* tokens in the pool

vars == <<stake, credit, pool>>

Total(s) == SumOver(Owners, s)

\* Parts of a token that each unit of stake s receives from a batch.
PerStake(s, batch) == IF Total(s) = 0 THEN 0 ELSE (batch * Unit) \div Total(s)

Pushed(s, c, batch) == [u \in Owners |-> c[u] + s[u] * PerStake(s, batch)]

Init ==
    /\ stake = [u \in Owners |-> 0]
    /\ credit = [u \in Owners |-> 0]
    /\ pool = 0

Fund ==
    /\ \E batch \in Amount :
          /\ PerStake(stake, batch) > 0
          /\ pool' = pool + batch
          /\ credit' = Pushed(stake, credit, batch)
    /\ UNCHANGED stake

\* All whole tokens of a credit are paid; further stake may start sharing.
Claim(u) ==
    /\ credit[u] >= Unit
    /\ credit' = [credit EXCEPT ![u] = @ % Unit]
    /\ pool' = pool - credit[u] \div Unit
    /\ \E s \in Amount : s >= stake[u] /\ stake' = [stake EXCEPT ![u] = s]

\* Stake starts sharing, with no claim on what arrived before, or leaves; a
\* penalty is shared by the stake that remains, the owner's own included.
Restake(u) ==
    \E s \in Amount :
        /\ stake' = [stake EXCEPT ![u] = s]
        /\ \E penalty \in Amount :
              /\ pool' = pool + penalty
              /\ penalty > 0 => Total(stake') > 0
              /\ credit' = Pushed(stake', credit, penalty)

\* Leaving for good also pays all whole tokens and forfeits the rest of one.
Quit(u) ==
    /\ stake' = [stake EXCEPT ![u] = 0]
    /\ \E penalty \in Amount :
          /\ pool' = pool - credit[u] \div Unit + penalty
          /\ penalty > 0 => Total(stake') > 0
          /\ credit' = Pushed(stake', [credit EXCEPT ![u] = 0], penalty)

\* What nobody is owed may be burned.
Burn ==
    /\ \A u \in Owners : stake[u] = 0 /\ credit[u] = 0
    /\ pool' = 0
    /\ UNCHANGED <<stake, credit>>

Donate ==
    /\ \E n \in Amount : pool' = pool + n
    /\ UNCHANGED <<stake, credit>>

Next ==
    \/ \E u \in Owners : Restake(u) \/ Claim(u) \/ Quit(u)
    \/ Fund
    \/ Burn
    \/ Donate

Spec == Init /\ [][Next]_vars
=============================================================================
