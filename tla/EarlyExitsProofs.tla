-------------------------- MODULE EarlyExitsProofs --------------------------
(***************************************************************************)
(* For every stake, every cut into pieces and every admissible pair of     *)
(* rates: the penalty is the bulk penalty and the burn is at most the bulk *)
(* burn.                                                                   *)
(***************************************************************************)
EXTENDS EarlyExits, TLAPS

\* The exact account: what was charged and what is carried make up the share
\* of everything taken out.  BulkShare, a quotient, is not inductive by itself.
Inv ==
    /\ TypeOK
    /\ exited * rate.penalty = (redistributed + burned) * BPS_DENOMINATOR + remainders.penalty
    /\ burned * BPS_DENOMINATOR + remainders.burn <= exited * rate.burn

\* The two constants of state.rs, as numbers.
LEMMA Constants == BPS_DENOMINATOR = 10000 /\ MAX_ARENA_EARLY_EXIT_PENALTY_BPS = 5000
  BY DEF BPS_DENOMINATOR, MAX_ARENA_EARLY_EXIT_PENALTY_BPS

\* A product of naturals is one.
LEMMA NatProduct == \A m, n \in Nat : m * n \in Nat
  OBVIOUS

\* Quotient and remainder by BPS_DENOMINATOR, as one equation.
LEMMA Division ==
    ASSUME NEW n \in Nat
    PROVE  /\ n \div 10000 \in Nat
           /\ n % 10000 \in Nat
           /\ n % 10000 < 10000
           /\ n = (n \div 10000) * 10000 + (n % 10000)
  OBVIOUS

\* Admissible rates, and remainders below one unit.
SplitInputs(amount, pbps, bbps, prem, brem) ==
    /\ amount \in Nat /\ amount > 0
    /\ pbps \in Nat /\ pbps > 0 /\ pbps <= 5000
    /\ bbps \in Nat
    /\ prem \in Nat /\ prem < 10000
    /\ brem \in Nat /\ brem < 10000

\* Charge and carry make up the share; the burn and its carry at most theirs.
ExactSplit(split, amount, pbps, bbps, prem, brem) ==
    /\ split.reward \in Nat
    /\ split.burn \in Nat
    /\ split.penalty_remainder \in Nat /\ split.penalty_remainder < 10000
    /\ split.burn_remainder \in Nat /\ split.burn_remainder < 10000
    /\ amount * pbps + prem = (split.reward + split.burn) * 10000 + split.penalty_remainder
    /\ split.burn * 10000 + split.burn_remainder <= amount * bbps + brem

\* One split is exact: the penalty is the quotient of the scaled amount (the
\* cap at the amount is idle) and the burn never exceeds the quotient of its own.
LEMMA SplitExact ==
    ASSUME NEW amount, NEW pbps, NEW bbps, NEW prem, NEW brem,
           SplitInputs(amount, pbps, bbps, prem, brem)
    PROVE  ExactSplit(penalty_split(amount, pbps, bbps, prem, brem),
                      amount, pbps, bbps, prem, brem)
  <1> DEFINE product == amount * pbps
             burn_product == amount * bbps
             scaled == product + prem
             scaled_burn == IF bbps > 0 THEN burn_product + brem ELSE 0
             penalty == scaled \div 10000
             burn == AtMost(penalty, scaled_burn \div 10000)
             split == penalty_split(amount, pbps, bbps, prem, brem)
  <1>0. /\ amount \in Nat /\ amount > 0
        /\ pbps \in Nat /\ pbps > 0 /\ pbps <= 5000
        /\ bbps \in Nat
        /\ prem \in Nat /\ prem < 10000
        /\ brem \in Nat /\ brem < 10000
    BY DEF SplitInputs
  <1>1. product \in Nat /\ product <= amount * 5000
    BY <1>0
  <1>2. burn_product \in Nat
    BY <1>0
  <1>3. split = [reward |-> AtMost(amount, penalty)
                              - AtMost(AtMost(amount, penalty), scaled_burn \div 10000),
                 burn |-> AtMost(AtMost(amount, penalty), scaled_burn \div 10000),
                 penalty_remainder |-> scaled % 10000,
                 burn_remainder |-> scaled_burn % 10000]
    BY <1>0 DEF penalty_split, ScaledShare, BPS_DENOMINATOR
  <1> HIDE DEF product, burn_product, split
  <1>4. /\ scaled \in Nat /\ scaled <= amount * 5000 + 9999
        /\ scaled_burn \in Nat /\ scaled_burn <= burn_product + brem
    BY <1>0, <1>1, <1>2
  <1> HIDE DEF scaled, scaled_burn
  <1>5. /\ penalty \in Nat /\ scaled % 10000 \in Nat /\ scaled % 10000 < 10000
        /\ scaled = penalty * 10000 + (scaled % 10000)
    BY <1>4, Division
  <1>6. /\ scaled_burn \div 10000 \in Nat
        /\ scaled_burn % 10000 \in Nat /\ scaled_burn % 10000 < 10000
        /\ scaled_burn = (scaled_burn \div 10000) * 10000 + (scaled_burn % 10000)
    BY <1>4, Division
  <1> HIDE DEF penalty
  <1>7. penalty <= amount
    BY <1>0, <1>4, <1>5
  <1>8. AtMost(amount, penalty) = penalty
    BY <1>0, <1>5, <1>7 DEF AtMost
  <1>9. burn \in Nat /\ burn <= penalty /\ burn <= scaled_burn \div 10000
    BY <1>5, <1>6 DEF AtMost
  <1>10. /\ split.reward = penalty - burn
         /\ split.burn = burn
         /\ split.penalty_remainder = scaled % 10000
         /\ split.burn_remainder = scaled_burn % 10000
    BY <1>3, <1>8
  <1> HIDE DEF burn
  <1>11. split.reward \in Nat /\ split.reward + split.burn = penalty
    BY <1>5, <1>9, <1>10
  <1>12. burn * 10000 + (scaled_burn % 10000) <= burn_product + brem
    BY <1>0, <1>2, <1>4, <1>6, <1>9
  <1>13. scaled = product + prem
    BY DEF scaled
  <1>14. amount * pbps + prem
           = (split.reward + split.burn) * 10000 + split.penalty_remainder
    BY <1>5, <1>10, <1>11, <1>13 DEF product
  <1>15. split.burn * 10000 + split.burn_remainder <= amount * bbps + brem
    BY <1>10, <1>12 DEF burn_product
  <1>16. /\ split.reward \in Nat
         /\ split.burn \in Nat
         /\ split.penalty_remainder \in Nat /\ split.penalty_remainder < 10000
         /\ split.burn_remainder \in Nat /\ split.burn_remainder < 10000
    BY <1>5, <1>6, <1>9, <1>10, <1>11
  <1>17. ExactSplit(split, amount, pbps, bbps, prem, brem)
    BY <1>14, <1>15, <1>16 DEF ExactSplit
  <1> QED BY <1>17 DEF split

-----------------------------------------------------------------------------
\* What the types say of each variable, one number at a time.
LEMMA Typing ==
    ASSUME TypeOK
    PROVE  /\ rate \in Rates
           /\ rate.penalty \in Nat /\ rate.penalty > 0 /\ rate.penalty <= 5000
           /\ rate.burn \in Nat
           /\ remainders.penalty \in Nat /\ remainders.penalty < 10000
           /\ remainders.burn \in Nat /\ remainders.burn < 10000
           /\ MaxExited \in Nat /\ exited \in Nat /\ exited <= MaxExited
           /\ redistributed \in Nat /\ burned \in Nat
  <1> DEFINE K == BPS_DENOMINATOR
             M == MAX_ARENA_EARLY_EXIT_PENALTY_BPS
  <1>1. K \in Nat /\ M \in Nat
    BY Constants
  <1>2. rate.penalty \in Nat /\ rate.penalty > 0 /\ rate.penalty <= M /\ rate.burn \in Nat
    BY <1>1, EarlyExitsAssumption DEF TypeOK
  <1>3. /\ remainders.penalty \in Nat /\ remainders.penalty < K
        /\ remainders.burn \in Nat /\ remainders.burn < K
    BY <1>1 DEF TypeOK
  <1>4. K = 10000 /\ M = 5000
    BY Constants
  <1> HIDE DEF K, M
  <1> QED BY <1>2, <1>3, <1>4, EarlyExitsAssumption DEF TypeOK

\* Nothing has been charged or carried yet.
LEMMA InitInv == Init => Inv
  <1> SUFFICES ASSUME Init PROVE Inv
    OBVIOUS
  <1>1. BPS_DENOMINATOR - 1 \in Nat
    BY Constants
  <1>2. TypeOK
    BY <1>1, EarlyExitsAssumption DEF Init, TypeOK
  <1> QED BY <1>2, Typing, Constants DEF Init, Inv

\* One piece: both accounts grow by the same share.
LEMMA EarlyExitInv ==
    ASSUME Inv, NEW amount \in Pieces, EarlyExit(amount)
    PROVE  Inv'
  <1> DEFINE pbps == rate.penalty
             bbps == rate.burn
             prem == remainders.penalty
             brem == remainders.burn
             split == penalty_split(amount, pbps, bbps, prem, brem)
             reward == split.reward
             burn == split.burn
             prem2 == split.penalty_remainder
             brem2 == split.burn_remainder
  <1>1. /\ amount \in Nat /\ amount > 0
        /\ pbps \in Nat /\ pbps > 0 /\ pbps <= 5000 /\ bbps \in Nat
        /\ prem \in Nat /\ prem < 10000 /\ brem \in Nat /\ brem < 10000
        /\ MaxExited \in Nat /\ exited \in Nat /\ exited <= MaxExited
        /\ redistributed \in Nat /\ burned \in Nat
        /\ rate \in Rates
    BY EarlyExitsAssumption, Typing DEF Inv
  <1>2. /\ exited + amount <= MaxExited
        /\ exited' = exited + amount
        /\ redistributed' = redistributed + reward
        /\ burned' = burned + burn
        /\ remainders' = [penalty |-> prem2, burn |-> brem2]
        /\ rate' = rate
    BY DEF EarlyExit
  <1>3. /\ exited * pbps = (redistributed + burned) * 10000 + prem
        /\ burned * 10000 + brem <= exited * bbps
    BY Constants DEF Inv
  <1> HIDE DEF pbps, bbps, prem, brem
  <1>4. /\ reward \in Nat
        /\ burn \in Nat
        /\ prem2 \in Nat /\ prem2 < 10000
        /\ brem2 \in Nat /\ brem2 < 10000
        /\ amount * pbps + prem = (reward + burn) * 10000 + prem2
        /\ burn * 10000 + brem2 <= amount * bbps + brem
    <2>1. SplitInputs(amount, pbps, bbps, prem, brem)
      BY <1>1 DEF SplitInputs
    <2>2. ExactSplit(split, amount, pbps, bbps, prem, brem)
      BY <2>1, SplitExact DEF split
    <2> HIDE DEF split
    <2> QED BY <2>2 DEF ExactSplit
  <1> HIDE DEF split, reward, burn, prem2, brem2
  <1>5. TypeOK'
    <2> DEFINE K == BPS_DENOMINATOR - 1
    <2>1. K \in Nat /\ prem2 <= K /\ brem2 <= K
      BY <1>4, Constants
    <2>2. prem2 \in 0 .. K /\ brem2 \in 0 .. K
      <3> HIDE DEF K
      <3> QED BY <1>4, <2>1
    <2>3. /\ exited' \in 0 .. MaxExited /\ redistributed' \in Nat /\ burned' \in Nat
      BY <1>1, <1>2, <1>4
    <2> QED BY <1>1, <1>2, <2>2, <2>3 DEF TypeOK
  <1>6. /\ (exited + amount) * pbps = exited * pbps + amount * pbps
        /\ (exited + amount) * bbps = exited * bbps + amount * bbps
    BY <1>1
  <1>7. /\ (exited * pbps) \in Nat /\ (amount * pbps) \in Nat
        /\ (exited * bbps) \in Nat /\ (amount * bbps) \in Nat
    BY <1>1, NatProduct
  <1>8. (exited + amount) * pbps
          = ((redistributed + reward) + (burned + burn)) * 10000 + prem2
    BY <1>1, <1>3, <1>4, <1>6, <1>7
  <1>9. (burned + burn) * 10000 + brem2 <= (exited + amount) * bbps
    BY <1>1, <1>3, <1>4, <1>6, <1>7
  <1>10. /\ remainders'.penalty = prem2 /\ remainders'.burn = brem2
         /\ rate'.penalty = pbps /\ rate'.burn = bbps
    BY <1>2 DEF pbps, bbps
  <1>11. exited' * rate'.penalty
           = (redistributed' + burned') * BPS_DENOMINATOR + remainders'.penalty
    BY <1>2, <1>8, <1>10, Constants
  <1>12. burned' * BPS_DENOMINATOR + remainders'.burn <= exited' * rate'.burn
    BY <1>2, <1>9, <1>10, Constants
  <1> QED BY <1>5, <1>11, <1>12 DEF Inv

\* A further exit adds the same amount to both sides of the account.
LEMMA NextInv == Inv /\ [Next]_vars => Inv'
  <1> SUFFICES ASSUME Inv, [Next]_vars PROVE Inv'
    OBVIOUS
  <1>1. CASE LateExit
    <2>1. BPS_DENOMINATOR - 1 \in Nat
      BY Constants
    <2>2. TypeOK'
      BY <1>1, <2>1, EarlyExitsAssumption DEF LateExit, Inv, TypeOK
    <2>3. /\ exited' = 0 /\ redistributed' = 0 /\ burned' = 0
          /\ remainders'.penalty = 0 /\ remainders'.burn = 0
          /\ rate'.penalty \in Nat /\ rate'.burn \in Nat
      BY <1>1, Typing DEF LateExit, Inv
    <2> QED BY <2>2, <2>3, Constants DEF Inv
  <1>2. ASSUME NEW amount \in Pieces, EarlyExit(amount) PROVE Inv'
    BY <1>2, EarlyExitInv
  <1>3. CASE UNCHANGED vars
    BY <1>3 DEF vars, Inv, TypeOK
  <1> QED BY <1>1, <1>2, <1>3 DEF Next

\* Reading the quotients off the exact account.
LEMMA InvImplies == Inv => PenaltyMatchesBulk /\ BurnAtMostBulk
  <1> SUFFICES ASSUME Inv PROVE PenaltyMatchesBulk /\ BurnAtMostBulk
    OBVIOUS
  <1> DEFINE owed == exited * rate.penalty
             burn_owed == exited * rate.burn
             prem == remainders.penalty
             brem == remainders.burn
  <1>1. /\ redistributed \in Nat /\ burned \in Nat
        /\ prem \in Nat /\ prem < 10000 /\ brem \in Nat /\ brem < 10000
    BY Typing DEF Inv
  <1>2. owed \in Nat /\ burn_owed \in Nat
    BY Typing, NatProduct DEF Inv
  <1>3. /\ owed = (redistributed + burned) * 10000 + prem
        /\ burned * 10000 + brem <= burn_owed
    BY Constants DEF Inv
  <1> HIDE DEF owed, burn_owed, prem, brem
  <1>4. owed \div 10000 = redistributed + burned
    BY <1>1, <1>2, <1>3
  <1>5. burned <= burn_owed \div 10000
    BY <1>1, <1>2, <1>3
  <1> QED BY <1>4, <1>5, Constants
          DEF PenaltyMatchesBulk, BurnAtMostBulk, BulkShare, owed, burn_owed

\* The exact account holds after any number of exits.
THEOREM InvHolds == Spec => []Inv
  <1> QED BY InitInv, NextInv, PTL DEF Spec

\* A stake cut into pieces pays the penalty of a bulk exit: no sequence of
\* early exits rounds any of it away (H-03).
THEOREM SplittingNeverSavesPenalty == Spec => []PenaltyMatchesBulk
  <1> QED BY InvHolds, InvImplies, PTL

\* The burned part never exceeds that of a bulk exit.
THEOREM SplittingNeverBurnsMore == Spec => []BurnAtMostBulk
  <1> QED BY InvHolds, InvImplies, PTL

\* The carried fractions stay below one unit.
THEOREM TypeCorrect == Spec => []TypeOK
  <1> QED BY InvHolds, PTL DEF Inv
=============================================================================
