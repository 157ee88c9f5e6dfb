---------------------------- MODULE PenaltySplit ----------------------------
(***************************************************************************)
(* The early-exit penalty (penalty_split, processor.rs 1452-1510): a share *)
(* of early_exit_penalty_bps of the withdrawn amount, of which a share of  *)
(* burn_penalty_bps is burned and the rest is redistributed.  The parts of *)
(* a unit left over are carried in two per-position remainders, so that    *)
(* many small exits cannot round the penalty away.  The u128 intermediates *)
(* cannot overflow: amount < 2^64 and both bps are at most 5000.           *)
(***************************************************************************)
EXTENDS Integers

BPS_DENOMINATOR == 10000
MAX_ARENA_EARLY_EXIT_PENALTY_BPS == 5000

AtMost(limit, n) == IF n <= limit THEN n ELSE limit

\* Mutant (H-03): forgets the fraction carried from earlier exits.
ScaledShare_Forgetful(amount, bps, remainder) == amount * bps

\* Mutant: rounds every share up.
ScaledShare_RoundedUp(amount, bps, remainder) ==
    amount * bps + remainder + BPS_DENOMINATOR - 1

\* amount * bps plus the carried remainder, in units of 1/BPS_DENOMINATOR.
ScaledShare(amount, bps, remainder) == amount * bps + remainder

\* Mutant: carries over what has been charged already.
penalty_split_CarriesAll(amount, penalty_bps, burn_bps, penalty_remainder, burn_remainder) ==
    LET scaled == ScaledShare(amount, penalty_bps, penalty_remainder)
    IN  [reward |-> AtMost(amount, scaled \div BPS_DENOMINATOR), burn |-> 0,
         penalty_remainder |-> scaled, burn_remainder |-> burn_remainder]

penalty_split(amount, penalty_bps, burn_bps, penalty_remainder, burn_remainder) ==
    IF penalty_bps = 0
    THEN [reward |-> 0, burn |-> 0,
          penalty_remainder |-> penalty_remainder, burn_remainder |-> burn_remainder]
    ELSE LET scaled == ScaledShare(amount, penalty_bps, penalty_remainder)
             scaled_burn == IF burn_bps > 0 THEN ScaledShare(amount, burn_bps, burn_remainder)
                                            ELSE 0
             penalty == AtMost(amount, scaled \div BPS_DENOMINATOR)
             burn == AtMost(penalty, scaled_burn \div BPS_DENOMINATOR)
         IN  [reward |-> penalty - burn, burn |-> burn,
              penalty_remainder |-> scaled % BPS_DENOMINATOR,
              burn_remainder |-> scaled_burn % BPS_DENOMINATOR]
=============================================================================
