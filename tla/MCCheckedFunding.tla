--------------------------- MODULE MCCheckedFunding ---------------------------
(***************************************************************************)
(* Two owners whose stake may mature before and after the client's read,   *)
(* and a funder whose transaction lands at any later time, twice at most.  *)
(***************************************************************************)
EXTENDS CheckedFunding, TLC

CONSTANTS
    MaxTime,        \* last timestamp reached by the clock
    MaxDeposited,   \* tokens an owner deposits over all of the position's life
    MaxLanded       \* copies of one transaction that land

Symmetry == Permutations(Owners)

FreePolicies ==
    {[min_lock_seconds |-> 3, activation_delay_seconds |-> 1, epoch_seconds |-> 1,
      min_deposit_amount |-> 1, early_exit_penalty_bps |-> 0, burn_penalty_bps |-> 0]}

\* The arena opens at time 0.  One quote per behaviour, read when there is
\* stake to share: what an earlier or another client read makes no difference.
Bounded ==
    /\ quote' # quote /\ quote'.landed <= quote.landed
          => quote = NoQuote /\ quote'.eligible > 0
    /\ config'.created_ts = 0
    /\ now' <= (IF config.is_initialized THEN MaxTime ELSE 0)
    /\ \A u \in Owners : position'[u].total_deposited <= MaxDeposited
    /\ quote'.landed <= MaxLanded

MCSpec == CFInit /\ [][CFNext /\ Bounded]_<<vars, quote>>
=============================================================================
