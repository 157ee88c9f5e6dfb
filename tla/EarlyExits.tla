----------------------------- MODULE EarlyExits -----------------------------
(***************************************************************************)
(* The early exits of one position, at the real rates of the program: what *)
(* a stake taken out in pieces is charged, piece by piece, against what it *)
(* would be charged taken out at once (process_withdraw, 1680-1714).       *)
(***************************************************************************)
EXTENDS PenaltySplit

CONSTANTS
    MaxExited,   \* tokens taken out early over all pieces
    Pieces,      \* amounts offered to Withdraw
    Rates        \* early_exit_penalty_bps and burn_penalty_bps of a config

ASSUME EarlyExitsAssumption ==
    /\ MaxExited \in Nat
    /\ Pieces \subseteq Nat \ {0}
    /\ Rates \subseteq [penalty: 1 .. MAX_ARENA_EARLY_EXIT_PENALTY_BPS, burn: Nat]
    /\ \A r \in Rates : r.burn <= r.penalty

VARIABLES
    rate,         \* the rates of the config
    remainders,   \* penalty_remainder and burn_remainder of the position
    exited,       \* history: tokens taken out since the remainders were zero
    redistributed,\* history: part of the penalty sent to the reward pool
    burned        \* history: part of the penalty burned

vars == <<rate, remainders, exited, redistributed, burned>>

Init ==
    /\ rate \in Rates
    /\ remainders = [penalty |-> 0, burn |-> 0]
    /\ exited = 0
    /\ redistributed = 0
    /\ burned = 0

\* Withdraw before unlock_ts, while other mature stake can take its share.
EarlyExit(amount) ==
    LET split == penalty_split(amount, rate.penalty, rate.burn, remainders.penalty, remainders.burn)
    IN  /\ exited + amount <= MaxExited
        /\ exited' = exited + amount
        /\ redistributed' = redistributed + split.reward
        /\ burned' = burned + split.burn
        /\ remainders' = [penalty |-> split.penalty_remainder, burn |-> split.burn_remainder]
        /\ UNCHANGED rate

\* Withdraw at or after unlock_ts charges nothing and clears the remainders.
LateExit ==
    /\ remainders' = [penalty |-> 0, burn |-> 0]
    /\ exited' = 0
    /\ redistributed' = 0
    /\ burned' = 0
    /\ UNCHANGED rate

Next == LateExit \/ \E amount \in Pieces : EarlyExit(amount)

Spec == Init /\ [][Next]_vars

-----------------------------------------------------------------------------
(* What taking a stake out in pieces may not change. *)

\* A carried fraction stays below one unit.
TypeOK ==
    /\ rate \in Rates
    /\ remainders \in [penalty: 0 .. BPS_DENOMINATOR - 1, burn: 0 .. BPS_DENOMINATOR - 1]
    /\ exited \in 0 .. MaxExited
    /\ redistributed \in Nat
    /\ burned \in Nat

BulkShare(bps) == (exited * bps) \div BPS_DENOMINATOR

\* However a stake is cut up, its pieces pay together the penalty of one exit
\* (H-03 in the code): no fraction is lost or charged twice, and the cap at
\* the amount of the piece never bites.
PenaltyMatchesBulk == redistributed + burned = BulkShare(rate.penalty)

\* The pieces never burn more than one exit would, so what is redistributed is
\* never less than its share.
BurnAtMostBulk == burned <= BulkShare(rate.burn)

\* The pieces burn together what one exit would burn, as the documented
\* "independent cumulative burn_remainder" says.
BurnMatchesBulk == burned = BulkShare(rate.burn)
=============================================================================
