------------------------------- MODULE MCArena -------------------------------
(***************************************************************************)
(* Bounded instances of one arena for TLC.  The bounds are on how much of  *)
(* each unbounded thing happens in a behaviour, never on what a handler    *)
(* does with it.                                                           *)
(***************************************************************************)
EXTENDS ArenaSafety, TLC

CONSTANTS
    MaxCreated,     \* latest creation time of the arena
    MaxTime,        \* last timestamp reached by the clock
    MaxDeposited,   \* tokens an owner deposits over all of the position's life
    MaxLocked,      \* tokens locked in the arena at a time
    MaxFunded,      \* tokens funded over the life of the arena
    MaxStray,       \* tokens sent to custody from outside
    MaxBurned,      \* tokens burned over the life of the arena
    MaxGeneration   \* wraps of the reward index

Symmetry == Permutations(Owners)

\* 50 % penalty, half of it burned; a deposit of 4 is the least that charges both.
HalfAndHalf ==
    [min_lock_seconds |-> 3, activation_delay_seconds |-> 1, epoch_seconds |-> 1,
     min_deposit_amount |-> 4, early_exit_penalty_bps |-> 5000, burn_penalty_bps |-> 2500]

\* 50 % penalty, all of it redistributed.
AllShared ==
    [min_lock_seconds |-> 3, activation_delay_seconds |-> 1, epoch_seconds |-> 1,
     min_deposit_amount |-> 2, early_exit_penalty_bps |-> 5000, burn_penalty_bps |-> 0]

NoPenalty ==
    [min_lock_seconds |-> 3, activation_delay_seconds |-> 1, epoch_seconds |-> 1,
     min_deposit_amount |-> 1, early_exit_penalty_bps |-> 0, burn_penalty_bps |-> 0]

\* An epoch of two seconds, so that activation may fall inside one.
LongEpochs == [NoPenalty EXCEPT !.min_lock_seconds = 5, !.epoch_seconds = 2]

\* Rejected by assert_lock_policy: one epoch short.
ShortLock == [LongEpochs EXCEPT !.min_lock_seconds = 3]

PromptPolicies == {LongEpochs, ShortLock}
OnePolicy == {HalfAndHalf}
SharedPolicy == {AllShared}
TwoPolicies == {HalfAndHalf, NoPenalty}
FreePolicy == {NoPenalty}
OneSnapshot == {<<4, 2>>}

Bounded ==
    /\ config'.created_ts <= MaxCreated
    /\ now' <= MaxTime
    /\ \A u \in Owners : position'[u].total_deposited <= MaxDeposited
    /\ config'.total_locked <= MaxLocked
    /\ config'.total_rewards_funded <= MaxFunded
    /\ stray'.vault + stray'.pool <= MaxStray
    /\ config'.total_burned <= MaxBurned
    /\ config'.reward_index_generation <= MaxGeneration

MCNext == Next /\ Bounded

MCSpec == Init /\ [][MCNext]_vars

\* Prompt owners and keepers, the schedule that the lock policy is about.
MCPromptSpec == Init /\ [][MCNext /\ Promptly]_vars
=============================================================================
