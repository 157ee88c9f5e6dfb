---------------------------- MODULE RewardIndex ----------------------------
(***************************************************************************)
(* The reward accumulator of arena-lock-v2: a fixed-point global index     *)
(* (`reward_index`, scaled by REWARD_INDEX_SCALE, u128 with an overflow    *)
(* generation) and the per-position checkpoints against which a staker's   *)
(* share is accrued lazily (processor.rs, 27-30 and 454-594).              *)
(*                                                                         *)
(* Operators take and return the fields of ArenaConfig (c) and             *)
(* ArenaPosition (p) they touch.  An operator XOk is the absence of every  *)
(* error exit of X; its value is meaningful only where XOk holds.          *)
(***************************************************************************)
EXTENDS Integers

CONSTANTS
    U64_MAX,             \* u64::MAX
    U128_MAX,            \* u128::MAX
    REWARD_INDEX_SCALE   \* 10^18 in state.rs

\* 2^64 * 10^18 < 2^128: the product in reward_index_delta cannot overflow.
ASSUME WidthAssumption ==
    /\ U64_MAX \in Nat \ {0}
    /\ U128_MAX \in Nat
    /\ REWARD_INDEX_SCALE \in Nat \ {0}
    /\ U64_MAX * REWARD_INDEX_SCALE <= U128_MAX

U64 == 0 .. U64_MAX
U128 == 0 .. U128_MAX

\* Mutant: a counter that wraps.
sat_add_u64_Wrapping(a, b) == (a + b) % (U64_MAX + 1)

sat_add_u64(a, b) == IF a + b > U64_MAX THEN U64_MAX ELSE a + b

-----------------------------------------------------------------------------
(* Committing a batch of rewards to the index. *)

\* Mutant: rounds the share per unit up.
reward_index_delta_RoundedUp(amount, eligible) ==
    (amount * REWARD_INDEX_SCALE + eligible - 1) \div eligible

reward_index_delta(amount, eligible) == (amount * REWARD_INDEX_SCALE) \div eligible

reward_index_delta_ok(amount, eligible) ==
    /\ amount > 0
    /\ eligible > 0
    /\ reward_index_delta(amount, eligible) > 0

add_reward_index_ok(c, delta) ==
    c.reward_index + delta > U128_MAX => c.reward_index_generation < U64_MAX

\* Mutant: wraps without opening a new generation.
add_reward_index_SameGeneration(c, delta) ==
    [c EXCEPT !.reward_index = (@ + delta) % (U128_MAX + 1)]

add_reward_index(c, delta) ==
    LET wrapped == c.reward_index + delta > U128_MAX
    IN  [c EXCEPT !.reward_index = IF wrapped THEN @ + delta - (U128_MAX + 1) ELSE @ + delta,
                  !.reward_index_generation = IF wrapped THEN @ + 1 ELSE @]

commit_rewards_to_index_ok(c, amount, eligible) ==
    /\ reward_index_delta_ok(amount, eligible)
    /\ add_reward_index_ok(c, reward_index_delta(amount, eligible))

commit_rewards_to_index(c, amount, eligible) ==
    [add_reward_index(c, reward_index_delta(amount, eligible))
        EXCEPT !.total_rewards_distributed = sat_add_u64(@, amount)]

\* The withdraw path swallows a batch too small to move the index.
try_commit_rewards_to_index_ok(c, amount, eligible) ==
    reward_index_delta_ok(amount, eligible)
        => add_reward_index_ok(c, reward_index_delta(amount, eligible))

try_commit_rewards_to_index(c, amount, eligible) ==
    IF reward_index_delta_ok(amount, eligible)
    THEN commit_rewards_to_index(c, amount, eligible)
    ELSE c

-----------------------------------------------------------------------------
(* Settling a position against the index. *)

SameGeneration(c, p) ==
    c.reward_index_generation = p.reward_index_generation_checkpoint

\* Mutant: counts one index value too many across a wrap.
ToWrap_OffByOne(p) == (U128_MAX - p.reward_index_checkpoint) + 2

\* One wrap is bridged by the distance to the top of the old generation.
ToWrap(p) == (U128_MAX - p.reward_index_checkpoint) + 1

\* Mutant: no wrap is bridged at all.
reward_index_delta_since_ok_NoWrap(c, p) ==
    SameGeneration(c, p) /\ c.reward_index >= p.reward_index_checkpoint

reward_index_delta_since_ok(c, p) ==
    IF SameGeneration(c, p)
    THEN c.reward_index >= p.reward_index_checkpoint
    ELSE /\ c.reward_index_generation = p.reward_index_generation_checkpoint + 1
         /\ ToWrap(p) <= U128_MAX
         /\ ToWrap(p) + c.reward_index <= U128_MAX

reward_index_delta_since(c, p) ==
    IF SameGeneration(c, p)
    THEN c.reward_index - p.reward_index_checkpoint
    ELSE ToWrap(p) + c.reward_index

Scaled(c, p) ==
    p.eligible_amount * reward_index_delta_since(c, p) + p.reward_accrual_remainder

Earned(c, p) == Scaled(c, p) \div REWARD_INDEX_SCALE

Earning(c, p) == reward_index_delta_since(c, p) > 0 /\ p.eligible_amount > 0

accrue_rewards_ok(c, p) ==
    /\ reward_index_delta_since_ok(c, p)
    /\ Earning(c, p) => /\ Scaled(c, p) <= U128_MAX
                        /\ p.pending_rewards + Earned(c, p) <= U64_MAX

accrue_rewards(c, p) ==
    LET earning == Earning(c, p)
        earned == Earned(c, p)
        remainder == Scaled(c, p) % REWARD_INDEX_SCALE
    IN  [p EXCEPT
            !.pending_rewards = IF earning THEN @ + earned ELSE @,
            !.reward_accrual_remainder = IF earning THEN remainder ELSE @,
            !.reward_index_checkpoint = c.reward_index,
            !.reward_index_generation_checkpoint = c.reward_index_generation]

-----------------------------------------------------------------------------
(* Promotion of warming stake after an epoch boundary (H-02 in the code).  *)

\* Mutant: warming may end in the epoch it started in.
MatureReady_SameEpoch(c, p) ==
    p.warming_amount > 0 /\ c.current_epoch >= p.warming_epoch

MatureReady(c, p) ==
    /\ p.warming_amount > 0
    /\ c.current_epoch > p.warming_epoch

mature_warming_ok(c, p) ==
    MatureReady(c, p) =>
        /\ accrue_rewards_ok(c, p)
        /\ p.eligible_amount + p.warming_amount <= U64_MAX
        /\ p.warming_amount <= c.warming_locked
        /\ c.eligible_locked + p.warming_amount <= U64_MAX

\* Mutant (H-02): moves the checkpoint past rewards the old stake has earned.
mature_warming_position_Unaccrued(c, p) ==
    IF MatureReady(c, p)
    THEN [p EXCEPT !.eligible_amount = @ + p.warming_amount,
                   !.warming_amount = 0,
                   !.reward_index_checkpoint = c.reward_index,
                   !.reward_index_generation_checkpoint = c.reward_index_generation]
    ELSE p

\* accrue_rewards leaves the checkpoints at the current index, as the code does again.
mature_warming_position(c, p) ==
    IF MatureReady(c, p)
    THEN [accrue_rewards(c, p) EXCEPT !.eligible_amount = @ + p.warming_amount,
                                      !.warming_amount = 0]
    ELSE p

\* Mutant: promoted stake leaves warming_locked and is never counted as eligible.
mature_warming_config_Uncounted(c, p) ==
    IF MatureReady(c, p) THEN [c EXCEPT !.warming_locked = @ - p.warming_amount] ELSE c

mature_warming_config(c, p) ==
    IF MatureReady(c, p)
    THEN [c EXCEPT !.warming_locked = @ - p.warming_amount,
                   !.eligible_locked = @ + p.warming_amount]
    ELSE c

\* Every staker instruction matures, then accrues, before it does anything else.
sync_ok(c, p) ==
    /\ mature_warming_ok(c, p)
    /\ accrue_rewards_ok(mature_warming_config(c, p), mature_warming_position(c, p))

SyncedConfig(c, p) == mature_warming_config(c, p)

SyncedPosition(c, p) ==
    accrue_rewards(mature_warming_config(c, p), mature_warming_position(c, p))
=============================================================================
