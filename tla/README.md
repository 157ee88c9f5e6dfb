# arena-lock-v2 in TLA+

`arena-lock-v2` is a native Solana program for one thing: owners lock a token in
an *arena*, wait until the stake is mature, and share the rewards that funders
send to the arena; who leaves early pays a penalty, part of which is burned and
part of which goes to those who stay. This directory holds a model of the
program, the TLC runs that check it on small instances, and TLAPS proofs of what
holds for every value of the constants.

Paths below are relative to `src/programs/arena-lock-v2/src/` unless they start
with `docs/`; line numbers refer to `processor.rs` unless another file is named.

## 1. The system

### State

| account | what it holds | model |
|---|---|---|
| `ArenaConfig` (`state.rs` 18-57) | immutable parameters of an arena; the totals of the stake buckets; the reward index and its generation; counters | `policy`, `config` |
| `ArenaPosition` (`state.rs` 84-116), one per owner and config | locked stake in three buckets (pending, warming, eligible), lock and activation times, index checkpoint, unpaid rewards, three carried fractions, counters | `position` |
| vault token account | principal | `vault` |
| reward pool token account | rewards and redistributed penalties | `pool` |
| owners' and funders' token accounts | | `wallet` |
| `Clock` sysvar | | `now` |

Each config has its own vault, pool and vault authority. That arenas therefore do
not share state is not taken for granted: `ArenaLock` models one arena in depth,
with the right accounts in every instruction, and `ArenaCustody` models which accounts
the guards accept, for several arenas beside each other. Its state:

| account | in the code | model |
|---|---|---|
| configs | the fields that name accounts: mint, token program, vault, pool | `arena` |
| positions | existence and `locked_amount` | `opened`, `stake` |
| lamports of program accounts | read by `create_program_account` | `lamports` |
| token accounts and mints | what the unpackings and custody checks read | `token`, `mint` |
| pool tokens that stakers own | (a matter of `ArenaLock`) | `owed` |

### Operations and how they interact

A unit of stake moves pending -> warming -> eligible, and out:

* `InitializeConfig` fixes the parameters. `assert_lock_policy` demands a lock of
  at least the activation delay plus two epochs.
* `Deposit` adds pending stake and locks the position for `min_lock_seconds` from
  now; a top-up extends clocks and never resets them (H1).
* `ActivatePosition` turns pending stake into warming stake once the activation
  delay is over; with nothing pending it only brings the position up to date.
* `RollEpoch` (anyone) advances the epoch by one on a fixed schedule.
* Whoever touches the position after the epoch in which it started warming
  promotes the stake to eligible (`mature_warming_if_ready`, H-02).
* `FundRewards` and `FundRewardsChecked` send rewards; they are indexed at once
  over the eligible stake of that moment.
* `ClaimRewards` pays whole reward tokens; the fraction is carried.
* `Withdraw` takes stake out in the order pending, warming, eligible, charges the
  early-exit penalty before unlock, pays pending rewards on a full exit.
* `FinalizeRewards` (anyone) burns the pool when no stake is left.

Instructions interact through the config totals and the reward index: every
handler changes totals that are the sums of what *other* positions hold, and a
position learns what it earned only when it is next touched
(`reward_index_delta_since`, `accrue_rewards`). All staker handlers start with the
same two calls, promotion and accrual (`SyncedConfig`, `SyncedPosition`).

### What is hard

The program has no threads. Its concurrency is that of the ledger: instructions
of different signers arrive in any order, at any time, and each is atomic (the
runtime rolls back a failing one). Hard are therefore

* long interleavings of several owners with funders and keepers, because reward
  accounting is lazy: an error in a checkpoint shows many instructions later and
  in another account;
* integer arithmetic at its edges: rounding that is carried in fractions, an index
  that wraps `u128`, saturating counters, products near the width;
* time: late keepers, late owners, top-ups in the middle of a lock;
* totals that are kept incrementally and trusted by `FundRewards` (denominator) and
  `FinalizeRewards` (may I burn?);
* clients: a funding transaction that lands after the state it was computed from has
  changed, or twice; an account list with one entry that names another account;
* progress: the program does nothing by itself, so maturity, payment and finalization
  wait for somebody to send an instruction, which may be refused for reasons that other
  instructions create;
* a token program that anybody uses: custody accounts are checked once at creation and
  again in every instruction, and between those everything about them that is
  not the program's may have changed.

The `hazards` of `PROJECT.json` name each at its line with the properties that
would catch it, or say why none can.

### Components and what makes each correct

| component | correct if | status |
|---|---|---|
| Reward accumulator (454-594) | settling lazily gives each owner what an immediate split would have given; the pool always covers it; the wrap loses nothing | modelled: `RewardIndex`, `RewardShares` |
| Early-exit penalty (1452-1510) | cutting a stake into pieces does not change what it pays | modelled: `PenaltySplit`, `EarlyExits` |
| Arena instructions (596-1763) | stake and tokens are conserved, principal can always leave, locks are kept, fresh stake waits, the epoch schedule does not drift | modelled: `ArenaLock`, `ArenaSafety` |
| Checked funding by clients (1057-1064) | a funding that lands late, or twice, is shared as it was quoted | modelled: `CheckedFunding` |
| Keepers | prompt keepers give the promised exposure; if somebody acts, stake matures, rewards get paid and an empty arena is emptied | modelled: any caller at any time in `Spec`, prompt ones in `PromptSpec` (both `ArenaSafety`), fair ones in `Progress` |
| Account and signer guards (28-62, 116-160, 294-452 and the head of each handler) | each arena's custody stays its own, payouts reach the owner, right lists are never refused | modelled: `ArenaCustody` |
| Account creation (180-210) | one config, one position per owner, rent exempt whatever was at the address | modelled: `ArenaLock`, `ArenaCustody` |
| Instruction builders (`instruction.rs`) | what they build is what the handlers accept | modelled: `ArenaAccounts`, composed with the guards in `ArenaCustody` |
| Serialization (`state.rs`) | round trip | not modelled, see section 8 |
| Entrypoint and errors | | not modelled |
| Deployment scripts, documents, end-to-end tests | | not modelled; read for what they promise |

## 2. Modules

```
RewardIndex     PenaltySplit            pure operators, one per function of processor.rs
      \         /        \
       ArenaLock          EarlyExits ---- MCEarlyExits
           |
      ArenaSafety ----> RewardShares    (refines)
      /    |     \
     /     |      Totals                sums over the owners, used by both (and ArenaCustody)
 MCArena   |
    |   CheckedFunding ---- MCCheckedFunding    one arena with its clients ...
 Progress                                       ... and its keepers

 ArenaAccounts --- ArenaCustody --- MCCustody   several arenas and the token program

 ArenaLockProofs ---- TotalsProofs ---- ArenaCustodyProofs      EarlyExitsProofs
            \          /
             both used by
            /          \
 ArenaRewardsProofs   ArenaLedgerProofs
       |         \     /
       |      ArenaExitProofs
 CheckedFundingProofs
```

* `RewardIndex`: index arithmetic, accrual and promotion. Operators take the config
  record `c` and the position record `p` and return the new one. `X_ok` is the
  absence of every error exit (`?`) of function `X`; a state where `X_ok` fails is
  one where the instruction is rolled back, so it is a guard of the action.
* `PenaltySplit`: `penalty_split` with its two carried remainders.
* `ArenaLock`: variables, `Init`, one action per instruction, the environment
  (transfers to custody from outside, the clock), `Next`, `Spec`.
* `ArenaSafety`: the type invariant, the promises, the prompt schedule that the lock
  policy is about (`PromptSpec`), and the instance of `RewardShares` under the
  refinement mapping.
* `RewardShares`: the abstract specification of the rewards. No index, no
  checkpoints, no touching: each batch is split at once among the sharing stake and
  each owner has an exact credit.
* `Totals`: the sum of a number over a set of owners, counted as the size of a set of
  units, so that the theory of finite sets is enough to reason about it.
* `EarlyExits`: the sequence of early exits of one position at the real basis
  points, where the remainders matter, without the rest of the arena.
* `CheckedFunding`: a client composed with the whole arena. It reads a snapshot, and
  any number of instructions later its `FundRewardsChecked` lands, never, once or again.
* `Progress`: who is fair, and what follows (section 3, Fairness).
* `ArenaAccounts`: the addresses and the account list of every builder in
  `instruction.rs`. A derived address is the tuple of its seeds.
* `ArenaCustody`: the guards of every handler over those lists, what an accepted
  instruction does to the token accounts, and the token program used by everybody else.
* `MCArena`, `MCEarlyExits`, `MCCheckedFunding`, `MCCustody`: bounds, policies, rates and
  initial accounts for TLC.
* `ArenaLockProofs`, `TotalsProofs`, `ArenaRewardsProofs`, `ArenaLedgerProofs`,
  `ArenaExitProofs`, `CheckedFundingProofs`, `EarlyExitsProofs`, `ArenaCustodyProofs`:
  theorems (section 5).

### Correspondence

| code | model |
|---|---|
| dispatch (64-114) | `Next`, `OwnerStep`, `FunderStep` |
| `process_initialize_config` | `InitializeConfig`, `AcceptablePolicy`, `assert_lock_policy` |
| `process_deposit` | `Deposit`, `NewPosition`, `DepositedPosition` |
| `process_activate_position` | `ActivatePosition` = `ActivateSyncOnly` (its early return) or `ActivatePending` |
| `process_fund_rewards` | `FundRewards`, `FundRewardsChecked` (`expected_snapshot`) |
| `process_roll_epoch` | `RollEpoch` |
| `process_finalize_rewards`, `burn_reward_pool_balance` | `FinalizeRewards`, `PoolBurnedConfig` |
| `process_claim_rewards`, `pay_pending_rewards` | `ClaimRewards`, `PaidPosition`, `PaidConfig` |
| `process_withdraw`, `reduce_position_stake` | `Withdraw`, `WithdrawOk`, `ExitSplit`, `ReducedPosition`, `ReducedConfig` |
| token program | changes of `wallet`, `vault`, `pool`; a burned token leaves `pool` or `vault` for nowhere |
| `unpack_token_account`, `mint_decimals`, `assert_token_account`, `assert_custody_token_account` | the operators of the same names in `ArenaCustody` |
| the checks at the head of `process_X` | `XAccepts(list)`, conjunct by conjunct in the order of the list |
| `create_program_account` | the operator of that name in `ArenaCustody` |
| the builder `x` of `instruction.rs` | `x(...)` in `ArenaAccounts` |
| a client that calls a builder and may name a wrong account | `Sent(list)`: the list, or the list with one entry replaced by another account of a kind that entry has |
| a client that shows a quote and funds later (`src/README.md` 68-70) | `ReadSnapshot`, `FundingLands` |

`ArenaCustody` abstracts the amounts: an accepted withdrawal may take any part of the
stake, split in any way into returned, shared and burned tokens. How much each part is
is the subject of `ArenaLock`; what `ArenaCustody` shows holds for every such split.
`ActivatePosition` and `RollEpoch` change nothing that `ArenaCustody` keeps, so that only
their guards are there.

`ArenaLock` keeps two accounts that the code deserializes as one: `policy` has the
fields that nothing after `InitializeConfig` writes, `config` the others. A position
that does not exist yet is `EmptyPosition` (zero bytes, the code's own test for it).
`last_activity_ts` is written and never read, and is left out. `stray` is a history
variable: what arrived in custody from outside the program, which the code cannot
know and which the conservation properties have to subtract.

The widths are constants: `U64_MAX`, `U128_MAX`, `I64_MAX` and `REWARD_INDEX_SCALE`.
Time starts at 0 and stops at `I64_MAX`, the last value of `Clock::unix_timestamp`, so a
timestamp is an element of `Timestamp`, which is part of `TypeOK`.
Their only assumption, `WidthAssumption`, is that a `u64` times the scale fits a
`u128`, which holds of the real ones (2^64 * 10^18 < 2^128) and is what makes the
product in `reward_index_delta` safe.

## 3. Runs

| run | instance | question |
|---|---|---|
| `top_ups` | 1 owner, 1 funder and donor, a charging and a free policy, top-up, partial exits | do stake, tokens, counters, epochs and clocks stay consistent in every interleaving? |
| `two_owners` | 2 owners, 50 % penalty, half of it burned | are totals sums, is every debt covered, can everybody leave, does nobody who left keep a claim? |
| `shares` | 2 owners, the whole penalty redistributed, top-up | is lazy settlement a refinement of the immediate split? |
| `index_wrap` | 2 owners, a `u128` of 21 values | what does it take to wrap the index, and what happens when it wraps, once and twice? |
| `prompt` | epochs of two seconds, a lock that satisfies the policy and one that is an epoch short | does the lock policy keep warming stake locked and give one whole epoch of exposure? |
| `early_exits` | six pairs of real rates, pieces of 1, 2, 3, 7 up to 120 | do the pieces of a stake pay what the whole would? |
| `checked_funding` | 2 owners, one quote that lands up to twice at any time | who can share in a checked funding that lands late, and how much? |
| `progress` | 1 owner, donor, funder, fair clock, keepers and owner | does stake mature, do rewards get paid, is an abandoned arena emptied? |
| `edges` | a `u64` of three values, a `u128` of ten, clock to its last value | does saturation or the end of a range trap an exit, and do counters still agree? |
| `custody` | two arenas of one authority, 2 people, 7 token accounts, 2 mints | do the guards keep each arena's custody its own, and accept what is right? |
| `burn_split` | violation | is the burn remainder as independent as documented? No. |
| `late_activation` | violation | can a lock expire during warming? Yes, for late owners. |

What each property says and why it could be wrong:

* `StakeBuckets`, `TotalsAreSums`: five handlers adjust four totals by differences;
  a drift would corrupt the denominator of every later batch.
* `VaultBacksPrincipal`, `RewardsConserved`: the two custody balances follow from the
  books across deposit, payout, three-way split of a withdrawal, and final burn.
* `TokensConserved`: wallets, vault, pool and burned tokens add up to the supply. A
  token that one account loses and none gains, or that is counted as burned and is
  not, breaks it even where each balance agrees with its own book.
* `Solvent`: what all positions are owed together, *untouched ones and fractions
  included*, never exceeds the pool. Says that rounding is always against the
  claimant and that a penalty reaches the pool before it is promised. In `two_owners`
  this includes a penalty too small to move the index, which reaches the pool and is
  promised to nobody. (`RewardsConserved` in `top_ups` is about the tokens of the pool
  and their counters only; at its scale every penalty moves the index.)
* `ExitNeverTrapped`: no error exit of `process_withdraw` can keep an owner from
  taking out any part of the stake now. `TrappedOnlyWhileIdle` says what is left of
  it when the index is allowed to wrap: the one position that gets stuck is one that
  sat without *eligible* stake while the index went through more than its whole
  range (the residual the documents call M-04). In the run that state is reached. (In
  the last generation that a `u64` can number the index stops instead of wrapping, and
  that can refuse an exit too; the property leaves it out.)
* `WrapTakesAllRewards`: how much it takes to get there. The documents call it "enormous
  backed reward funding"; it is at least `u64::MAX` distributed tokens, for a batch
  over one unit of stake moves the index by one scale per token and no batch by more.
* `FullExitLeavesNoDebt`: the reason `FinalizeRewards` may burn the pool.
* `LedgersAgree`: the counters of the config and of the positions say the same; a
  counter that has reached its maximum says "at least" (M-05). Stated so that it holds
  at saturation too, and checked there by `edges`.
* `EpochsKeepSchedule`: late rolls do not shift the cadence and none comes early.
* `LockNeverShortens`, `FreshStakeWaitsAnEpoch`: action properties over every
  handler that touches a clock or a bucket.
* `ExposedForAnEpoch`, `LockOutlastsWarming`: under a prompt schedule newly eligible
  stake is still locked for one epoch, and stake that waits for its epoch is still
  locked. Without one the second fails (section 4).
* `LazyAccountingIsExact`: the refinement. Each owner's credit in `RewardShares` is
  `OwedScaled`, what the arena owes the position whether or not it was touched.
* `SharedAsQuoted`, `NoLatecomer`: what the two numbers of a snapshot bind. They say
  nothing about identities (the documents admit that), but within an epoch no stake can
  *become* sharing stake, so a total that is back at the quoted value is made of stake
  that counted at the read. Whoever lands a checked funding pays nobody who came later,
  and nobody more than the quote. A retry that lands twice is within the quote both
  times, which is what the snapshot does *not* protect the funder from: the property
  bounds each landing by the quote and does not count them. Nothing in the program's
  state tells a repetition from a second funding that was meant, so this hazard has no
  property.
* `StakeMatures`, `RewardsGetPaid`, `NothingStaysBehind`: progress. An activation is
  refused while a top-up is not ready, a claim while nothing is booked, a finalization
  while any of five totals is not zero; none of these lasts.
* `BuiltAccountsAccepted`: once an arena exists, nothing that happens in the token
  program, another arena or another position makes a handler refuse the accounts the
  builders list: no exit waits for anybody but its owner.
* `CustodyBacksEachArena`, `PayoutsReachOwner`: arenas that share mint, authority and
  owners cannot take each other's tokens, and a list with a wrong entry fails or pays the
  same owner.
* `ProgramAccountsPaidFor`: rent exemption of accounts whose address held lamports.
* `PenaltyMatchesBulk`, `BurnAtMostBulk`: a stake cut into pieces pays exactly the
  penalty of one exit and never burns more than one exit would.

Every property has at least one mutant in `PROJECT.json`: a definition changed the
way a plausible bug would (a dropped fraction, a promotion without accrual, a wrap
without a generation, a lock policy an epoch short) under which TLC finds that very
property violated.

### Bounds, and why they are enough

The bounds of `MCArena` (`Bounded`) cap how much of an unbounded thing happens
(time, tokens deposited, locked, funded, burned, wraps), never what a handler does
with it. They are chosen so that the interesting cases occur:

* Amounts: with 50 % / 25 % the least deposit that charges both parts is 4, so
  `Deposits = {4}` with exits of 2, 3 and 4 takes out half a stake, a part whose penalty
  leaves a remainder, and everything.
* Time: three seconds cover deposit, activation, one epoch, a claim or exit
  before unlock, and unlock at 3; `MaxCreated = 1` lets the arena start after time 0.
  `I64_MAX = 4` in `two_owners`, `shares` and `checked_funding` is a clock near its end: a
  lock of 3 can start up to time 1, and later deposits would not mature in the run. In
  `top_ups` it is 6, which the lock of a deposit at time 3 reaches and none may pass.
  `prompt` runs to 10, past the unlock of a top-up.
* `REWARD_INDEX_SCALE` of 20, 5 and 7 instead of 10^18. A small scale makes the
  rounding *worse*: at 5 a redistributed penalty may not move the index at all
  (the swallowed error of `try_commit_rewards_to_index`), at 7 shares do not divide.
* `U64_MAX` is 40 in `top_ups` and `two_owners`, above every amount that occurs, so that
  they are about the arithmetic below saturation. `RewardsConserved` says nothing once
  one of its counters stands at its limit: the counters saturate by design (`sat_add_u64`).
* `edges` has `U64_MAX = 2`, `U128_MAX = 9`, a scale of 1 and timestamps up to 4, so that
  claims, deposits and withdrawals pass the maximum of a counter, the clock stands at its last second
  and the epoch number at its last. Owners are their own funders, to whom the tokens
  return. The policy charges no penalty, so the two penalty counters do not saturate there.
* `checked_funding`: stakes of 1, one quote per behaviour (another client's quote changes
  nothing for this one), two landings, and time to mature before and after the read.
* `progress`: one owner who may deposit twice; after `Horizon = 2` the clock moves
  only while stake waits and nothing is due, so that every behaviour is finite in
  time and still everybody may have been late before. `MaxTime = 20` is never reached.
* `custody`: two arenas of one authority, because an address that forgot a seed would
  coincide there; two token accounts prepared for each and one wallet per person, plus a
  wallet of another mint. `MaxChanges = 1` change of an authority over one of three
  accounts (`Changeable`) is enough, since a guard that misses a feature is wrong after
  the one change that uses it; `MaxStake = 1` gives every withdrawal its three
  splits. One thing is odd at the start of a behaviour (a mint, an account, lamports):
  guards are conjunctions, so a second oddity cannot make an instruction pass.
* `index_wrap` takes `U128_MAX = 20` and a scale of 1, so that fundings of 7 wrap the
  index after three and may go round it twice (`MaxGeneration = 2`). The owner who
  funds claims the tokens back and funds again, so the telemetry counters saturate
  there; none of that run's properties reads them.
* `prompt`: an epoch of two seconds lets activation fall at its start and in its
  middle, which is what the second epoch in `assert_lock_policy` is for.
* Two owners are enough for sharing: a batch is split by dividing by the total, and
  every other owner is, for one of them, part of that total. Owners are symmetric
  and nothing distinguishes them, so `two_owners` and `shares` use symmetry.

`CHECK_DEADLOCK FALSE` is set because a bounded instance stops at its bounds.

### Fairness

Only `ProgressSpec` is fair, and only for steps that somebody can take who gains from
them:

* `RollEpoch` and `FinalizeRewards` take no signer, so any one interested party is
  enough, and no guard depends on who it is;
* `ActivatePosition(u)` and `ClaimRewards(u)` are taken by the owner `u` whose stake
  waits or who is owed a token;
* the clock goes on, but patiently: it does not outrun what is due.

All of it is weak fairness: a step has to be taken only if it stays possible. Nobody is
assumed to deposit, fund, top up or leave, and before `Horizon` everybody may be as
late as they like. The unfair steps remain possible all the time, so that the
properties say that top-ups, partial exits and donations cannot put off maturity or
payment for good.

`PromptSpec` is not fairness but a *safety* assumption on the schedule (no second
passes while an activation, a roll or a maturity touch is due), which is the
reading under which the documents state F-01. The other runs assume nothing.

## 4. Findings

* `burn_split`. `docs/SECURITY_ADVERSARIAL_FINDINGS.md` 107 says the direct burn uses
  an independent cumulative `burn_remainder`. The code caps the burn of a piece by the
  penalty of that piece (1503) after the remainder has been reduced, so a burn unit
  that falls on a piece which pays no penalty unit is lost: at 3000/2000 basis points
  five exits of 1 burn nothing, one exit of 5 burns 1. The penalty as a whole is
  exact; the lost burn is redistributed.
* `late_activation`. The comment at 160-161 says `assert_lock_policy` prevents a short
  lock from expiring during warming. It does for prompt owners and keepers (run
  `prompt`, theorem `WarmingLocked`).
  `process_activate_position` has no upper bound on the time of activation (993), so
  stake activated late warms, and then earns, past its unlock time.

## 5. Proofs

Checked by TLAPS for every number of owners, every amount, width, scale and policy
that the assumptions allow. Assumptions: `WidthAssumption` (`RewardIndex`),
`ArenaAssumption` (`ArenaLock`: offered amounts are `u64`s, policies are records of
the parameter types), `OwnersAssumption` (`ArenaSafety`: the owners are finitely many,
without which the sums of its properties mean nothing), `SupplyAssumption`
(`ArenaSafety`: the tokens there are fit a `u64`; the token program keeps the supply of a
mint in one, and `mint_decimals` accepts only mints that can mint no more),
`EarlyExitsAssumption` (rates within the program's caps), `CustodyAssumption`
(`ArenaCustody`: a derived address is not the key of a person, the people are finitely
many, and the rent minimum is a natural number).

`ArenaLockProofs`:

| theorem | statement |
|---|---|
| `TypeCorrect` | `Spec => []TypeOK` |
| `StakeAccountedFor` | `Spec => []StakeBuckets` |
| `PrincipalBacked` | `Spec => []VaultBacksPrincipal` |
| `ScheduleKept` | `Spec => []EpochsKeepSchedule` |
| `LockKeeps` | `Spec => LockNeverShortens` |
| `FreshStakeWaits` | `Spec => FreshStakeWaitsAnEpoch` |
| `WarmingLocked` | `PromptSpec => []LockOutlastsWarming` |
| `EligibleExposed` | `PromptSpec => ExposedForAnEpoch` |
| `SettlingIsExact` | settling a position, promotion and one index wrap included, leaves `OwedScaled` as it was |

The inductive invariant `IInv` is the conjunction of the type invariant and of what
makes it inductive:

* before `InitializeConfig` nothing has happened (`Untouched`), so that the handler
  may overwrite the whole config without losing anything;
* after it the policy is an acceptable one: lock and delays are positive, so no
  clock computed from it is negative and `RollEpoch` moves forward;
* a position has its buckets in order, is empty if it is not initialized, and did
  not start warming in a later epoch than the current one (without which a promotion
  under `FreshStakeWaitsAnEpoch` could not be told from an early one);
* the config buckets, the vault equation and the epoch schedule.

The argument follows the code. Every staker instruction first settles the position
(`SyncSettles`, `NewSettles`: the result is *settled*, that is, typed, in order and
with the same stake), then changes buckets, and `StakerStepSafe` concludes for all of
them at once from what they have in common that the invariant and both action
promises hold after the step. Funding and finalization touch the config alone
(`ConfigStepSafe`); `InitializeConfig`, `RollEpoch` and the environment have a lemma
each. `NextSafe` puts them together, and `InvHolds` is the induction.

The vault equation needs no sum over the owners, because it relates `vault` to
`config.total_locked`.

For the two promises about the prompt schedule the invariant is `PromptInv`: pending
stake is locked for two epochs beyond its activation time, warming stake until one
epoch after the end of the epoch it waits for (`StillLocked`), and neither an activation
nor a roll is overdue by a second. The activation delay plus *two* epochs of
`assert_lock_policy` are what an activation in the middle of an epoch needs, one for the
rest of that epoch and one for the exposure; with one epoch the step of
`ActivatePosition` cannot be proved, and TLC refutes the property. Late owners break the
invariant at its last part.

`SettlingIsExact` is the algebra below `LazyAccountingIsExact` and `Solvent`: unrolled
over its wraps the index is one growing number (`DistanceIsUnwrapped`), and accrual is
division with remainder by the scale (`AccrueIsExact`).

`ArenaRewardsProofs`, for every finite set of owners:

| theorem | statement |
|---|---|
| `TotalsKept` | `Spec => []TotalsAreSums` |
| `PoolCoversDebts` | `Spec => []Solvent` |
| `LeaversAreOwedNothing` | `Spec => []FullExitLeavesNoDebt` |
| `LazyAccountingExact` | `Spec => LazyAccountingIsExact`, the refinement of `RewardShares` |

`TotalsProofs` says what changing one term does to a sum (`SumUpdate`), that a sum
bounds its terms, and that pushing a share to everybody adds the share times the sum of
the stakes (`SumPushed`). The sums count units instead of adding numbers up by recursion,
which is what makes these facts consequences of the library's theorems about finite sets.

The invariant `RewardInv` says that the totals are sums, that no position is settled
beyond the index, that a position without stake has nothing booked, and that the
pool covers the debts. The four need each other: a batch is divided by
`eligible_locked`, so that it is not promised twice only if that total is the sum of the
eligible stakes; a claim leaves the pool covering the rest only if what was booked is
part of a debt. Every staker instruction is shown to be one `RewardStep`: it settles the
position completely (`Synced`), moves stake between the position and the config
(`Moved`), pays, and shares a batch (the penalty) among the stake that is eligible
*afterwards*. From a `RewardStep` alone follow the invariant (`StakerKeeps`) and the step
of `RewardShares` (`StakerShares`: a restake, a claim or a quit). It holds across any
number of index wraps, because `Index` and `Mark` are the unrolled numbers.

`ArenaLedgerProofs`:

| theorem | statement |
|---|---|
| `LedgersKept` | `Spec => []LedgersAgree` |
| `RewardTokensConserved` | `Spec => []RewardsConserved` |
| `AllTokensConserved` | `Spec => []TokensConserved` |

Each staker instruction records the same amounts in the position and in the config
(`LedgerStep`). Two counters that stop at the same limit still agree on the sum below it
(`SaturatedSum`), whichever of them reaches the limit first. The invariant adds that a
position nobody has opened has recorded nothing, so that opening it forgets nothing.
`AllTokensConserved` needs the assumption on the supply: what is burned is not there to be
burned again, so that `total_burned` cannot be cut off at its limit.

`ArenaExitProofs`:

| theorem | statement |
|---|---|
| `WrapTakesAll` | `Spec => []WrapTakesAllRewards` |
| `ExitOpenUntilWrap` | `Spec => [](config.total_rewards_distributed < U64_MAX => ExitNeverTrapped)` |
| `OnlyIdleTrapped` | `Spec => []TrappedOnlyWhileIdle` |

The invariant `ExitInv` is the conjunction of those of the three modules above,
`TokensConserved`, and `IndexBacked`: until its counter stops, no distributed token has
moved the index by more than one scale. Each guard of `process_withdraw` follows from one
of its parts. The buckets cover what is taken out because the config totals are sums
(`SumsCover`). What is owed fits the pool (`OwedFromPool`) and the pool fits the supply
(`PoolInSupply`), so that neither the accrual overflows nor the payout fails (`SyncFits`,
`ReductionFits`). The vault holds the principal. The penalty is at most the amount
(`ChargedAtMost`). What is left is the distance of the index from the checkpoint. For
a position that earns it is bounded, because what it earned is backed by the pool: that
gives `OnlyIdleTrapped` with any number of wraps. For the others it is bounded by what went
through the index, which `IndexBacked` keeps below one range until `u64::MAX` tokens
have. That bound is the hypothesis of `ExitOpenUntilWrap`, and it cannot be dropped:
`index_wrap` reaches a state beyond it where an exit is refused.

`CheckedFundingProofs`:

| theorem | statement |
|---|---|
| `NoStakeCutsIn` | `CFSpec => []NoLatecomer` |
| `QuoteBinds` | `CFSpec => SharedAsQuoted` |

Within an epoch no instruction makes more of a position share (`NobodyJoins`): what
starts warming is marked with this epoch (`StillWarming`), what matures on a touch could
have matured at the read (`SyncShares`), and what leaves only leaves. A funding that lands
finds the epoch it was quoted for, because epochs only advance and the guard refuses a
later one; its gain per owner is eligible stake times the delta (`GainIsShare`).

`EarlyExitsProofs`: `TypeCorrect`, `SplittingNeverSavesPenalty`
(`Spec => []PenaltyMatchesBulk`) and `SplittingNeverBurnsMore`
(`Spec => []BurnAtMostBulk`). The invariant behind both is that
penalty * 10000 + remainder = exited * rate: the remainder is exactly what has not
been charged yet. For the burn it is an inequality, because of the cap.

`ArenaCustodyProofs`:

| theorem | statement |
|---|---|
| `NeverRefused` | `Spec => []BuiltAccountsAccepted` |
| `EachArenaBacked` | `Spec => []CustodyBacksEachArena` |
| `OwnersPaidOnly` | `Spec => PayoutsReachOwner` |
| `RentExempt` | `Spec => []ProgramAccountsPaidFor` |

for any number of arenas, people, mints and token accounts in any initial state. The
invariant says that the custody accounts recorded in an arena pass the custody
check, are two, and have the mint and token program of the config. It is inductive
because every guard depends on everything *but* the balances of a token account
(`SameButBalance`), the instructions change only balances, and everything else about an
account changes only by its holder, its freeze or its close authority: nobody has any of
these over an accepted custody account.

`EachArenaBacked` and `OwnersPaidOnly` add the books (`Backed`: the balances, and that
nothing is staked or owed at the address of an arena that does not exist yet, without
which `InitializeConfig` would promise what nobody paid in). The custody accounts of two
arenas are disjoint because their holders are the vault authorities of different configs
(`CustodyApart`), and no account that pays in or is paid is in custody, because its holder
is the signer (`OwnerSigns`, `PeoplesAccounts`). So every instruction writes the books of
the one arena whose balances it moves (`BackedStep`), and everything outside the program
can only add to custody (`OutsideBooks`).

## 6. Only model-checked

Liveness (`StakeMatures`, `RewardsGetPaid`, `NothingStaysBehind`) and `ENABLED` are out of
the prover's reach and stay with TLC. So does induction over data: it is why `Totals` counts
units and does not fold. Every invariant and action property of the passing runs is a
theorem, `ExitNeverTrapped` with the hypothesis above: in `two_owners` and `edges`, whose
bounds end before the index wraps, TLC checks it without.

## 7. Plan

Done, in this order: `RewardIndex`, `PenaltySplit`, `ArenaLock` (all nine
instructions), `ArenaSafety`, `RewardShares` and the refinement, `EarlyExits`, the
inductive invariant of the core and its theorems; then checked funding, progress, the
edges of the widths, accounts and custody of several arenas with their theorems; the
theorems about totals, solvency, the refinement, the counters and checked funding; the
supply and the way out, the lock policy under a prompt schedule, and whose tokens are in
the custody of each of several arenas.

Left: that the token movements of `ArenaLock` are among those that `ArenaCustody` allows
an arena (seen today by reading the two side by side). A run in which the penalty
counters saturate (the theorem `LedgersKept` covers it).

## 8. Not modelled, and why

* Serialization: fixed-size borsh records; the models work on the records. `load`
  rejects a wrong version, and no code of the repository writes another version; a
  record of the other kind or an arbitrary address fails the derivation checks
  that `ArenaCustody` models. Trailing bytes and packing are borsh's.
* `decimals` (read from the mint, which nobody may change, and passed back to the token
  program), `bump`s (determined by the seeds), program ids.
* Rent rates, compute limits, stack and heap: the runtime's. The lamports of a program
  account are modelled where the code reads them.
* Error numbers, messages, the entrypoint: an error is a disabled action.
* The encoding of instruction arguments; the builders' account lists are modelled.
* The deployment and immutability scripts and CI: command-line tools run by hand.

## 9. Running

```
tlc -workers 2 -config TopUps.cfg MCArena.tla
tlc -workers 2 -config EarlyExits.cfg MCEarlyExits.tla
tlc -workers 2 -config CheckedFunding.cfg MCCheckedFunding.tla
tlc -workers 2 -config Progress.cfg Progress.tla
tlc -workers 2 -config Custody.cfg MCCustody.tla
tlapm ArenaLockProofs.tla
tlapm TotalsProofs.tla
tlapm ArenaRewardsProofs.tla
tlapm ArenaLedgerProofs.tla
tlapm ArenaExitProofs.tla
tlapm CheckedFundingProofs.tla
tlapm EarlyExitsProofs.tla
tlapm ArenaCustodyProofs.tla
```

`PROJECT.json` lists the runs with their configurations and properties. A run takes
between a few seconds and three minutes or so; the proofs take a minute or less each.
