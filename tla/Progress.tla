------------------------------- MODULE Progress -------------------------------
(***************************************************************************)
(* What happens in the end, if somebody wants it to: the program does      *)
(* nothing by itself, so every promise of progress names who acts.         *)
(*                                                                         *)
(* RollEpoch takes no signer, so that any staker can be the keeper; the    *)
(* other fair steps are taken by the owner who gains from them.  The clock *)
(* goes on and somebody finalizes (no signer either).  Nobody is assumed   *)
(* to deposit, fund or leave, and owners may exit, top up and come late.   *)
(***************************************************************************)
EXTENDS MCArena

CONSTANT
    Horizon     \* up to here owners and keepers may be late as they like

Waiting(u) == position[u].pending_activation_amount + position[u].warming_amount > 0

\* A finite clock: from Horizon on it moves only for stake that waits, and
\* waits for what is due.
PatientTick ==
    /\ Tick
    /\ now < Horizon \/ (NothingDue /\ \E u \in Owners : Waiting(u))

ProgressNext == MCNext /\ (now' > now => PatientTick)

Fairness ==
    /\ WF_vars(PatientTick /\ Bounded)
    /\ WF_vars(RollEpoch)
    /\ WF_vars(FinalizeRewards)
    /\ \A u \in Owners : WF_vars(ActivatePosition(u)) /\ WF_vars(ClaimRewards(u))

ProgressSpec == Init /\ [][ProgressNext]_vars /\ Fairness

-----------------------------------------------------------------------------
\* Stake does not wait forever: whatever top-ups, late activations, partial
\* exits and rolls come in between, no interplay of the activation delay, the
\* epoch guard and the touches leaves stake pending or warming for good.
StakeMatures == \A u \in Owners : Waiting(u) ~> ~Waiting(u)

HasClaim(u) ==
    position[u].locked_amount > 0 /\ OwedScaled(config, position[u]) >= REWARD_INDEX_SCALE

\* An owner who keeps asking is paid every whole reward token the position is
\* owed, though the reward was never booked to it when it arrived.
RewardsGetPaid == \A u \in Owners : HasClaim(u) ~> ~HasClaim(u)

\* Once all owners have left for good (each can, by ExitNeverTrapped), no token
\* stays behind: neither the fractions they forfeited, nor penalties too small
\* for the index, nor direct transfers to the pool, nor rewards nobody claimed
\* keep FinalizeRewards from emptying the arena, and nothing is left in its vault.
NothingStaysBehind ==
    <>[](\A u \in Owners : position[u].locked_amount = 0)
        => <>[](config.is_initialized => vault = stray.vault /\ pool = 0)
=============================================================================
