---------------------------- MODULE CheckedFunding ----------------------------
(***************************************************************************)
(* A funding client of the arena: it reads the config, shows its user the  *)
(* stake that would share, and later sends FundRewardsChecked with what it *)
(* read.  The transaction may land at once, late, after any number of      *)
(* other instructions, more than once (a retry whose first copy was not    *)
(* lost) or never.  The client itself is outside src/; README.md 68-70     *)
(* says how it uses the instruction.                                       *)
(***************************************************************************)
EXTENDS ArenaSafety

VARIABLE
    quote   \* what the client read last, and what has landed of it

NoQuote == [eligible |-> 0, epoch |-> 0, admissible |-> [u \in Owners |-> 0], landed |-> 0]

\* Stake that shares in a batch of this epoch, once its owner has touched it.
SharingStake(p) == p.eligible_amount + IF MatureReady(config, p) THEN p.warming_amount ELSE 0

\* The client keeps eligible_locked and current_epoch; who was behind the total
\* is history, for the properties only.
ReadSnapshot ==
    /\ config.is_initialized
    /\ quote' = [eligible |-> config.eligible_locked,
                 epoch |-> config.current_epoch,
                 admissible |-> [u \in Owners |-> SharingStake(position[u])],
                 landed |-> 0]
    /\ UNCHANGED vars

\* The quote is kept: a second copy of the transaction may land as well.
FundingLands(u, amount) ==
    /\ FundRewardsChecked(u, amount, quote.eligible, quote.epoch)
    /\ quote' = [quote EXCEPT !.landed = @ + 1]

CFInit == Init /\ quote = NoQuote

CFNext ==
    \/ ReadSnapshot
    \/ \E u \in Funders, amount \in Fundings : FundingLands(u, amount)
    \/ Next /\ UNCHANGED quote

CFSpec == CFInit /\ [][CFNext]_<<vars, quote>>

-----------------------------------------------------------------------------
(* What the snapshot binds. *)

Gain(u) == OwedScaled(config', position'[u]) - OwedScaled(config, position[u])

\* However late a checked funding lands, nobody gets more from it than the
\* stake that was mature at the read earns at the quoted denominator: stake
\* deposited or still warming then cannot share, and the total may have come
\* back to the quoted value only by stake that already counted (the guards on
\* eligible_locked and current_epoch in process_fund_rewards).
SharedAsQuoted ==
    [][quote'.landed > quote.landed =>
         \E amount \in Fundings :
            /\ pool' = pool + amount
            /\ \A u \in Owners :
                  Gain(u) <= quote.admissible[u] * reward_index_delta(amount, quote.eligible)
      ]_<<vars, quote>>

\* As long as the epoch is the one that was read, no position can have more
\* stake sharing than it had at the read.
NoLatecomer ==
    config.is_initialized /\ config.current_epoch = quote.epoch /\ quote # NoQuote =>
        \A u \in Owners : SharingStake(position[u]) <= quote.admissible[u]
=============================================================================
