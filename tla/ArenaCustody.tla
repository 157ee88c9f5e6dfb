----------------------------- MODULE ArenaCustody -----------------------------
(***************************************************************************)
(* Which accounts an instruction accepts, and what that means for several  *)
(* arenas whose token accounts live beside each other in a token program   *)
(* that anybody can use.                                                   *)
(*                                                                         *)
(* ArenaLock says how much each instruction moves; here the amounts are    *)
(* any that the balances allow, and the question is between which accounts *)
(* they move.  Clients build their account lists with instruction.rs and   *)
(* may get an entry wrong.  The token program, its mints and the holders   *)
(* of token accounts are the environment.                                  *)
(***************************************************************************)
EXTENDS ArenaAccounts, Totals

CONSTANTS
    People,           \* keys that sign
    Authorities,      \* those of them that create arenas
    ConfigIds,
    TokenAccounts,
    wallet,           \* person -> the token account a client knows of this person
    spl_token,        \* the two supported token programs
    spl_token_2022,
    Mints,
    MaxStake,         \* bound: tokens locked in a position
    MaxChanges,       \* bound: changes of an authority over a token account
    Changeable,       \* bound: the token accounts where they happen
    MinimumBalance    \* lamports that make an account rent exempt

VARIABLES
    arena,      \* config address -> what ArenaConfig records about accounts
    stake,      \* position address -> locked_amount
    opened,     \* positions that have been created
    owed,       \* config address -> tokens of the pool that stakers own
    lamports,   \* address of a config or position -> its lamports
    token,      \* token account -> its state in the token program
    mint,       \* mint -> its state in the token program
    changes     \* history: changes of an authority over a token account

vars == <<arena, stake, opened, owed, lamports, token, mint, changes>>

Configs == {config_pda(a, i) : a \in Authorities, i \in ConfigIds}
Positions == {position_pda(c, u) : c \in Configs, u \in People}
VaultAuthorities == {vault_authority_pda(c) : c \in Configs}
TokenPrograms == {spl_token, spl_token_2022}

\* A derived address is off the curve of signing keys.
ASSUME CustodyAssumption ==
    /\ People \cap VaultAuthorities = {}
    /\ IsFiniteSet(People)
    /\ MinimumBalance \in Nat

NoArena == [created |-> FALSE]

AccountExtensions == {"ImmutableOwner", "MemoTransfer"}

MintExtensions == {"MetadataPointer", "TokenMetadata", "PermanentDelegate"}

TokenState ==
    [mint: Mints, holder: People \cup VaultAuthorities, amount: Nat, open: BOOLEAN,
     frozen: BOOLEAN, delegated: BOOLEAN, close_authority: BOOLEAN,
     extensions: SUBSET AccountExtensions]

MintState ==
    [program: TokenPrograms, mint_authority: BOOLEAN, freeze_authority: BOOLEAN,
     native: BOOLEAN, extensions: SUBSET MintExtensions]

Created == {c \in Configs : arena[c].created}

StakeIn(c) == SumOver(People, [u \in People |-> stake[position_pda(c, u)]])

\* Token accounts, mints and lamports were there before the program, in any state.
Init ==
    /\ token \in [TokenAccounts -> TokenState]
    /\ mint \in [Mints -> MintState]
    /\ lamports \in [Configs \cup Positions -> Nat]
    /\ arena = [c \in Configs |-> NoArena]
    /\ stake = [p \in Positions |-> 0]
    /\ opened = {}
    /\ owed = [c \in Configs |-> 0]
    /\ changes = 0

-----------------------------------------------------------------------------
(* Guards on single accounts. *)

is_allowed_mint_extension(ext) == ext \in {"MetadataPointer", "TokenMetadata"}

is_allowed_account_extension(ext) == ext = "ImmutableOwner"

unpack_token_account_ok(token_program, t) ==
    /\ t \in TokenAccounts
    /\ token[t].open
    /\ mint[token[t].mint].program = token_program
    /\ \A ext \in token[t].extensions : is_allowed_account_extension(ext)

mint_decimals_ok(m, token_program) ==
    /\ m \in Mints
    /\ mint[m].program = token_program
    /\ \A ext \in mint[m].extensions : is_allowed_mint_extension(ext)
    /\ ~mint[m].mint_authority
    /\ ~mint[m].freeze_authority

\* Mutant: pays into any account of the mint.
assert_token_account_AnyOwner(token_program, t, m, owner) ==
    /\ unpack_token_account_ok(token_program, t)
    /\ token[t].mint = m

assert_token_account(token_program, t, m, owner) ==
    /\ unpack_token_account_ok(token_program, t)
    /\ token[t].mint = m
    /\ token[t].holder = owner

\* Mutant: takes an account that somebody else may close.
assert_custody_token_account_Closable(token_program, t, m, authority) ==
    /\ unpack_token_account_ok(token_program, t)
    /\ token[t].mint = m
    /\ token[t].holder = authority
    /\ ~token[t].delegated

assert_custody_token_account(token_program, t, m, authority) ==
    /\ unpack_token_account_ok(token_program, t)
    /\ token[t].mint = m
    /\ token[t].holder = authority
    /\ ~mint[m].native
    /\ ~token[t].frozen
    /\ ~token[t].delegated
    /\ ~token[t].close_authority

\* A config the program owns, at the address its own fields derive.
config_ok(c) == c \in Configs /\ arena[c].created

\* The position of this owner in this config, owned by the program.
position_ok(p, c, owner) == p \in opened /\ p = position_pda(c, owner)

Recorded(c, m, token_program) == arena[c].mint = m /\ arena[c].token_program = token_program

Writable(list, entries) == \A i \in entries : list[i].writable

-----------------------------------------------------------------------------
(* The account checks of each handler, in the order of its list. *)

InitializeConfigAccepts(list, config_id) ==
    LET authority == list[1].key
        c == list[2].key
        token_program == list[7].key
    IN  /\ list[1].signer
        /\ Writable(list, {1, 2})
        /\ c = config_pda(authority, config_id)
        /\ ~arena[c].created
        /\ token_program \in TokenPrograms
        /\ list[8].key = system_program
        /\ mint_decimals_ok(list[3].key, token_program)
        /\ list[5].key = vault_authority_pda(c)
        /\ list[4].key # list[6].key
        /\ assert_custody_token_account(token_program, list[4].key, list[3].key, list[5].key)
        /\ assert_custody_token_account(token_program, list[6].key, list[3].key, list[5].key)

DepositAccepts(list) ==
    LET owner == list[1].key
        c == list[3].key
        m == list[7].key
        token_program == list[8].key
    IN  /\ list[1].signer
        /\ Writable(list, 1 .. 5)
        /\ config_ok(c)
        /\ token_program \in TokenPrograms
        /\ list[9].key = system_program
        /\ Recorded(c, m, token_program)
        /\ arena[c].vault = list[5].key
        /\ list[6].key = vault_authority_pda(c)
        /\ list[4].key = position_pda(c, owner)
        /\ assert_token_account(token_program, list[2].key, m, owner)
        /\ assert_custody_token_account(token_program, list[5].key, m, list[6].key)

\* What ActivatePosition, RollEpoch and FinalizeRewards check of the pool.
PoolAccepts(c, pool, authority, m, token_program) ==
    /\ config_ok(c)
    /\ token_program \in TokenPrograms
    /\ Recorded(c, m, token_program)
    /\ arena[c].pool = pool
    /\ authority = vault_authority_pda(c)
    /\ assert_custody_token_account(token_program, pool, m, authority)

ActivatePositionAccepts(list) ==
    /\ list[1].signer
    /\ Writable(list, {2, 3})
    /\ PoolAccepts(list[2].key, list[4].key, list[5].key, list[6].key, list[7].key)
    /\ position_ok(list[3].key, list[2].key, list[1].key)

FundRewardsAccepts(list) ==
    LET c == list[3].key
    IN  /\ list[1].signer
        /\ Writable(list, 2 .. 4)
        /\ PoolAccepts(c, list[4].key, vault_authority_pda(c), list[5].key, list[6].key)
        /\ assert_token_account(list[6].key, list[2].key, list[5].key, list[1].key)

RollEpochAccepts(list) ==
    /\ Writable(list, {1})
    /\ PoolAccepts(list[1].key, list[2].key, list[3].key, list[4].key, list[5].key)

FinalizeRewardsAccepts(list) ==
    /\ Writable(list, {1, 2, 4})
    /\ PoolAccepts(list[1].key, list[2].key, list[3].key, list[4].key, list[5].key)

ClaimRewardsAccepts(list) ==
    /\ list[1].signer
    /\ Writable(list, 2 .. 5)
    /\ PoolAccepts(list[3].key, list[5].key, list[6].key, list[7].key, list[8].key)
    /\ assert_token_account(list[8].key, list[2].key, list[7].key, list[1].key)
    /\ position_ok(list[4].key, list[3].key, list[1].key)

WithdrawAccepts(list) ==
    LET c == list[3].key
        m == list[8].key
        token_program == list[9].key
    IN  /\ list[1].signer
        /\ Writable(list, {2, 3, 4, 5, 7, 8})
        /\ PoolAccepts(c, list[7].key, list[6].key, m, token_program)
        /\ arena[c].vault = list[5].key
        /\ list[5].key # list[7].key
        /\ assert_token_account(token_program, list[2].key, m, list[1].key)
        /\ assert_custody_token_account(token_program, list[5].key, m, list[6].key)
        /\ position_ok(list[4].key, c, list[1].key)

-----------------------------------------------------------------------------
(* What a client sends: the built list, with one entry perhaps mistaken for *)
(* another account of the same kind.  Only the sender's key can sign.       *)

Kinds == {People, TokenAccounts, Mints, Configs, Positions, VaultAuthorities, TokenPrograms}

Mistaken(list, i, key) ==
    [list EXCEPT ![i] = [@ EXCEPT !.key = key, !.signer = FALSE]]

Sent(list) ==
    {list} \cup UNION { UNION { {Mistaken(list, i, key) : key \in kind \ {list[i].key}} :
                                kind \in {k \in Kinds : list[i].key \in k} } :
                        i \in DOMAIN list }

-----------------------------------------------------------------------------
(* The token program: a transfer needs open, thawed accounts of one mint    *)
(* and a balance; that the authority is the holder is said by each caller.  *)

Movable(from, to, amount) ==
    /\ token[from].open /\ token[to].open
    /\ ~token[from].frozen /\ ~token[to].frozen
    /\ token[from].mint = token[to].mint
    /\ token[from].amount >= amount

If(condition, amount) == IF condition THEN amount ELSE 0

\* Several moves at once: what is taken from and what is given to each account.
Moved(taken(_), given(_)) ==
    token' = [t \in TokenAccounts |-> [token[t] EXCEPT !.amount = @ - taken(t) + given(t)]]

-----------------------------------------------------------------------------
(* Creating an account at a derived address, which somebody may have sent   *)
(* lamports to before.                                                      *)

\* Mutant: a prefunded account is taken to be paid for.
create_program_account_SkipPrefunded(key) ==
    lamports' = [lamports EXCEPT ![key] = IF @ > 0 THEN @ ELSE MinimumBalance]

create_program_account(key) ==
    lamports' = [lamports EXCEPT ![key] = IF @ < MinimumBalance THEN MinimumBalance ELSE @]

InitializeConfig(list) ==
    LET c == list[2].key
    IN  /\ create_program_account(c)
        /\ arena' = [arena EXCEPT ![c] = [created |-> TRUE, mint |-> list[3].key,
                                          token_program |-> list[7].key,
                                          vault |-> list[4].key, pool |-> list[6].key]]
        /\ UNCHANGED <<stake, opened, owed, token, mint, changes>>

-----------------------------------------------------------------------------
(* The instructions that move tokens, on an accepted list. *)

Deposit(list, amount) ==
    LET position == list[4].key
    IN  /\ Movable(list[2].key, list[5].key, amount)
        /\ stake[position] + amount <= MaxStake
        /\ IF position \in opened THEN UNCHANGED lamports ELSE create_program_account(position)
        /\ opened' = opened \cup {position}
        /\ stake' = [stake EXCEPT ![position] = @ + amount]
        /\ Moved(LAMBDA t : If(t = list[2].key, amount), LAMBDA t : If(t = list[5].key, amount))
        /\ UNCHANGED <<arena, owed, mint, changes>>

FundRewards(list, amount) ==
    LET c == list[3].key
    IN  /\ StakeIn(c) > 0
        /\ Movable(list[2].key, list[4].key, amount)
        /\ owed' = [owed EXCEPT ![c] = @ + amount]
        /\ Moved(LAMBDA t : If(t = list[2].key, amount), LAMBDA t : If(t = list[4].key, amount))
        /\ UNCHANGED <<arena, stake, opened, lamports, mint, changes>>

ClaimRewards(list, amount) ==
    LET c == list[3].key
    IN  /\ stake[list[4].key] > 0
        /\ amount <= owed[c]
        /\ Movable(list[5].key, list[2].key, amount)
        /\ owed' = [owed EXCEPT ![c] = @ - amount]
        /\ Moved(LAMBDA t : If(t = list[5].key, amount), LAMBDA t : If(t = list[2].key, amount))
        /\ UNCHANGED <<arena, stake, opened, lamports, mint, changes>>

\* Of the amount, `shared' goes to the pool, `burned' is burned and the rest is
\* returned; a full exit also pays rewards.
Withdraw(list, amount, shared, burned, payout) ==
    LET c == list[3].key
        position == list[4].key
        destination == list[2].key
        vault == list[5].key
        pool == list[7].key
    IN  /\ amount \in 1 .. stake[position]
        /\ shared + burned <= amount
        /\ shared > 0 => StakeIn(c) > amount
        /\ payout > 0 => amount = stake[position] /\ payout <= owed[c]
        /\ Movable(vault, destination, amount)
        /\ Movable(pool, destination, payout)
        /\ stake' = [stake EXCEPT ![position] = @ - amount]
        /\ owed' = [owed EXCEPT ![c] = @ + shared - payout]
        /\ Moved(LAMBDA t : If(t = vault, amount) + If(t = pool, payout),
                 LAMBDA t : If(t = destination, amount - shared - burned + payout)
                            + If(t = pool, shared))
        /\ UNCHANGED <<arena, opened, lamports, mint, changes>>

\* Burns the whole balance; what nobody with stake can claim is forgotten.
FinalizeRewards(list) ==
    LET c == list[1].key
        pool == list[2].key
    IN  /\ StakeIn(c) = 0
        /\ owed' = [owed EXCEPT ![c] = 0]
        /\ Moved(LAMBDA t : If(t = pool, token[t].amount), LAMBDA t : 0)
        /\ UNCHANGED <<arena, stake, opened, lamports, mint, changes>>

-----------------------------------------------------------------------------
(* The environment: the token program used directly.  A derived address     *)
(* signs for nobody outside this program, so the holders here are people.   *)

HeldBySomebody(t) == token[t].open /\ token[t].holder \in People

Transfer(from, to) ==
    /\ from # to
    /\ HeldBySomebody(from) \/ (token[from].open /\ token[from].delegated)
    /\ Movable(from, to, 1)
    /\ Moved(LAMBDA t : If(t = from, 1), LAMBDA t : If(t = to, 1))
    /\ UNCHANGED <<arena, stake, opened, owed, lamports, mint, changes>>

Rearranged(t, changed) ==
    /\ changes < MaxChanges
    /\ t \in Changeable
    /\ changes' = changes + 1
    /\ token' = [token EXCEPT ![t] = changed]
    /\ UNCHANGED <<arena, stake, opened, owed, lamports, mint>>

\* Handing over an account clears a delegation, but not the close authority.
HandOver(t, holder) ==
    HeldBySomebody(t) /\ Rearranged(t, [token[t] EXCEPT !.holder = holder, !.delegated = FALSE])

SetCloseAuthority(t) ==
    HeldBySomebody(t) /\ Rearranged(t, [token[t] EXCEPT !.close_authority = TRUE])

Approve(t) == HeldBySomebody(t) /\ Rearranged(t, [token[t] EXCEPT !.delegated = TRUE])

RequireMemo(t) ==
    /\ HeldBySomebody(t)
    /\ mint[token[t].mint].program = spl_token_2022
    /\ Rearranged(t, [token[t] EXCEPT !.extensions = @ \cup {"MemoTransfer"}])

Close(t) ==
    /\ HeldBySomebody(t) \/ (token[t].open /\ token[t].close_authority)
    /\ token[t].amount = 0
    /\ Rearranged(t, [token[t] EXCEPT !.open = FALSE])

Freeze(t) ==
    /\ mint[token[t].mint].freeze_authority
    /\ Rearranged(t, [token[t] EXCEPT !.frozen = TRUE])

\* The holder of a permanent delegate may burn from any account of the mint.
BurnAsPermanentDelegate(t) ==
    /\ "PermanentDelegate" \in mint[token[t].mint].extensions
    /\ token[t].open /\ token[t].amount > 0
    /\ Rearranged(t, [token[t] EXCEPT !.amount = @ - 1])

TokenProgramStep(t) ==
    \/ \E to \in TokenAccounts : Transfer(t, to)
    \/ \E holder \in People \cup VaultAuthorities : HandOver(t, holder)
    \/ SetCloseAuthority(t) \/ Approve(t) \/ RequireMemo(t)
    \/ Close(t) \/ Freeze(t) \/ BurnAsPermanentDelegate(t)

-----------------------------------------------------------------------------
\* The custody accounts offered to a new arena are any two token accounts.
Creation ==
    \E a \in Authorities, i \in ConfigIds, m \in Mints, vault, pool \in TokenAccounts :
        LET c == config_pda(a, i)
        IN  \E list \in {initialize_config(a, c, m, vault, pool, mint[m].program)} :
                InitializeConfigAccepts(list, i) /\ InitializeConfig(list)

\* A client reads the config to fill in the accounts it records, and takes the
\* token account it knows of its user.
UserStep(c, u) ==
    LET a == arena[c]
        t == wallet[u]
    IN  \/ \E list \in Sent(deposit(c, u, t, a.vault, a.mint, a.token_program)) :
               DepositAccepts(list) /\ Deposit(list, 1)
        \/ \E list \in Sent(fund_rewards(c, u, t, a.pool, a.mint, a.token_program)) :
               FundRewardsAccepts(list) /\ FundRewards(list, 1)
        \/ \E list \in Sent(claim_rewards(c, u, t, a.pool, a.mint, a.token_program)) :
               /\ ClaimRewardsAccepts(list)
               /\ \E amount \in 1 .. owed[list[3].key] : ClaimRewards(list, amount)
        \/ \E list \in Sent(withdraw(c, u, t, a.vault, a.pool, a.mint, a.token_program)) :
               /\ WithdrawAccepts(list)
               /\ \E amount \in 1 .. stake[list[4].key] :
                     \E shared, burned \in 0 .. amount, payout \in 0 .. owed[list[3].key] :
                         Withdraw(list, amount, shared, burned, payout)

AnyonesStep(c) ==
    LET a == arena[c]
    IN  \E list \in Sent(finalize_rewards(c, a.pool, a.mint, a.token_program)) :
            FinalizeRewardsAccepts(list) /\ FinalizeRewards(list)

Next ==
    \/ Creation
    \/ \E c \in Created : AnyonesStep(c) \/ \E u \in People : UserStep(c, u)
    \/ \E t \in TokenAccounts : TokenProgramStep(t)

Spec == Init /\ [][Next]_vars

-----------------------------------------------------------------------------
(* What the guards are for. *)

\* Once an arena exists, nothing anybody does in the token program, in another
\* arena or with another position can make its accounts unacceptable: for a
\* usable token account of the owner, the lists that instruction.rs builds
\* pass every account check of claim, exit, funding and deposit, and those of
\* the permissionless instructions always do.  (No admin step is needed for an
\* exit; rejects_custody_token_account_with_close_authority and
\* rejects_mint_with_freeze_authority test the two known ways to break it.)
BuiltAccountsAccepted ==
    \A c \in Created :
        LET a == arena[c]
            Usable(u, t) == assert_token_account(a.token_program, t, a.mint, u)
        IN  /\ RollEpochAccepts(roll_epoch(c, a.pool, a.mint, a.token_program))
            /\ FinalizeRewardsAccepts(finalize_rewards(c, a.pool, a.mint, a.token_program))
            /\ \A u \in People :
                  position_pda(c, u) \in opened =>
                      ActivatePositionAccepts(
                          activate_position(c, u, a.pool, a.mint, a.token_program))
            /\ \A u \in People, t \in TokenAccounts :
                  Usable(u, t) =>
                    /\ DepositAccepts(deposit(c, u, t, a.vault, a.mint, a.token_program))
                    /\ FundRewardsAccepts(fund_rewards(c, u, t, a.pool, a.mint, a.token_program))
                    /\ position_pda(c, u) \in opened =>
                          /\ ClaimRewardsAccepts(
                                claim_rewards(c, u, t, a.pool, a.mint, a.token_program))
                          /\ WithdrawAccepts(
                                withdraw(c, u, t, a.vault, a.pool, a.mint, a.token_program))

\* Every arena's own vault holds the stake locked in it and its own pool the
\* rewards its stakers own, whatever happens in another arena with the same
\* mint, authority or owners, and in the token program.
CustodyBacksEachArena ==
    \A c \in Created :
        /\ token[arena[c].vault].amount >= StakeIn(c)
        /\ token[arena[c].pool].amount >= owed[c]

Custody(c) == {arena[c].vault, arena[c].pool}

InCustody(c) == token[arena[c].vault].amount + token[arena[c].pool].amount

\* Tokens that leave the custody of an arena are burned or reach a token
\* account of an owner with stake in that arena; principal that of the owner
\* whose stake shrinks.
PayoutsReachOwner ==
    [][\A c \in Created :
          InCustody(c)' < InCustody(c) =>
              \A t \in TokenAccounts \ Custody(c) :
                  token'[t].amount > token[t].amount =>
                      \E u \in People :
                          LET p == position_pda(c, u)
                          IN  /\ token[t].holder = u
                              /\ stake[p] > 0
                              /\ stake' # stake => stake'[p] < stake[p]]_vars

\* Config and position accounts are rent exempt even if somebody sent lamports
\* to the address before it was created.
ProgramAccountsPaidFor ==
    \A k \in Created \cup opened : lamports[k] >= MinimumBalance
=============================================================================
