------------------------- MODULE ArenaCustodyProofs -------------------------
(***************************************************************************)
(* Theorems about any number of arenas, people, mints and token accounts:   *)
(* the custody accounts of an arena stay acceptable to every handler, hold  *)
(* what its own stakers locked and are owed, and pay nobody else; accounts  *)
(* created at derived addresses are rent exempt.                            *)
(*                                                                         *)
(* The argument: what a handler demands of a custody account depends on     *)
(* everything but its balance, instructions change balances only, and every *)
(* other change of a token account takes an authority that the guards of    *)
(* InitializeConfig made sure nobody has.  That authority is also what      *)
(* keeps the custody of two arenas apart, so that each instruction writes   *)
(* the books of the one arena whose tokens it moves.                        *)
(***************************************************************************)
EXTENDS ArenaCustody, TotalsProofs

-----------------------------------------------------------------------------
(* Token accounts and what is known of those in custody. *)

Fields == {"mint", "holder", "amount", "open", "frozen", "delegated", "close_authority",
           "extensions"}

Whole(account) == account = [f \in Fields |-> account[f]]

\* One token account before and after its balance moved.
SameButBalance(before, after) ==
    /\ Whole(after)
    /\ after.mint = before.mint
    /\ after.holder = before.holder
    /\ after.open = before.open
    /\ after.frozen = before.frozen
    /\ after.delegated = before.delegated
    /\ after.close_authority = before.close_authority
    /\ after.extensions = before.extensions

CustodyReady(c) ==
    /\ arena[c].token_program \in TokenPrograms
    /\ mint_decimals_ok(arena[c].mint, arena[c].token_program)
    /\ arena[c].vault # arena[c].pool
    /\ assert_custody_token_account(
          arena[c].token_program, arena[c].vault, arena[c].mint, vault_authority_pda(c))
    /\ assert_custody_token_account(
          arena[c].token_program, arena[c].pool, arena[c].mint, vault_authority_pda(c))

Tables ==
    /\ arena = [c \in Configs |-> arena[c]]
    /\ token = [t \in TokenAccounts |-> token[t]]
    /\ \A t \in TokenAccounts : Whole(token[t])
    /\ lamports \in [Configs \cup Positions -> Nat]
    /\ opened \subseteq Positions

IInv ==
    /\ Tables
    /\ \A c \in Created : CustodyReady(c)
    /\ ProgramAccountsPaidFor

\* Changing the balance of an account changes nothing else of it.
LEMMA BalanceOnly ==
    ASSUME NEW account, NEW amount, Whole(account)
    PROVE  SameButBalance(account, [account EXCEPT !.amount = amount])
  BY DEF Whole, SameButBalance, Fields

\* Initially nothing is created, and token accounts have all their fields.
LEMMA InitInv == Init => IInv
  <1> SUFFICES ASSUME Init PROVE IInv
    OBVIOUS
  <1>1. \A t \in TokenAccounts : Whole(token[t])
    BY DEF Init, TokenState, Whole, Fields
  <1>2. Created = {}
    BY DEF Init, Created, NoArena
  <1>3. Tables
    BY <1>1 DEF Init, Tables
  <1> QED
    BY <1>2, <1>3 DEF IInv, ProgramAccountsPaidFor, Init

-----------------------------------------------------------------------------
(* Steps that leave the authorities alone. *)

BalancesMove ==
    /\ token' = [t \in TokenAccounts |-> token'[t]]
    /\ \A t \in TokenAccounts : SameButBalance(token[t], token'[t])

\* A custody account whose balance changed is as acceptable as before.
LEMMA BalancesKeepCustody ==
    ASSUME NEW token_program, NEW t, NEW m, NEW authority,
           t \in TokenAccounts => SameButBalance(token[t], token'[t]), UNCHANGED mint,
           assert_custody_token_account(token_program, t, m, authority)
    PROVE  assert_custody_token_account(token_program, t, m, authority)'
  BY DEF assert_custody_token_account, unpack_token_account_ok, SameButBalance, mint_decimals_ok

\* All arenas stay ready in a step that leaves their custody accounts alone,
\* their balances excepted.
LEMMA CustodyKept ==
    ASSUME IInv, UNCHANGED <<arena, mint>>,
           \A c \in Created : \A t \in {arena[c].vault, arena[c].pool} :
               SameButBalance(token[t], token'[t])
    PROVE  \A c \in Created' : CustodyReady(c)'
  <1> SUFFICES ASSUME NEW c \in Created PROVE CustodyReady(c)'
    BY DEF Created
  <1>1. CustodyReady(c)
    BY DEF IInv
  <1>2. mint_decimals_ok(arena[c].mint, arena[c].token_program)'
    BY <1>1 DEF CustodyReady, mint_decimals_ok
  <1>3. /\ assert_custody_token_account(
              arena[c].token_program, arena[c].vault, arena[c].mint, vault_authority_pda(c))'
        /\ assert_custody_token_account(
              arena[c].token_program, arena[c].pool, arena[c].mint, vault_authority_pda(c))'
    BY <1>1, BalancesKeepCustody DEF CustodyReady
  <1> QED
    BY <1>1, <1>2, <1>3 DEF CustodyReady

\* A step that moves balances, and creates no account, preserves the invariant.
LEMMA BalancesSafe ==
    ASSUME IInv, BalancesMove, UNCHANGED <<arena, mint, lamports, opened>>
    PROVE  IInv'
  <1>1. \A c \in Created : \A t \in {arena[c].vault, arena[c].pool} :
            SameButBalance(token[t], token'[t])
    BY DEF IInv, CustodyReady, assert_custody_token_account, unpack_token_account_ok, BalancesMove
  <1>2. \A c \in Created' : CustodyReady(c)'
    BY <1>1, CustodyKept
  <1>3. Tables'
    BY DEF IInv, Tables, BalancesMove, SameButBalance
  <1>4. ProgramAccountsPaidFor'
    BY DEF IInv, ProgramAccountsPaidFor, Created
  <1> QED
    BY <1>2, <1>3, <1>4 DEF IInv

-----------------------------------------------------------------------------
(* Each action. *)

\* Moving tokens changes balances only.
LEMMA MovedBalances ==
    /\ IInv => Tables
    /\ \A list, amount : IInv /\ Deposit(list, amount) => BalancesMove
    /\ \A list, amount : IInv /\ FundRewards(list, amount) => BalancesMove
    /\ \A list, amount : IInv /\ ClaimRewards(list, amount) => BalancesMove
    /\ \A list, amount, shared, burned, payout :
          IInv /\ Withdraw(list, amount, shared, burned, payout) => BalancesMove
    /\ \A list : IInv /\ FinalizeRewards(list) => BalancesMove
    /\ \A from, to : IInv /\ Transfer(from, to) => BalancesMove
  <1>1. IInv => Tables
    BY DEF IInv
  <1>2. ASSUME IInv, NEW f, token' = [t \in TokenAccounts |-> [token[t] EXCEPT !.amount = f[t]]]
        PROVE  BalancesMove
    <2>1. \A t \in TokenAccounts : Whole(token[t])
      BY <1>2, <1>1 DEF Tables
    <2>2. \A t \in TokenAccounts : token'[t] = [token[t] EXCEPT !.amount = f[t]]
      BY <1>2
    <2>3. ASSUME NEW t \in TokenAccounts PROVE SameButBalance(token[t], token'[t])
      <3>1. \A account, amount :
                Whole(account) => SameButBalance(account, [account EXCEPT !.amount = amount])
        BY BalanceOnly
      <3>2. SameButBalance(token[t], [token[t] EXCEPT !.amount = f[t]])
        BY <2>1, <3>1
      <3> QED
        BY <2>2, <3>2
    <2>4. token' = [t \in TokenAccounts |-> token'[t]]
      BY <1>2
    <2> QED
      BY <2>3, <2>4 DEF BalancesMove
  <1>3. ASSUME IInv, NEW list, NEW amount, Deposit(list, amount) PROVE BalancesMove
    <2> DEFINE f == [t \in TokenAccounts |->
                        token[t].amount - If(t = list[2].key, amount) + If(t = list[5].key, amount)]
    <2>1. token' = [t \in TokenAccounts |-> [token[t] EXCEPT !.amount = f[t]]]
      BY <1>3 DEF Deposit, Moved
    <2> HIDE DEF f
    <2> QED
      BY <2>1, <1>2, <1>3
  <1>4. ASSUME IInv, NEW list, NEW amount, FundRewards(list, amount) PROVE BalancesMove
    <2> DEFINE f == [t \in TokenAccounts |->
                        token[t].amount - If(t = list[2].key, amount) + If(t = list[4].key, amount)]
    <2>1. token' = [t \in TokenAccounts |-> [token[t] EXCEPT !.amount = f[t]]]
      BY <1>4 DEF FundRewards, Moved
    <2> HIDE DEF f
    <2> QED
      BY <2>1, <1>2, <1>4
  <1>5. ASSUME IInv, NEW list, NEW amount, ClaimRewards(list, amount) PROVE BalancesMove
    <2> DEFINE f == [t \in TokenAccounts |->
                        token[t].amount - If(t = list[5].key, amount) + If(t = list[2].key, amount)]
    <2>1. token' = [t \in TokenAccounts |-> [token[t] EXCEPT !.amount = f[t]]]
      BY <1>5 DEF ClaimRewards, Moved
    <2> HIDE DEF f
    <2> QED
      BY <2>1, <1>2, <1>5
  <1>6. ASSUME IInv, NEW list, NEW amount, NEW shared, NEW burned, NEW payout,
               Withdraw(list, amount, shared, burned, payout)
        PROVE  BalancesMove
    <2> DEFINE f == [t \in TokenAccounts |->
                        token[t].amount
                        - (If(t = list[5].key, amount) + If(t = list[7].key, payout))
                        + (If(t = list[2].key, amount - shared - burned + payout)
                           + If(t = list[7].key, shared))]
    <2>1. token' = [t \in TokenAccounts |-> [token[t] EXCEPT !.amount = f[t]]]
      BY <1>6 DEF Withdraw, Moved
    <2> HIDE DEF f
    <2> QED
      BY <2>1, <1>2, <1>6
  <1>7. ASSUME IInv, NEW list, FinalizeRewards(list) PROVE BalancesMove
    <2> DEFINE f == [t \in TokenAccounts |->
                        token[t].amount - If(t = list[2].key, token[t].amount) + 0]
    <2>1. token' = [t \in TokenAccounts |-> [token[t] EXCEPT !.amount = f[t]]]
      BY <1>7 DEF FinalizeRewards, Moved
    <2> HIDE DEF f
    <2> QED
      BY <2>1, <1>2, <1>7
  <1>8. ASSUME IInv, NEW from, NEW to, Transfer(from, to) PROVE BalancesMove
    <2> DEFINE f == [t \in TokenAccounts |->
                        token[t].amount - If(t = from, 1) + If(t = to, 1)]
    <2>1. token' = [t \in TokenAccounts |-> [token[t] EXCEPT !.amount = f[t]]]
      BY <1>8 DEF Transfer, Moved
    <2> HIDE DEF f
    <2> QED
      BY <2>1, <1>2, <1>8
  <1> QED
    BY <1>1, <1>3, <1>4, <1>5, <1>6, <1>7, <1>8

\* Paying for an account at a derived address makes it rent exempt and leaves
\* every other address alone, whatever it held before.
LEMMA PaidFor ==
    ASSUME Tables, NEW key \in Configs \cup Positions, create_program_account(key)
    PROVE  /\ lamports' \in [Configs \cup Positions -> Nat]
           /\ lamports'[key] >= MinimumBalance
           /\ \A k \in Configs \cup Positions : lamports'[k] >= lamports[k]
  <1> DEFINE paid == IF lamports[key] < MinimumBalance THEN MinimumBalance ELSE lamports[key]
  <1>1. lamports' = [lamports EXCEPT ![key] = paid]
    BY DEF create_program_account
  <1>2. lamports \in [Configs \cup Positions -> Nat] /\ lamports[key] \in Nat
    BY DEF Tables
  <1>3. paid \in Nat /\ paid >= MinimumBalance /\ paid >= lamports[key]
    BY <1>2, CustodyAssumption
  <1> HIDE DEF paid
  <1> QED
    BY <1>1, <1>2, <1>3

\* A step that creates the accounts `created', paid for, moves balances at most
\* and keeps the arenas that exist preserves the invariant.
LEMMA CreationSafe ==
    ASSUME IInv, BalancesMove, UNCHANGED mint,
           NEW key \in Configs \cup Positions, create_program_account(key),
           arena' = [c \in Configs |-> arena'[c]],
           opened' \subseteq Positions,
           Created' \cup opened' \subseteq Created \cup opened \cup {key},
           \A c \in Created' : CustodyReady(c)'
    PROVE  IInv'
  <1>1. Tables
    BY DEF IInv
  <1>2. /\ lamports' \in [Configs \cup Positions -> Nat]
        /\ lamports'[key] >= MinimumBalance
        /\ \A k \in Configs \cup Positions : lamports'[k] >= lamports[k]
    BY <1>1, PaidFor
  <1>3. Tables'
    BY <1>1, <1>2 DEF Tables, BalancesMove, SameButBalance
  <1>4. ASSUME NEW k \in Created' \cup opened' PROVE lamports'[k] >= MinimumBalance
    <2>1. CASE k = key
      BY <1>2, <2>1
    <2>2. CASE k \in Created \cup opened
      <3>1. k \in Configs \cup Positions
        BY <1>1, <2>2 DEF Created, Tables
      <3>2. lamports[k] >= MinimumBalance /\ lamports[k] \in Nat /\ lamports'[k] \in Nat
        BY <1>1, <1>2, <2>2, <3>1 DEF IInv, ProgramAccountsPaidFor, Tables
      <3> QED
        BY <1>2, <3>1, <3>2, CustodyAssumption
    <2> QED
      BY <1>4, <2>1, <2>2
  <1>5. ProgramAccountsPaidFor'
    BY <1>4 DEF ProgramAccountsPaidFor
  <1> QED
    BY <1>3, <1>5 DEF IInv

\* InitializeConfig: the guards say that the new arena is ready; whatever was
\* at the address, no other arena changes.
LEMMA InitializeConfigSafe ==
    ASSUME IInv, NEW list, NEW config_id, NEW c \in Configs, list[2].key = c,
           InitializeConfigAccepts(list, config_id), InitializeConfig(list)
    PROVE  IInv'
  <1>1. Tables
    BY DEF IInv
  <1>2. arena' = [arena EXCEPT ![c] = [created |-> TRUE, mint |-> list[3].key,
                                       token_program |-> list[7].key,
                                       vault |-> list[4].key, pool |-> list[6].key]]
        /\ create_program_account(c) /\ UNCHANGED <<token, mint, opened>>
    BY DEF InitializeConfig
  <1>3. /\ arena' = [d \in Configs |-> arena'[d]]
        /\ arena'[c].mint = list[3].key
        /\ arena'[c].token_program = list[7].key
        /\ arena'[c].vault = list[4].key
        /\ arena'[c].pool = list[6].key
        /\ \A d \in Configs : d # c => arena'[d] = arena[d]
    BY <1>1, <1>2 DEF Tables
  <1>4. Created' \subseteq Created \cup {c}
    BY <1>3 DEF Created
  <1>5. BalancesMove
    BY <1>1, <1>2 DEF Tables, BalancesMove, SameButBalance
  <1>6. ASSUME NEW d \in Created' PROVE CustodyReady(d)'
    <2>1. CASE d = c
      <3>1. /\ list[7].key \in TokenPrograms
            /\ mint_decimals_ok(list[3].key, list[7].key)
            /\ list[4].key # list[6].key
            /\ assert_custody_token_account(
                  list[7].key, list[4].key, list[3].key, vault_authority_pda(c))
            /\ assert_custody_token_account(
                  list[7].key, list[6].key, list[3].key, vault_authority_pda(c))
        BY DEF InitializeConfigAccepts
      <3>3. mint_decimals_ok(arena[c].mint, arena[c].token_program)'
        BY <1>2, <1>3, <3>1 DEF mint_decimals_ok
      <3>5. assert_custody_token_account(
                arena[c].token_program, arena[c].vault, arena[c].mint, vault_authority_pda(c))'
        BY <1>2, <1>3, <3>1 DEF assert_custody_token_account, unpack_token_account_ok
      <3>6. assert_custody_token_account(
                arena[c].token_program, arena[c].pool, arena[c].mint, vault_authority_pda(c))'
        BY <1>2, <1>3, <3>1 DEF assert_custody_token_account, unpack_token_account_ok
      <3> QED
        BY <1>3, <2>1, <3>1, <3>3, <3>5, <3>6 DEF CustodyReady
    <2>2. CASE d # c
      <3>1. d \in Created /\ arena'[d] = arena[d]
        BY <1>3, <1>6, <2>2 DEF Created
      <3>2. CustodyReady(d)
        BY <3>1 DEF IInv
      <3> QED
        BY <1>2, <3>1, <3>2 DEF CustodyReady, mint_decimals_ok, assert_custody_token_account,
                                unpack_token_account_ok
    <2> QED
      BY <2>1, <2>2
  <1> QED
    BY <1>1, <1>2, <1>3, <1>4, <1>5, <1>6, CreationSafe DEF Tables

\* Only the sender's own key signs, so the signer of an accepted list is the
\* user who built it, whichever other entry is mistaken.
LEMMA OwnerSigns ==
    ASSUME NEW built, NEW u, 1 \in DOMAIN built, built[1] = new(u, TRUE),
           NEW list \in Sent(built), list[1].signer
    PROVE  list[1].key = u
  <1>1. CASE list = built
    BY <1>1 DEF new, Meta
  <1>2. ASSUME NEW i \in DOMAIN built, NEW key, list = Mistaken(built, i, key)
        PROVE  list[1].key = u
    <2>1. CASE i = 1
      <3>1. list[1] = [built[1] EXCEPT !.key = key, !.signer = FALSE]
        BY <1>2, <2>1 DEF Mistaken
      <3>2. list[1].signer = FALSE
        BY <3>1 DEF new, Meta
      <3> QED
        BY <3>2
    <2>2. CASE i # 1
      <3>1. list[1] = built[1]
        BY <1>2, <2>2 DEF Mistaken
      <3> QED
        BY <3>1 DEF new, Meta
    <2> QED
      BY <2>1, <2>2
  <1> QED
    BY <1>1, <1>2 DEF Sent

\* Deposit: the vault's balance grows; a position may be created, at the address
\* of its owner.
LEMMA DepositSafe ==
    ASSUME IInv, NEW list, NEW amount, list[1].key \in People,
           DepositAccepts(list), Deposit(list, amount)
    PROVE  IInv'
  <1>1. BalancesMove
    BY MovedBalances
  <1>2. list[4].key \in Positions
    BY DEF DepositAccepts, config_ok, Positions
  <1>3. UNCHANGED <<arena, mint>> /\ opened' = opened \cup {list[4].key}
    BY DEF Deposit
  <1>4. CASE list[4].key \in opened
    <2>1. UNCHANGED <<lamports, opened>>
      BY <1>3, <1>4 DEF Deposit
    <2> QED
      BY <1>1, <1>3, <2>1, BalancesSafe
  <1>5. CASE list[4].key \notin opened
    <2>1. create_program_account(list[4].key)
      BY <1>5 DEF Deposit
    <2>2. \A c \in Created : \A t \in {arena[c].vault, arena[c].pool} :
              SameButBalance(token[t], token'[t])
      BY <1>1 DEF IInv, CustodyReady, assert_custody_token_account, unpack_token_account_ok,
                  BalancesMove
    <2>3. \A c \in Created' : CustodyReady(c)'
      BY <1>3, <2>2, CustodyKept
    <2>4. arena' = [c \in Configs |-> arena'[c]] /\ opened' \subseteq Positions
      BY <1>2, <1>3 DEF IInv, Tables
    <2>5. Created' = Created
      BY <1>3 DEF Created
    <2> QED
      BY <1>1, <1>2, <1>3, <2>1, <2>3, <2>4, <2>5, CreationSafe
  <1> QED
    BY <1>4, <1>5

\* A change of one token account's authorities, unless it is in custody.
LEMMA RearrangedSafe ==
    ASSUME IInv, NEW t \in TokenAccounts, NEW changed, Whole(changed), Rearranged(t, changed),
           \A c \in Created :
               t \in {arena[c].vault, arena[c].pool} => SameButBalance(token[t], changed)
    PROVE  IInv'
  <1>1. Tables
    BY DEF IInv
  <1>2. /\ token' = [token EXCEPT ![t] = changed]
        /\ UNCHANGED <<arena, lamports, mint, opened>>
    BY DEF Rearranged
  <1>3. /\ token' = [a \in TokenAccounts |-> token'[a]]
        /\ token'[t] = changed
        /\ \A a \in TokenAccounts : a # t => token'[a] = token[a]
    BY <1>1, <1>2 DEF Tables
  <1>4. ASSUME NEW c \in Created, NEW a \in {arena[c].vault, arena[c].pool}
        PROVE  SameButBalance(token[a], token'[a])
    <2>1. a \in TokenAccounts
      BY DEF IInv, CustodyReady, assert_custody_token_account, unpack_token_account_ok
    <2>2. CASE a = t
      BY <1>3, <2>2
    <2>3. CASE a # t
      <3>1. token'[a] = token[a] /\ Whole(token[a])
        BY <1>1, <1>3, <2>1, <2>3 DEF Tables
      <3> QED
        BY <3>1 DEF SameButBalance
    <2> QED
      BY <2>2, <2>3
  <1>5. \A c \in Created' : CustodyReady(c)'
    BY <1>2, <1>4, CustodyKept
  <1>6. Tables'
    BY <1>1, <1>2, <1>3 DEF Tables
  <1>7. ProgramAccountsPaidFor'
    BY <1>2 DEF IInv, ProgramAccountsPaidFor, Created
  <1> QED
    BY <1>5, <1>6, <1>7 DEF IInv

\* No account in custody is held by a person, may be closed by one, is delegated
\* or has a mint that can freeze it.
LEMMA NobodyHoldsCustody ==
    ASSUME IInv, NEW c \in Created, NEW t \in {arena[c].vault, arena[c].pool}
    PROVE  /\ ~HeldBySomebody(t)
           /\ ~token[t].close_authority
           /\ ~mint[token[t].mint].freeze_authority
  <1>1. /\ token[t].holder = vault_authority_pda(c)
        /\ token[t].mint = arena[c].mint
        /\ ~token[t].close_authority
        /\ ~mint[arena[c].mint].freeze_authority
    BY DEF IInv, CustodyReady, assert_custody_token_account, mint_decimals_ok
  <1>2. vault_authority_pda(c) \in VaultAuthorities
    BY DEF Created, VaultAuthorities
  <1> QED
    BY <1>1, <1>2, CustodyAssumption DEF HeldBySomebody

\* Changing one field leaves a whole account.
LEMMA StillWhole ==
    ASSUME NEW account, Whole(account), NEW x, NEW y
    PROVE  /\ Whole([account EXCEPT !.holder = x, !.delegated = y])
           /\ Whole([account EXCEPT !.close_authority = x])
           /\ Whole([account EXCEPT !.delegated = x])
           /\ Whole([account EXCEPT !.extensions = x])
           /\ Whole([account EXCEPT !.open = x])
           /\ Whole([account EXCEPT !.frozen = x])
           /\ Whole([account EXCEPT !.amount = x])
  BY DEF Whole, Fields

\* The token program used directly.
LEMMA TokenProgramSafe ==
    ASSUME IInv, NEW t \in TokenAccounts, TokenProgramStep(t)
    PROVE  IInv'
  <1>1. Whole(token[t])
    BY DEF IInv, Tables
  <1>2. \A c \in Created :
            t \in {arena[c].vault, arena[c].pool} =>
                /\ ~HeldBySomebody(t)
                /\ ~token[t].close_authority
                /\ ~mint[token[t].mint].freeze_authority
    BY NobodyHoldsCustody
  <1>3. ASSUME NEW to \in TokenAccounts, Transfer(t, to) PROVE IInv'
    <2>1. BalancesMove
      BY <1>3, MovedBalances
    <2>2. UNCHANGED <<arena, mint, lamports, opened>>
      BY <1>3 DEF Transfer
    <2> QED
      BY <2>1, <2>2, BalancesSafe
  <1>4. ASSUME NEW holder, HandOver(t, holder) PROVE IInv'
    BY <1>1, <1>2, <1>4, RearrangedSafe, StillWhole DEF HandOver
  <1>5. ASSUME SetCloseAuthority(t) PROVE IInv'
    BY <1>1, <1>2, <1>5, RearrangedSafe, StillWhole DEF SetCloseAuthority
  <1>6. ASSUME Approve(t) PROVE IInv'
    BY <1>1, <1>2, <1>6, RearrangedSafe, StillWhole DEF Approve
  <1>7. ASSUME RequireMemo(t) PROVE IInv'
    BY <1>1, <1>2, <1>7, RearrangedSafe, StillWhole DEF RequireMemo
  <1>8. ASSUME Close(t) PROVE IInv'
    BY <1>1, <1>2, <1>8, RearrangedSafe, StillWhole DEF Close
  <1>9. ASSUME Freeze(t) PROVE IInv'
    BY <1>1, <1>2, <1>9, RearrangedSafe, StillWhole DEF Freeze
  <1>10. ASSUME BurnAsPermanentDelegate(t) PROVE IInv'
    <2> DEFINE burned == [token[t] EXCEPT !.amount = token[t].amount - 1]
    <2>1. Rearranged(t, burned)
      BY <1>10 DEF BurnAsPermanentDelegate
    <2>2. SameButBalance(token[t], burned)
      BY <1>1, BalanceOnly
    <2>3. Whole(burned)
      BY <2>2 DEF SameButBalance
    <2> HIDE DEF burned
    <2> QED
      BY <2>1, <2>2, <2>3, RearrangedSafe
  <1> QED
    BY <1>3, <1>4, <1>5, <1>6, <1>7, <1>8, <1>9, <1>10 DEF TokenProgramStep

\* Instructions of stakers and funders.
LEMMA UserSafe ==
    ASSUME IInv, NEW c \in Created, NEW u \in People, UserStep(c, u)
    PROVE  IInv'
  <1> DEFINE a == arena[c]
             t == wallet[u]
  <1>1. ASSUME NEW list \in Sent(deposit(c, u, t, a.vault, a.mint, a.token_program)),
               DepositAccepts(list), Deposit(list, 1)
        PROVE  IInv'
    <2> DEFINE built == deposit(c, u, t, a.vault, a.mint, a.token_program)
    <2>1. 1 \in DOMAIN built /\ built[1] = new(u, TRUE)
      BY DEF deposit
    <2> HIDE DEF built
    <2>2. list[1].signer
      BY <1>1 DEF DepositAccepts
    <2>3. list[1].key = u
      BY <1>1, <2>1, <2>2, OwnerSigns DEF built
    <2> QED
      BY <1>1, <2>3, DepositSafe
  <1>2. ASSUME NEW list, FundRewards(list, 1) PROVE IInv'
    <2>1. BalancesMove
      BY <1>2, MovedBalances
    <2> QED
      BY <1>2, <2>1, BalancesSafe DEF FundRewards
  <1>3. ASSUME NEW list, NEW amount, ClaimRewards(list, amount) PROVE IInv'
    <2>1. BalancesMove
      BY <1>3, MovedBalances
    <2> QED
      BY <1>3, <2>1, BalancesSafe DEF ClaimRewards
  <1>4. ASSUME NEW list, NEW amount, NEW shared, NEW burned, NEW payout,
               Withdraw(list, amount, shared, burned, payout)
        PROVE  IInv'
    <2>1. BalancesMove
      BY <1>4, MovedBalances
    <2> QED
      BY <1>4, <2>1, BalancesSafe DEF Withdraw
  <1> QED
    BY <1>1, <1>2, <1>3, <1>4 DEF UserStep

\* A new arena, at the address its creator's key and its number derive.
LEMMA CreationStepSafe == IInv /\ Creation => IInv'
  <1> SUFFICES ASSUME IInv, NEW a \in Authorities, NEW i \in ConfigIds, NEW m \in Mints,
                      NEW vault \in TokenAccounts, NEW pool \in TokenAccounts,
                      NEW list \in {initialize_config(a, config_pda(a, i), m, vault, pool,
                                                      mint[m].program)},
                      InitializeConfigAccepts(list, i), InitializeConfig(list)
               PROVE  IInv'
    BY DEF Creation
  <1>1. list[2].key = config_pda(a, i)
    BY DEF initialize_config, new, new_readonly, Meta
  <1>2. config_pda(a, i) \in Configs
    BY DEF Configs
  <1> QED
    BY <1>1, <1>2, InitializeConfigSafe

\* Every step preserves the invariant.
LEMMA NextSafe == IInv /\ [Next]_vars => IInv'
  <1> SUFFICES ASSUME IInv, [Next]_vars PROVE IInv'
    OBVIOUS
  <1>1. CASE Creation
    BY <1>1, CreationStepSafe
  <1>2. ASSUME NEW c \in Created, AnyonesStep(c) PROVE IInv'
    <2>1. PICK list : FinalizeRewards(list)
      BY <1>2 DEF AnyonesStep
    <2>2. BalancesMove
      BY <2>1, MovedBalances
    <2> QED
      BY <2>1, <2>2, BalancesSafe DEF FinalizeRewards
  <1>3. ASSUME NEW c \in Created, NEW u \in People, UserStep(c, u) PROVE IInv'
    BY <1>3, UserSafe
  <1>4. ASSUME NEW t \in TokenAccounts, TokenProgramStep(t) PROVE IInv'
    BY <1>4, TokenProgramSafe
  <1>5. CASE UNCHANGED vars
    BY <1>5 DEF vars, IInv, Tables, ProgramAccountsPaidFor, Created, CustodyReady,
                mint_decimals_ok, assert_custody_token_account, unpack_token_account_ok
  <1> QED
    BY <1>1, <1>2, <1>3, <1>4, <1>5 DEF Next

-----------------------------------------------------------------------------
(* Theorems. *)

\* The invariant holds in every reachable state, for any number of arenas.
THEOREM CustodyInv == Spec => []IInv
  <1>1. Init => IInv
    BY InitInv
  <1>2. IInv /\ [Next]_vars => IInv'
    BY NextSafe
  <1> QED
    BY <1>1, <1>2, PTL DEF Spec

\* What is demanded of the reward pool holds of the one that is recorded.
LEMMA PoolAccepted ==
    ASSUME IInv, NEW c \in Created
    PROVE  PoolAccepts(c, arena[c].pool, vault_authority_pda(c), arena[c].mint,
                       arena[c].token_program)
  BY DEF IInv, CustodyReady, PoolAccepts, config_ok, Recorded, Created

\* In a state of the invariant every built list is accepted.
LEMMA BuiltAccepted == IInv => BuiltAccountsAccepted
  <1> SUFFICES ASSUME IInv, NEW c \in Created
               PROVE  LET a == arena[c]
                          Usable(u, t) == assert_token_account(a.token_program, t, a.mint, u)
                      IN  /\ RollEpochAccepts(roll_epoch(c, a.pool, a.mint, a.token_program))
                          /\ FinalizeRewardsAccepts(
                                finalize_rewards(c, a.pool, a.mint, a.token_program))
                          /\ \A u \in People :
                                position_pda(c, u) \in opened =>
                                    ActivatePositionAccepts(
                                        activate_position(c, u, a.pool, a.mint, a.token_program))
                          /\ \A u \in People, t \in TokenAccounts :
                                Usable(u, t) =>
                                  /\ DepositAccepts(
                                        deposit(c, u, t, a.vault, a.mint, a.token_program))
                                  /\ FundRewardsAccepts(
                                        fund_rewards(c, u, t, a.pool, a.mint, a.token_program))
                                  /\ position_pda(c, u) \in opened =>
                                        /\ ClaimRewardsAccepts(
                                              claim_rewards(c, u, t, a.pool, a.mint,
                                                            a.token_program))
                                        /\ WithdrawAccepts(
                                              withdraw(c, u, t, a.vault, a.pool, a.mint,
                                                       a.token_program))
    BY DEF BuiltAccountsAccepted
  <1> DEFINE a == arena[c]
  <1>1. PoolAccepts(c, a.pool, vault_authority_pda(c), a.mint, a.token_program)
    BY PoolAccepted
  <1>2. /\ config_ok(c)
        /\ a.token_program \in TokenPrograms
        /\ a.vault # a.pool
        /\ assert_custody_token_account(a.token_program, a.vault, a.mint, vault_authority_pda(c))
    BY DEF IInv, CustodyReady, config_ok, Created
  <1> HIDE DEF a
  <1>3. RollEpochAccepts(roll_epoch(c, a.pool, a.mint, a.token_program))
    BY <1>1 DEF RollEpochAccepts, roll_epoch, new, new_readonly, Meta, Writable
  <1>4. FinalizeRewardsAccepts(finalize_rewards(c, a.pool, a.mint, a.token_program))
    BY <1>1 DEF FinalizeRewardsAccepts, finalize_rewards, roll_epoch, new, new_readonly, Meta,
                Writable
  <1>5. ASSUME NEW u \in People, position_pda(c, u) \in opened
        PROVE  ActivatePositionAccepts(activate_position(c, u, a.pool, a.mint, a.token_program))
    BY <1>1, <1>5 DEF ActivatePositionAccepts, activate_position, new, new_readonly, Meta,
                      Writable, position_ok
  <1>6. ASSUME NEW u \in People, NEW t \in TokenAccounts,
               assert_token_account(a.token_program, t, a.mint, u)
        PROVE  /\ DepositAccepts(deposit(c, u, t, a.vault, a.mint, a.token_program))
               /\ FundRewardsAccepts(fund_rewards(c, u, t, a.pool, a.mint, a.token_program))
               /\ position_pda(c, u) \in opened =>
                     /\ ClaimRewardsAccepts(
                           claim_rewards(c, u, t, a.pool, a.mint, a.token_program))
                     /\ WithdrawAccepts(
                           withdraw(c, u, t, a.vault, a.pool, a.mint, a.token_program))
    <2>1. DepositAccepts(deposit(c, u, t, a.vault, a.mint, a.token_program))
      BY <1>2, <1>6 DEF DepositAccepts, deposit, new, new_readonly, Meta, Writable, Recorded, a
    <2>2. FundRewardsAccepts(fund_rewards(c, u, t, a.pool, a.mint, a.token_program))
      BY <1>1, <1>6 DEF FundRewardsAccepts, fund_rewards, new, new_readonly, Meta, Writable
    <2>3. ASSUME position_pda(c, u) \in opened
          PROVE  ClaimRewardsAccepts(claim_rewards(c, u, t, a.pool, a.mint, a.token_program))
      BY <1>1, <1>6, <2>3 DEF ClaimRewardsAccepts, claim_rewards, new, new_readonly, Meta,
                              Writable, position_ok
    <2>4. ASSUME position_pda(c, u) \in opened
          PROVE  WithdrawAccepts(withdraw(c, u, t, a.vault, a.pool, a.mint, a.token_program))
      BY <1>1, <1>2, <1>6, <2>4 DEF WithdrawAccepts, withdraw, new, new_readonly, Meta,
                                    Writable, position_ok, a
    <2> QED
      BY <2>1, <2>2, <2>3, <2>4
  <1> QED
    BY <1>3, <1>4, <1>5, <1>6 DEF a

\* Once an arena exists, nothing that anybody does with the token program, other
\* arenas or mistaken account lists can make a handler refuse the lists that
\* instruction.rs builds for it: no claim and no exit is ever blocked by its
\* accounts, for any number of arenas, mints and people.
THEOREM NeverRefused == Spec => []BuiltAccountsAccepted
  BY CustodyInv, BuiltAccepted, PTL

\* Config and position accounts are rent exempt, whatever was sent to their
\* addresses before create_program_account.
THEOREM RentExempt == Spec => []ProgramAccountsPaidFor
  <1>1. IInv => ProgramAccountsPaidFor
    BY DEF IInv
  <1> QED
    BY <1>1, CustodyInv, PTL

-----------------------------------------------------------------------------
(* Whose tokens: each arena's custody accounts are held by its own vault    *)
(* authority and so by no other arena and by no person; what an instruction *)
(* adds to and takes from them is what it writes into that arena's books.   *)

Ledgers ==
    /\ stake \in [Positions -> Nat]
    /\ owed \in [Configs -> Nat]
    /\ \A t \in TokenAccounts : token[t].amount \in Nat

\* At the address of an arena not created yet, nothing is staked or owed.
NothingBefore ==
    \A c \in Configs \ Created :
        owed[c] = 0 /\ \A u \in People : stake[position_pda(c, u)] = 0

Backed == Ledgers /\ NothingBefore /\ CustodyBacksEachArena

\* The positions of a config are distinct from those of any other.
LEMMA PositionsApart ==
    ASSUME NEW c \in Configs, NEW u \in People
    PROVE  /\ position_pda(c, u) \in Positions
           /\ \A d \in Configs, v \in People :
                  position_pda(d, v) = position_pda(c, u) => d = c /\ v = u
  BY DEF Positions, position_pda

\* Custody accounts are two token accounts, which the arena's vault authority holds.
LEMMA CustodyHeld ==
    ASSUME IInv, NEW c \in Created
    PROVE  /\ arena[c].vault \in TokenAccounts /\ arena[c].pool \in TokenAccounts
           /\ arena[c].vault # arena[c].pool
           /\ \A t \in Custody(c) : /\ t \in TokenAccounts
                                    /\ token[t].holder = vault_authority_pda(c)
                                    /\ token[t].holder \notin People
                                    /\ ~token[t].delegated
                                    /\ token[t].mint = arena[c].mint
                                    /\ mint_decimals_ok(arena[c].mint, arena[c].token_program)
  <1>1. CustodyReady(c)
    BY DEF IInv
  <1>2. vault_authority_pda(c) \in VaultAuthorities
    BY DEF Created, VaultAuthorities
  <1> QED
    BY <1>1, <1>2, CustodyAssumption DEF CustodyReady, assert_custody_token_account,
                                         unpack_token_account_ok, Custody

\* No account is in the custody of two arenas.
LEMMA CustodyApart ==
    ASSUME IInv, NEW c \in Created, NEW d \in Created, c # d
    PROVE  Custody(c) \cap Custody(d) = {}
  <1>1. vault_authority_pda(c) # vault_authority_pda(d)
    BY DEF vault_authority_pda
  <1> QED
    BY <1>1, CustodyHeld

\* The sum of a config's stakes is a natural number.
LEMMA StakeInType ==
    ASSUME NEW c \in Configs
    PROVE  /\ Ledgers => StakeIn(c) \in Nat
           /\ Ledgers' => StakeIn(c)' \in Nat
  <1>1. \A s \in [Positions -> Nat] :
            SumOver(People, [u \in People |-> s[position_pda(c, u)]]) \in Nat
    <2> TAKE s \in [Positions -> Nat]
    <2>1. [u \in People |-> s[position_pda(c, u)]] \in [People -> Nat]
      BY PositionsApart
    <2> QED
      BY <2>1, SumType, CustodyAssumption
  <1> QED
    BY <1>1 DEF StakeIn, Ledgers

\* Initially there is no arena, and nothing in the books.
LEMMA InitBacked == Init => Backed
  <1> SUFFICES ASSUME Init PROVE Backed
    OBVIOUS
  <1>1. Created = {}
    BY DEF Init, Created, NoArena
  <1>2. Ledgers
    BY DEF Init, Ledgers, TokenState
  <1>3. NothingBefore
    BY PositionsApart DEF Init, NothingBefore
  <1> QED
    BY <1>1, <1>2, <1>3 DEF Backed, CustodyBacksEachArena

\* A step that writes the books of one arena at most, takes nothing from the
\* custody of another, and leaves its own accounts with what its books say.
LEMMA BackedStep ==
    ASSUME IInv, Backed, UNCHANGED arena, Ledgers', NEW c \in Created,
           \A d \in Configs : d # c =>
               /\ owed'[d] = owed[d]
               /\ \A u \in People : stake'[position_pda(d, u)] = stake[position_pda(d, u)],
           \A d \in Created : d # c => \A t \in Custody(d) : token'[t].amount >= token[t].amount,
           token'[arena[c].vault].amount >= StakeIn(c)',
           token'[arena[c].pool].amount >= owed'[c]
    PROVE  Backed'
  <1>1. Created' = Created
    BY DEF Created
  <1>2. NothingBefore'
    BY <1>1 DEF Backed, NothingBefore
  <1>3. ASSUME NEW d \in Created
        PROVE  /\ token'[arena[d].vault].amount >= StakeIn(d)'
               /\ token'[arena[d].pool].amount >= owed'[d]
    <2>1. CASE d = c
      BY <2>1
    <2>2. CASE d # c
      <3>1. d \in Configs
        BY DEF Created
      <3>2. StakeIn(d)' = StakeIn(d)
        <4> DEFINE now == [u \in People |-> stake[position_pda(d, u)]]
                   next == [u \in People |-> stake'[position_pda(d, u)]]
        <4>1. now = next
          BY <2>2, <3>1
        <4> QED
          BY <4>1 DEF StakeIn
      <3>3. /\ token[arena[d].vault].amount >= StakeIn(d)
            /\ token[arena[d].pool].amount >= owed[d]
        BY DEF Backed, CustodyBacksEachArena
      <3>4. /\ token'[arena[d].vault].amount >= token[arena[d].vault].amount
            /\ token'[arena[d].pool].amount >= token[arena[d].pool].amount
        BY <2>2 DEF Custody
      <3>5. StakeIn(d) \in Nat /\ owed[d] \in Nat
        BY <3>1, StakeInType DEF Backed, Ledgers
      <3>6. /\ token[arena[d].vault].amount \in Nat /\ token[arena[d].pool].amount \in Nat
            /\ token'[arena[d].vault].amount \in Nat /\ token'[arena[d].pool].amount \in Nat
        BY CustodyHeld DEF Backed, Ledgers
      <3>7. owed'[d] = owed[d]
        BY <2>2, <3>1
      <3> DEFINE vault == token'[arena[d].vault].amount
                 pool == token'[arena[d].pool].amount
                 staked == StakeIn(d)'
                 promised == owed'[d]
      <3>8. /\ vault \in Nat /\ pool \in Nat
            /\ vault >= token[arena[d].vault].amount /\ pool >= token[arena[d].pool].amount
            /\ staked = StakeIn(d) /\ promised = owed[d]
        BY <3>2, <3>4, <3>6, <3>7
      <3> HIDE DEF vault, pool, staked, promised
      <3>9. vault >= staked /\ pool >= promised
        BY <3>3, <3>5, <3>6, <3>8
      <3> QED
        BY <3>9 DEF vault, pool, staked, promised
    <2> QED
      BY <2>1, <2>2
  <1>4. CustodyBacksEachArena'
    BY <1>1, <1>3 DEF CustodyBacksEachArena
  <1> QED
    BY <1>2, <1>4 DEF Backed

\* Changing the stake of one position changes the sum of its config by as much,
\* and no other.
LEMMA StakeChanges ==
    ASSUME Ledgers, Ledgers', NEW c \in Configs, NEW u \in People,
           \A p \in Positions : p # position_pda(c, u) => stake'[p] = stake[p]
    PROVE  /\ StakeIn(c)' + stake[position_pda(c, u)]
                  = StakeIn(c) + stake'[position_pda(c, u)]
           /\ \A d \in Configs : d # c =>
                  \A v \in People : stake'[position_pda(d, v)] = stake[position_pda(d, v)]
  <1> DEFINE now == [v \in People |-> stake[position_pda(c, v)]]
             next == [v \in People |-> stake'[position_pda(c, v)]]
  <1>1. now \in [People -> Nat] /\ next \in [People -> Nat]
    BY PositionsApart DEF Ledgers
  <1>2. \A v \in People \ {u} : next[v] = now[v]
    BY PositionsApart
  <1>3. now[u] = stake[position_pda(c, u)] /\ next[u] = stake'[position_pda(c, u)]
    OBVIOUS
  <1>4. StakeIn(c) = SumOver(People, now) /\ StakeIn(c)' = SumOver(People, next)
    BY DEF StakeIn
  <1> HIDE DEF now, next
  <1>5. SumOver(People, next) + now[u] = SumOver(People, now) + next[u]
    BY <1>1, <1>2, SumUpdate, CustodyAssumption
  <1>6. \A d \in Configs : d # c =>
            \A v \in People : stake'[position_pda(d, v)] = stake[position_pda(d, v)]
    BY PositionsApart
  <1> QED
    BY <1>3, <1>4, <1>5, <1>6

\* No arena's custody pays for the step.
CustodyKeeps == \A d \in Created : \A t \in Custody(d) : token'[t].amount >= token[t].amount

\* What a move of balances leaves on each account.
LEMMA Amounts ==
    ASSUME IInv, NEW f,
           token' = [t \in TokenAccounts |-> [token[t] EXCEPT !.amount = f[t]]]
    PROVE  \A t \in TokenAccounts : token'[t].amount = f[t]
  <1> TAKE t \in TokenAccounts
  <1>1. Whole(token[t])
    BY DEF IInv, Tables
  <1>2. "amount" \in DOMAIN token[t]
    BY <1>1 DEF Whole, Fields
  <1>3. token'[t] = [token[t] EXCEPT !.amount = f[t]]
    OBVIOUS
  <1> QED
    BY <1>2, <1>3

\* A transfer of the amount from one account to another.
Paid(from, to, amount) ==
    /\ Movable(from, to, amount)
    /\ Moved(LAMBDA t : If(t = from, amount), LAMBDA t : If(t = to, amount))

\* A payment takes the amount from the one account and adds it to the other.
LEMMA PaidAmounts ==
    ASSUME IInv, Ledgers, NEW from \in TokenAccounts, NEW to \in TokenAccounts, from # to,
           NEW amount \in Nat, Paid(from, to, amount)
    PROVE  /\ \A t \in TokenAccounts : token'[t].amount \in Nat
           /\ token'[from].amount = token[from].amount - amount
           /\ token'[to].amount = token[to].amount + amount
           /\ \A t \in TokenAccounts \ {from, to} : token'[t].amount = token[t].amount
  <1> DEFINE f == [t \in TokenAccounts |->
                      token[t].amount - If(t = from, amount) + If(t = to, amount)]
  <1>1. token' = [t \in TokenAccounts |-> [token[t] EXCEPT !.amount = f[t]]]
    BY DEF Paid, Moved
  <1>2. /\ f[from] = token[from].amount - amount + 0
        /\ f[to] = token[to].amount - 0 + amount
        /\ \A t \in TokenAccounts \ {from, to} : f[t] = token[t].amount - 0 + 0
    BY DEF If
  <1> HIDE DEF f
  <1>3. \A t \in TokenAccounts : token'[t].amount = f[t]
    BY <1>1, Amounts
  <1>4. token[from].amount >= amount /\ \A t \in TokenAccounts : token[t].amount \in Nat
    BY DEF Paid, Movable, Ledgers
  <1>5. /\ f[from] = token[from].amount - amount /\ f[from] \in Nat
        /\ f[to] = token[to].amount + amount /\ f[to] \in Nat
        /\ \A t \in TokenAccounts \ {from, to} : f[t] = token[t].amount /\ f[t] \in Nat
    BY <1>2, <1>4
  <1> QED
    BY <1>3, <1>5

\* An account that is not in custody pays; custody keeps what it has.
LEMMA PaidByOthers ==
    ASSUME IInv, Ledgers, NEW from \in TokenAccounts, NEW to \in TokenAccounts, from # to,
           NEW amount \in Nat, Paid(from, to, amount), \A d \in Created : from \notin Custody(d)
    PROVE  CustodyKeeps
  <1>1. /\ \A t \in TokenAccounts : token[t].amount \in Nat
        /\ token'[to].amount = token[to].amount + amount
        /\ \A t \in TokenAccounts \ {from, to} : token'[t].amount = token[t].amount
    BY PaidAmounts DEF Ledgers
  <1>2. ASSUME NEW t \in TokenAccounts, t # from PROVE token'[t].amount >= token[t].amount
    <2>1. CASE t = to
      <3> DEFINE after == token'[t].amount
      <3>1. after = token[t].amount + amount /\ token[t].amount \in Nat
        BY <1>1, <2>1
      <3> HIDE DEF after
      <3>2. after >= token[t].amount
        BY <3>1
      <3> QED
        BY <3>2 DEF after
    <2>2. CASE t # to
      <3>1. token'[t].amount = token[t].amount /\ token[t].amount \in Nat
        BY <1>1, <1>2, <2>2
      <3> QED
        BY <3>1
    <2> QED
      BY <2>1, <2>2
  <1> QED
    BY <1>2, CustodyHeld DEF CustodyKeeps

\* What people own is in nobody's custody.
LEMMA PeoplesAccounts ==
    ASSUME IInv, NEW t, NEW token_program, NEW m, NEW u \in People,
           assert_token_account(token_program, t, m, u)
    PROVE  t \in TokenAccounts /\ token[t].holder = u /\ \A d \in Created : t \notin Custody(d)
  BY CustodyHeld DEF assert_token_account, unpack_token_account_ok

\* Deposit: the vault grows by what is staked.
LEMMA DepositBooks ==
    ASSUME IInv, Backed, NEW list, NEW amount \in Nat, list[1].key \in People,
           DepositAccepts(list), Deposit(list, amount)
    PROVE  Backed' /\ CustodyKeeps
  <1> DEFINE u == list[1].key
             from == list[2].key
             c == list[3].key
             position == list[4].key
             vault == list[5].key
  <1>1. /\ c \in Created /\ c \in Configs /\ vault = arena[c].vault
        /\ position = position_pda(c, u)
        /\ assert_token_account(list[8].key, from, list[7].key, u)
    BY DEF DepositAccepts, config_ok, Created
  <1>2. /\ u \in People /\ UNCHANGED arena /\ owed' = owed
        /\ stake' = [stake EXCEPT ![position] = @ + amount]
        /\ Paid(from, vault, amount)
    BY DEF Deposit, Paid
  <1> HIDE DEF u, from, c, position, vault
  <1>3. from \in TokenAccounts /\ \A d \in Created : from \notin Custody(d)
    BY <1>1, <1>2, PeoplesAccounts
  <1>4. /\ vault \in TokenAccounts /\ vault \in Custody(c) /\ from # vault
        /\ arena[c].pool \in TokenAccounts /\ arena[c].pool \in Custody(c)
    BY <1>1, <1>3, CustodyHeld DEF Custody
  <1>5. CustodyKeeps
    BY <1>2, <1>3, <1>4, PaidByOthers DEF Backed
  <1>6. position \in Positions /\ Ledgers
    BY <1>1, <1>2, PositionsApart DEF Backed
  <1>7. (\A t \in TokenAccounts : token'[t].amount \in Nat)
        /\ token'[vault].amount = token[vault].amount + amount
    BY <1>2, <1>3, <1>4, <1>6, PaidAmounts
  <1>8. Ledgers'
    BY <1>2, <1>6, <1>7 DEF Ledgers
  <1>9. /\ stake[position] \in Nat
        /\ stake'[position] = stake[position] + amount
        /\ \A p \in Positions : p # position => stake'[p] = stake[p]
    BY <1>2, <1>6 DEF Ledgers
  <1>10. /\ StakeIn(c)' + stake[position] = StakeIn(c) + stake'[position]
         /\ \A d \in Configs : d # c =>
                \A v \in People : stake'[position_pda(d, v)] = stake[position_pda(d, v)]
    BY <1>1, <1>2, <1>6, <1>8, <1>9, StakeChanges
  <1>11. token[vault].amount >= StakeIn(c) /\ token[arena[c].pool].amount >= owed[c]
    BY <1>1 DEF Backed, CustodyBacksEachArena
  <1>12. /\ StakeIn(c) \in Nat /\ StakeIn(c)' \in Nat /\ token[vault].amount \in Nat
         /\ owed[c] \in Nat
    BY <1>1, <1>4, <1>6, <1>8, StakeInType DEF Ledgers
  <1> DEFINE locked == token'[vault].amount
             staked == StakeIn(c)'
             own == stake'[position]
  <1>13. /\ locked = token[vault].amount + amount /\ own = stake[position] + amount
         /\ staked + stake[position] = StakeIn(c) + own /\ staked \in Nat
    BY <1>7, <1>9, <1>10, <1>12
  <1> HIDE DEF locked, staked, own
  <1>14. locked >= staked
    BY <1>9, <1>11, <1>12, <1>13
  <1>15. token'[arena[c].pool].amount >= owed'[c]
    <2> DEFINE pool == token'[arena[c].pool].amount
    <2>1. /\ pool >= token[arena[c].pool].amount /\ pool \in Nat
          /\ token[arena[c].pool].amount \in Nat
      BY <1>1, <1>4, <1>5, <1>6, <1>7 DEF CustodyKeeps, Ledgers
    <2> HIDE DEF pool
    <2>2. pool >= owed[c]
      BY <1>11, <1>12, <2>1
    <2> QED
      BY <1>2, <2>2 DEF pool
  <1>16. Backed'
    BY <1>1, <1>2, <1>5, <1>8, <1>10, <1>14, <1>15, BackedStep
       DEF locked, staked, CustodyKeeps
  <1> QED
    BY <1>5, <1>16

\* FundRewards: the pool grows by what is owed.
LEMMA FundRewardsBooks ==
    ASSUME IInv, Backed, NEW list, NEW amount \in Nat, list[1].key \in People,
           FundRewardsAccepts(list), FundRewards(list, amount)
    PROVE  Backed' /\ CustodyKeeps
  <1> DEFINE u == list[1].key
             from == list[2].key
             c == list[3].key
             pool == list[4].key
  <1>1. /\ c \in Created /\ c \in Configs /\ pool = arena[c].pool
        /\ assert_token_account(list[6].key, from, list[5].key, u)
    BY DEF FundRewardsAccepts, PoolAccepts, config_ok, Created
  <1>2. /\ u \in People /\ UNCHANGED arena /\ stake' = stake
        /\ owed' = [owed EXCEPT ![c] = @ + amount]
        /\ Paid(from, pool, amount)
    BY DEF FundRewards, Paid
  <1> HIDE DEF u, from, c, pool
  <1>3. from \in TokenAccounts /\ \A d \in Created : from \notin Custody(d)
    BY <1>1, <1>2, PeoplesAccounts
  <1>4. /\ pool \in TokenAccounts /\ pool \in Custody(c) /\ from # pool
        /\ arena[c].vault \in TokenAccounts /\ arena[c].vault \in Custody(c)
    BY <1>1, <1>3, CustodyHeld DEF Custody
  <1>5. CustodyKeeps
    BY <1>2, <1>3, <1>4, PaidByOthers DEF Backed
  <1>6. Ledgers
    BY DEF Backed
  <1>7. (\A t \in TokenAccounts : token'[t].amount \in Nat)
        /\ token'[pool].amount = token[pool].amount + amount
    BY <1>2, <1>3, <1>4, <1>6, PaidAmounts
  <1>8. /\ owed[c] \in Nat /\ owed'[c] = owed[c] + amount
        /\ \A d \in Configs : d # c => owed'[d] = owed[d]
    BY <1>1, <1>2, <1>6 DEF Ledgers
  <1>9. Ledgers'
    BY <1>1, <1>2, <1>6, <1>7, <1>8 DEF Ledgers
  <1>10. StakeIn(c)' = StakeIn(c)
    BY <1>2 DEF StakeIn
  <1>11. token[arena[c].vault].amount >= StakeIn(c) /\ token[pool].amount >= owed[c]
    BY <1>1 DEF Backed, CustodyBacksEachArena
  <1>12. /\ StakeIn(c) \in Nat /\ token[pool].amount \in Nat
         /\ token[arena[c].vault].amount \in Nat /\ token'[arena[c].vault].amount \in Nat
         /\ token'[arena[c].vault].amount >= token[arena[c].vault].amount
    BY <1>1, <1>4, <1>5, <1>6, <1>7, StakeInType DEF Ledgers, CustodyKeeps
  <1> DEFINE locked == token'[arena[c].vault].amount
             staked == StakeIn(c)'
             held == token'[pool].amount
             promised == owed'[c]
  <1>13. /\ locked \in Nat /\ locked >= token[arena[c].vault].amount /\ staked = StakeIn(c)
         /\ held = token[pool].amount + amount /\ promised = owed[c] + amount
    BY <1>7, <1>8, <1>10, <1>12
  <1> HIDE DEF locked, staked, held, promised
  <1>14. locked >= staked /\ held >= promised
    BY <1>8, <1>11, <1>12, <1>13
  <1>15. Backed'
    BY <1>1, <1>2, <1>5, <1>8, <1>9, <1>14, BackedStep
       DEF locked, staked, held, promised, CustodyKeeps
  <1> QED
    BY <1>5, <1>15

\* What PayoutsReachOwner says of one arena.
Reaches(c) ==
    InCustody(c)' < InCustody(c) =>
        \A t \in TokenAccounts \ Custody(c) :
            token'[t].amount > token[t].amount =>
                \E u \in People :
                    LET p == position_pda(c, u)
                    IN  /\ token[t].holder = u
                        /\ stake[p] > 0
                        /\ stake' # stake => stake'[p] < stake[p]

\* Custody that keeps what it has does not pay.
LEMMA KeepsReaches ==
    ASSUME IInv, Ledgers, NEW c \in Created, arena'[c] = arena[c],
           \A t \in Custody(c) : token'[t].amount >= token[t].amount /\ token'[t].amount \in Nat
    PROVE  Reaches(c)
  <1> DEFINE vault == token'[arena[c].vault].amount
             pool == token'[arena[c].pool].amount
  <1>1. /\ vault >= token[arena[c].vault].amount /\ vault \in Nat
        /\ pool >= token[arena[c].pool].amount /\ pool \in Nat
    BY DEF Custody
  <1>2. token[arena[c].vault].amount \in Nat /\ token[arena[c].pool].amount \in Nat
    BY CustodyHeld DEF Ledgers
  <1>3. InCustody(c)' = vault + pool
    BY DEF InCustody
  <1> DEFINE after == InCustody(c)'
  <1> HIDE DEF vault, pool, after
  <1>4. after = vault + pool /\ InCustody(c) = token[arena[c].vault].amount + token[arena[c].pool].amount
    BY <1>3 DEF after, InCustody
  <1>5. ~(after < InCustody(c))
    BY <1>1, <1>2, <1>4
  <1> QED
    BY <1>5 DEF Reaches, after

\* ClaimRewards: the pool pays what it owes, to an owner with stake.
LEMMA ClaimRewardsBooks ==
    ASSUME IInv, Backed, NEW list, NEW amount \in Nat, list[1].key \in People,
           ClaimRewardsAccepts(list), ClaimRewards(list, amount)
    PROVE  Backed' /\ \A d \in Created : Reaches(d)
  <1> DEFINE u == list[1].key
             to == list[2].key
             c == list[3].key
             position == list[4].key
             pool == list[5].key
  <1>1. /\ c \in Created /\ c \in Configs /\ pool = arena[c].pool
        /\ position = position_pda(c, u)
        /\ assert_token_account(list[8].key, to, list[7].key, u)
    BY DEF ClaimRewardsAccepts, PoolAccepts, config_ok, position_ok, Created
  <1>2. /\ u \in People /\ UNCHANGED arena /\ stake' = stake
        /\ stake[position] > 0 /\ amount <= owed[c]
        /\ owed' = [owed EXCEPT ![c] = @ - amount]
        /\ Paid(pool, to, amount)
    BY DEF ClaimRewards, Paid
  <1> HIDE DEF u, to, c, position, pool
  <1>3. /\ to \in TokenAccounts /\ token[to].holder = u
        /\ \A d \in Created : to \notin Custody(d)
    BY <1>1, <1>2, PeoplesAccounts
  <1>4. /\ pool \in TokenAccounts /\ pool \in Custody(c) /\ to # pool
        /\ arena[c].vault \in TokenAccounts /\ arena[c].vault # pool
        /\ arena[c].vault # to
    BY <1>1, <1>3, CustodyHeld DEF Custody
  <1>5. Ledgers
    BY DEF Backed
  <1>6. /\ \A t \in TokenAccounts : token'[t].amount \in Nat
        /\ token'[pool].amount = token[pool].amount - amount
        /\ \A t \in TokenAccounts \ {pool, to} : token'[t].amount = token[t].amount
    BY <1>2, <1>3, <1>4, <1>5, PaidAmounts
  <1>7. /\ owed[c] \in Nat /\ owed'[c] = owed[c] - amount
        /\ \A d \in Configs : d # c => owed'[d] = owed[d]
    BY <1>1, <1>2, <1>5 DEF Ledgers
  <1>8. Ledgers'
    <2>1. owed[c] - amount \in Nat
      BY <1>2, <1>7
    <2> QED
      BY <1>1, <1>2, <1>5, <1>6, <2>1 DEF Ledgers
  <1>9. ASSUME NEW d \in Created, d # c, NEW t \in Custody(d)
        PROVE  token'[t].amount = token[t].amount /\ token'[t].amount \in Nat
    <2>1. t \in TokenAccounts /\ t # pool /\ t # to
      BY <1>1, <1>3, <1>4, <1>9, CustodyHeld, CustodyApart
    <2> QED
      BY <1>6, <2>1
  <1>10. StakeIn(c)' = StakeIn(c)
    BY <1>2 DEF StakeIn
  <1>11. token[arena[c].vault].amount >= StakeIn(c) /\ token[pool].amount >= owed[c]
    BY <1>1 DEF Backed, CustodyBacksEachArena
  <1>12. /\ StakeIn(c) \in Nat /\ token[pool].amount \in Nat
         /\ token[arena[c].vault].amount \in Nat
         /\ token'[arena[c].vault].amount = token[arena[c].vault].amount
    BY <1>1, <1>3, <1>4, <1>5, <1>6, StakeInType DEF Ledgers
  <1> DEFINE locked == token'[arena[c].vault].amount
             staked == StakeIn(c)'
             held == token'[pool].amount
             promised == owed'[c]
  <1>13. /\ locked = token[arena[c].vault].amount /\ staked = StakeIn(c)
         /\ held = token[pool].amount - amount /\ promised = owed[c] - amount
    BY <1>6, <1>7, <1>10, <1>12
  <1> HIDE DEF locked, staked, held, promised
  <1>14. locked >= staked /\ held >= promised
    BY <1>7, <1>11, <1>12, <1>13
  <1>15. \A d \in Created : d # c => \A t \in Custody(d) : token'[t].amount >= token[t].amount
    BY <1>9
  <1>16. Backed'
    BY <1>1, <1>2, <1>7, <1>8, <1>14, <1>15, BackedStep
       DEF locked, staked, held, promised
  <1>17. Reaches(c)
    <2> SUFFICES ASSUME NEW t \in TokenAccounts \ Custody(c),
                        token'[t].amount > token[t].amount
                 PROVE  /\ token[t].holder = u
                        /\ stake[position_pda(c, u)] > 0
                        /\ stake' # stake => stake'[position_pda(c, u)] < stake[position_pda(c, u)]
      BY <1>2 DEF Reaches
    <2>1. t = to
      <3> SUFFICES ASSUME t # to PROVE FALSE
        OBVIOUS
      <3>1. token'[t].amount = token[t].amount /\ token[t].amount \in Nat
        BY <1>4, <1>5, <1>6 DEF Ledgers
      <3> QED
        BY <3>1
    <2> QED
      BY <1>1, <1>2, <1>3, <2>1
  <1>18. ASSUME NEW d \in Created, d # c PROVE Reaches(d)
    <2>1. \A t \in Custody(d) : token'[t].amount >= token[t].amount /\ token'[t].amount \in Nat
      BY <1>9, <1>18
    <2> QED
      BY <1>2, <1>5, <2>1, KeepsReaches
  <1> QED
    BY <1>16, <1>17, <1>18

\* The payments of a withdrawal.
Exited(to, vault, pool, amount, shared, burned, payout) ==
    /\ Movable(vault, to, amount)
    /\ Movable(pool, to, payout)
    /\ Moved(LAMBDA t : If(t = vault, amount) + If(t = pool, payout),
             LAMBDA t : If(t = to, amount - shared - burned + payout)
                        + If(t = pool, shared))

\* What Withdraw does to each balance.
LEMMA WithdrawAmounts ==
    ASSUME IInv, Ledgers, NEW to \in TokenAccounts, NEW vault \in TokenAccounts,
           NEW pool \in TokenAccounts, to # vault, to # pool, vault # pool,
           NEW amount \in Nat, NEW shared \in Nat, NEW burned \in Nat, NEW payout \in Nat,
           shared + burned <= amount,
           Exited(to, vault, pool, amount, shared, burned, payout)
    PROVE  /\ \A t \in TokenAccounts : token'[t].amount \in Nat
           /\ token'[vault].amount = token[vault].amount - amount
           /\ token'[pool].amount = token[pool].amount - payout + shared
           /\ \A t \in TokenAccounts \ {vault, pool, to} : token'[t].amount = token[t].amount
  <1> DEFINE f == [t \in TokenAccounts |->
                      token[t].amount
                      - (If(t = vault, amount) + If(t = pool, payout))
                      + (If(t = to, amount - shared - burned + payout) + If(t = pool, shared))]
  <1>1. token' = [t \in TokenAccounts |-> [token[t] EXCEPT !.amount = f[t]]]
    BY DEF Exited, Moved
  <1>2. /\ f[vault] = token[vault].amount - (amount + 0) + (0 + 0)
        /\ f[pool] = token[pool].amount - (0 + payout) + (0 + shared)
        /\ f[to] = token[to].amount - (0 + 0) + (amount - shared - burned + payout + 0)
        /\ \A t \in TokenAccounts \ {vault, pool, to} :
               f[t] = token[t].amount - (0 + 0) + (0 + 0)
    BY DEF If
  <1> HIDE DEF f
  <1>3. \A t \in TokenAccounts : token'[t].amount = f[t]
    BY <1>1, Amounts
  <1>4. /\ token[vault].amount >= amount /\ token[pool].amount >= payout
        /\ \A t \in TokenAccounts : token[t].amount \in Nat
    BY DEF Exited, Movable, Ledgers
  <1>5. f[vault] = token[vault].amount - amount /\ f[vault] \in Nat
    BY <1>2, <1>4
  <1>6. f[pool] = token[pool].amount - payout + shared /\ f[pool] \in Nat
    BY <1>2, <1>4
  <1>7. f[to] \in Nat
    <2>1. token[to].amount \in Nat
      BY <1>4
    <2>2. amount - shared - burned + payout + 0 \in Nat
      OBVIOUS
    <2> QED
      BY <1>2, <2>1, <2>2
  <1>8. \A t \in TokenAccounts \ {vault, pool, to} : f[t] = token[t].amount /\ f[t] \in Nat
    BY <1>2, <1>4
  <1> QED
    BY <1>3, <1>5, <1>6, <1>7, <1>8

\* Withdraw: the vault pays what is no longer staked, the pool what it owes, to
\* the owner; what is shared is owed.
LEMMA WithdrawBooks ==
    ASSUME IInv, Backed, NEW list, NEW amount \in Nat, NEW shared \in Nat, NEW burned \in Nat,
           NEW payout \in Nat, list[1].key \in People,
           WithdrawAccepts(list), Withdraw(list, amount, shared, burned, payout)
    PROVE  Backed' /\ \A d \in Created : Reaches(d)
  <1> DEFINE u == list[1].key
             to == list[2].key
             c == list[3].key
             position == list[4].key
             vault == list[5].key
             pool == list[7].key
  <1>1. /\ c \in Created /\ c \in Configs /\ vault = arena[c].vault /\ pool = arena[c].pool
        /\ position = position_pda(c, u)
        /\ assert_token_account(list[9].key, to, list[8].key, u)
    BY DEF WithdrawAccepts, PoolAccepts, config_ok, position_ok, Created
  <1>2. /\ u \in People /\ UNCHANGED arena
        /\ amount \in 1 .. stake[position] /\ shared + burned <= amount
        /\ payout > 0 => payout <= owed[c]
        /\ stake' = [stake EXCEPT ![position] = @ - amount]
        /\ owed' = [owed EXCEPT ![c] = @ + shared - payout]
        /\ Exited(to, vault, pool, amount, shared, burned, payout)
    BY DEF Withdraw, Exited
  <1> HIDE DEF u, to, c, position, vault, pool
  <1>3. /\ to \in TokenAccounts /\ token[to].holder = u
        /\ \A d \in Created : to \notin Custody(d)
    BY <1>1, <1>2, PeoplesAccounts
  <1>4. /\ pool \in TokenAccounts /\ pool \in Custody(c) /\ to # pool
        /\ vault \in TokenAccounts /\ vault \in Custody(c) /\ to # vault /\ vault # pool
    BY <1>1, <1>3, CustodyHeld DEF Custody
  <1>5. Ledgers /\ position \in Positions
    BY <1>1, <1>2, PositionsApart DEF Backed
  <1>6. /\ \A t \in TokenAccounts : token'[t].amount \in Nat
        /\ token'[vault].amount = token[vault].amount - amount
        /\ token'[pool].amount = token[pool].amount - payout + shared
        /\ \A t \in TokenAccounts \ {vault, pool, to} : token'[t].amount = token[t].amount
    BY <1>2, <1>3, <1>4, <1>5, WithdrawAmounts
  <1>7. /\ owed[c] \in Nat /\ owed'[c] = owed[c] + shared - payout
        /\ \A d \in Configs : d # c => owed'[d] = owed[d]
        /\ payout <= owed[c]
    <2>1. owed[c] \in Nat
      BY <1>1, <1>5 DEF Ledgers
    <2>2. payout <= owed[c]
      BY <1>2, <2>1
    <2> QED
      BY <1>1, <1>2, <1>5, <2>1, <2>2 DEF Ledgers
  <1>8. /\ stake[position] \in Nat /\ amount <= stake[position] /\ amount >= 1
        /\ stake'[position] = stake[position] - amount
        /\ \A p \in Positions : p # position => stake'[p] = stake[p]
    BY <1>2, <1>5 DEF Ledgers
  <1>9. Ledgers'
    <2>1. owed[c] + shared - payout \in Nat
      BY <1>7
    <2>2. stake[position] - amount \in Nat
      BY <1>8
    <2> QED
      BY <1>1, <1>2, <1>5, <1>6, <2>1, <2>2 DEF Ledgers
  <1>10. ASSUME NEW d \in Created, d # c, NEW t \in Custody(d)
         PROVE  token'[t].amount = token[t].amount /\ token'[t].amount \in Nat
    <2>1. t \in TokenAccounts /\ t # pool /\ t # vault /\ t # to
      BY <1>1, <1>3, <1>4, <1>10, CustodyHeld, CustodyApart
    <2> QED
      BY <1>6, <2>1
  <1>11. /\ StakeIn(c)' + stake[position] = StakeIn(c) + stake'[position]
         /\ \A d \in Configs : d # c =>
                \A v \in People : stake'[position_pda(d, v)] = stake[position_pda(d, v)]
    BY <1>1, <1>2, <1>5, <1>8, <1>9, StakeChanges
  <1>12. token[vault].amount >= StakeIn(c) /\ token[pool].amount >= owed[c]
    BY <1>1 DEF Backed, CustodyBacksEachArena
  <1>13. /\ StakeIn(c) \in Nat /\ StakeIn(c)' \in Nat
         /\ token[pool].amount \in Nat /\ token[vault].amount \in Nat
    BY <1>1, <1>4, <1>5, <1>9, StakeInType DEF Ledgers
  <1> DEFINE locked == token'[vault].amount
             staked == StakeIn(c)'
             own == stake'[position]
             held == token'[pool].amount
             promised == owed'[c]
  <1>14. /\ locked = token[vault].amount - amount /\ own = stake[position] - amount
         /\ staked + stake[position] = StakeIn(c) + own /\ staked \in Nat
         /\ held = token[pool].amount - payout + shared
         /\ promised = owed[c] + shared - payout
    BY <1>6, <1>7, <1>8, <1>11, <1>13
  <1> HIDE DEF locked, staked, own, held, promised
  <1>15. locked >= staked
    BY <1>8, <1>12, <1>13, <1>14
  <1>16. held >= promised
    BY <1>7, <1>12, <1>13, <1>14
  <1>17. \A d \in Created : d # c => \A t \in Custody(d) : token'[t].amount >= token[t].amount
    <2> TAKE d \in Created
    <2> HAVE d # c
    <2> TAKE t \in Custody(d)
    <2>1. token'[t].amount = token[t].amount /\ token'[t].amount \in Nat
      BY <1>10
    <2> QED
      BY <2>1
  <1>18. Backed'
    BY <1>1, <1>2, <1>7, <1>9, <1>11, <1>15, <1>16, <1>17, BackedStep
       DEF locked, staked, held, promised
  <1>19. own < stake[position]
    BY <1>8, <1>14
  <1>20. Reaches(c)
    <2> SUFFICES ASSUME NEW t \in TokenAccounts \ Custody(c),
                        token'[t].amount > token[t].amount
                 PROVE  /\ token[t].holder = u
                        /\ stake[position_pda(c, u)] > 0
                        /\ stake' # stake => stake'[position_pda(c, u)] < stake[position_pda(c, u)]
      BY <1>2 DEF Reaches
    <2>1. t = to
      <3> SUFFICES ASSUME t # to PROVE FALSE
        OBVIOUS
      <3>1. token'[t].amount = token[t].amount /\ token[t].amount \in Nat
        BY <1>4, <1>5, <1>6 DEF Ledgers
      <3> QED
        BY <3>1
    <2>2. stake[position] > 0
      BY <1>8
    <2> QED
      BY <1>1, <1>3, <1>19, <2>1, <2>2 DEF own
  <1>21. ASSUME NEW d \in Created, d # c PROVE Reaches(d)
    <2>1. \A t \in Custody(d) : token'[t].amount >= token[t].amount /\ token'[t].amount \in Nat
      BY <1>10, <1>17, <1>21
    <2> QED
      BY <1>2, <1>5, <2>1, KeepsReaches
  <1> QED
    BY <1>18, <1>20, <1>21

\* FinalizeRewards: an arena without stake owes nothing, and gives up its pool;
\* the tokens reach nobody.
LEMMA FinalizeRewardsBooks ==
    ASSUME IInv, Backed, NEW list, FinalizeRewardsAccepts(list), FinalizeRewards(list)
    PROVE  Backed' /\ \A d \in Created : Reaches(d)
  <1> DEFINE c == list[1].key
             pool == list[2].key
             f == [t \in TokenAccounts |->
                      token[t].amount - If(t = list[2].key, token[t].amount) + 0]
  <1>1. c \in Created /\ c \in Configs /\ pool = arena[c].pool
    BY DEF FinalizeRewardsAccepts, PoolAccepts, config_ok, Created
  <1>2. /\ UNCHANGED arena /\ stake' = stake
        /\ owed' = [owed EXCEPT ![c] = 0]
        /\ token' = [t \in TokenAccounts |-> [token[t] EXCEPT !.amount = f[t]]]
    BY DEF FinalizeRewards, Moved
  <1>3. \A t \in TokenAccounts :
            f[t] = token[t].amount - (IF t = pool THEN token[t].amount ELSE 0) + 0
    BY DEF If
  <1> HIDE DEF c, pool, f
  <1>4. Ledgers
    BY DEF Backed
  <1>5. \A t \in TokenAccounts : f[t] = IF t = pool THEN 0 ELSE token[t].amount
    BY <1>3, <1>4 DEF Ledgers
  <1>6. \A t \in TokenAccounts : token'[t].amount = IF t = pool THEN 0 ELSE token[t].amount
    BY <1>2, <1>5, Amounts
  <1>7. Ledgers'
    BY <1>1, <1>2, <1>4, <1>6 DEF Ledgers
  <1>8. /\ pool \in TokenAccounts /\ pool \in Custody(c)
        /\ arena[c].vault \in TokenAccounts /\ arena[c].vault # pool
    BY <1>1, CustodyHeld DEF Custody
  <1>9. ASSUME NEW d \in Created, d # c, NEW t \in Custody(d)
        PROVE  token'[t].amount >= token[t].amount /\ token'[t].amount \in Nat
    <2>1. t \in TokenAccounts /\ t # pool
      BY <1>1, <1>8, <1>9, CustodyHeld, CustodyApart
    <2>2. token'[t].amount = token[t].amount /\ token[t].amount \in Nat
      BY <1>4, <1>6, <2>1 DEF Ledgers
    <2> QED
      BY <2>2
  <1>10. token'[arena[c].vault].amount >= StakeIn(c)'
    <2>1. StakeIn(c)' = StakeIn(c)
      BY <1>2 DEF StakeIn
    <2>2. token'[arena[c].vault].amount = token[arena[c].vault].amount
      BY <1>6, <1>8
    <2>3. token[arena[c].vault].amount >= StakeIn(c)
      BY <1>1 DEF Backed, CustodyBacksEachArena
    <2> QED
      BY <2>1, <2>2, <2>3
  <1>11. token'[arena[c].pool].amount >= owed'[c]
    <2>1. token'[arena[c].pool].amount = 0 /\ owed'[c] = 0
      BY <1>1, <1>2, <1>4, <1>6, <1>8 DEF Ledgers
    <2> QED
      BY <2>1
  <1>12. Backed'
    <2>1. \A d \in Configs : d # c => owed'[d] = owed[d]
      BY <1>2, <1>4 DEF Ledgers
    <2> QED
      BY <1>1, <1>2, <1>7, <1>9, <1>10, <1>11, <2>1, BackedStep
  <1>13. ASSUME NEW d \in Created PROVE Reaches(d)
    <2> SUFFICES ASSUME NEW t \in TokenAccounts, token'[t].amount > token[t].amount
                 PROVE  FALSE
      BY DEF Reaches
    <2>1. token[t].amount \in Nat
      BY <1>4 DEF Ledgers
    <2>2. token'[t].amount = IF t = pool THEN 0 ELSE token[t].amount
      BY <1>6
    <2> QED
      BY <2>1, <2>2
  <1> QED
    BY <1>12, <1>13

\* A step outside the program: the books stay, and custody keeps what it has.
LEMMA OutsideBooks ==
    ASSUME IInv, Backed, UNCHANGED <<arena, stake, owed>>, CustodyKeeps,
           \A t \in TokenAccounts : token'[t].amount \in Nat
    PROVE  Backed' /\ \A d \in Created : Reaches(d)
  <1>1. Ledgers /\ Ledgers'
    BY DEF Backed, Ledgers
  <1>2. ASSUME NEW d \in Created
        PROVE  /\ token'[arena[d].vault].amount >= StakeIn(d)'
               /\ token'[arena[d].pool].amount >= owed'[d]
    <2>1. StakeIn(d)' = StakeIn(d)
      BY DEF StakeIn
    <2>2. /\ token[arena[d].vault].amount >= StakeIn(d)
          /\ token[arena[d].pool].amount >= owed[d]
      BY DEF Backed, CustodyBacksEachArena
    <2>3. /\ token'[arena[d].vault].amount >= token[arena[d].vault].amount
          /\ token'[arena[d].pool].amount >= token[arena[d].pool].amount
      BY DEF CustodyKeeps, Custody
    <2>4. StakeIn(d) \in Nat /\ owed[d] \in Nat
      BY <1>1, StakeInType DEF Created, Ledgers
    <2>5. /\ token[arena[d].vault].amount \in Nat /\ token[arena[d].pool].amount \in Nat
          /\ token'[arena[d].vault].amount \in Nat /\ token'[arena[d].pool].amount \in Nat
      BY <1>1, CustodyHeld DEF Ledgers
    <2> DEFINE vault == token'[arena[d].vault].amount
               pool == token'[arena[d].pool].amount
               staked == StakeIn(d)'
               promised == owed'[d]
    <2>6. /\ vault \in Nat /\ pool \in Nat
          /\ vault >= token[arena[d].vault].amount /\ pool >= token[arena[d].pool].amount
          /\ staked = StakeIn(d) /\ promised = owed[d]
      BY <2>1, <2>3, <2>5
    <2> HIDE DEF vault, pool, staked, promised
    <2>7. vault >= staked /\ pool >= promised
      BY <2>2, <2>4, <2>5, <2>6
    <2> QED
      BY <2>7 DEF vault, pool, staked, promised
  <1>3. CustodyBacksEachArena'
    BY <1>2 DEF CustodyBacksEachArena, Created
  <1>4. NothingBefore'
    BY DEF Backed, NothingBefore, Created
  <1>5. ASSUME NEW d \in Created PROVE Reaches(d)
    <2>1. \A t \in Custody(d) : token'[t].amount >= token[t].amount /\ token'[t].amount \in Nat
      BY CustodyHeld DEF CustodyKeeps
    <2> QED
      BY <1>1, <2>1, KeepsReaches
  <1> QED
    BY <1>1, <1>3, <1>4, <1>5 DEF Backed

\* A change of one account's authorities, which changes no balance in custody.
LEMMA RearrangedBooks ==
    ASSUME IInv, Backed, NEW t \in TokenAccounts, NEW changed, Rearranged(t, changed),
           changed.amount \in Nat,
           (\E d \in Created : t \in Custody(d)) => changed.amount = token[t].amount
    PROVE  Backed' /\ \A d \in Created : Reaches(d)
  <1>1. /\ UNCHANGED <<arena, stake, owed>>
        /\ token' = [token EXCEPT ![t] = changed]
    BY DEF Rearranged
  <1>2. token'[t] = changed /\ \A a \in TokenAccounts : a # t => token'[a] = token[a]
    BY <1>1 DEF IInv, Tables
  <1>3. \A a \in TokenAccounts : token'[a].amount \in Nat /\ token[a].amount \in Nat
    BY <1>2 DEF Backed, Ledgers
  <1>4. CustodyKeeps
    <2> SUFFICES ASSUME NEW d \in Created, NEW a \in Custody(d)
                 PROVE  token'[a].amount >= token[a].amount
      BY DEF CustodyKeeps
    <2>1. token'[a].amount = token[a].amount
      BY <1>2, CustodyHeld
    <2> QED
      BY <1>3, <2>1, CustodyHeld
  <1> QED
    BY <1>1, <1>3, <1>4, OutsideBooks

\* The token program used directly.
LEMMA TokenProgramBooks ==
    ASSUME IInv, Backed, NEW t \in TokenAccounts, TokenProgramStep(t)
    PROVE  Backed' /\ \A d \in Created : Reaches(d)
  <1>1. Whole(token[t]) /\ token[t].amount \in Nat
    BY DEF IInv, Tables, Backed, Ledgers
  <1>2. \A x, y : /\ [token[t] EXCEPT !.holder = x, !.delegated = y].amount = token[t].amount
                  /\ [token[t] EXCEPT !.close_authority = x].amount = token[t].amount
                  /\ [token[t] EXCEPT !.delegated = x].amount = token[t].amount
                  /\ [token[t] EXCEPT !.extensions = x].amount = token[t].amount
                  /\ [token[t] EXCEPT !.open = x].amount = token[t].amount
                  /\ [token[t] EXCEPT !.frozen = x].amount = token[t].amount
                  /\ [token[t] EXCEPT !.amount = x].amount = x
    BY <1>1 DEF Whole, Fields
  <1>3. ASSUME NEW to \in TokenAccounts, Transfer(t, to)
        PROVE  Backed' /\ \A d \in Created : Reaches(d)
    <2>1. Paid(t, to, 1) /\ t # to /\ UNCHANGED <<arena, stake, owed>>
      BY <1>3 DEF Transfer, Paid
    <2>2. \A d \in Created : t \notin Custody(d)
      BY <1>3, CustodyHeld DEF Transfer, HeldBySomebody
    <2>3. CustodyKeeps /\ \A a \in TokenAccounts : token'[a].amount \in Nat
      BY <2>1, <2>2, PaidByOthers, PaidAmounts DEF Backed
    <2> QED
      BY <2>1, <2>3, OutsideBooks
  <1>4. ASSUME NEW changed, Rearranged(t, changed), changed.amount = token[t].amount
        PROVE  Backed' /\ \A d \in Created : Reaches(d)
    BY <1>1, <1>4, RearrangedBooks
  <1>5. ASSUME NEW holder, HandOver(t, holder)
        PROVE  Backed' /\ \A d \in Created : Reaches(d)
    BY <1>2, <1>4, <1>5 DEF HandOver
  <1>6. ASSUME SetCloseAuthority(t)
        PROVE  Backed' /\ \A d \in Created : Reaches(d)
    BY <1>2, <1>4, <1>6 DEF SetCloseAuthority
  <1>7. ASSUME Approve(t)
        PROVE  Backed' /\ \A d \in Created : Reaches(d)
    BY <1>2, <1>4, <1>7 DEF Approve
  <1>8. ASSUME RequireMemo(t)
        PROVE  Backed' /\ \A d \in Created : Reaches(d)
    BY <1>2, <1>4, <1>8 DEF RequireMemo
  <1>9. ASSUME Close(t)
        PROVE  Backed' /\ \A d \in Created : Reaches(d)
    BY <1>2, <1>4, <1>9 DEF Close
  <1>10. ASSUME Freeze(t)
         PROVE  Backed' /\ \A d \in Created : Reaches(d)
    BY <1>2, <1>4, <1>10 DEF Freeze
  <1>11. ASSUME BurnAsPermanentDelegate(t)
         PROVE  Backed' /\ \A d \in Created : Reaches(d)
    <2> DEFINE burned == [token[t] EXCEPT !.amount = token[t].amount - 1]
    <2>1. /\ Rearranged(t, burned) /\ token[t].amount > 0
          /\ "PermanentDelegate" \in mint[token[t].mint].extensions
      BY <1>11 DEF BurnAsPermanentDelegate
    <2>2. burned.amount \in Nat
      BY <1>1, <1>2, <2>1
    <2> HIDE DEF burned
    <2>3. \A d \in Created : t \notin Custody(d)
      BY <2>1, CustodyHeld DEF mint_decimals_ok, is_allowed_mint_extension
    <2> QED
      BY <2>1, <2>2, <2>3, RearrangedBooks
  <1> QED
    BY <1>3, <1>5, <1>6, <1>7, <1>8, <1>9, <1>10, <1>11 DEF TokenProgramStep

\* InitializeConfig: a new arena owes nothing, whatever its custody accounts hold.
LEMMA CreationBooks ==
    ASSUME IInv, Backed, Creation
    PROVE  Backed' /\ \A d \in Created : Reaches(d)
  <1>1. PICK a \in Authorities, i \in ConfigIds, m \in Mints, vault \in TokenAccounts,
             pool \in TokenAccounts :
               \E list \in {initialize_config(a, config_pda(a, i), m, vault, pool,
                                              mint[m].program)} :
                   InitializeConfigAccepts(list, i) /\ InitializeConfig(list)
    BY DEF Creation
  <1>2. PICK list \in {initialize_config(a, config_pda(a, i), m, vault, pool, mint[m].program)} :
            InitializeConfigAccepts(list, i) /\ InitializeConfig(list)
    BY <1>1
  <1> DEFINE c == config_pda(a, i)
             new_arena == [created |-> TRUE, mint |-> list[3].key,
                           token_program |-> list[7].key,
                           vault |-> list[4].key, pool |-> list[6].key]
  <1>3. list[2].key = c /\ c \in Configs
    BY DEF initialize_config, new, new_readonly, Meta, Configs
  <1>4. /\ c \notin Created
        /\ arena' = [arena EXCEPT ![c] = new_arena]
        /\ UNCHANGED <<stake, owed, token>>
    BY <1>2, <1>3 DEF InitializeConfigAccepts, InitializeConfig, Created
  <1>5. new_arena.created
    OBVIOUS
  <1> HIDE DEF c, new_arena
  <1>6. /\ \A d \in Configs : d # c => arena'[d] = arena[d]
        /\ Created' = Created \cup {c}
    BY <1>3, <1>4, <1>5 DEF IInv, Tables, Created
  <1>7. IInv'
    BY CreationStepSafe
  <1>8. Ledgers /\ Ledgers'
    BY <1>4 DEF Backed, Ledgers
  <1>9. NothingBefore'
    BY <1>4, <1>6 DEF Backed, NothingBefore
  <1>10. \A d \in Configs : StakeIn(d)' = StakeIn(d)
    BY <1>4 DEF StakeIn
  <1>11. ASSUME NEW d \in Created
         PROVE  /\ token'[arena'[d].vault].amount >= StakeIn(d)'
                /\ token'[arena'[d].pool].amount >= owed'[d]
    <2>1. arena'[d] = arena[d] /\ StakeIn(d)' = StakeIn(d)
      BY <1>4, <1>6, <1>10 DEF Created
    <2> QED
      BY <1>4, <2>1 DEF Backed, CustodyBacksEachArena
  <1>12. /\ token'[arena'[c].vault].amount >= StakeIn(c)'
         /\ token'[arena'[c].pool].amount >= owed'[c]
    <2>1. CustodyReady(c)'
      BY <1>6, <1>7 DEF IInv
    <2>2. arena'[c].vault \in TokenAccounts /\ arena'[c].pool \in TokenAccounts
      BY <2>1 DEF CustodyReady, assert_custody_token_account, unpack_token_account_ok
    <2>3. token'[arena'[c].vault].amount \in Nat /\ token'[arena'[c].pool].amount \in Nat
      BY <1>8, <2>2 DEF Ledgers
    <2>4. owed'[c] = 0 /\ \A u \in People : stake[position_pda(c, u)] = 0
      BY <1>3, <1>4 DEF Backed, NothingBefore
    <2>5. StakeIn(c) = 0
      BY <2>4, SumZero DEF StakeIn
    <2>6. StakeIn(c)' = 0
      BY <1>3, <1>10, <2>5
    <2> QED
      BY <2>3, <2>4, <2>6
  <1>13. CustodyBacksEachArena'
    BY <1>6, <1>11, <1>12 DEF CustodyBacksEachArena
  <1>14. ASSUME NEW d \in Created PROVE Reaches(d)
    <2>1. arena'[d] = arena[d]
      BY <1>4, <1>6 DEF Created
    <2>2. \A t \in Custody(d) : token'[t].amount >= token[t].amount /\ token'[t].amount \in Nat
      BY <1>4, <1>8, CustodyHeld DEF Ledgers
    <2> QED
      BY <1>8, <2>1, <2>2, KeepsReaches
  <1> QED
    BY <1>8, <1>9, <1>13, <1>14 DEF Backed

\* Instructions of stakers and funders.
LEMMA UserBooks ==
    ASSUME IInv, Backed, NEW c \in Created, NEW u \in People, UserStep(c, u)
    PROVE  Backed' /\ \A d \in Created : Reaches(d)
  <1> DEFINE a == arena[c]
             t == wallet[u]
  <1>1. Ledgers
    BY DEF Backed
  <1>2. ASSUME CustodyKeeps, Backed', UNCHANGED arena
        PROVE  \A d \in Created : Reaches(d)
    <2> TAKE d \in Created
    <2>1. \A x \in Custody(d) : token'[x].amount >= token[x].amount /\ token'[x].amount \in Nat
      BY <1>2, CustodyHeld DEF CustodyKeeps, Backed, Ledgers
    <2> QED
      BY <1>1, <1>2, <2>1, KeepsReaches
  <1>3. ASSUME NEW list \in Sent(deposit(c, u, t, a.vault, a.mint, a.token_program)),
               DepositAccepts(list), Deposit(list, 1)
        PROVE  Backed' /\ \A d \in Created : Reaches(d)
    <2> DEFINE built == deposit(c, u, t, a.vault, a.mint, a.token_program)
    <2>1. 1 \in DOMAIN built /\ built[1] = new(u, TRUE)
      BY DEF deposit
    <2> HIDE DEF built
    <2>2. list[1].key = u
      BY <1>3, <2>1, OwnerSigns DEF built, DepositAccepts
    <2>3. Backed' /\ CustodyKeeps
      BY <1>3, <2>2, DepositBooks
    <2> QED
      BY <1>2, <1>3, <2>3 DEF Deposit
  <1>4. ASSUME NEW list \in Sent(fund_rewards(c, u, t, a.pool, a.mint, a.token_program)),
               FundRewardsAccepts(list), FundRewards(list, 1)
        PROVE  Backed' /\ \A d \in Created : Reaches(d)
    <2> DEFINE built == fund_rewards(c, u, t, a.pool, a.mint, a.token_program)
    <2>1. 1 \in DOMAIN built /\ built[1] = new(u, TRUE)
      BY DEF fund_rewards
    <2> HIDE DEF built
    <2>2. list[1].key = u
      BY <1>4, <2>1, OwnerSigns DEF built, FundRewardsAccepts
    <2>3. Backed' /\ CustodyKeeps
      BY <1>4, <2>2, FundRewardsBooks
    <2> QED
      BY <1>2, <1>4, <2>3 DEF FundRewards
  <1>5. ASSUME NEW list \in Sent(claim_rewards(c, u, t, a.pool, a.mint, a.token_program)),
               ClaimRewardsAccepts(list), NEW amount \in 1 .. owed[list[3].key],
               ClaimRewards(list, amount)
        PROVE  Backed' /\ \A d \in Created : Reaches(d)
    <2> DEFINE built == claim_rewards(c, u, t, a.pool, a.mint, a.token_program)
    <2>1. 1 \in DOMAIN built /\ built[1] = new(u, TRUE)
      BY DEF claim_rewards
    <2> HIDE DEF built
    <2>2. list[1].key = u
      BY <1>5, <2>1, OwnerSigns DEF built, ClaimRewardsAccepts
    <2>3. amount \in Nat
      <3>1. list[3].key \in Configs
        BY <1>5 DEF ClaimRewardsAccepts, PoolAccepts, config_ok
      <3>2. owed[list[3].key] \in Nat
        BY <1>1, <3>1 DEF Ledgers
      <3> QED
        BY <3>2
    <2> QED
      BY <1>5, <2>2, <2>3, ClaimRewardsBooks
  <1>6. ASSUME NEW list \in Sent(withdraw(c, u, t, a.vault, a.pool, a.mint, a.token_program)),
               WithdrawAccepts(list), NEW amount \in 1 .. stake[list[4].key],
               NEW shared \in 0 .. amount, NEW burned \in 0 .. amount,
               NEW payout \in 0 .. owed[list[3].key],
               Withdraw(list, amount, shared, burned, payout)
        PROVE  Backed' /\ \A d \in Created : Reaches(d)
    <2> DEFINE built == withdraw(c, u, t, a.vault, a.pool, a.mint, a.token_program)
    <2>1. 1 \in DOMAIN built /\ built[1] = new(u, TRUE)
      BY DEF withdraw
    <2> HIDE DEF built
    <2>2. list[1].key = u
      BY <1>6, <2>1, OwnerSigns DEF built, WithdrawAccepts
    <2>3. amount \in Nat /\ shared \in Nat /\ burned \in Nat /\ payout \in Nat
      <3>1. list[3].key \in Configs /\ list[4].key \in Positions
        BY <1>6, <2>2, PositionsApart DEF WithdrawAccepts, PoolAccepts, config_ok, position_ok
      <3>2. owed[list[3].key] \in Nat /\ stake[list[4].key] \in Nat
        BY <1>1, <3>1 DEF Ledgers
      <3>3. amount \in Nat
        BY <3>2
      <3> QED
        BY <3>2, <3>3
    <2> QED
      BY <1>6, <2>2, <2>3, WithdrawBooks
  <1> QED
    BY <1>3, <1>4, <1>5, <1>6 DEF UserStep

\* Every step keeps each arena backed, and pays its owners only.
LEMMA NextBooks ==
    ASSUME IInv, Backed, Next
    PROVE  Backed' /\ \A d \in Created : Reaches(d)
  <1>1. CASE Creation
    BY <1>1, CreationBooks
  <1>2. ASSUME NEW c \in Created, AnyonesStep(c)
        PROVE  Backed' /\ \A d \in Created : Reaches(d)
    <2>1. PICK list : FinalizeRewardsAccepts(list) /\ FinalizeRewards(list)
      BY <1>2 DEF AnyonesStep
    <2> QED
      BY <2>1, FinalizeRewardsBooks
  <1>3. ASSUME NEW c \in Created, NEW u \in People, UserStep(c, u)
        PROVE  Backed' /\ \A d \in Created : Reaches(d)
    BY <1>3, UserBooks
  <1>4. ASSUME NEW t \in TokenAccounts, TokenProgramStep(t)
        PROVE  Backed' /\ \A d \in Created : Reaches(d)
    BY <1>4, TokenProgramBooks
  <1> QED
    BY <1>1, <1>2, <1>3, <1>4 DEF Next

\* Accounts and books together: the inductive invariant holds in every reachable state.
THEOREM BooksInv == Spec => [](IInv /\ Backed)
  <1>1. Init => IInv /\ Backed
    BY InitInv, InitBacked
  <1>2. IInv /\ Backed /\ [Next]_vars => (IInv /\ Backed)'
    <2> SUFFICES ASSUME IInv, Backed, [Next]_vars PROVE IInv' /\ Backed'
      OBVIOUS
    <2>1. IInv'
      BY NextSafe
    <2>2. CASE Next
      BY <2>1, <2>2, NextBooks
    <2>3. CASE UNCHANGED vars
      BY <2>1, <2>3 DEF vars, Backed, Ledgers, NothingBefore, CustodyBacksEachArena, Created,
                        StakeIn
    <2> QED
      BY <2>2, <2>3
  <1> QED
    BY <1>1, <1>2, PTL DEF Spec

\* The vault of each arena holds all the stake locked in it, and its pool what
\* its stakers are owed, whatever other arenas, mistaken account lists and the
\* token program do: for any number of arenas, people, mints and token accounts.
THEOREM EachArenaBacked == Spec => []CustodyBacksEachArena
  <1>1. IInv /\ Backed => CustodyBacksEachArena
    BY DEF Backed
  <1> QED
    BY <1>1, BooksInv, PTL

\* What leaves the custody of an arena is burned or reaches its stakers, and
\* principal only the owner who gives up the stake.
THEOREM OwnersPaidOnly == Spec => PayoutsReachOwner
  <1> DEFINE Reached == \A c \in Created : Reaches(c)
  <1>1. IInv /\ Backed /\ [Next]_vars => [Reached]_vars
    BY NextBooks
  <1>2. [Reached]_vars <=>
            [\A c \in Created :
                InCustody(c)' < InCustody(c) =>
                    \A t \in TokenAccounts \ Custody(c) :
                        token'[t].amount > token[t].amount =>
                            \E u \in People :
                                LET p == position_pda(c, u)
                                IN  /\ token[t].holder = u
                                    /\ stake[p] > 0
                                    /\ stake' # stake => stake'[p] < stake[p]]_vars
    BY DEF Reaches
  <1> HIDE DEF Reached
  <1> QED
    BY <1>1, <1>2, BooksInv, PTL DEF Spec, PayoutsReachOwner
=============================================================================
