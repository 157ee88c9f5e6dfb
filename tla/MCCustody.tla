------------------------------ MODULE MCCustody ------------------------------
(***************************************************************************)
(* Two arenas of one authority, two people and a handful of token accounts *)
(* prepared for them.  One thing is odd at the start: a mint with a        *)
(* feature, a token account with one, or addresses that were sent too few  *)
(* or too many lamports before their creation.                             *)
(***************************************************************************)
EXTENDS ArenaCustody, TLC

CONSTANTS
    First,         \* token accounts prepared as custody of one arena
    Second,        \* and of the other
    main,          \* the mint of everything but one wallet
    other,         \* another mint
    u1, u2,        \* the people
    w1, w2, x      \* their wallets, and u1's wallet of the other mint

KnownWallet == u1 :> w1 @@ u2 :> w2

Symmetry == Permutations(First) \cup Permutations(Second)

Plain ==
    [program |-> spl_token, mint_authority |-> FALSE, freeze_authority |-> FALSE,
     native |-> FALSE, extensions |-> {}]

Plain2022 == [Plain EXCEPT !.program = spl_token_2022, !.extensions = {"MetadataPointer"}]

OddMints ==
    {[Plain EXCEPT !.freeze_authority = TRUE],
     [Plain2022 EXCEPT !.extensions = {"PermanentDelegate"}]}

MintStates(mints) == {[m \in Mints |-> IF m = main THEN state ELSE Plain] : state \in mints}

Account(m, holder, amount) ==
    [mint |-> m, holder |-> holder, amount |-> amount, open |-> TRUE, frozen |-> FALSE,
     delegated |-> FALSE, close_authority |-> FALSE, extensions |-> {}]

Arena(i) == config_pda(u1, i)

\* Two accounts handed over to each arena, with nothing odd about them.
Ready ==
    [t \in TokenAccounts |->
        CASE t = w1 -> Account(main, u1, 1)
          [] t = w2 -> Account(main, u2, 1)
          [] t = x -> Account(other, u1, 1)
          [] t \in First -> Account(main, vault_authority_pda(Arena(1)), 0)
          [] t \in Second -> Account(main, vault_authority_pda(Arena(2)), 0)]

\* An account that u1 still holds, or kept the right to close.
NotQuiteReady ==
    UNION {{[Ready EXCEPT ![t].holder = u1], [Ready EXCEPT ![t].close_authority = TRUE]} : t \in First}

NoLamports == [k \in Configs \cup Positions |-> 0]

\* Lamports sent to a config and a position before they are created.
Prefunded(at_config, at_position) ==
    [NoLamports EXCEPT ![Arena(1)] = at_config, ![position_pda(Arena(1), u1)] = at_position]

MCInit ==
    /\ \/ /\ token = Ready
          /\ \/ mint \in MintStates({Plain}) /\ lamports = Prefunded(1, MinimumBalance + 1)
             \/ mint \in MintStates({Plain2022}) /\ lamports = Prefunded(MinimumBalance + 1, 1)
             \/ mint \in MintStates(OddMints) /\ lamports = NoLamports
       \/ token \in NotQuiteReady /\ mint \in MintStates({Plain}) /\ lamports = NoLamports
    /\ Init

MCSpec == MCInit /\ [][Next]_vars
=============================================================================
