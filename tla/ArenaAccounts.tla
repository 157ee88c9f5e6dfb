---------------------------- MODULE ArenaAccounts ----------------------------
(***************************************************************************)
(* Addresses and account lists: the program-derived addresses, and the     *)
(* list of accounts that the builders of instruction.rs put into each      *)
(* instruction.  An address is abstract; a derived one is the tuple of its *)
(* seeds, for no two tuples of seeds have the same address.                *)
(***************************************************************************)
EXTENDS Sequences, Integers

CONSTANT
    system_program

Meta(key, signer, writable) == [key |-> key, signer |-> signer, writable |-> writable]

new(key, signer) == Meta(key, signer, TRUE)

new_readonly(key, signer) == Meta(key, signer, FALSE)

config_pda(authority, config_id) == <<"arena-config", authority, config_id>>

position_pda(config, owner) == <<"arena-position", config, owner>>

\* Mutant: one vault authority for all arenas of an authority.
vault_authority_pda_PerAuthority(config) == <<"arena-vault-authority", config[2]>>

vault_authority_pda(config) == <<"arena-vault-authority", config>>

-----------------------------------------------------------------------------
(* The builders.  `c' stands for config_pda(authority, config_id), which    *)
(* each of them computes first.                                             *)

initialize_config(authority, c, mint, vault, pool, token_program) ==
    <<new(authority, TRUE), new(c, FALSE), new_readonly(mint, FALSE),
      new_readonly(vault, FALSE), new_readonly(vault_authority_pda(c), FALSE),
      new_readonly(pool, FALSE), new_readonly(token_program, FALSE),
      new_readonly(system_program, FALSE)>>

deposit(c, owner, source, vault, mint, token_program) ==
    <<new(owner, TRUE), new(source, FALSE), new(c, FALSE),
      new(position_pda(c, owner), FALSE), new(vault, FALSE),
      new_readonly(vault_authority_pda(c), FALSE), new_readonly(mint, FALSE),
      new_readonly(token_program, FALSE), new_readonly(system_program, FALSE)>>

activate_position(c, owner, pool, mint, token_program) ==
    <<new(owner, TRUE), new(c, FALSE), new(position_pda(c, owner), FALSE), new(pool, FALSE),
      new_readonly(vault_authority_pda(c), FALSE), new(mint, FALSE),
      new_readonly(token_program, FALSE)>>

\* fund_rewards_checked builds the same list.
fund_rewards(c, funder, source, pool, mint, token_program) ==
    <<new(funder, TRUE), new(source, FALSE), new(c, FALSE), new(pool, FALSE),
      new_readonly(mint, FALSE), new_readonly(token_program, FALSE)>>

roll_epoch(c, pool, mint, token_program) ==
    <<new(c, FALSE), new(pool, FALSE), new_readonly(vault_authority_pda(c), FALSE),
      new(mint, FALSE), new_readonly(token_program, FALSE)>>

finalize_rewards(c, pool, mint, token_program) == roll_epoch(c, pool, mint, token_program)

claim_rewards(c, owner, destination, pool, mint, token_program) ==
    <<new(owner, TRUE), new(destination, FALSE), new(c, FALSE),
      new(position_pda(c, owner), FALSE), new(pool, FALSE),
      new_readonly(vault_authority_pda(c), FALSE), new_readonly(mint, FALSE),
      new_readonly(token_program, FALSE)>>

withdraw(c, owner, destination, vault, pool, mint, token_program) ==
    <<new(owner, TRUE), new(destination, FALSE), new(c, FALSE),
      new(position_pda(c, owner), FALSE), new(vault, FALSE),
      new_readonly(vault_authority_pda(c), FALSE), new(pool, FALSE), new(mint, FALSE),
      new_readonly(token_program, FALSE)>>
=============================================================================
