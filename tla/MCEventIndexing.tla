-------------------------- MODULE MCEventIndexing --------------------------
(* A fee, what looks like one, an amount whose low word alone does, every   *)
(* form of event, mint, burn, a transfer to oneself, events that are no     *)
(* transfers, an untracked token.                                           *)
EXTENDS EventIndexing

CONSTANTS alice, bob, TOK, UNLISTED

Ev(form, contract, name, from, to, amount, value) ==
  [form |-> form, contract |-> contract, name |-> name, from |-> from,
   to |-> to, amount |-> amount, value |-> value]

MCEvents == {
  Ev("native4", ONG, "transfer", alice, govAddr, 1, 0),
  Ev("native4", ONG, "transfer", bob, govAddr, 1, 0),
  Ev("native5", ONG, "transfer", alice, bob, 1, 3),
  Ev("native4", ONT, "transfer", bob, bob, 2, 0),
  Ev("native4", ONG, "transfer", nullAddr, bob, 2, 0),
  Ev("native4", ONT, "approve", bob, alice, 2, 0),
  Ev("oep4", TOK, "transfer", alice, nullAddr, 2, 0),
  Ev("oep4", TOK, "Transfer", bob, alice, 3, 0),
  Ev("oep4", TOK, "transfer", bob, alice, -1, 0),
  Ev("oep4", UNLISTED, "transfer", alice, bob, 1, 0),
  Ev("evm", ONG, "Transfer", alice, govAddr, 11, 0),
  Ev("evm", ONG, "Transfer", alice, govAddr, 1011, 0),
  Ev("evm", ONG, "Transfer", bob, alice, 25, 0),
  Ev("evm", TOK, "Transfer", bob, alice, 7, 0),
  Ev("other", ONG, "transfer", alice, bob, 1, 0) }
=============================================================================
