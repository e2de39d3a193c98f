------------------------------ MODULE MCChain ------------------------------
(***************************************************************************)
(* A chain of three blocks: genesis mints ONG and ONT; block 1 has a       *)
(* failed transaction that pays its fee and the mint of an OEP4 token;     *)
(* block 2 moves ONG, ONT and the token.  Diffs and keys are computed from *)
(* the events by the operators of Transfers; the ledger's own balances are *)
(* written down.                                                           *)
(***************************************************************************)
EXTENDS Transfers

CONSTANTS alice, bob, TOK, g0, g1, g2, t0, t1, t2, t3

MCHeight == 2
MCAccounts == {alice, bob, govAddr}
MCContracts == {ONG, ONT, TOK}

Ev(form, contract, from, to, amount, value) ==
  [form |-> form, contract |-> contract, name |-> "transfer", from |-> from,
   to |-> to, amount |-> amount, value |-> value]

Txn(failed, gas, notify) ==
  [payer |-> alice, failed |-> failed, gas |-> gas, notify |-> notify]

Fee == Ev("native4", ONG, alice, govAddr, 1, 0)

MCBlocks == <<
  << Txn(FALSE, 0, <<Ev("native4", ONG, nullAddr, alice, 9, 0),
                     Ev("native4", ONT, nullAddr, bob, 4, 0)>>) >>,
  << Txn(TRUE, 1, <<Fee>>),
     Txn(FALSE, 0, <<Ev("oep4", TOK, nullAddr, alice, 5, 0)>>) >>,
  << Txn(FALSE, 1, <<Ev("native5", ONG, alice, bob, 2, 3),
                     Ev("oep4", TOK, alice, bob, 2, 0),
                     Ev("native4", ONT, bob, alice, 1, 0), Fee>>) >> >>

MCDiffs == [h \in 0..MCHeight |-> IndexBlock(MCBlocks[h+1], MCContracts).diffs]
MCTouched == [h \in 0..MCHeight |-> DOMAIN MCDiffs[h]]
MCDiff == [h \in 0..MCHeight |-> [k \in MCAccounts \X MCContracts |->
             IF k \in DOMAIN MCDiffs[h] THEN MCDiffs[h][k] ELSE 0]]

AtHeights(a, b, c) == [h \in 0..MCHeight |-> <<a, b, c>>[h+1]]

MCOnChain == [k \in MCAccounts \X MCContracts |->
  CASE k = <<alice, ONG>>   -> AtHeights(90, 80, 47)
    [] k = <<bob, ONG>>     -> AtHeights(0, 0, 23)
    [] k = <<govAddr, ONG>> -> AtHeights(0, 10, 20)
    [] k = <<alice, ONT>>   -> AtHeights(0, 0, 10)
    [] k = <<bob, ONT>>     -> AtHeights(40, 40, 30)
    [] k = <<alice, TOK>>   -> AtHeights(0, 5, 3)
    [] k = <<bob, TOK>>     -> AtHeights(0, 0, 2)
    [] OTHER                -> AtHeights(0, 0, 0)]

MCHash == AtHeights(g0, g1, g2)
MCTxnsOf == AtHeights({t0}, {t1, t2}, {t3})
=============================================================================
