--------------------------- MODULE MCConstruction ---------------------------
(***************************************************************************)
(* Two accounts and their keys; a native token, an OEP4 token and a WASM   *)
(* one.  What clients ask: a plain transfer, one with its credit first, a  *)
(* nonce and another payer, one to the null address, one of the WASM       *)
(* token; and requests to be refused.  What other wallets submit: every    *)
(* method parsePayload knows, one of them in a script that goes on to a    *)
(* second call.                                                            *)
(***************************************************************************)
EXTENDS Construction

CONSTANTS alice, bob, TOK, WSM

MCDecimals == (ONG :> 18) @@ (ONT :> 9) @@ (TOK :> 0) @@ (WSM :> 0)

Op(account, contract, value, index, related) ==
  [ account |-> account, sub |-> IF isNative(contract) THEN nil ELSE contract,
    value |-> value, index |-> index, related |-> related, type |-> "transfer",
    currency |-> [contract |-> contract, decimals |-> MCDecimals[contract]] ]

Debit(account, contract, amount) == Op(account, contract, -amount, 0, <<>>)
Credit(account, contract, amount) == Op(account, contract, amount, 1, <<0>>)

Request(ops, gasLimit, gasPrice, nonce, payer) ==
  [ ops |-> ops, maxFee |-> nil, multiplier |-> nil, gasLimit |-> gasLimit,
    gasPrice |-> gasPrice, nonce |-> nonce, payer |-> payer ]

Plain(ops) == Request(ops, nil, nil, nil, nil)

MCRequests == {
  Plain(<<Debit(alice, ONG, 25), Credit(bob, ONG, 25)>>),
  Request(<<Credit(bob, TOK, 2), Debit(alice, TOK, 2)>>, 0, 7, 1, bob),
  Plain(<<Debit(alice, ONG, 25), Credit(nullAddr, ONG, 25)>>),
  Plain(<<Debit(alice, WSM, 3), Credit(bob, WSM, 3)>>),
  \* refused
  Plain(<<Debit(nullAddr, ONG, 25), Credit(bob, ONG, 25)>>),
  Plain(<<Debit(alice, ONG, 25), Credit(bob, ONG, 20)>>),
  Plain(<<Debit(alice, ONG, 25), Credit(bob, ONT, 25)>>),
  Plain(<<Op(alice, ONG, -25, 1, <<>>), Op(bob, ONG, 25, 0, <<1>>)>>),
  Plain(<<Debit(alice, ONG, 25), Op(bob, ONG, 25, 1, <<>>)>>),
  Request(<<Debit(alice, ONG, 25), Credit(bob, ONG, 25)>>, minGasLimit - 1, nil, nil, nil),
  Request(<<Debit(alice, ONG, 25), Credit(bob, ONG, 25)>>, nil, nil, MaxNonce + 1, nil),
  [Plain(<<Debit(alice, ONG, 25), Credit(bob, ONG, 25)>>) EXCEPT !.multiplier = 2] }

Foreign(code, gasPrice, keys) ==
  [ txn |-> [ code |-> code, gasLimit |-> minGasLimit, gasPrice |-> gasPrice,
              nonce |-> 0, payer |-> bob ],
    keys |-> keys ]

\* After the first call a unit of ONT goes from bob to alice.
Continued(code) ==
  [code EXCEPT !.rest = [notify |-> <<Event("native4", ONT, <<bob, alice>>, 1, 0)>>,
                         witnesses |-> {bob}]]

MCForeign == {
  Foreign(Code("SYSCALL", ONT, "transfer", << <<bob, alice, 1>> >>), 3, {bob}),
  Foreign(Code("SYSCALL", ONG, "transferFromV2", <<alice, bob, alice, 15>>), 1, {alice, bob}),
  Foreign(Code("APPCALL", TOK, "transferFrom", <<alice, bob, alice, 1>>), 3, {alice, bob}),
  Foreign(Continued(Code("APPCALL", TOK, "transferMulti",
                         << << <<bob, alice, 1>>, <<bob, nullAddr, 2>> >> >>)), 3, {bob}) }
=============================================================================
