------------------------------- MODULE MCKeys -------------------------------
(***************************************************************************)
(* Two systems that do not touch each other, in one instance, with the     *)
(* bytes of the code: HeightOrder around every place where the encoding    *)
(* changes, and BalanceKeys with heights of every format and number of     *)
(* digits, and with accounts and contracts whose bytes resemble native     *)
(* addresses.                                                              *)
(***************************************************************************)
EXTENDS BalanceKeys, HeightOrder

MCAccounts == {<<7, 2>>, govAddr}
MCContracts == {ongAddr, ontAddr, <<2, 1>>}

\* Bytes wrap, the last short and the first long heights, and the
\* highest that the integers of TLC reach.
MCWindow == {0, 254, 255, 8258174, 8258175, 8258176, 2147483600}

Around(h, n) == <<IF h < n THEN 0 ELSE h - n, h + n>>

\* The second and third byte wrap; the short format ends; the first remainder
\* and digit; two digits, three digits; a digit wraps; the highest heights
\* that TLC's integers reach.
MCRanges == {
  Around(0, 600), Around(255 * 255, 600), Around(MaxSmall, 600),
  Around(MaxSmall + 255 * 253, 600), Around(MaxSmall + 255 * 253 * 253, 600),
  Around(MaxSmall + 255 * 253 * 253 * 40, 600), <<2147483000, 2147483600>> }

HeightsAtRest == height = 0 /\ last = 0

MCInit == Init /\ (HeightsAtRest \/ FirstHeights)

MCNext ==
  \/ HeightsAtRest /\ Next /\ UNCHANGED heights
  \/ Advance /\ UNCHANGED vars

MCSpec == MCInit /\ [][MCNext]_<<vars, heights>>
=============================================================================
