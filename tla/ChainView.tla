----------------------------- MODULE ChainView -----------------------------
(***************************************************************************)
(* What the indexed store promises to whoever reads it, with no word of    *)
(* how: the store holds a prefix of the chain's history of balances, block *)
(* by block, and nothing else; what it has told readers of is within that  *)
(* prefix; while it is up neither shrinks.  It may go down at any time,    *)
(* may then lose its newest blocks, and comes back telling of all it kept. *)
(***************************************************************************)
EXTENDS Naturals, Sequences

CONSTANT Chain        \* Chain[n]: the true balances after the n-th block

VARIABLES
  history,            \* the balances held, block after block
  told                \* how many of those blocks readers are told of

viewVars == <<history, told>>

Prefix(n) == SubSeq(Chain, 1, n)

TypeOK ==
  /\ history \in {Prefix(n) : n \in 0..Len(Chain)}
  /\ told \in 0..Len(history)

Init == history = <<>> /\ told = 0

\* One more block enters the history.
Record ==
  /\ Len(history) < Len(Chain)
  /\ history' = Append(history, Chain[Len(history) + 1])
  /\ UNCHANGED told

\* Readers are told of all that is held, on coming up or after a block.
Tell == told' = Len(history) /\ UNCHANGED history

\* The store goes down, and keeps a prefix of what it held.
GoDown ==
  /\ told' = 0
  /\ \E n \in 0..Len(history) : history' = SubSeq(history, 1, n)

Next == Record \/ Tell \/ GoDown

Spec == Init /\ [][Next]_viewVars
=============================================================================
