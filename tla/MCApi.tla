------------------------------- MODULE MCApi -------------------------------
(* The reader beside the indexer, on the chain of MCChain.                 *)
EXTENDS Api, MCChain

\* The current block, by index, by hash, by both in agreement and not.
MCBlockIds == { [hash |-> ZeroHash, index |-> None],
                [hash |-> ZeroHash, index |-> 2],
                [hash |-> g1, index |-> None],
                [hash |-> g1, index |-> 1],
                [hash |-> g0, index |-> 1] }

\* A native balance and a token's at once.
MCAsked == { {ONG, TOK} }
=============================================================================
