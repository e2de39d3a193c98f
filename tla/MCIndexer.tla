----------------------------- MODULE MCIndexer -----------------------------
(* The indexer on the chain of MCChain.                                    *)
EXTENDS Indexer, MCChain
=============================================================================
