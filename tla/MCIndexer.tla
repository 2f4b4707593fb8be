------------------------------ MODULE MCIndexer ------------------------------
(* Instances of Indexer for TLC.                                           *)
EXTENDS Indexer, TLC

CONSTANTS e1, e2, e3, w1, w2, cli

\* Two checkpoints, the first with a rejected event at its end; one event.
MCChain == <<<<e1, e3>>, <<e2>>>>
MCOne   == <<<<e1>>>>
=============================================================================
