------------------------------ MODULE MCIngest ------------------------------
(* Instances of Ingest for TLC.                                            *)
EXTENDS Ingest

CONSTANT p1

OnePartition == [r \in Requests |-> p1]
=============================================================================
