---------------------------- MODULE MCAggregator ----------------------------
(***************************************************************************)
(* Instances of ShardedAggregator for TLC.                                 *)
(***************************************************************************)
EXTENDS ShardedAggregator

\* Checksums that send tasks 1 and 3 to one of two shards and 2 to the other.
MCCrc == [t \in TaskIds |-> t]
MCScore == [t \in TaskIds |-> 10 - t]
\* Task 3 has conditions of its own; task 2 fails its only one.
MCAwarded == [t \in TaskIds |-> IF t = 3 THEN [b |-> 1, c |-> 2]
                                ELSE [b |-> IF t = 2 THEN 0 ELSE 5]]
MCLatency == [t \in TaskIds |-> t * t]
=============================================================================
