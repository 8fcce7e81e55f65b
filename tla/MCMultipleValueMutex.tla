------------------------ MODULE MCMultipleValueMutex ------------------------
(***************************************************************************)
(* Instances of MultipleValueMutex.  Live arcs are always registered, so   *)
(* one arc more than keys is enough for Insert never to lack a fresh one.  *)
(***************************************************************************)
EXTENDS MultipleValueMutex

CONSTANT OneShard

MCShards == {OneShard}
MCShardOf == [k \in Keys |-> OneShard]     \* every key in the same shard
=============================================================================
