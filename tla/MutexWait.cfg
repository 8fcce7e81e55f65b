\* One thread locks itself up in remove_if while another waits for the key.
SPECIFICATION FairSpec
CONSTANTS
    Tasks = {t1, t2, t3}
    Keys = {k1}
    Arcs = {a1, a2}
    OneShard = s1
    Shards <- MCShards
    ShardOf <- MCShardOf
    NoTask = NoTask
    NoKey = NoKey
    NoArc = NoArc
PROPERTIES
    WaitReturns
\* The system can really stop: see WaitReturns.
CHECK_DEADLOCK FALSE
