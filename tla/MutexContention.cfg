\* Three tasks over two keys of one shard: enough for a task to be overtaken
\* by two others, and for one to be inside remove_if while another registers
\* a new mutex and the third uses the other key.
SPECIFICATION FairSpec
CONSTANTS
    Tasks = {t1, t2, t3}
    Keys = {k1, k2}
    Arcs = {a1, a2, a3}
    OneShard = s1
    Shards <- MCShards
    ShardOf <- MCShardOf
    NoTask = NoTask
    NoKey = NoKey
    NoArc = NoArc
INVARIANTS
    TypeOK
    MutualExclusion
    NoLeakedEntry
PROPERTIES
    RefinesKeyLock
    LockGrantedUnlessStuck
\* The system can really stop: see WaitReturns.
CHECK_DEADLOCK FALSE
