\* Three items on two shards, and the first pages of one or two items.
CONSTANTS
    s1 = s1
    s2 = s2
    ShardSeq <- MCShardSeq
    SpanShard = s2
    MaxItems = 3
    Limits = {1, 2}
    Offsets = {0, 1}
SPECIFICATION ReadsSpec
INVARIANTS
    PagesMissNothing
    PagesRepeatNothing
CHECK_DEADLOCK FALSE
