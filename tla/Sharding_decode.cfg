SPECIFICATION ShardingSpec
CONSTANTS DataCounts={2,4} ParityCounts={0,1,2,3}
CHECK_DEADLOCK FALSE
INVARIANT DecodeExact
