SPECIFICATION Spec
CONSTANTS
 Unknown = Unknown
 Whole = 240
 AlphaWhole = 5
 kBufferSize = 4
 kAlignment = 2
 kPartitionMaxSize = 8
 RecordAlignment = 2
 Malformed = Malformed
INVARIANTS PlanIsSound PlacementIsSound MigrationIsSound ReportsAreTrue  
CHECK_DEADLOCK FALSE
