SPECIFICATION Spec
CONSTANTS
  k1 = k1
  k2 = k2
  kept = kept
  added = added
  removed = removed
  v1 = v1
  Null = Null
  NoTable = NoTable
  NoClause = NoClause
  Keys <- MCKeys
  Columns <- MCColumns
  Fields <- MCFields
  Values <- MCValues
  Wheres <- MCWheres
  Batches <- MCBatches
  Hooks <- MCHooks
  InitTables <- MCInitTables
  MaxDepth = 4
  MaxCalls = 5
INVARIANTS StatementsAsChained AllOrNothing MigrationKeeps
CHECK_DEADLOCK FALSE
