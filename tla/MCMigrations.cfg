SPECIFICATION Spec
CONSTANTS
  Engines <- MCEngines
  Inserted <- MCInserted
  MaxRows = 2
  MaxCrashes = 1
INVARIANTS
  SchemaMatchesEntities
  TenantGoesWhole
  RefusedForRowsOnly
PROPERTY
  EventuallyMigrated
