SPECIFICATION ReleaseSpec
CONSTANTS
  r1 = r1
  r2 = r2
  Releases = {r1, r2}
  Migrations <- MCMigrations
  Needs <- MCNeeds
  Services = 2
  MaxImages = 2
  MaxBackups = 1
  MaxKeys = 2
  Missing = Missing
INVARIANTS
  HealthyIsServed
  StagedAndSealed
PROPERTIES
  MigratedAfterDrill
CHECK_DEADLOCK FALSE
