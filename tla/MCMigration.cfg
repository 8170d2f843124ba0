SPECIFICATION MigrationSpec
CONSTANTS
  Extractors = {e1, e2}
  Tables = {schema, t1, t2}
  SchemaFile = schema
  Absent = absent
  MaxEdits = 2
  MaxKills = 2
  Installers = {i1, i2}
  N = 2
  Contents = {a, b}
  None = none
  Blank = blank
  MaxFaults = 2
  RailsRivals = FALSE
  Starts <- MCStarts
  WalkDays = 460
  Times = {0, 45015, 86399}
  Offsets <- MCOffsets
  Internal = {"blobs"}
  Key <- MCKey
  Stem <- MCStem
  IsIdentifier <- MCIsIdentifier
  ColumnType <- MCColumnType
  ColumnOrder <- MCColumnOrder
  Sources <- MCSources
  RailsNames = {"writer", "author", "id"}
  Snapshots <- MCSnapshots
  Instants = {"t1", "t2"}
  Json <- MCJson
  Strip <- MCStrip
  Lower <- MCLower
  Servable <- MCServable
  Folded <- MCFolded
  NameLimit = 3
  TooLong = {"huge"}
  Exports <- MCExports
  Identifiers = {"x", "title", "doc", "tag", "verified", "created", "email", "fresh", "second", "posts", "tags", "users", "labels"}
  Portable = {"owner"}
  Verified = {"verified = true"}
  Owner = {"owner"}
  NewFields <- MCNewFields
  NewNames = {"labels", "posts"}
  RequestFiles <- MCRequestFiles
  OldAnswers <- MCOldAnswers
  NewAnswers <- MCNewAnswers
  Variables <- MCVariables
  Volatile = {"id"}
  MaxPasses = 3
  Bytes <- MCBytes
  MaxCapture = 3
  Migrations <- MCMigrations
  Decisions <- MCDecisions
  CaptureSegs = {":id", "{c}"}
  Placeholders = {"{{v}}"}
  Uncanonical = {"%2F"}
  Words = {"api", "collections", "posts", "users", "rows", "auth", "hook", "features", "publish", "about", "_"}
INVARIANTS BundleAttested DatesKept RailsMapped RailsImports PbConverted ParityHonest CompletionProven DoneIsComplete
PROPERTY NoOverwrite
CHECK_DEADLOCK FALSE
