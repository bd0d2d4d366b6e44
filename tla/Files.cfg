CONSTANTS
  f1 = f1
  f2 = f2
  f3 = f3
  cron = cron
  admin = admin
  op = op
  Files = {f1, f2, f3}
  Https = FALSE
  Pollers = {cron, admin}
  Editors = {op}
  Casts = {{cron}, {cron, admin}, {cron, op}}
  Alone = {cron}
  Shared = {f1, f2}
  MaxRetries = 2
  Keep = 3
  MaxEdits = 1
  MaxPollFaults = 1
  a = a
  b = b
  w = w
  k1 = k1
  k2 = k2
  Skus = {a, b, w}
  Wild <- MCWild
  Keys = {k1, k2}
  Listed = {a}
  Jobs = {"stock", "stock2", "price", "price2", "upsert", "upsert2", "pattern", "nameless", "catalog", "dynamic", "dynamic2", "insert"}
  Kind <- MCKind
  RowsOf <- MCRows
  InsertMissing = {"insert"}
  Nameless = {"nameless"}
  Connected = TRUE
  MaxFaults = 2
  MaxRepeats = 1
  JobCasts = {{"stock"}, {"price"}, {"dynamic"}, {"insert"}, {"catalog"}, {"upsert"}, {"stock", "upsert"}, {"stock", "stock2"}, {"price", "price2"}, {"price", "upsert"}, {"upsert", "upsert2"}, {"pattern", "stock"}, {"nameless", "catalog"}, {"dynamic", "stock"}, {"dynamic", "dynamic2"}, {"insert", "upsert"}, {"insert", "price"}, {"catalog", "dynamic"}, {"catalog", "insert"}, {"pattern", "catalog"}, {"stock", "price", "dynamic"}}
  Numerals <- MCNumerals
  Sheets <- MCSheets
  Profiles <- MCProfiles
  FileTypes <- MCFileTypes
  Spelled <- MCSpelled
  Folded <- MCFolded
SPECIFICATION FilesSpec
INVARIANTS MemorySound AloneIngestsOnce AloneEarnsDeadLetters TablesSound AtomicIngest LastRowWins UpsertForwarded SheetRead CutHarmsLast
PROPERTIES AloneFilesSettle KeysKept
CHECK_DEADLOCK FALSE
