SPECIFICATION ServerSpec
CONSTANTS
  Databases = {1, 2}
  Tokens = {t1}
  Requests = {r1, r2}
  Catalogues <- MCCatalogues
  MaxOpens = 2
  MaxRequests = 3
  MaxReloads = 1
  Topics <- MCTopics
  Varied <- MCVaried
  KeyFileHolds = "k"
  MaxEdits = 1
  DBLists <- MCDBLists
  DBEnvs <- MCDBEnvs
  DBFlags <- MCDBFlags
  r1 = r1 r2 = r2 t1 = t1
  Anyone = Anyone None = None Nothing = Nothing
SYMMETRY Alike
INVARIANTS
  ConfigurationSound
  RunsWhereAllowed SelectionHolds
  StatementsRead SearchSound RequestsHonoured
CHECK_DEADLOCK FALSE
