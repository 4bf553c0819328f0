SPECIFICATION Spec
CONSTANTS
  None = None
  ada = ada
  Own = Own
  Addresses = {ada}
  Headers <- SomeHeaders
  ChunkRows = 1
  MaxRows = 2
  MaxSends = 1
  Events = {e1}
  Routes = {r1}
  Executors = {x1}
  MaxAttempts = 1
  MaxMishaps = 2
  first = first
  answer = answer
  other = other
  lisbon = lisbon
  Mails = {first, answer, other}
  Header <- SomeMail
  Window = 1
  MaxUid = 3
  MaxEpoch = 2
  MaxThreads = 2
  MaxFaults = 1
  Moved = {1, 2, 3}
  CHUNK_SIZE = 2
  BULK_UID_LIMIT = 3
  MaxFailures = 2
  Archived = {first, answer}
  Folder <- TwoFolders
  Identified = {first}
  MaxStops = 3
  MaxLines = 8
  Declared <- SomeDeclared
  Situations <- SomeSituations
  MAX_ATTRIBUTION_ATTEMPTS = 3
  MaxEdits = 1
  Servers <- SomeServers
  MaxCopies = 3
  Letters = {first, answer, other}
  Heads <- SomeHeads
  ThreadLimit = 2
  Attached <- SomeAttachments
  RuleIds = {1}
  Exprs <- SomeExprs
  Actions <- SomeActions
  MaxPublishes = 2
  Tasks = {t1, t2}
  Environments <- SomeEnvironments
  MaxFresh = 2
  MaxConsents = 1
  PageSize = 2
  MaxMessages = 5
  Texts <- SomeTexts
  Layouts = {"format", "new format"}
  Packages = {"parser", "wider", "rival", "unsound"}
  Package <- SomePackages
  r1 = r1
  s1 = s1
  Readers = {r1, r2}
  Services = {s1, s2}
  DailyLimit = 1
  MaxDays = 1
  Usable = {"ada", "ann"}
  Lists <- SomeLists
  Spelled <- SomeSpellings
  Books <- SomeBooks
  Queries <- SomeQueries
  SUGGESTION_SCAN_CAP = 2
  Originals = {d1, d2}
  MaxWrites = 2
  GreatestUid = 4
  DEFAULT_BATCH_SIZE = 3
  PEEK_LIMIT = 2
  Limits = {0, 1, 3}
INVARIANTS
  TypeOK AddressesServed  WatermarkHonest  BackupsRestore SendsAreEarned
   EvidenceAccounted  SecretsOpen TokenNeverSkips
  ReadHonestly
CHECK_DEADLOCK FALSE
