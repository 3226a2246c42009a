SPECIFICATION MCSpec
CONSTANTS
  Schedules = {s1}
  Presets = {p1, p2}
  Notifications = {n1}
  Requests = {r1, r2}
  Forms <- SomeForms
  StoredSchedules <- SomeRows
  DaysPerWeek = 2  SlotsPerDay = 2
  Zone = 1
  Horizon = 4
  MaxRequests = 2  MaxCrashes = 1
  NoTime = NoTime  Nobody = Nobody
  s1 = s1  p1 = p1  p2 = p2  n1 = n1
  Ids = {e1, e2}
  Seeds = {e1}
  StoredEffects <- SomeEffects
  Bundles = {b1}
  Bodies <- SomeBodies
  Items <- SomeItems
  MaxRestarts = 1
  e1 = e1  e2 = e2
  Photos = {1, 2, 3}
  Libraries <- SomeLibraries
  Queries <- SomeQueries
  Servers <- SomeServers
  Size = 1  MaxPages = 2  Tries = 3  MaxFaults = 3
  ann = ann  bob = bob  eve = eve
  Nothing = Nothing
  Readers = {r1, r2}
  Locks = {k1, k2}
  Contents = {c1, c2}
  TTL = 1  Retention = 1
  MaxPresses = 2  MaxRefusals = 2  MaxChanges = 2
  Fields = {f1}
  Tokens = {t1}
  Values = {v1}
  MaxSaves = 3  MaxRotations = 2
  Empty = Empty
  Results = {h1, h2}
  Commands = {cli}
  Backend = backend
  Tables = 2  MaxWrites = 2
  Pids = {q1, q2}
  Stops = {r1}
  MaxBirths = 4
CHECK_DEADLOCK FALSE
INVARIANTS
  LivePresetsExist  
  EditedTextKept PresetEffectsExist
   FaultsHarmless
  TagMatchesPicture
    OnlyDaemonsSignalled
PROPERTIES DueIsServed PressHandled 
