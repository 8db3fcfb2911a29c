SPECIFICATION SSpec
CONSTANTS
  V4Bits = 2
  V6Bits = 4
  MapTag = 1
  IntBits = 12
  Second = 10
  LenMod = 4
  Definitions <- AllDefinitions
  Events <- AllEvents
  Texts <- AllTexts
  Handlers = {h1, h2}
  Inflight = 2
  Attempts = 2
  MaxClock = 601
  MaxRestarts = 1
INVARIANTS
  SlotsExact
  StoredCanonical
  MirrorAgrees
  SnapshotExact
  AckedIsFound
  SpellingsAgree
PROPERTIES
  StartsOrExits
CHECK_DEADLOCK FALSE
