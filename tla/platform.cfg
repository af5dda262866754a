\* Places, images, keys, clients and users are the same two model values, and so
\* are the concurrent requests, for the symmetry.
SPECIFICATION Spec
CONSTANTS
  Places = {a1, a2}
  NoPlace = NoPlace
  NameOf <- SameName
  ClockSuffixes = {"clock"}
  Resolvers = {r1, r2}
  Browsers = {r0}
  Commands = {r1, r2}
  PopularLimit = 2
  MaxRows = 3
  MaxEdits = 2
  CachedPlaces = {a1, a2}
  NoCachedPlace = NoPlace
  Images = {a1, a2}
  Readers = {r0}
  Fetchers = {r1, r2}
  Events = {event}
  Guests = {a1, a2}
  StatusRequests = {r1, r2}
  NoEvent = NoEvent
  Kids = {a1, a2}
  NoKid = NoKid
  KeyTTL = 2
  LastKeyTick = 4
  TokenRequests = {r1, r2}
  Clients = {a1, a2}
  Burst = 3
  Rate = 1
  IdleTicks = 2
  Callers = {r1, r2}
  MaxBuckets = 3
  LastCall = 6
  Saves = {"first", "second", "third"}
  Positions = {1, 2}
  Opens = {"morning", "noon", "night"}
  Cooldown = 2
  LastMoment = 4
SYMMETRY Interchangeable
INVARIANTS
  TypeOK
  RecordsRight
  PlacesFound
PROPERTIES
  PlacesKept
  CancelledStays
  KeyAcceptedWhileServed
CHECK_DEADLOCK FALSE
