\* The SNAC cache against SnacCacheSpec (MCSnacCache.cfg), the BOSH client
\* (MCBosh.cfg) and the listening sockets (MCNetwork), side by side.  The
\* BOSH client really stops (see MCBosh.cfg).
CONSTANTS
  Null = Null
  IdMod = 3
  HashSize = 2
  DataLens = {0, 1}
  MaxAges = {1}
  MaxTime = 3
  MaxSent = 4
  MaxRid = 4
  MaxAnswers = 5
  Busy = {1024}
  Ephemeral = {40000}
  MaxFds = 2
  ListenPorts = {0, 1025}
  PrefPorts = {1025, 1026}
SPECIFICATION Spec
PROPERTY RefinesSnacCacheSpec
INVARIANT RidConsecutive
INVARIANT ResponsePairing
PROPERTY ListenResult
CHECK_DEADLOCK FALSE
