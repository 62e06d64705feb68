SPECIFICATION PartsSpec
CONSTANTS
  Users <- MyUsers
  Clock <- MyClock
  CLK48 = "CLK48"
  Startup <- MyStartup
  Sdio <- MySdio
  Early = 8
  Rx = "rx"
  Tx = "tx"
  Daemon = Daemon
  Monitor = Monitor
  Nobody = Nobody
  W = 2000000000
  NULL = NULL
  Nodes = {n1, n2, n3, n4}
  SecPerMin = 4
  MinPerHour = 4
  HourPerDay = 3
  EpochYear = 1970
  Starts <- Corners
  MaxDays = 800
  Window = 3
  Samples = 12
  MaxEdges = 8
  Names = {a, b}
  Depth = 2
  MaxSize = 2
  MaxMounts = 2
  Readers = {t1}
  Setters = {t1, t2}
  S = 2
  MaxDay = 1
  T = 2
  MaxTick = 2
  W16 = 5
INVARIANTS
  TypeOK
  Balanced
  Running
  MountedClocked
  ListRight
  CalendarRight
  ListedUsable
  NothingOpen
  CommandsMeant
  TimeRead
  Set
PROPERTIES
  Returns
  Settles
CHECK_DEADLOCK FALSE
