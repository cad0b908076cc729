SPECIFICATION Spec
CONSTANTS
  Users = {t, u}
  Objs = {a, b}
  Names = {m, n}
  nil = nil
  AnyNode = FALSE
  Clients = {t, u}
  Devs = {a, b}
  nodev = nodev
  HasOpen = {a}
  Standalone = {b}
  Fails = {"init", "open", "close"}
  TakeTurns = TRUE
  SpiThreads = {t, u}
  SpiDevs = {a, b}
  nobody = nobody
  SpiConfigs = {"mode0", "mode3", "nocs"}
  EmptyMessages = FALSE
  SharedDevices = FALSE
  I2cThreads = {t, u}
  I2cDevs = {a, b}
  anyone = anyone
  TenBit = {b}
  I2cRetries = 1
  I2cFaults = {"stretch"}
  MaxCnt = 3
  Asks = {0, 1, 2, 5, 7}
  MaxOverflow = 6
  HwUses = {}
  Channels = {1, 2}
  Wired = {1}
  PwmClock = 144000000
  Periods = {100000, 3000000, 20000000}
  Pulses = {0, 50000, 100000, 1500000}
  PwmUses = {}
  AdcThreads = {t, u}
  Inputs = {0, 3, 12}
  none = none
  AdcTurns = TRUE
  LSI_VALUE = 40000
  Timeouts = {1, 10, 26, 27}
  TryTooLong = FALSE
INVARIANTS
  CountExact
  SpiWireRight
  SpiReleased
  I2cDelivered
  I2cFreed
  HwOnTime
  PwmAsSet
  AdcRight
  WdtAsSet
PROPERTIES
  FindRight
  WalkEnds
