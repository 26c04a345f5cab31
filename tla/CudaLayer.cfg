SPECIFICATION Spec
CONSTANTS
  HostThreads = {h1}
  Addresses = {a1, a2, a3}
  Images <- SomeImages
  Symbols = {"g"}
  NoSymbol = NoSymbol
  Contents = {0, 1}
  NoStore = NoStore
  MaxHandles = 2
  Stubs = {s1}
  KernelNames = {"k", "h"}
  FatBinaries <- SomeFatBinaries
  PtxFiles <- SomePtxFiles
  Configs <- OneConfig
  NoModule = NoModule
  MaxModules = 1
  MaxPushed = 1
INVARIANTS
  OneOwner
  LaunchInRange
PROPERTIES
  GlobalsSpec
SYMMETRY AddressSymmetry
CHECK_DEADLOCK FALSE
