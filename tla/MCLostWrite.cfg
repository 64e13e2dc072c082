CONSTANTS
  BufferSize = 3
  Path = {1, 2, 3, 4}
  Inputs <- MCInputs
  OptionLists <- MCOptionLists
  BadArgvs <- MCBadArgvs
  Number <- MCNumber
  Cores = 2
  MaxFaults = 2
SPECIFICATION Spec
INVARIANT SuccessIsOnDisk
