SPECIFICATION Spec
CONSTANTS
  main = main
  lib = lib
  util = util
  S = S
  T = T
  pMain = pMain
  pLib = pLib
  pAlias = pAlias
  pUtil = pUtil
  pGone = pGone
  Files = {main, lib, util}
  Entry = pMain
  Paths = {pMain, pLib, pAlias, pUtil, pGone}
  Names = {S, T}
  None = None
  Unreadable = Unreadable
  Realpath <- Found
  Disks <- SmallDisks
INVARIANTS TypeOK LoadedOnce LoadsWhatIsReached TypesMeanTheirDeclaration ErrorIsWhereItSays
PROPERTY Ends
CHECK_DEADLOCK FALSE
