SPECIFICATION Spec
CONSTANTS
  Files <- MCFiles
  PrefKeys = {"DocumentRoot", "UserDir"}
  PrefDefault <- MCPrefDefault
  DefaultKa = 3
  RLimit = 5
  FdLimit = 6
  UIntMax = 15
  MimeFile <- MCMimeFile
  BuiltinMime <- MCBuiltinMime
  AliasSize = 2
  Hash <- MCHash
  Uris <- MCUris
  Users = {"~u"}
  Homes = {"h1"}
  Hosts = {"own", "default"}
  DefaultName = "default"
  HtContents <- MCHtContents
  MaxTime = 1
  Unset = Unset
INVARIANTS TypeOK AliasesFollowFile MimeFollowsFile NumbersAfterLoad CachesReread DocrootIsFresh
