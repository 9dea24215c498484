CONSTANTS
  Package <- Packages
  Needs <- PackageNeeds
  AllNeeds <- PackageNeeds
  Profile <- Profiles
  Chain <- Ancestry
  HostBuilt = {"reference"}
  NoPGO = {"lite"}
  RunsHelpers = {"sqlite"}
  Builds <- Pairs
  CrossTree <- Crosses
  Arms <- KitArms
  World <- BlindWorlds
  Start <- Base
  Commands <- AllCommands
  Depth = 8
  Order <- Ranks
  MaxChanges = 2
  MaxHasty = 1
  Key <- JobKey
  KeyDoc <- JobKeyDoc
  Baked <- JobBaked
  Content <- JobContent
SPECIFICATION Spec
INVARIANT AlwaysFresh
