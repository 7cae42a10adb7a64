SPECIFICATION Spec
CONSTANTS
  Archive <- MCArchive
  Names <- MCNames
  Present = {"b", "base"}
  MaxKills = 2
  MaxFaults = 2
INVARIANTS DamageIsDownstream
PROPERTIES Ends
CHECK_DEADLOCK FALSE
