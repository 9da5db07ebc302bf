SPECIFICATION CampaignSpec
INVARIANT ParityCompares
CONSTANTS
  Ranks <- MCRanks
  Options <- MCHybrid
  Measured <- MCHybrid
  Overlays = {TRUE}
  Prompts <- MCPrompts
  Tokens <- MCTokens
  Broken <- MCBroken
  NoRank = NoRank
  Script <- MCScript
  FlushTries = 2
  MaxSuites = 1
  MaxFaults = 0
  Counting = "count"
  Repeats = 2
CHECK_DEADLOCK FALSE
