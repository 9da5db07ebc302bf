SPECIFICATION CampaignSpec
INVARIANTS TypeOK RecipeServes GatesHeld HookCompares TimedDisarmed JitterWhole
PROPERTY ToolEnds
CONSTANTS
  Ranks <- MCRanks
  Options <- MCOptions
  Measured <- MCHybrid
  Overlays = {TRUE, FALSE}
  Prompts <- MCPrompts
  Tokens <- MCTokens
  Broken <- MCBroken
  NoRank = NoRank
  Script <- MCScript
  FlushTries = 2
  MaxSuites = 2
  MaxFaults = 1
  Counting = "count"
  Repeats = 2
CHECK_DEADLOCK FALSE
