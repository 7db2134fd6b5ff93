SPECIFICATION DeploySpec
CONSTANTS
  Files <- MCFiles
  Renames <- MCRenames
  OldLog <- MCOldLog
  Lineup <- MCLineup
  Configs <- MCConfigs
  Bodies <- MCBodies
  Protocols = {"sse", "agui", "vercel", "openai"}
  Games <- MCGames
  Rated = {"u1"}
  MaxDeaths = 2
  MaxRuns = 2
INVARIANTS MigratedOnce ServedAsPromised
PROPERTIES ServesAgain
CHECK_DEADLOCK FALSE
