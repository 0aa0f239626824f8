SPECIFICATION FairSpec
CONSTANTS
  Budget = 4
  Strategy = "hybrid"
  Compression = TRUE
  PreserveRecent = 1
  MinMessages = 2
  Replies <- MCReplies
  MaxRetries = 1
  ChanCap = 1
  MaxSkips = 1
  MaxConcurrent = 2
  MaxConcurrentPerSession = 1
  DefaultMaxRetry = 1
  Names = {"shell", "longname", "mcp.fs"}
  Unstable = {"longname"}
  NotWord = {"mcp.fs"}
  Alias <- MCAlias
  MaxRounds = 2
  MaxMessages = 20
  StoreFails = TRUE
  Modes <- AllModes
  Prompts = 1
  Pasts <- MCPasts
  MaxTurns = 4
CHECK_DEADLOCK FALSE
INVARIANTS HistoryComplete WindowSound StreamsSound ToolsAccounted
PROPERTIES TurnEnds
