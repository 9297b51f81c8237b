SPECIFICATION ServingSpec
CONSTANTS
    Runs <- MCRuns
    Channels <- MCChannels
    ToolMarkers <- MCTools
    Word <- MCWord
    EngineReasons = {"none", "length", "weird"}
    FlushTokens = 2
INVARIANTS ChunkingIrrelevant ProtocolKept StreamMatchesAnswer RefusedLeavesNothing HistoryKept
CHECK_DEADLOCK FALSE
