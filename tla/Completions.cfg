CONSTANTS
    a = a
    b = b
    Channels <- MCChannels
    MaxTokensRequired <- MCMaxTokensRequired
    FinishErrors = TRUE
    MaxBlocks = 2
SPECIFICATION FairSpec
INVARIANTS OneAnswer FinalLogIsLast ChannelsJudged FailuresReported
PROPERTIES EventuallyAnswered
