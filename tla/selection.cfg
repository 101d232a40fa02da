SPECIFICATION Spec
CONSTANTS
    news = news
    music = music
    retired = retired
    pa = pa
    pb = pb
    pc = pc
    pd = pd
    gone = gone
    Channels <- MCChannels
    Podcasts <- MCPodcasts
    ChannelIds <- MCChannelIds
    PodcastIds <- MCPodcastIds
    NoChannel = NoChannel
    NoPodcast = NoPodcast
    MaxHistory = 4
    MaxInherited = 3
INVARIANTS
    TypeOK
    EveryPodcastHasItsTurn
PROPERTIES
    MovesEndPlayable
    PreviousUndoesNext
    HistoryIsOneRound
    NoEarlyRepeat
