SPECIFICATION Spec
CONSTANTS
    news = news
    music = music
    retired = retired
    pa = pa
    pb = pb
    pc = pc
    Channels <- MCChannels
    Podcasts <- MCPodcasts
    ChannelIds <- MCChannelIds
    PodcastIds <- MCPodcastIds
    NoChannel = NoChannel
    NoPodcast = NoPodcast
    NoEpisode = NoEpisode
    NoError = NoError
    NotScheduled = NotScheduled
    Shuffle = FALSE
    StartOnBoot = FALSE
    ConfigVolume = 100
    VolumeRequests = {101}
    VolumeStep = 0
    MaxAttempts = 2
    RetryDelay = 1
    Endings = {"exits", "fails", "hangs"}
    DiskMayFail = TRUE
    MaxEpisodes = 1
    MaxHistory = 2
    MaxInherited = 1
    InheritedVolumes = {100}
    MaxStrays = 1
INVARIANTS
    TypeOK
    RetryBounded
PROPERTIES
    SelectionWithinChannel
    ErrorIsKept
    SupervisorSpec
