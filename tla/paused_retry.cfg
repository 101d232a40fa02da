SPECIFICATION Spec
CONSTANTS
    news = news
    music = music
    retired = retired
    pa = pa
    pb = pb
    pc = pc
    Channels <- MCChannels
    Podcasts <- MCPodcasts
    ChannelIds <- MCChannelIds
    PodcastIds <- MCPodcastIds
    NoChannel = NoChannel
    NoPodcast = NoPodcast
    NoEpisode = NoEpisode
    NoError = NoError
    NotScheduled = NotScheduled
    Shuffle = FALSE
    StartOnBoot = FALSE
    ConfigVolume = 100
    VolumeRequests = {0, 101}
    VolumeStep = 100
    MaxAttempts = 1
    RetryDelay = 2
    Endings = {"exits"}
    DiskMayFail = FALSE
    MaxEpisodes = 1
    MaxHistory = 2
    MaxInherited = 1
    InheritedVolumes = {100}
    MaxStrays = 1
PROPERTY PausedDoesNotAutoAdvance
