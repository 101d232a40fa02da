SPECIFICATION FairSpec
CONSTANTS
    news = news
    music = music
    retired = retired
    pa = pa
    pb = pb
    pc = pc
    Channels <- MCChannels
    Podcasts <- MCPodcasts
    ChannelIds <- MCChannelIds
    PodcastIds <- MCPodcastIds
    NoChannel = NoChannel
    NoPodcast = NoPodcast
    NoEpisode = NoEpisode
    NoError = NoError
    NotScheduled = NotScheduled
    Shuffle = TRUE
    StartOnBoot = TRUE
    ConfigVolume = 100
    VolumeRequests = {0, 101}
    VolumeStep = 100
    MaxAttempts = 1
    RetryDelay = 2
    Endings = {"exits", "fails"}
    DiskMayFail = FALSE
    MaxEpisodes = 2
    MaxHistory = 2
    MaxInherited = 1
    InheritedVolumes = {100}
    MaxStrays = 1
INVARIANTS
    NoAudioUnlessPlaying
    SelectedIsHeard
PROPERTIES
    ExitIsNoticed
    RetryEnds
