SPECIFICATION FairSpec
CONSTANTS
    pa = pa
    pb = pb
    t1 = t1
    t2 = t2
    Podcasts <- MCPodcasts
    PodcastIds <- MCPodcastIds
    Workers <- MCWorkers
    Kinds <- MCKinds
    MaxPosts <- MCMaxPosts
    NoResult = NoResult
INVARIANTS
    TypeOK
    NeverWithoutAudio
    FinishedRefreshAgrees
    NewestIsKept
PROPERTIES
    NoStaleOverwrite
    SlotReleased
