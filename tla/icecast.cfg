SPECIFICATION FairSpec
CONSTANTS
    Streams <- MCStreams
    Decoders <- MCDecoders
    Commands <- AllCommands
    KillMayFail = TRUE
INVARIANTS
    TypeOK
    LossIsReported
PROPERTIES
    CompletionIsGenuine
    EndIsNoticed
