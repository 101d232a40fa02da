SPECIFICATION Spec
CONSTANTS
    Streams <- MCStreams
    Decoders <- MCDecoders
    Commands <- PlayCommands
    KillMayFail = FALSE
INVARIANT ManualRetryPlays
