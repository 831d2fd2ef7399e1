CONSTANTS
    ChannelMod = 3
    ByteMod = 2
    MaxFrames = 4
    MaxResets = 1
    None = None
SPECIFICATION Spec
INVARIANTS SilentUntilInit AnswersInOrder ChannelsApart
PROPERTIES AnsweredWhenIdle
CHECK_DEADLOCK FALSE
