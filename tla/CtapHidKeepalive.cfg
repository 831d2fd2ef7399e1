CONSTANTS
    ChannelMod = 3
    ByteMod = 2
    MaxFrames = 2
    MaxResets = 1
    None = None
SPECIFICATION Spec
PROPERTIES MsgAnswered
CHECK_DEADLOCK FALSE
