CONSTANTS
    Debounce = 0
    Double = 2
    Long = 3
    Blink = 1
    Blinks = 2
    Typing = 2
    Refresh = 1
    MaxSlots = 2
    None = None
SPECIFICATION Spec
INVARIANTS DeviceTypeOK OneEffect
PROPERTIES ShortKeepsMode HeldChangesMode LedTellsMode
