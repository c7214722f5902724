CONSTANTS
    Nothing = Nothing
    Places = {lawn, edge, dock}
    Outlines = {old, new}
    Names = {front}
    Interval = 2
    MaxWaiting = 2
SPECIFICATION ImageSpec
INVARIANT
    ImageTypeOK
PROPERTIES
    LastIsWritten
    PositionsAreThrottled
