\* Two encoder calls on one buffer, or one frame: every value kind at the
\* boundaries of its encodings, maps in every iteration order, composites
\* with omitted fields, arrays on both sides of the array8 limit.
CONSTANTS
    Values <- MCValues
    Composites <- MCComposites
    Arrays <- MCArrays
    VarArrays <- MCVarArrays
    FrameBodies <- MCFrameBodies
    Channels <- MCChannels
    MaxWrites = 2
    MaxUint32 = MaxUint32
SPECIFICATION Spec
INVARIANT RoundTrip
INVARIANT ShortestForm
INVARIANT PerformativeRoundTrip
CHECK_DEADLOCK FALSE
