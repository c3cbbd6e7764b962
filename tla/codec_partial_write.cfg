\* One encoder call per buffer: a map key, a map value or a performative
\* field that fails after the header was written.
CONSTANTS
    Values <- MCValues
    Composites <- MCComposites
    Arrays <- MCArrays
    VarArrays <- MCVarArrays
    FrameBodies <- MCFrameBodies
    Channels <- MCChannels
    MaxWrites = 1
    MaxUint32 = MaxUint32
SPECIFICATION Spec
INVARIANT NoPartialWrite
CHECK_DEADLOCK FALSE
