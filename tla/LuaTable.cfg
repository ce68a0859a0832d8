CONSTANTS
    MaxInt = 4
    Strings = {s}
    Objects = {o}
    Hash <- HashDef
    Values = {v}
    Nil = nil
    Off = off
    Invalid = invalid
    Created <- CreatedDef
SPECIFICATION Spec
INVARIANTS
    SizeKnown
    CollidingInMainPosition
    LengthIsBorder
    FindsWhatWasSet
PROPERTY ImplementsLuaMap
