CONSTANTS
    Items = {i1, i2, i3}
    NoItem = NoItem
    Sessions = {s1, s2}
    NoSession = NoSession
SPECIFICATION Spec
SYMMETRY Symmetry
INVARIANTS
    TypeOK
    PlacesDistinct
PROPERTIES
    OrderAsRequested
    ImplementsListing
