SPECIFICATION Safety
CONSTANTS
    Creators = {c1, c2, c3, c4}
    AskedSizes <- SmallSizes
    DefaultSize <- SmallDefault
    MaxSize <- SmallMax
    NoCursor = NoCursor
SYMMETRY CreatorSymmetry
INVARIANTS
    TypeOK
    ListingComplete
PROPERTIES
    PagesBounded
    CursorDescends
