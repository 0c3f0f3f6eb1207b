SPECIFICATION Safety
CONSTANTS
    Creators = {c1, c2, c3}
    AskedSizes <- SmallSizes
    DefaultSize <- SmallDefault
    MaxSize <- SmallMax
    NoCursor = NoCursor
INVARIANT DefaultSizeServed
