CONSTANTS
    u1 = u1
    u2 = u2
    u3 = u3
    NoRoots = NoRoots
    Upstreams <- ThreeUpstreams
    Ids = {1}
    MaxVersion = 1
SPECIFICATION Spec
INVARIANTS TypeOK FlightIsSound CacheIsFresh
PROPERTIES WaitersAreServed
