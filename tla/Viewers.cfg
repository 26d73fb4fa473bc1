\* Two dashboards, published again when stale, a queue of one frame and one slot.
CONSTANTS
    p1 = p1
    p2 = p2
    v1 = v1
    v2 = v2
    Publishers <- MCPublishers
    Viewers <- MCViewerSet
    Limit = 1
    MaxClients = 1
    MaxBuilds = 2

SPECIFICATION ViewersSpec

INVARIANT ViewersKeepUp
INVARIANT LastGoodKeepsUp
INVARIANT SlotsAreServed
PROPERTY ImplementsViewerStream
PROPERTY PublicationsEnd
PROPERTY DroppedStreamsEnd
