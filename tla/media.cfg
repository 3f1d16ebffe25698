\* Two resources, two handles, one request, one slot; programs that draw and
\* play, some from an archive, and a host that retains.
SPECIFICATION MediaSpec
CONSTANTS
    ResourceId = {1, 2}
    MaxHandles = 2
    MaxRequests = 1
    MaxRefs = 2
    Slot = {1}
    Programs = {{"image", "audio"}, {"image", "archive"}, {"audio", "archive"},
                {"archive", "retain"}}
INVARIANTS LoadingIsRequested RawHandlesSafe PlayingHasPayload NoOrphanSound
CHECK_DEADLOCK FALSE
