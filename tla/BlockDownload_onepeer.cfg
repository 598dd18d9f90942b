SPECIFICATION Spec
CONSTANTS
    p1 = p1
    p2 = p2
    Peers = {p1}
    NoPeer = NoPeer
    MaxHeight = 3
    MaxInTransit = 1
    FastSyncExtra = 1
    LookAhead = 1
    Window = 1
    MinWork = 2
    ClaimWindow = 0
    TransferTimeout = 0
    Backoff = 0
    StallTimeout = 0
    DownloadBase = 0
    DownloadPerPeer = 0
    DisableTcp = FALSE
    FetchPeers = {p1}
    OfferPeers = {p1}
    StartingHeight <- Everything
    CompactHeight <- Everything
    HelperPeers = {p1}
    LoadedHeaders = 1
    LoadedBlocks = 0
    ServeHeight <- Everything
INVARIANTS
    InFlightConsistent
    CapacityRespected
    LastCommonDownloaded
