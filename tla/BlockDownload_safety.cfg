SPECIFICATION Spec
CONSTANTS
    p1 = p1
    p2 = p2
    Peers = {p1, p2}
    NoPeer = NoPeer
    MaxHeight = 2
    MaxInTransit = 1
    FastSyncExtra = 1
    LookAhead = 1
    Window = 1
    MinWork = 0
    ClaimWindow = 0
    TransferTimeout = 0
    Backoff = 0
    StallTimeout = 0
    DownloadBase = 0
    DownloadPerPeer = 0
    DisableTcp = FALSE
    FetchPeers = {p1}
    OfferPeers = {p1}
    StartingHeight <- Everything
    CompactHeight <- CompactFromP2
    HelperPeers = {p1}
    LoadedHeaders = 2
    LoadedBlocks = 0
    ServeHeight <- FirstFromP2
INVARIANTS
    TypeOK
    InFlightConsistent
    OwnersConnected
    WindowsVerified
    LastCommonDownloaded
