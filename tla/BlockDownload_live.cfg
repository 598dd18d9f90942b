SPECIFICATION FairSpec
CONSTANTS
    p1 = p1
    p2 = p2
    Peers = {p1}
    NoPeer = NoPeer
    MaxHeight = 2
    MaxInTransit = 1
    FastSyncExtra = 1
    LookAhead = 1
    Window = 1
    MinWork = 0
    ClaimWindow = 0
    TransferTimeout = 0
    Backoff = 1
    StallTimeout = 0
    DownloadBase = 1
    DownloadPerPeer = 0
    DisableTcp = FALSE
    FetchPeers = {p1}
    OfferPeers = {p1}
    StartingHeight <- Everything
    CompactHeight <- Nothing
    HelperPeers = {p1}
    LoadedHeaders = 0
    LoadedBlocks = 0
    ServeHeight <- Everything
PROPERTIES
    ReservationsEnd
    AnnouncementsCount
