--------------------------- MODULE BlockDownload ---------------------------
(***************************************************************************)
(* Block download (src/net_processing.cpp): how the message handler, the   *)
(* RPC threads that serve the UDP Fast Sync helper, and the clock share    *)
(* the table of blocks in flight.                                          *)
(*                                                                         *)
(* There is one header chain and a block is its height, so chain work is   *)
(* height.  A critical section of cs_main is one step.  A handler that     *)
(* drops the lock leaves what it carries in inHand, and until it is done   *)
(* no other message is handled; RPC calls and disconnections go on.        *)
(***************************************************************************)
EXTENDS InFlight

CONSTANTS
    MaxInTransit,     \* MAX_BLOCKS_IN_TRANSIT_PER_PEER
    FastSyncExtra,    \* MAX_FAST_SYNC_EXTRA_BLOCKS_IN_TRANSIT_PER_PEER
    LookAhead,        \* the 32 further blocks reserve-next looks at
    Window,           \* BLOCK_DOWNLOAD_WINDOW
    MinWork,          \* nMinimumChainWork, as a height
    ClaimWindow,      \* FAST_SYNC_UDP_CLAIM_WINDOW_US
    TransferTimeout,  \* FAST_SYNC_UDP_TRANSFER_TIMEOUT_US
    Backoff,          \* FAST_SYNC_UDP_UNCLAIMED_BACKOFF_US
    StallTimeout,     \* BLOCK_STALLING_TIMEOUT
    DownloadBase,     \* BLOCK_DOWNLOAD_TIMEOUT_BASE
    DownloadPerPeer,  \* BLOCK_DOWNLOAD_TIMEOUT_PER_PEER
    DisableTcp,       \* DisableCoreTcpBlockRequests()
    FetchPeers,       \* peers SendMessages downloads from (fFetch, fClient, IBD)
    OfferPeers,       \* -defcoinfastsync is set and the peer has service bit 29
    StartingHeight,   \* nStartingHeight of each peer's VERSION message
    ServeHeight,      \* up to here a peer has witness and MWEB data we need
    CompactHeight,    \* and its compact blocks are in the form we need
    HelperPeers,      \* peers the UDP helper has a path to and makes calls for
    LoadedHeaders,    \* headers and blocks read from disk at startup
    LoadedBlocks

ASSUME BoundsAssumption ==
    /\ {MaxInTransit, FastSyncExtra, LookAhead, Window, MinWork} \subseteq Nat
    /\ {ClaimWindow, TransferTimeout, Backoff, StallTimeout} \subseteq Nat
    /\ {DownloadBase, DownloadPerPeer} \subseteq Nat
ASSUME LoadedAssumption ==
    /\ LoadedHeaders \in 0..MaxHeight
    /\ LoadedBlocks \in 0..LoadedHeaders
ASSUME PeerDataAssumption ==
    /\ DisableTcp \in BOOLEAN
    /\ FetchPeers \subseteq Peers
    /\ OfferPeers \subseteq Peers
    /\ StartingHeight \in [Peers -> Nat]
    /\ ServeHeight \in [Peers -> Nat]
    /\ CompactHeight \in [Peers -> Nat]
    /\ HelperPeers \subseteq Peers

VARIABLES
    t,           \* the table of blocks in flight
    conn,        \* peers with a CNodeState
    leaving,     \* peers with fDisconnect set
    verified,    \* peers with fFastSyncUdpTransportVerified
    backoff,     \* time left to nFastSyncDeferBackoffUntil
    best,        \* height of pindexBestKnownBlock
    unknown,     \* hashLastUnknownBlock
    lastCommon,  \* height of pindexLastCommonBlock
    headerTip,   \* height of pindexBestHeader
    haveData,    \* blocks with BLOCK_HAVE_DATA
    active,      \* height of the active chain
    inHand       \* what the message handler carries outside cs_main

peerVars == <<conn, leaving, verified>>
knowledge == <<best, unknown, lastCommon>>
chainVars == <<headerTip, haveData, active>>
vars == <<t, conn, leaving, verified, backoff, best, unknown, lastCommon,
          headerTip, haveData, active, inHand>>

(* A null block index. *)
Null == -1
Heights == 0..MaxHeight

NoWork == [peer |-> NoPeer, block |-> NoBlock, kind |-> "none", force |-> FALSE]
Work == [peer : Peers, block : Blocks,
         kind : {"block", "reconstructed", "connect", "connect reconstructed", "clear",
                 "blocktxn", "headers"},
         force : BOOLEAN]

Least(a, b) == IF a <= b THEN a ELSE b
Greatest(a, b) == IF a >= b THEN a ELSE b

(* The last block with HaveTxsDownloaded: it and all before it have data.  *)
(* The active chain follows, one block per critical section.               *)
Downloaded == Cardinality({h \in Blocks : 1..h \subseteq haveData})

(* The ascending list of the n lowest members of S. *)
FirstBlocks(S, n) ==
    {q \in [1..Least(Greatest(n, 0), Cardinality(S)) -> S] :
        /\ \A i, j \in DOMAIN q : i < j => q[i] < q[j]
        /\ \A h \in S : (\E i \in DOMAIN q : q[i] = h) \/ (\A i \in DOMAIN q : q[i] < h)}

TypeOK ==
    /\ t \in Tables
    /\ conn \subseteq Peers
    /\ leaving \subseteq conn
    /\ verified \subseteq conn
    /\ backoff \in [Peers -> Nat]
    /\ best \in [Peers -> Heights \cup {Null}]
    /\ unknown \in [Peers -> Blocks \cup {Null}]
    /\ lastCommon \in [Peers -> Int]
    /\ headerTip \in Heights
    /\ haveData \subseteq Blocks
    /\ active \in Heights
    /\ inHand \in Work \cup {NoWork}

Init ==
    /\ t = EmptyTable
    /\ conn = {}
    /\ leaving = {}
    /\ verified = {}
    /\ backoff = [p \in Peers |-> 0]
    /\ best = [p \in Peers |-> Null]
    /\ unknown = [p \in Peers |-> Null]
    /\ lastCommon = [p \in Peers |-> Null]
    /\ headerTip = LoadedHeaders
    /\ haveData = 1..LoadedBlocks
    /\ active = LoadedBlocks
    /\ inHand = NoWork

(* The message handler is free to take a message from, or to, peer p. *)
Handling(p) == p \in conn \ leaving /\ inHand = NoWork

-----------------------------------------------------------------------------
(* What a peer is known to have.  ht is the header tip at that point. *)

Resolved(p, ht) == unknown[p] # Null /\ unknown[p] <= ht

BestKnown(p, ht) == IF Resolved(p, ht) THEN Greatest(best[p], unknown[p]) ELSE best[p]

ProcessBlockAvailability(p) ==
    /\ best' = [best EXCEPT ![p] = BestKnown(p, headerTip)]
    /\ unknown' = [unknown EXCEPT ![p] = IF Resolved(p, headerTip) THEN Null ELSE @]

(* Mutant of UpdateBlockAvailability: an earlier announcement is not       *)
(* looked up before the next one takes its place.                          *)
UpdateWithoutProcessing(p, h, ht) ==
    /\ best' = [best EXCEPT ![p] = IF h <= ht THEN Greatest(best[p], h) ELSE best[p]]
    /\ unknown' = [unknown EXCEPT ![p] = IF h > ht THEN h ELSE @]

UpdateBlockAvailability(p, h, ht) ==
    /\ best' = [best EXCEPT ![p] =
                   IF h <= ht THEN Greatest(BestKnown(p, ht), h) ELSE BestKnown(p, ht)]
    /\ unknown' = [unknown EXCEPT ![p] =
                      IF h > ht THEN h ELSE IF Resolved(p, ht) THEN Null ELSE @]

-----------------------------------------------------------------------------
(* FindNextBlocksToDownload, on the table tt. *)

Interesting(p) ==
    LET bk == BestKnown(p, headerTip)
    IN  bk # Null /\ bk >= active /\ bk >= MinWork

ForkPoint(p) ==
    Least(IF lastCommon[p] = Null THEN active ELSE lastCommon[p], BestKnown(p, headerTip))

WalkEnd(p) ==
    Least(Least(BestKnown(p, headerTip), ForkPoint(p) + Window + 1), ServeHeight[p])

Missing(p) ==
    {h \in Blocks \ haveData : Interesting(p) /\ ForkPoint(p) < h /\ h <= WalkEnd(p)}

(* Mutant of Free: a block in flight from somebody is asked for again. *)
FreeOrNot(tt, S) == S

Free(tt, S) == {h \in S : tt.owner[h] = NoPeer}

Downloadable(tt, p) == {h \in Free(tt, Missing(p)) : h <= ForkPoint(p) + Window}

(* Whoever owes the first missing block, when nothing can be fetched only  *)
(* because the window does not move.                                       *)
Stallers(tt, p) ==
    {s \in Peers \ {p} :
        /\ Downloadable(tt, p) = {}
        /\ ForkPoint(p) + Window + 1 \in Free(tt, Missing(p))
        /\ \E h \in Missing(p) :
              /\ tt.owner[h] = s
              /\ \A g \in Missing(p) : tt.owner[g] # NoPeer => h <= g}

(* Mutant of UpdateLastCommon: the walk passes missing blocks too. *)
UpdateLastCommonTooFar(p) ==
    lastCommon' = IF Interesting(p)
                  THEN [lastCommon EXCEPT ![p] = Greatest(ForkPoint(p), WalkEnd(p))]
                  ELSE lastCommon

UpdateLastCommon(p) ==
    lastCommon' = IF Interesting(p)
                  THEN [lastCommon EXCEPT ![p] =
                           Greatest(ForkPoint(p), Least(Downloaded, WalkEnd(p)))]
                  ELSE lastCommon

-----------------------------------------------------------------------------
(* Peers come and go. *)

InitializeNode(p) ==
    /\ p \notin conn
    /\ conn' = conn \cup {p}
    /\ UNCHANGED <<t, leaving, verified, backoff, knowledge, chainVars, inHand>>

(* Any of the many places that set fDisconnect. *)
Disconnect(p) ==
    /\ p \in conn \ leaving
    /\ leaving' = leaving \cup {p}
    /\ UNCHANGED <<t, conn, verified, backoff, knowledge, chainVars, inHand>>

(* Mutant of Unreferenced: references to the node are not waited for. *)
Referenced(p) == TRUE

(* DisconnectNodes deletes a node once nobody refers to it.  The handler   *)
(* refers to all nodes during a round; here only to the one it works for.  *)
Unreferenced(p) == inHand.peer # p

FinalizeNode(p) ==
    /\ p \in leaving
    /\ Unreferenced(p)
    /\ t' = ForgetPeer(t, p)
    /\ conn' = conn \ {p}
    /\ leaving' = leaving \ {p}
    /\ verified' = verified \ {p}
    /\ backoff' = [backoff EXCEPT ![p] = 0]
    /\ best' = [best EXCEPT ![p] = Null]
    /\ unknown' = [unknown EXCEPT ![p] = Null]
    /\ lastCommon' = [lastCommon EXCEPT ![p] = Null]
    /\ UNCHANGED <<chainVars, inHand>>

-----------------------------------------------------------------------------
(* Messages. *)

(* The header is known or unknown; only the peer's best block moves. *)
ProcessInv(p, h) ==
    /\ Handling(p)
    /\ UpdateBlockAvailability(p, h, headerTip)
    /\ UNCHANGED <<t, peerVars, backoff, lastCommon, chainVars, inHand>>

(* The blocks between the active chain and header last that p can be asked *)
(* for at once; none when there are too many of them.                      *)
DirectFetch(p, last) ==
    LET wanted == {h \in Free(t, Blocks \ haveData) :
                      active < h /\ h <= last /\ h <= ServeHeight[p]}
    IN  IF active <= last /\ Cardinality(wanted \ {active + 1}) <= MaxInTransit THEN wanted ELSE {}

(* Headers up to last that connect to the ones we have.  direct stands for *)
(* CanDirectFetch, a test of the tip's age.                                *)
ProcessHeadersMessage(p, last, direct) ==
    /\ headerTip' = Greatest(headerTip, last)
    /\ UpdateBlockAvailability(p, last, headerTip')
    /\ \E q \in FirstBlocks(IF direct /\ ~DisableTcp THEN DirectFetch(p, last) ELSE {},
                            MaxInTransit - t.count[p]) :
          t' = Enqueue(t, p, q)
    /\ inHand' = NoWork
    /\ UNCHANGED <<peerVars, backoff, lastCommon, haveData, active>>

Headers(p, last, direct) == Handling(p) /\ ProcessHeadersMessage(p, last, direct)

(* A compact block beyond the reach of our mempool is treated as a header. *)
RevertToHeaders(direct) ==
    /\ inHand.kind = "headers"
    /\ ProcessHeadersMessage(inHand.peer, inHand.block, direct)

Carry(p, h, kind, force) == inHand' = [peer |-> p, block |-> h, kind |-> kind, force |-> force]

(* p gives us h as a compact block that may go into the table. *)
StartCompact(p, h, status) ==
    LET tt == [MarkBlockAsInFlight(t, p, h) EXCEPT !.partial[h] = "open"]
    IN  \/ /\ t.owner[h] = p /\ t.partial[h] # "none"
           /\ UNCHANGED <<t, inHand>>
        \/ /\ t.partial[h] = "none" /\ status = "invalid"
           /\ t' = MarkBlockAsReceived(tt, h, p)
           /\ UNCHANGED inHand
        \/ /\ t.partial[h] = "none" /\ status # "invalid"
           /\ t' = tt
           /\ IF status = "complete" THEN Carry(p, h, "blocktxn", FALSE) ELSE UNCHANGED inHand

(* status: InitData fails for good, leaves transactions to be requested,   *)
(* or has them all.                                                        *)
CmpctBlock(p, h, direct, status) ==
    LET free == t.owner[h] = NoPeer
        useless == \/ h \in haveData \/ DisableTcp \/ (free /\ ~direct)
                   \/ h > CompactHeight[p]
        near == h <= active + 2
        ours == (free /\ t.count[p] < MaxInTransit) \/ t.owner[h] = p
    IN  /\ Handling(p)
        /\ h <= headerTip + 1
        /\ headerTip' = Greatest(headerTip, h)
        /\ UpdateBlockAvailability(p, h, headerTip')
        /\ \/ useless /\ UNCHANGED <<t, inHand>>
           \/ ~useless /\ near /\ ours /\ StartCompact(p, h, status)
           \/ /\ ~useless /\ near /\ ~ours
              /\ IF status = "complete" THEN Carry(p, h, "reconstructed", TRUE)
                                        ELSE UNCHANGED inHand
              /\ UNCHANGED t
           \/ ~useless /\ ~near /\ ~free /\ UNCHANGED <<t, inHand>>
           \/ /\ ~useless /\ ~near /\ free
              /\ Carry(p, h, "headers", FALSE)
              /\ UNCHANGED t
        /\ UNCHANGED <<peerVars, backoff, lastCommon, haveData, active>>

(* The transactions of a compact block, from the wire or, when none were   *)
(* missing, straight from the compact block handler.                       *)
BlockTxn(p, h, status) ==
    /\ \/ Handling(p)
       \/ inHand.kind = "blocktxn" /\ inHand.peer = p /\ inHand.block = h
    /\ LET expected == t.owner[h] = p /\ t.partial[h] # "none"
           fresh == expected /\ t.partial[h] = "open"
       IN  \/ ~expected /\ inHand' = NoWork /\ UNCHANGED t
           \/ /\ expected /\ status = "invalid"
              /\ t' = MarkBlockAsReceived(t, h, p)
              /\ inHand' = NoWork
           \/ /\ fresh /\ status = "failed"
              /\ t' = [t EXCEPT !.partial[h] = "spent"]
              /\ inHand' = NoWork
           \/ /\ fresh /\ status = "complete"
              /\ t' = MarkBlockAsReceived(t, h, p)
              /\ Carry(p, h, "block", TRUE)
    /\ UNCHANGED <<peerVars, backoff, knowledge, chainVars>>

(* A whole block, asked for or not. *)
Block(p, h) ==
    /\ Handling(p)
    /\ t' = MarkBlockAsReceived(t, h, p)
    /\ Carry(p, h, "block", WasRequested(t, h))
    /\ UNCHANGED <<peerVars, backoff, knowledge, chainVars>>

(* A block that was not asked for is dropped below the minimum work; valid *)
(* is the verdict of the block checks.                                     *)
AcceptBlock(h, force, valid) ==
    /\ headerTip' = IF valid /\ h <= headerTip + 1 THEN Greatest(headerTip, h) ELSE headerTip
    /\ haveData' = IF valid /\ h <= headerTip + 1 /\ (force \/ (h >= active /\ h >= MinWork))
                   THEN haveData \cup {h} ELSE haveData

(* The handler's call of ProcessNewBlock is over. *)
Processed ==
    IF inHand.kind \in {"reconstructed", "connect reconstructed"}
    THEN [inHand EXCEPT !.kind = "clear"] ELSE NoWork

(* The block is stored, and now waits for its place in the active chain.   *)
ToConnect ==
    [inHand EXCEPT !.kind = IF @ = "block" THEN "connect" ELSE "connect reconstructed"]

ProcessNewBlock(valid) ==
    /\ inHand.kind \in {"block", "reconstructed"}
    /\ AcceptBlock(inHand.block, inHand.force, valid)
    /\ inHand' = IF valid /\ active < inHand.block /\ inHand.block <= Downloaded'
                 THEN ToConnect ELSE Processed
    /\ UNCHANGED <<t, peerVars, backoff, knowledge, active>>

(* Whichever thread stored a block calls ActivateBestChain, which drops    *)
(* cs_main after each block it connects.  The handler stays with its block *)
(* until that one is connected.                                            *)
ActivateBestChain ==
    /\ active < Downloaded
    /\ active' = active + 1
    /\ inHand' = IF inHand.kind \in {"connect", "connect reconstructed"} /\ inHand.block = active'
                 THEN Processed ELSE inHand
    /\ UNCHANGED <<t, peerVars, backoff, knowledge, headerTip, haveData>>

(* A reconstructed block that is now stored is taken off whichever peer    *)
(* was asked for it.                                                       *)
ClearDownloadState ==
    /\ inHand.kind = "clear"
    /\ t' = IF inHand.block \in haveData THEN MarkBlockAsReceived(t, inHand.block, NoPeer) ELSE t
    /\ inHand' = NoWork
    /\ UNCHANGED <<peerVars, backoff, knowledge, chainVars>>

-----------------------------------------------------------------------------
(* The UDP Fast Sync helper, over RPC. *)

Expired(p) == t.window[p].block # NoBlock /\ t.window[p].until < 0

ExpireFastSyncPendingBlock(p) ==
    IF Expired(p) THEN MarkBlockAsReceived(t, t.window[p].block, p) ELSE t

(* Mutant of BackoffAfterExpiry: expiry sets no backoff. *)
NoBackoffAfterExpiry(p) == backoff

BackoffAfterExpiry(p) == IF Expired(p) THEN [backoff EXCEPT ![p] = Backoff] ELSE backoff

(* Mutant of HasFastSyncRoom: one more than the limit. *)
HasRoomForOneMore(tt, p) == tt.count[p] <= MaxInTransit + FastSyncExtra

HasFastSyncRoom(tt, p) == tt.count[p] < MaxInTransit + FastSyncExtra

(* FastSyncHeaderFallbackIndex: nothing is known of p but the height it    *)
(* started with.                                                           *)
FallbackHeights(p) == {h \in Blocks : h <= StartingHeight[p] /\ h <= headerTip}

ReserveFastSyncBlockInFlight(p, h) ==
    LET bk == BestKnown(p, headerTip)
        reservable == /\ h \in IF bk = Null THEN FallbackHeights(p) ELSE 1..bk
                      /\ h <= ServeHeight[p]
                      /\ h \notin haveData
                      /\ t.owner[h] = NoPeer
    IN  /\ p \in verified
        /\ HasFastSyncRoom(t, p)
        /\ ProcessBlockAvailability(p)
        /\ t' = IF reservable THEN MarkBlockAsInFlight(t, p, h) ELSE t
        /\ UNCHANGED <<peerVars, backoff, lastCommon, chainVars, inHand>>

(* What reserve-next may choose from: the peer's chain as SendMessages     *)
(* sees it, or the local headers while the peer's chain is not known to    *)
(* have the minimum work.                                                  *)
UsesFallback(p) ==
    LET bk == BestKnown(p, headerTip)
    IN  bk = Null \/ (bk >= active /\ bk < MinWork)

NextCandidates(tt, p) ==
    IF UsesFallback(p)
    THEN {h \in Free(tt, FallbackHeights(p) \ haveData) :
             active < h /\ h <= active + 1 + MaxInTransit + FastSyncExtra + LookAhead}
    ELSE Downloadable(tt, p)

(* Mutant of CanClaim: fFastSyncPendingClaimed is not looked at. *)
CanClaimAgain(tt, p) == tt.window[p].block # NoBlock

CanClaim(tt, p) == tt.window[p].block # NoBlock /\ ~tt.window[p].claimed

ReserveNextFastSyncBlockInFlight(p) ==
    LET tt == ExpireFastSyncPendingBlock(p)
        candidates == NextCandidates(tt, p)
    IN  /\ p \in verified
        /\ backoff' = BackoffAfterExpiry(p)
        /\ \/ /\ CanClaim(tt, p)
              /\ t' = [tt EXCEPT !.window[p] = [block |-> tt.window[p].block,
                                               until |-> TransferTimeout, claimed |-> TRUE]]
              /\ UNCHANGED knowledge
           \/ /\ tt.window[p].block = NoBlock
              /\ ~HasFastSyncRoom(tt, p)
              /\ t' = tt
              /\ UNCHANGED knowledge
           \/ /\ tt.window[p].block = NoBlock
              /\ HasFastSyncRoom(tt, p)
              /\ ProcessBlockAvailability(p)
              /\ IF UsesFallback(p) THEN UNCHANGED lastCommon ELSE UpdateLastCommon(p)
              /\ \/ candidates = {} /\ t' = tt
                 \/ \E h \in candidates :
                       /\ \A g \in candidates : h <= g
                       /\ t' = MarkBlockAsInFlight(tt, p, h)
        /\ UNCHANGED <<peerVars, chainVars, inHand>>

ReleaseFastSyncBlockInFlight(p, h) ==
    /\ t' = MarkBlockAsReceived(t, h, p)
    /\ UNCHANGED <<peerVars, backoff, knowledge, chainVars, inHand>>

(* Mutant of HasState: any node id will do. *)
HasAnyId(p) == TRUE

(* State(p) is not null. *)
HasState(p) == p \in conn

(* Mutant of CloseWindow: the window stays open. *)
KeepWindow(p) == t

CloseWindow(p) ==
    IF t.window[p].block # NoBlock THEN MarkBlockAsReceived(t, t.window[p].block, p) ELSE t

SetFastSyncPeerTransportVerified(p, yes) ==
    /\ HasState(p)
    /\ verified' = IF yes THEN verified \cup {p} ELSE verified \ {p}
    /\ t' = IF yes THEN t ELSE CloseWindow(p)
    /\ backoff' = IF yes THEN backoff ELSE [backoff EXCEPT ![p] = Backoff]
    /\ UNCHANGED <<conn, leaving, knowledge, chainVars, inHand>>

(* submitblock: how the helper hands over a block it received over UDP.    *)
(* The table of blocks in flight is not told.                              *)
SubmitBlock(h, valid) ==
    /\ h \notin haveData
    /\ AcceptBlock(h, TRUE, valid)
    /\ UNCHANGED <<t, peerVars, backoff, knowledge, active, inHand>>

-----------------------------------------------------------------------------
(* SendMessages, from the stalling test to the block requests. *)

IsStalling(p) == t.stalling[p] > StallTimeout

(* Mutant of IsTimedOut: a peer with a UDP transport is left alone. *)
IsTimedOutWithoutUdp(p) ==
    LET others == t.downloading - (IF t.count[p] > 0 THEN 1 ELSE 0)
    IN  /\ p \notin verified
        /\ t.queue[p] # <<>> /\ t.since[p] > DownloadBase + DownloadPerPeer * others

IsTimedOut(p) ==
    LET others == t.downloading - (IF t.count[p] > 0 THEN 1 ELSE 0)
    IN  t.queue[p] # <<>> /\ t.since[p] > DownloadBase + DownloadPerPeer * others

DisconnectSlowPeer(p) ==
    /\ Handling(p)
    /\ IsStalling(p) \/ IsTimedOut(p)
    /\ leaving' = leaving \cup {p}
    /\ UNCHANGED <<t, conn, verified, backoff, knowledge, chainVars, inHand>>

CanOfferBase(p) == p \in OfferPeers /\ p \in verified

(* Open a UDP window for the first block of the requests q. *)
OfferFirst(tt, p, q) ==
    [tt EXCEPT !.window[p] = [block |-> q[1], until |-> ClaimWindow, claimed |-> FALSE]]

StartStalling(tt, p, stallers) ==
    IF tt.count[p] = 0
    THEN [tt EXCEPT !.stalling = [s \in Peers |->
             IF s \in stallers /\ tt.stalling[s] = NotStalling THEN 0 ELSE tt.stalling[s]]]
    ELSE tt

RequestBlocks(p) ==
    LET tt == ExpireFastSyncPendingBlock(p)
        mayFetch == /\ p \in FetchPeers
                    /\ ~DisableTcp \/ CanOfferBase(p)
                    /\ tt.count[p] < MaxInTransit
        offer == /\ CanOfferBase(p)
                 /\ BackoffAfterExpiry(p)[p] = 0
                 /\ tt.window[p].block = NoBlock
        room == IF ~DisableTcp THEN MaxInTransit - tt.count[p] ELSE IF offer THEN 1 ELSE 0
    IN  /\ Handling(p)
        /\ ~IsStalling(p) /\ ~IsTimedOut(p)
        /\ backoff' = BackoffAfterExpiry(p)
        /\ \/ ~mayFetch /\ t' = tt /\ UNCHANGED knowledge
           \/ /\ mayFetch
              /\ ProcessBlockAvailability(p)
              /\ UpdateLastCommon(p)
              /\ \E q \in FirstBlocks(Downloadable(tt, p), room) :
                    LET asked == Enqueue(tt, p, q)
                        sent == IF offer /\ q # <<>> THEN OfferFirst(asked, p, q) ELSE asked
                    IN  t' = StartStalling(sent, p, Stallers(tt, p))
        /\ UNCHANGED <<peerVars, chainVars, inHand>>

SendMessages(p) == DisconnectSlowPeer(p) \/ RequestBlocks(p)

-----------------------------------------------------------------------------
(* The ages stop where no test can tell them apart any more. *)
MaxAge == DownloadBase + DownloadPerPeer * Cardinality(Peers) + StallTimeout + 1

Older(age) == IF age < MaxAge THEN age + 1 ELSE age

Tick ==
    /\ t' = [t EXCEPT
                !.since = [p \in Peers |-> IF t.count[p] > 0 THEN Older(t.since[p]) ELSE t.since[p]],
                !.stalling = [p \in Peers |-> IF t.stalling[p] = NotStalling
                                              THEN NotStalling ELSE Older(t.stalling[p])],
                !.window = [p \in Peers |->
                    IF t.window[p].block # NoBlock /\ t.window[p].until >= 0
                    THEN [t.window[p] EXCEPT !.until = @ - 1] ELSE t.window[p]]]
    /\ backoff' = [p \in Peers |-> IF backoff[p] > 0 THEN backoff[p] - 1 ELSE 0]
    /\ UNCHANGED <<peerVars, knowledge, chainVars, inHand>>

-----------------------------------------------------------------------------
PeerNext(p) == InitializeNode(p) \/ Disconnect(p) \/ FinalizeNode(p)

MessageNext(p, h) ==
    \/ ProcessInv(p, h)
    \/ \E direct \in BOOLEAN : Headers(p, h, direct)
    \/ \E direct \in BOOLEAN, status \in {"invalid", "incomplete", "complete"} :
          CmpctBlock(p, h, direct, status)
    \/ \E status \in {"invalid", "failed", "complete"} : BlockTxn(p, h, status)
    \/ Block(p, h)

HandlerNext ==
    \/ \E valid \in BOOLEAN : ProcessNewBlock(valid)
    \/ ClearDownloadState
    \/ \E direct \in BOOLEAN : RevertToHeaders(direct)

HelperNext(p, h) ==
    \/ ReserveFastSyncBlockInFlight(p, h)
    \/ ReserveNextFastSyncBlockInFlight(p)
    \/ ReleaseFastSyncBlockInFlight(p, h)
    \/ \E yes \in BOOLEAN : SetFastSyncPeerTransportVerified(p, yes)
    \/ \E valid \in BOOLEAN : SubmitBlock(h, valid)

(* The steps of the node and its peers, and with the helper's calls, all.  *)
NodeNext ==
    \/ \E p \in Peers : PeerNext(p) \/ SendMessages(p)
    \/ \E p \in Peers, h \in Blocks : MessageNext(p, h)
    \/ HandlerNext
    \/ ActivateBestChain
    \/ Tick

Next == NodeNext \/ \E p \in HelperPeers, h \in Blocks : HelperNext(p, h)

Spec == Init /\ [][Next]_vars

-----------------------------------------------------------------------------
(* The map, the queues, the counters, the UDP windows and the stall timers *)
(* agree after any interleaving of message handling, RPC calls, timeouts   *)
(* and disconnections (MarkBlockAsReceived, MarkBlockAsInFlight,           *)
(* FinalizeNode).                                                          *)
InFlightConsistent == TableInv(t)

(* Every owner has a CNodeState, and so has the peer whose message is      *)
(* being handled when the handler locks cs_main again: State(staller) and  *)
(* the State of MarkBlockAsReceived are never null.  Once the last peer    *)
(* has gone, nPeersWithValidatedDownloads is 0, as FinalizeNode asserts.   *)
OwnersConnected ==
    /\ \A h \in Blocks : t.owner[h] \in conn \cup {NoPeer}
    /\ inHand.peer \in conn \cup {NoPeer}
    /\ conn = {} => t.downloading = 0

(* A UDP window is open only for a peer whose transport is verified and is *)
(* still connected, whatever the helper un-verifies and whoever leaves.    *)
WindowsVerified == \A p \in Peers : t.window[p].block # NoBlock => p \in verified

(* Neither the normal window nor the extra UDP slots are overrun, by any   *)
(* mix of SendMessages, direct fetch, compact blocks and reservations.     *)
CapacityRespected == \A p \in Peers : t.count[p] <= MaxInTransit + FastSyncExtra

(* pindexLastCommonBlock stays on what both sides have: it never runs      *)
(* ahead of the downloaded chain, whoever stored the blocks, so that       *)
(* FindNextBlocksToDownload never starts its walk beyond a missing block.  *)
(* Until ActivateBestChain is done it may be ahead of the active chain.    *)
LastCommonDownloaded == \A p \in Peers : lastCommon[p] <= Least(Downloaded, best[p])

(* Behind queues, counters, timers and two transports, a scheduler that    *)
(* gives each missing block to one connected peer at a time and never more *)
(* than the normal and the extra slots to one peer.                        *)
Assignment == INSTANCE BlockAssignment WITH
    Capacity <- MaxInTransit + FastSyncExtra,
    present <- conn, holder <- t.owner, stored <- haveData

ImplementsAssignment == Assignment!Spec

(* A UDP window is never renewed and never replaced by another in one      *)
(* step; only the helper's claim extends it.  Expiry and the next offer    *)
(* happen in the same SendMessages call, and the backoff set by the first  *)
(* must already hold back the second, so that TCP has its turn.  It is     *)
(* about the offers of SendMessages: the backoff does not hold back a      *)
(* reserve-next, which may take the block again, but without a window.     *)
TcpHasItsTurn ==
    [][\A p \in Peers : t.window[p].block # NoBlock =>
          \/ t'.window[p].block = NoBlock
          \/ /\ t'.window[p].block = t.window[p].block
             /\ t'.window[p].until <= t.window[p].until \/ t'.window[p].claimed]_vars

(* The helper cannot keep a block by claiming it again: the deadline of a  *)
(* claimed window only comes nearer.                                       *)
ClaimedOnce ==
    [][\A p \in Peers : t.window[p].claimed /\ t'.window[p].block = t.window[p].block =>
          t'.window[p].claimed /\ t'.window[p].until <= t.window[p].until]_vars

-----------------------------------------------------------------------------
(* What the comments and the RPC help say, and the code does not keep. *)

(* While a block p was asked for is processed it is not asked of p again   *)
(* (reservefastsyncblock: UDP and TCP are "not ... independent reasons to  *)
(* request the same block twice").  The BLOCK handler takes the entry off  *)
(* the table before it drops cs_main for ProcessNewBlock.                  *)
RequestedOnce == inHand.kind = "block" /\ inHand.force => t.owner[inHand.block] # inHand.peer

(* A peer is asked only for blocks whose witness and MWEB data it has, as  *)
(* FindNextBlocksToDownload sees to ("UDP cannot bypass ... normal         *)
(* scheduling").  Reserve-next by starting height does not look.           *)
GatesRespected == \A p \in Peers, h \in Blocks : t.owner[h] = p => h <= ServeHeight[p]

(* When the RPC answers "released" the block is free.  The answer is what  *)
(* MarkBlockAsReceived returns, and that is true also for a block that     *)
(* stays in flight from another peer.                                      *)
ReleasedMeansFree ==
    \A p \in HelperPeers, h \in Blocks :
        WasRequested(t, h) => MarkBlockAsReceived(t, h, p).owner[h] = NoPeer

-----------------------------------------------------------------------------
(* What the code's threads guarantee: the clock goes on, the message       *)
(* handler finishes the message it is at, stored blocks get connected, and *)
(* the socket thread deletes nodes that nobody refers to.                  *)
FinishMessage ==
    \/ HandlerNext
    \/ inHand.kind = "blocktxn" /\ \E status \in {"invalid", "failed", "complete"} :
                                      BlockTxn(inHand.peer, inHand.block, status)

Fairness ==
    /\ WF_vars(Tick)
    /\ WF_vars(FinishMessage)
    /\ WF_vars(ActivateBestChain)
    /\ \A p \in Peers : WF_vars(FinalizeNode(p))

(* The message handler comes round to every peer: ThreadMessageHandler     *)
(* visits all nodes in turn, hence strong fairness.                        *)
FairSpec == Spec /\ Fairness /\ \A p \in Peers : SF_vars(SendMessages(p))

(* Nobody holds a block for ever: what a peer or the helper does not       *)
(* deliver is taken back, if only by the download timeout, however other   *)
(* blocks are requested, received and released around it.                  *)
ReservationsEnd ==
    \A p \in Peers, h \in Blocks : (t.owner[h] = p) ~> (t.owner[h] # p)

(* hashLastUnknownBlock holds one announcement.  Once its header is here,  *)
(* from whomever, the peer is credited with that block, however many more  *)
(* announcements replace it in the meantime.                               *)
AnnouncementsCount ==
    \A p \in Peers, h \in Blocks :
        (unknown[p] = h /\ h <= headerTip) ~> (p \notin conn \/ best[p] >= h)
=============================================================================
