------------------------ MODULE BlockDownloadProofs -------------------------
(***************************************************************************)
(* The safety invariants of BlockDownload hold for any number of peers,    *)
(* any chain length and any value of the limits and timeouts: the steps of *)
(* the UDP helper, of SendMessages and of the clock, and the theorems.     *)
(***************************************************************************)
EXTENDS BlockDownloadMessages

(* The UDP Fast Sync helper. *)

LEMMA ExpiryStep ==
    ASSUME IInv, NEW p \in Peers
    PROVE  /\ Fit(ExpireFastSyncPendingBlock(p), conn, verified, headerTip)
           /\ BackoffAfterExpiry(p) \in [Peers -> Nat]
<1>1. headerTip \in Int
  BY MaxHeightAssumption DEF IInv, ChainOK, Heights
<1>2. Expired(p) => t.window[p].block \in Blocks
  <2>1. t.window[p] \in Windows
    BY TableParts DEF IInv, Fit
  <2> QED  BY <2>1 DEF Expired, Windows
<1>3. Fit(ExpireFastSyncPendingBlock(p), conn, verified, headerTip)
  <2>1. CASE Expired(p)
    <3>1. Fit(MarkBlockAsReceived(t, t.window[p].block, p), conn, verified, headerTip)
      BY <1>1, <1>2, <2>1, FitReceived DEF IInv
    <3> QED  BY <2>1, <3>1 DEF ExpireFastSyncPendingBlock
  <2>2. CASE ~Expired(p)
    BY <2>2 DEF ExpireFastSyncPendingBlock, IInv
  <2> QED  BY <2>1, <2>2
<1>4. BackoffAfterExpiry(p) \in [Peers -> Nat]
  BY BoundsAssumption DEF BackoffAfterExpiry, IInv, PeersOK
<1> QED  BY <1>3, <1>4

(* A step that leaves peers and chain alone and moves what is known of one *)
(* peer only as ProcessBlockAvailability and FindNextBlocksToDownload do.  *)
LEMMA ScheduleStep ==
    ASSUME IInv, NEW p \in Peers,
           UNCHANGED <<conn, leaving, verified, headerTip, haveData, active, inHand>>,
           backoff' \in [Peers -> Nat], Fit(t', conn, verified, headerTip),
           \/ UNCHANGED knowledge
           \/ ProcessBlockAvailability(p) /\ (UNCHANGED lastCommon \/ UpdateLastCommon(p))
    PROVE  IInv'
<1>1. PeersOK' /\ ChainOK' /\ HandOK'
  BY DEF IInv, PeersOK, ChainOK, HandOK, Downloaded
<1>2. headerTip \in Int
  BY MaxHeightAssumption DEF IInv, ChainOK, Heights
<1>3. KnowledgeOK'
  <2>1. CASE UNCHANGED knowledge
    BY <1>1, <1>2, <2>1, KnowledgeKept DEF IInv
  <2>2. CASE ProcessBlockAvailability(p) /\ (UNCHANGED lastCommon \/ UpdateLastCommon(p))
    BY <2>2, KnowledgeProcessed DEF IInv, chainVars
  <2> QED  BY <2>1, <2>2
<1> QED  BY <1>1, <1>3 DEF IInv

LEMMA ReserveStep ==
    ASSUME IInv, NEW p \in Peers, NEW h \in Blocks, ReserveFastSyncBlockInFlight(p, h)
    PROVE  IInv'
<1> DEFINE bk == BestKnown(p, headerTip)
<1>1. /\ p \in verified /\ HasFastSyncRoom(t, p) /\ ProcessBlockAvailability(p)
      /\ UNCHANGED <<conn, leaving, verified, backoff, lastCommon, headerTip, haveData, active, inHand>>
      /\ \/ t' = t
         \/ /\ t' = MarkBlockAsInFlight(t, p, h) /\ t.owner[h] = NoPeer
            /\ h \in IF bk = Null THEN FallbackHeights(p) ELSE 1..bk
  BY DEF ReserveFastSyncBlockInFlight, peerVars, chainVars
<1>2. /\ headerTip \in Int /\ bk \in Int /\ bk <= headerTip /\ h \in Int
  BY BestKnownProperties, MaxHeightAssumption DEF IInv, ChainOK, Heights, Null, Blocks
<1>3. p \in conn /\ backoff \in [Peers -> Nat]
  BY <1>1 DEF IInv, PeersOK
<1>4. Fit(t', conn, verified, headerTip)
  <2>1. CASE t' = t
    BY <2>1 DEF IInv
  <2>2. CASE /\ t' = MarkBlockAsInFlight(t, p, h) /\ t.owner[h] = NoPeer
             /\ h \in IF bk = Null THEN FallbackHeights(p) ELSE 1..bk
    <3> HIDE DEF bk
    <3>1. h <= headerTip
      BY <1>2, <2>2 DEF FallbackHeights
    <3>2. t.count[p] < Limit
      BY <1>1 DEF HasFastSyncRoom, Limit
    <3> QED  BY <1>2, <1>3, <2>2, <3>1, <3>2, FitInFlight DEF IInv
  <2> QED  BY <1>1, <2>1, <2>2
<1> QED  BY <1>1, <1>3, <1>4, ScheduleStep

LEMMA ReserveNextStep ==
    ASSUME IInv, NEW p \in Peers, ReserveNextFastSyncBlockInFlight(p)
    PROVE  IInv'
<1> DEFINE tt == ExpireFastSyncPendingBlock(p)
           candidates == NextCandidates(tt, p)
           Claimed(w) == [block |-> w.block, until |-> TransferTimeout, claimed |-> TRUE]
<1>1. /\ Fit(tt, conn, verified, headerTip) /\ backoff' \in [Peers -> Nat]
      /\ UNCHANGED <<conn, leaving, verified, headerTip, haveData, active, inHand>>
      /\ p \in verified /\ p \in conn
  BY ExpiryStep DEF ReserveNextFastSyncBlockInFlight, peerVars, chainVars, IInv, PeersOK
<1>2. headerTip \in Int
  BY MaxHeightAssumption DEF IInv, ChainOK, Heights
<1>3. \/ UNCHANGED knowledge
      \/ ProcessBlockAvailability(p) /\ (UNCHANGED lastCommon \/ UpdateLastCommon(p))
  BY DEF ReserveNextFastSyncBlockInFlight
<1>4. \/ /\ tt.window[p].block # NoBlock
         /\ t' = [tt EXCEPT !.window[p] = Claimed(tt.window[p])]
      \/ t' = tt
      \/ HasFastSyncRoom(tt, p) /\ \E h \in candidates : t' = MarkBlockAsInFlight(tt, p, h)
  BY DEF ReserveNextFastSyncBlockInFlight, CanClaim
<1>5. candidates \in SUBSET Blocks /\ \A h \in candidates : tt.owner[h] = NoPeer /\ h <= headerTip
  <2> HIDE DEF tt
  <2>1. /\ Downloadable(tt, p) \in SUBSET Blocks
        /\ \A h \in Downloadable(tt, p) : tt.owner[h] = NoPeer /\ h <= headerTip
    BY DownloadableProperties
  <2>2. CASE UsesFallback(p)
    BY <2>2 DEF NextCandidates, Free, FallbackHeights
  <2>3. CASE ~UsesFallback(p)
    BY <2>1, <2>3 DEF NextCandidates
  <2> QED  BY <2>2, <2>3
<1> HIDE DEF tt, candidates
<1>6. Fit(t', conn, verified, headerTip)
  <2>1. CASE /\ tt.window[p].block # NoBlock
             /\ t' = [tt EXCEPT !.window[p] = Claimed(tt.window[p])]
    <3> DEFINE w == Claimed(tt.window[p])
    <3>1. tt \in Tables /\ tt.window[p] \in Windows /\ tt.owner[tt.window[p].block] = p
      BY <1>1, <2>1 DEF Fit, TableInv, WindowsOwned, Tables
    <3>2. w \in Windows
      BY <3>1, BoundsAssumption DEF Windows
    <3>3. t' = [tt EXCEPT !.window[p] = w]
      BY <2>1
    <3>4. w.block = tt.window[p].block
      OBVIOUS
    <3> HIDE DEF w
    <3> QED  BY <1>1, <3>1, <3>2, <3>3, <3>4, FitClaimed
  <2>2. CASE t' = tt
    BY <1>1, <2>2
  <2>3. CASE HasFastSyncRoom(tt, p) /\ \E h \in candidates : t' = MarkBlockAsInFlight(tt, p, h)
    <3>1. tt.count[p] < Limit
      BY <2>3 DEF HasFastSyncRoom, Limit
    <3>2. PICK h \in candidates : t' = MarkBlockAsInFlight(tt, p, h)
      BY <2>3
    <3> QED  BY <1>1, <1>2, <1>5, <3>1, <3>2, FitInFlight
  <2> QED  BY <1>4, <2>1, <2>2, <2>3
<1> QED  BY <1>1, <1>3, <1>6, ScheduleStep

LEMMA ReleaseStep ==
    ASSUME IInv, NEW p \in Peers, NEW h \in Blocks, ReleaseFastSyncBlockInFlight(p, h)
    PROVE  IInv'
<1>1. /\ UNCHANGED <<conn, leaving, verified, backoff, best, unknown, lastCommon, headerTip,
                     haveData, active, inHand>>
      /\ t' = MarkBlockAsReceived(t, h, p)
  BY DEF ReleaseFastSyncBlockInFlight, peerVars, knowledge, chainVars
<1>2. headerTip \in Int
  BY MaxHeightAssumption DEF IInv, ChainOK, Heights
<1>3. Fit(MarkBlockAsReceived(t, h, p), conn, verified, headerTip)
  BY <1>2, FitReceived DEF IInv
<1>4. HandOK'
  BY <1>1 DEF IInv, HandOK
<1> QED  BY <1>1, <1>3, <1>4, TableStep

LEMMA SetVerifiedStep ==
    ASSUME IInv, NEW p \in Peers, NEW yes \in BOOLEAN, SetFastSyncPeerTransportVerified(p, yes)
    PROVE  IInv'
<1>1. /\ p \in conn
      /\ verified' = IF yes THEN verified \cup {p} ELSE verified \ {p}
      /\ t' = IF ~yes /\ t.window[p].block # NoBlock
              THEN MarkBlockAsReceived(t, t.window[p].block, p) ELSE t
      /\ backoff' = IF yes THEN backoff ELSE [backoff EXCEPT ![p] = Backoff]
      /\ UNCHANGED <<conn, leaving, best, unknown, lastCommon, headerTip, haveData, active, inHand>>
  BY DEF SetFastSyncPeerTransportVerified, HasState, CloseWindow, knowledge, chainVars
<1>2. headerTip \in Int
  BY MaxHeightAssumption DEF IInv, ChainOK, Heights
<1>3. PeersOK' /\ ChainOK' /\ HandOK'
  BY <1>1, BoundsAssumption DEF IInv, PeersOK, ChainOK, HandOK, Downloaded
<1>4. KnowledgeOK'
  BY <1>1, <1>2, <1>3, KnowledgeKept DEF IInv, knowledge
<1>5. Fit(t', conn, verified', headerTip)
  <2>1. CASE yes
    BY <1>1, <1>2, <2>1, FitGrows DEF IInv
  <2>2. CASE ~yes /\ t.window[p].block = NoBlock
    <3>1. \A x \in Peers : t.window[x].block # NoBlock => x \in verified \ {p}
      BY <2>2 DEF IInv, Fit
    <3> QED  BY <1>1, <2>2, <3>1 DEF IInv, Fit
  <2>3. CASE ~yes /\ t.window[p].block # NoBlock
    <3> DEFINE h == t.window[p].block
               r == MarkBlockAsReceived(t, h, p)
    <3>1. t.window \in [Peers -> Windows] /\ t.owner[h] = p
      BY <2>3, TableParts DEF IInv, Fit, TableInv, WindowsOwned
    <3>2. h \in Blocks
      BY <2>3, <3>1 DEF Windows
    <3>3. Fit(r, conn, verified, headerTip)
      BY <1>2, <3>2, FitReceived DEF IInv
    <3>4. r = Release(t, p, h)
      BY <3>1, NoPeerAssumption DEF MarkBlockAsReceived
    <3>5. Release(t, p, h).window = [t.window EXCEPT ![p] = ClearFastSyncPendingBlock]
      BY ReleaseWindow
    <3>6. t' = r
      BY <1>1, <2>3
    <3> HIDE DEF r
    <3>7. r.window[p].block = NoBlock
      BY <3>1, <3>4, <3>5 DEF ClearFastSyncPendingBlock
    <3>8. \A x \in Peers : r.window[x].block # NoBlock => x \in verified \ {p}
      BY <3>3, <3>7 DEF Fit
    <3>9. Fit(r, conn, verified \ {p}, headerTip)
      BY <3>3, <3>8 DEF Fit
    <3> QED  BY <1>1, <2>3, <3>6, <3>9
  <2> QED  BY <2>1, <2>2, <2>3
<1> QED  BY <1>1, <1>3, <1>4, <1>5 DEF IInv

LEMMA SubmitBlockStep ==
    ASSUME IInv, NEW h \in Blocks, NEW valid \in BOOLEAN, SubmitBlock(h, valid)
    PROVE  IInv'
<1>1. /\ AcceptBlock(h, TRUE, valid)
      /\ UNCHANGED <<t, conn, leaving, verified, backoff, best, unknown, lastCommon, active, inHand>>
  BY ZenonT(30) DEF SubmitBlock, peerVars, knowledge
<1>2. HandOK'
  BY <1>1 DEF IInv, HandOK
<1> QED  BY <1>1, <1>2, AcceptBlockStep, ZenonT(30)

-----------------------------------------------------------------------------
(* SendMessages and the clock. *)

LEMMA RequestBlocksStep ==
    ASSUME IInv, NEW p \in Peers, RequestBlocks(p)
    PROVE  IInv'
<1> DEFINE tt == ExpireFastSyncPendingBlock(p)
           offer == /\ CanOfferBase(p)
                    /\ BackoffAfterExpiry(p)[p] = 0
                    /\ tt.window[p].block = NoBlock
           room == IF ~DisableTcp THEN MaxInTransit - tt.count[p] ELSE IF offer THEN 1 ELSE 0
           Sent(q) == IF offer /\ q # <<>> THEN OfferFirst(Enqueue(tt, p, q), p, q)
                                           ELSE Enqueue(tt, p, q)
<1>1. /\ Fit(tt, conn, verified, headerTip) /\ backoff' \in [Peers -> Nat]
      /\ UNCHANGED <<conn, leaving, verified, headerTip, haveData, active, inHand>>
      /\ p \in conn
  BY ExpiryStep DEF RequestBlocks, peerVars, chainVars, Handling
<1>2. headerTip \in Int
  BY MaxHeightAssumption DEF IInv, ChainOK, Heights
<1>3. \/ UNCHANGED knowledge
      \/ ProcessBlockAvailability(p) /\ (UNCHANGED lastCommon \/ UpdateLastCommon(p))
  BY DEF RequestBlocks
<1>4. \/ t' = tt
      \/ /\ tt.count[p] < MaxInTransit
         /\ \E q \in FirstBlocks(Downloadable(tt, p), room) :
               t' = StartStalling(Sent(q), p, Stallers(tt, p))
  BY DEF RequestBlocks
<1>5. offer => p \in verified
  BY DEF CanOfferBase
<1> HIDE DEF tt, offer
<1>6. CASE t' = tt
  BY <1>1, <1>3, <1>6, ScheduleStep
<1>7. CASE /\ tt.count[p] < MaxInTransit
           /\ \E q \in FirstBlocks(Downloadable(tt, p), room) :
                 t' = StartStalling(Sent(q), p, Stallers(tt, p))
  <2>1. tt.count[p] \in Int /\ tt.count \in [Peers -> Int]
    BY <1>1, TableParts DEF Fit
  <2>2. room \in Int /\ tt.count[p] + room <= Limit
    <3> DEFINE k == tt.count[p]
    <3>1. k \in Int /\ k < MaxInTransit
      BY <1>7, <2>1
    <3>2. room = IF ~DisableTcp THEN MaxInTransit - k ELSE IF offer THEN 1 ELSE 0
      OBVIOUS
    <3> HIDE DEF k, room
    <3>3. MaxInTransit \in Nat /\ FastSyncExtra \in Nat
      BY LimitType
    <3>4. room \in Int /\ k + room <= MaxInTransit
      BY <3>1, <3>2, <3>3
    <3>5. k + room <= MaxInTransit + FastSyncExtra
      BY <3>1, <3>3, <3>4
    <3> QED  BY <3>4, <3>5 DEF Limit, k
  <2> HIDE DEF room
  <2>3. PICK q \in FirstBlocks(Downloadable(tt, p), room) :
           t' = StartStalling(Sent(q), p, Stallers(tt, p))
    BY <1>7
  <2> DEFINE S == Downloadable(tt, p)
  <2>4. S \in SUBSET Blocks /\ \A h \in S : tt.owner[h] = NoPeer /\ h <= headerTip
    BY DownloadableProperties
  <2> HIDE DEF S
  <2> DEFINE asked == Enqueue(tt, p, q)
  <2>5. /\ Fit(asked, conn, verified, headerTip)
        /\ q \in Seq(Blocks) /\ \A i \in 1..Len(q) : asked.owner[q[i]] = p
    <3>1. q \in FirstBlocks(S, room)
      BY DEF S
    <3>2. Fit(tt, conn, verified, headerTip) /\ p \in conn
      BY <1>1
    <3>3. room \in Int /\ (room <= 0 \/ tt.count[p] + room <= Limit)
      BY <2>2
    <3>4. Fit(Enqueue(tt, p, q), conn, verified, headerTip)
      BY <1>2, <2>4, <3>1, <3>2, <3>3, FitRequests, ZenonT(30)
    <3>5. q \in Seq(Blocks)
      BY <1>2, <2>4, <3>1, <3>2, <3>3, FitRequests, ZenonT(30)
    <3>6. \A i \in 1..Len(q) : Enqueue(tt, p, q).owner[q[i]] = p
      BY <3>5, EnqueueOwns
    <3> QED  BY <3>4, <3>5, <3>6
  <2>6. asked.count = [tt.count EXCEPT ![p] = tt.count[p] + Len(q)]
    BY DEF Enqueue
  <2> HIDE DEF asked
  <2>7. Fit(Sent(q), conn, verified, headerTip) /\ Sent(q).count = asked.count
    <3>1. CASE offer /\ q # <<>>
      <4> DEFINE w == [block |-> q[1], until |-> ClaimWindow, claimed |-> FALSE]
      <4>1. q[1] \in Blocks /\ asked.owner[q[1]] = p
        BY <2>5, <3>1
      <4>2. w \in Windows /\ w.block = q[1]
        BY <4>1, BoundsAssumption DEF Windows
      <4>3. Sent(q) = [asked EXCEPT !.window[p] = w]
        BY <3>1 DEF OfferFirst, asked
      <4> HIDE DEF w
      <4>4. Fit([asked EXCEPT !.window[p] = w], conn, verified, headerTip)
        BY <1>5, <2>5, <3>1, <4>1, <4>2, FitClaimed, ZenonT(30)
      <4>5. asked \in Tables
        BY <2>5 DEF Fit, TableInv
      <4>6. [asked EXCEPT !.window[p] = w].count = asked.count
        BY <4>5 DEF Tables
      <4> QED  BY <4>3, <4>4, <4>6, ZenonT(30)
    <3>2. CASE ~(offer /\ q # <<>>)
      BY <2>5, <3>2 DEF asked
    <3> QED  BY <3>1, <3>2
  <2> HIDE DEF Sent
  <2>8. \A s \in Stallers(tt, p) : s \in Peers => Sent(q).count[s] > 0
    <3> SUFFICES ASSUME NEW s \in Stallers(tt, p)
                 PROVE  Sent(q).count[s] > 0
      OBVIOUS
    <3>1. s \in Peers /\ s # p /\ \E h \in Blocks : tt.owner[h] = s
      BY DEF Stallers, Missing
    <3>2. tt.count[s] > 0
      BY <1>1, <3>1, OwnersCounted DEF Fit
    <3> QED  BY <2>1, <2>6, <2>7, <3>1, <3>2
  <2>9. Fit(t', conn, verified, headerTip)
    BY <2>3, <2>7, <2>8, FitStalling
  <2> QED  BY <1>1, <1>3, <2>9, ScheduleStep
<1> QED  BY <1>4, <1>6, <1>7

LEMMA TickStep ==
    ASSUME IInv, Tick
    PROVE  IInv'
<1> DEFINE si == [p \in Peers |-> IF t.count[p] > 0 THEN Older(t.since[p]) ELSE t.since[p]]
           st == [p \in Peers |-> IF t.stalling[p] = NotStalling
                                  THEN NotStalling ELSE Older(t.stalling[p])]
           wi == [p \in Peers |-> IF t.window[p].block # NoBlock /\ t.window[p].until >= 0
                                  THEN [t.window[p] EXCEPT !.until = @ - 1] ELSE t.window[p]]
           r == [t EXCEPT !.since = si, !.stalling = st, !.window = wi]
<1>1. t' = r /\ UNCHANGED <<conn, leaving, verified, best, unknown, lastCommon, headerTip,
                            haveData, active, inHand>>
  BY DEF Tick, peerVars, knowledge, chainVars
<1>2. backoff' \in [Peers -> Nat]
  BY DEF Tick, IInv, PeersOK
<1>3. t \in Tables /\ WindowsOwned(t) /\ StallersOwe(t) /\ PartialsInFlight(t)
  BY DEF IInv, Fit, TableInv
<1>4. t.since \in [Peers -> Nat] /\ t.stalling \in [Peers -> Int] /\ t.window \in [Peers -> Windows]
  BY <1>3 DEF Tables
<1>5. si \in [Peers -> Nat] /\ st \in [Peers -> Int]
  BY <1>4 DEF Older, NotStalling
<1>6. wi \in [Peers -> Windows] /\ \A p \in Peers : wi[p].block = t.window[p].block
  BY <1>4 DEF Windows
<1>7. \A p \in Peers : st[p] # NotStalling => t.count[p] > 0
  BY <1>3 DEF StallersOwe
<1> HIDE DEF si, st, wi
<1>8. /\ r.owner = t.owner /\ r.queue = t.queue /\ r.count = t.count
      /\ r.downloading = t.downloading /\ r.partial = t.partial
      /\ r.since = si /\ r.stalling = st /\ r.window = wi
  BY <1>3 DEF Tables
<1>9. r \in Tables
  BY <1>3, <1>5, <1>6, ZenonT(30) DEF Tables
<1> HIDE DEF r
<1>10. \A x \in Peers : r.window[x].block # NoBlock => x \in verified /\ t.owner[r.window[x].block] = x
  BY <1>3, <1>6, <1>8 DEF IInv, Fit, WindowsOwned
<1>11. \A x \in Peers : r.stalling[x] # NotStalling => t.count[x] > 0
  BY <1>7, <1>8
<1>12. \A g \in Blocks : r.partial[g] # "none" => t.owner[g] # NoPeer
  BY <1>3, <1>8 DEF PartialsInFlight
<1>13. Fit(r, conn, verified, headerTip)
  BY <1>8, <1>9, <1>10, <1>11, <1>12, FitSameEntries DEF IInv
<1>14. PeersOK' /\ ChainOK' /\ HandOK'
  BY <1>1, <1>2 DEF IInv, PeersOK, ChainOK, HandOK, Downloaded
<1>15. headerTip \in Int
  BY MaxHeightAssumption DEF IInv, ChainOK, Heights
<1>16. KnowledgeOK'
  BY <1>1, <1>14, <1>15, KnowledgeKept DEF IInv, knowledge
<1> QED  BY <1>1, <1>13, <1>14, <1>16 DEF IInv

-----------------------------------------------------------------------------
(* The invariant is inductive. *)

LEMMA InitIInv == Init => IInv
<1> SUFFICES ASSUME Init
             PROVE  IInv
  OBVIOUS
<1>1. TableInv(EmptyTable)
  BY EmptyTableConsistent
<1>2. /\ \A h \in Blocks : EmptyTable.owner[h] = NoPeer
      /\ \A p \in Peers : EmptyTable.count[p] = 0 /\ EmptyTable.window[p].block = NoBlock
  BY DEF EmptyTable, ClearFastSyncPendingBlock
<1>3. Fit(t, conn, verified, headerTip)
  <2>1. t = EmptyTable /\ conn = {} /\ verified = {}
    BY DEF Init
  <2>2. \A h \in Blocks : /\ EmptyTable.owner[h] \in {} \cup {NoPeer}
                          /\ EmptyTable.owner[h] # NoPeer => h <= headerTip
    BY <1>2
  <2>3. \A p \in Peers : EmptyTable.window[p].block # NoBlock => p \in {}
    BY <1>2
  <2>4. \A p \in Peers : EmptyTable.count[p] <= Limit
    BY <1>2, LimitType
  <2>5. Fit(EmptyTable, {}, {}, headerTip)
    BY <1>1, <2>2, <2>3, <2>4 DEF Fit
  <2> QED  BY <2>1, <2>5
<1>4. PeersOK
  BY DEF Init, PeersOK
<1>5. ChainOK
  <2>1. LoadedBlocks \in Nat /\ LoadedBlocks <= MaxHeight /\ LoadedHeaders \in Heights
    BY LoadedAssumption, MaxHeightAssumption DEF Heights
  <2>2. {h \in Blocks : 1..h \subseteq haveData} = 1..LoadedBlocks
    BY <2>1, MaxHeightAssumption DEF Init, Blocks
  <2>3. Cardinality(1..LoadedBlocks) = LoadedBlocks
    BY <2>1, FS_Interval
  <2>4. Downloaded = Cardinality(1..LoadedBlocks)
    BY <2>2, Zenon DEF Downloaded
  <2> QED  BY <2>1, <2>3, <2>4, MaxHeightAssumption DEF Init, ChainOK, Blocks
<1>6. KnowledgeOK
  <2>1. headerTip \in Int /\ headerTip >= 0 /\ Downloaded \in Nat
    BY <1>5, MaxHeightAssumption, DownloadedType DEF ChainOK, Heights
  <2> QED  BY <2>1 DEF Init, KnowledgeOK, Null
<1>7. HandOK
  BY DEF Init, HandOK, NoWork
<1> QED  BY <1>3, <1>4, <1>5, <1>6, <1>7 DEF IInv

LEMMA NextIInv == IInv /\ [Next]_vars => IInv'
<1> SUFFICES ASSUME IInv, [Next]_vars
             PROVE  IInv'
  OBVIOUS
<1>1. ASSUME NEW p \in Peers, PeerNext(p) \/ SendMessages(p)
      PROVE  IInv'
  BY <1>1, InitializeNodeStep, DisconnectStep, FinalizeNodeStep, RequestBlocksStep
  DEF PeerNext, SendMessages
<1>2. ASSUME NEW p \in Peers, NEW h \in Blocks, MessageNext(p, h)
      PROVE  IInv'
  <2>1. CASE ProcessInv(p, h)
    BY <2>1, ProcessInvStep
  <2>2. ASSUME NEW direct \in BOOLEAN, Headers(p, h, direct)
        PROVE  IInv'
    BY <2>2, HeadersStep DEF Headers, Handling
  <2>3. ASSUME NEW direct \in BOOLEAN, NEW status, CmpctBlock(p, h, direct, status)
        PROVE  IInv'
    BY <2>3, CmpctBlockStep
  <2>4. ASSUME NEW status, BlockTxn(p, h, status)
        PROVE  IInv'
    BY <2>4, BlockTxnStep
  <2>5. CASE Block(p, h)
    BY <2>5, BlockStep
  <2> QED  BY <1>2, <2>1, <2>2, <2>3, <2>4, <2>5 DEF MessageNext
<1>3. ASSUME NEW p \in HelperPeers, NEW h \in Blocks, HelperNext(p, h)
      PROVE  IInv'
  <2>1. p \in Peers
    BY PeerDataAssumption
  <2> QED  BY <1>3, <2>1, ReserveStep, ReserveNextStep, ReleaseStep, SetVerifiedStep,
              SubmitBlockStep DEF HelperNext
<1>4. ASSUME UNCHANGED vars
      PROVE  IInv'
  BY <1>4 DEF vars, IInv, PeersOK, ChainOK, KnowledgeOK, HandOK, Downloaded
<1> QED  BY <1>1, <1>2, <1>3, <1>4, HandlerStep, ActivateBestChainStep, TickStep
         DEF Next, NodeNext

LEMMA IInvImplies ==
    ASSUME IInv
    PROVE  /\ TypeOK /\ InFlightConsistent /\ OwnersConnected /\ WindowsVerified
           /\ CapacityRespected /\ LastCommonDownloaded
<1>1. TypeOK
  <2>1. active \in Heights
    BY DownloadedType, MaxHeightAssumption DEF IInv, ChainOK, Heights
  <2> QED  BY <2>1 DEF IInv, Fit, TableInv, PeersOK, ChainOK, KnowledgeOK, HandOK, TypeOK
<1>2. InFlightConsistent /\ WindowsVerified
  BY DEF IInv, Fit, InFlightConsistent, WindowsVerified
<1>3. OwnersConnected
  <2>1. conn = {} => \A h \in Blocks : t.owner[h] = NoPeer
    BY DEF IInv, Fit
  <2>2. conn = {} => t.downloading = 0
    BY <2>1, NobodyDownloads DEF IInv, Fit
  <2> QED  BY <2>2 DEF IInv, Fit, HandOK, OwnersConnected
<1>4. CapacityRespected
  BY DEF IInv, Fit, Limit, CapacityRespected
<1>5. LastCommonDownloaded
  BY DEF IInv, KnowledgeOK, LastCommonDownloaded, Least
<1> QED  BY <1>1, <1>2, <1>3, <1>4, <1>5

(* IInv holds in every state of the block download.                        *)
THEOREM Invariance == Spec => []IInv
<1> QED  BY InitIInv, NextIInv, PTL DEF Spec

(* Every variable of the block download keeps its type. *)
THEOREM TypeCorrect == Spec => []TypeOK
<1>1. IInv => TypeOK
  BY IInvImplies
<1> QED  BY <1>1, Invariance, PTL

(* mapBlocksInFlight, the queues of all peers, their counters, UDP windows *)
(* and stall timers agree, for any number of peers and any chain.          *)
THEOREM InFlightCorrect == Spec => []InFlightConsistent
<1>1. IInv => InFlightConsistent
  BY IInvImplies
<1> QED  BY <1>1, Invariance, PTL

(* No block is in flight from, and no message handled for, a peer without  *)
(* a CNodeState; FinalizeNode of the last peer finds the counts at zero.   *)
THEOREM OwnersCorrect == Spec => []OwnersConnected
<1>1. IInv => OwnersConnected
  BY IInvImplies
<1> QED  BY <1>1, Invariance, PTL

(* A UDP window is open only while the peer's transport is verified. *)
THEOREM WindowsCorrect == Spec => []WindowsVerified
<1>1. IInv => WindowsVerified
  BY IInvImplies
<1> QED  BY <1>1, Invariance, PTL

(* Whatever the limits, no peer has more than the normal and the extra UDP *)
(* slots filled.                                                           *)
THEOREM CapacityCorrect == Spec => []CapacityRespected
<1>1. IInv => CapacityRespected
  BY IInvImplies
<1> QED  BY <1>1, Invariance, PTL

(* The last common block of a peer never runs ahead of what is downloaded. *)
THEOREM LastCommonCorrect == Spec => []LastCommonDownloaded
<1>1. IInv => LastCommonDownloaded
  BY IInvImplies
<1> QED  BY <1>1, Invariance, PTL
=============================================================================
