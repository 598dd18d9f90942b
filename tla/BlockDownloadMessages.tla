----------------------- MODULE BlockDownloadMessages ------------------------
(***************************************************************************)
(* The steps of the message handler keep the inductive invariant: a peer   *)
(* comes or goes, a message about blocks arrives, a block is validated.    *)
(***************************************************************************)
EXTENDS BlockDownloadFit

(* Peers come and go. *)

LEMMA InitializeNodeStep ==
    ASSUME IInv, NEW p \in Peers, InitializeNode(p)
    PROVE  IInv'
<1>1. PeersOK' /\ ChainOK' /\ HandOK'
  BY DEF IInv, PeersOK, ChainOK, HandOK, InitializeNode, chainVars, Downloaded
<1>2. headerTip \in Int
  BY MaxHeightAssumption DEF IInv, ChainOK, Heights
<1>3. KnowledgeOK'
  BY <1>1, <1>2, KnowledgeKept DEF IInv, InitializeNode, chainVars
<1>4. Fit(t, conn', verified', headerTip')
  BY <1>2, FitGrows DEF IInv, InitializeNode, chainVars
<1> QED  BY <1>1, <1>3, <1>4 DEF IInv, InitializeNode

LEMMA DisconnectStep ==
    ASSUME IInv, NEW p \in Peers, Disconnect(p) \/ DisconnectSlowPeer(p)
    PROVE  IInv'
<1>0. /\ p \in conn /\ leaving' = leaving \cup {p}
      /\ UNCHANGED <<t, conn, verified, backoff, knowledge, chainVars, inHand>>
  BY DEF Disconnect, DisconnectSlowPeer, Handling
<1>1. PeersOK' /\ ChainOK' /\ HandOK'
  BY <1>0 DEF IInv, PeersOK, ChainOK, HandOK, chainVars, Downloaded
<1>2. headerTip \in Int
  BY MaxHeightAssumption DEF IInv, ChainOK, Heights
<1>3. KnowledgeOK'
  BY <1>0, <1>1, <1>2, KnowledgeKept DEF IInv, chainVars
<1> QED  BY <1>0, <1>1, <1>3 DEF IInv, chainVars

LEMMA FinalizeNodeStep ==
    ASSUME IInv, NEW p \in Peers, FinalizeNode(p)
    PROVE  IInv'
<1>1. PeersOK' /\ ChainOK' /\ HandOK'
  BY DEF IInv, PeersOK, ChainOK, HandOK, FinalizeNode, Unreferenced, chainVars,
         Downloaded
<1>2. headerTip \in Int /\ headerTip >= 0
  BY MaxHeightAssumption DEF IInv, ChainOK, Heights
<1>3. KnowledgeOK'
  <2>1. /\ best' = [best EXCEPT ![p] = Null]
        /\ unknown' = [unknown EXCEPT ![p] = Null]
        /\ lastCommon' = [lastCommon EXCEPT ![p] = Null]
        /\ headerTip' = headerTip /\ haveData' = haveData /\ Downloaded' = Downloaded
    BY DEF FinalizeNode, chainVars, Downloaded
  <2>2. Downloaded \in Nat
    BY DownloadedType
  <2> QED  BY <1>2, <2>1, <2>2 DEF IInv, KnowledgeOK, Null
<1>4. Fit(t', conn', verified', headerTip')
  BY <1>2, FitForget DEF IInv, FinalizeNode, chainVars
<1> QED  BY <1>1, <1>3, <1>4 DEF IInv

-----------------------------------------------------------------------------
(* Messages. *)

LEMMA ProcessInvStep ==
    ASSUME IInv, NEW p \in Peers, NEW h \in Blocks, ProcessInv(p, h)
    PROVE  IInv'
<1>1. /\ headerTip' = headerTip /\ haveData' = haveData /\ active' = active /\ lastCommon' = lastCommon
      /\ UNCHANGED <<t, conn, leaving, verified, backoff, inHand>>
  BY DEF ProcessInv, chainVars, peerVars
<1>2. PeersOK' /\ ChainOK' /\ HandOK'
  BY <1>1 DEF IInv, PeersOK, ChainOK, HandOK, Downloaded
<1>3. headerTip \in Int
  BY MaxHeightAssumption DEF IInv, ChainOK, Heights
<1>4. KnowledgeOK'
  <2>1. UpdateBlockAvailability(p, h, headerTip')
    BY <1>1 DEF ProcessInv
  <2> QED  BY <1>1, <1>2, <1>3, <2>1, KnowledgeUpdated DEF IInv
<1> QED  BY <1>1, <1>2, <1>4 DEF IInv

LEMMA HeadersStep ==
    ASSUME IInv, NEW p \in Peers, p \in conn, NEW last \in Blocks, NEW direct \in BOOLEAN,
           ProcessHeadersMessage(p, last, direct)
    PROVE  IInv'
<1>1. /\ headerTip' = Greatest(headerTip, last) /\ haveData' = haveData /\ active' = active
      /\ UNCHANGED <<conn, leaving, verified, backoff, lastCommon>> /\ inHand' = NoWork
      /\ UpdateBlockAvailability(p, last, headerTip')
  BY DEF ProcessHeadersMessage, peerVars
<1>2. /\ headerTip \in Int /\ headerTip' \in Heights /\ headerTip' \in Int
      /\ headerTip <= headerTip' /\ last <= headerTip'
  BY <1>1, MaxHeightAssumption DEF IInv, ChainOK, Heights, Blocks, Greatest
<1>3. PeersOK' /\ ChainOK' /\ HandOK'
  BY <1>1, <1>2 DEF IInv, PeersOK, ChainOK, HandOK, NoWork, Downloaded
<1>4. KnowledgeOK'
  BY <1>1, <1>2, <1>3, KnowledgeUpdated DEF IInv
<1>5. Fit(t, conn, verified, headerTip')
  BY <1>2, FitGrows DEF IInv
<1> DEFINE S == IF direct /\ ~DisableTcp THEN DirectFetch(p, last) ELSE {}
<1>6. PICK q \in FirstBlocks(S, MaxInTransit - t.count[p]) : t' = Enqueue(t, p, q)
  BY DEF ProcessHeadersMessage
<1>7. S \in SUBSET Blocks /\ \A h \in S : t.owner[h] = NoPeer /\ h <= headerTip'
  <2>1. \A h \in S : h \in Blocks /\ t.owner[h] = NoPeer /\ h <= last
    BY DEF DirectFetch, Free
  <2>2. \A h \in Blocks : h <= last => h <= headerTip'
    BY <1>2, MaxHeightAssumption DEF Blocks
  <2> QED  BY <2>1, <2>2
<1> HIDE DEF S
<1>8. t.count[p] \in Int
  BY TableParts DEF IInv, Fit
<1>9. MaxInTransit - t.count[p] \in Int /\ t.count[p] + (MaxInTransit - t.count[p]) <= Limit
  BY <1>8, LimitType DEF Limit
<1>10. Fit(Enqueue(t, p, q), conn, verified, headerTip')
  BY <1>2, <1>5, <1>6, <1>7, <1>9, FitRequests, ZenonT(30)
<1> QED  BY <1>1, <1>3, <1>4, <1>6, <1>10 DEF IInv

LEMMA CarryType ==
    ASSUME NEW p \in Peers, p \in conn, NEW h \in Blocks, NEW force \in BOOLEAN,
           NEW kind \in {"block", "reconstructed", "blocktxn", "headers"},
           Carry(p, h, kind, force), conn' = conn
    PROVE  HandOK'
  BY DEF Carry, HandOK, Work

LEMMA StartCompactStep ==
    ASSUME NEW ht \in Int, Fit(t, conn, verified, ht), HandOK, conn' = conn,
           NEW p \in Peers, p \in conn, NEW h \in Blocks, h <= ht, NEW status,
           t.owner[h] = p \/ (t.owner[h] = NoPeer /\ t.count[p] < MaxInTransit),
           StartCompact(p, h, status)
    PROVE  Fit(t', conn, verified, ht) /\ HandOK'
<1> DEFINE m == MarkBlockAsInFlight(t, p, h)
           tt == [m EXCEPT !.partial[h] = "open"]
<1>1. Fit(m, conn, verified, ht) /\ m.owner[h] = p
  <2>1. CASE t.owner[h] = p
    BY <2>1 DEF MarkBlockAsInFlight
  <2>2. CASE t.owner[h] = NoPeer /\ t.count[p] < MaxInTransit
    <3>1. t.count[p] \in Int
      BY TableParts DEF Fit
    <3>2. t.count[p] < Limit
      BY <2>2, <3>1, LimitType DEF Limit
    <3> QED  BY <2>2, <3>2, FitInFlight
  <2> QED  BY <2>1, <2>2
<1> HIDE DEF m
<1>2. Fit(tt, conn, verified, ht)
  BY <1>1, NoPeerAssumption, FitPartial, ZenonT(30) DEF PartialStates
<1>3. \/ UNCHANGED <<t, inHand>>
      \/ t' = MarkBlockAsReceived(tt, h, p) /\ UNCHANGED inHand
      \/ t' = tt /\ (Carry(p, h, "blocktxn", FALSE) \/ UNCHANGED inHand)
  BY ZenonT(30) DEF StartCompact, m
<1> HIDE DEF tt
<1>4. CASE UNCHANGED <<t, inHand>>
  BY <1>4 DEF HandOK
<1>5. CASE t' = MarkBlockAsReceived(tt, h, p) /\ UNCHANGED inHand
  <2>1. Fit(MarkBlockAsReceived(tt, h, p), conn, verified, ht)
    BY <1>2, FitReceived
  <2> QED  BY <1>5, <2>1 DEF HandOK
<1>6. CASE t' = tt /\ Carry(p, h, "blocktxn", FALSE)
  BY <1>2, <1>6, CarryType, ZenonT(30)
<1>7. CASE t' = tt /\ UNCHANGED inHand
  BY <1>2, <1>7 DEF HandOK
<1> QED  BY <1>3, <1>4, <1>5, <1>6, <1>7, ZenonT(30)

LEMMA CmpctBlockStep ==
    ASSUME IInv, NEW p \in Peers, NEW h \in Blocks, NEW direct \in BOOLEAN, NEW status,
           CmpctBlock(p, h, direct, status)
    PROVE  IInv'
<1>1. /\ p \in conn /\ h <= headerTip + 1 /\ headerTip' = Greatest(headerTip, h)
      /\ UpdateBlockAvailability(p, h, headerTip')
      /\ UNCHANGED <<conn, leaving, verified, backoff, lastCommon, haveData, active>>
  BY DEF CmpctBlock, Handling, peerVars
<1>2. /\ headerTip \in Int /\ headerTip' \in Heights /\ headerTip' \in Int
      /\ headerTip <= headerTip' /\ h <= headerTip'
  BY <1>1, MaxHeightAssumption DEF IInv, ChainOK, Heights, Blocks, Greatest
<1>3. PeersOK' /\ ChainOK'
  BY <1>1, <1>2 DEF IInv, PeersOK, ChainOK, Downloaded
<1>4. KnowledgeOK'
  BY <1>1, <1>2, <1>3, KnowledgeUpdated DEF IInv
<1>5. Fit(t, conn, verified, headerTip')
  BY <1>2, FitGrows DEF IInv
<1>6. \/ UNCHANGED <<t, inHand>>
      \/ /\ t.owner[h] = p \/ (t.owner[h] = NoPeer /\ t.count[p] < MaxInTransit)
         /\ StartCompact(p, h, status)
      \/ UNCHANGED t /\ Carry(p, h, "reconstructed", TRUE)
      \/ UNCHANGED t /\ Carry(p, h, "headers", FALSE)
  BY ZenonT(30) DEF CmpctBlock
<1>7. Fit(t', conn, verified, headerTip') /\ HandOK'
  <2>1. CASE UNCHANGED <<t, inHand>>
    BY <1>1, <1>5, <2>1 DEF IInv, HandOK
  <2>2. CASE /\ t.owner[h] = p \/ (t.owner[h] = NoPeer /\ t.count[p] < MaxInTransit)
             /\ StartCompact(p, h, status)
    BY <1>1, <1>2, <1>5, <2>2, StartCompactStep DEF IInv
  <2>3. CASE UNCHANGED t /\ Carry(p, h, "reconstructed", TRUE)
    BY <1>1, <1>5, <2>3, CarryType, ZenonT(30)
  <2>4. CASE UNCHANGED t /\ Carry(p, h, "headers", FALSE)
    BY <1>1, <1>5, <2>4, CarryType, ZenonT(30)
  <2> QED  BY <1>6, <2>1, <2>2, <2>3, <2>4, ZenonT(30)
<1> QED  BY <1>1, <1>3, <1>4, <1>7 DEF IInv

(* A step that leaves peers and chain alone is judged by the table and by  *)
(* what is in hand.                                                        *)
LEMMA TableStep ==
    ASSUME IInv, UNCHANGED <<conn, leaving, verified, backoff, best, unknown, lastCommon,
                             headerTip, haveData, active>>,
           Fit(t', conn, verified, headerTip), HandOK'
    PROVE  IInv'
<1>1. PeersOK' /\ ChainOK'
  BY DEF IInv, PeersOK, ChainOK, Downloaded
<1>2. headerTip \in Int
  BY MaxHeightAssumption DEF IInv, ChainOK, Heights
<1>3. KnowledgeOK'
  BY <1>1, <1>2, KnowledgeKept DEF IInv, knowledge
<1> QED  BY <1>1, <1>3 DEF IInv

LEMMA BlockTxnStep ==
    ASSUME IInv, NEW p \in Peers, NEW h \in Blocks, NEW status, BlockTxn(p, h, status)
    PROVE  IInv'
<1>1. p \in conn /\ UNCHANGED <<conn, leaving, verified, backoff, best, unknown, lastCommon,
                                headerTip, haveData, active>>
  BY NoPeerAssumption
  DEF BlockTxn, Handling, IInv, HandOK, peerVars, knowledge, chainVars
<1>2. headerTip \in Int
  BY MaxHeightAssumption DEF IInv, ChainOK, Heights
<1>3. Fit(MarkBlockAsReceived(t, h, p), conn, verified, headerTip)
  BY <1>2, FitReceived DEF IInv
<1>4. HandOK' \/ ~(inHand' = NoWork)
  BY DEF HandOK, NoWork
<1>5. \/ t' = t /\ inHand' = NoWork
      \/ t' = MarkBlockAsReceived(t, h, p) /\ inHand' = NoWork
      \/ t.owner[h] = p /\ t' = [t EXCEPT !.partial[h] = "spent"] /\ inHand' = NoWork
      \/ t' = MarkBlockAsReceived(t, h, p) /\ Carry(p, h, "block", TRUE)
  BY ZenonT(30) DEF BlockTxn
<1>6. CASE t' = t /\ inHand' = NoWork
  BY <1>1, <1>4, <1>6, TableStep DEF IInv
<1>7. CASE t' = MarkBlockAsReceived(t, h, p) /\ inHand' = NoWork
  BY <1>1, <1>3, <1>4, <1>7, TableStep
<1>8. CASE t.owner[h] = p /\ t' = [t EXCEPT !.partial[h] = "spent"] /\ inHand' = NoWork
  <2>1. Fit([t EXCEPT !.partial[h] = "spent"], conn, verified, headerTip)
    BY <1>8, NoPeerAssumption, FitPartial, ZenonT(30) DEF IInv, PartialStates
  <2> QED  BY <1>1, <1>4, <1>8, <2>1, TableStep
<1>9. CASE t' = MarkBlockAsReceived(t, h, p) /\ Carry(p, h, "block", TRUE)
  BY <1>1, <1>3, <1>9, CarryType, TableStep, ZenonT(30)
<1> QED  BY <1>5, <1>6, <1>7, <1>8, <1>9, ZenonT(30)

LEMMA BlockStep ==
    ASSUME IInv, NEW p \in Peers, NEW h \in Blocks, Block(p, h)
    PROVE  IInv'
<1>1. /\ p \in conn /\ UNCHANGED <<conn, leaving, verified, backoff, best, unknown, lastCommon,
                                   headerTip, haveData, active>>
      /\ t' = MarkBlockAsReceived(t, h, p) /\ Carry(p, h, "block", WasRequested(t, h))
  BY DEF Block, Handling, peerVars, knowledge, chainVars
<1>2. headerTip \in Int
  BY MaxHeightAssumption DEF IInv, ChainOK, Heights
<1>3. Fit(MarkBlockAsReceived(t, h, p), conn, verified, headerTip)
  BY <1>2, FitReceived DEF IInv
<1>4. WasRequested(t, h) \in BOOLEAN
  BY DEF WasRequested
<1>5. HandOK'
  BY <1>1, <1>4, CarryType
<1> QED  BY <1>1, <1>3, <1>5, TableStep

(* Storing a block raises the header tip and the chain, never lowers them. *)
LEMMA AcceptBlockStep ==
    ASSUME IInv, NEW h \in Blocks, NEW force, NEW valid, AcceptBlock(h, force, valid),
           UNCHANGED <<t, conn, leaving, verified, backoff, best, unknown, lastCommon, active>>,
           HandOK'
    PROVE  IInv'
<1>1. /\ headerTip' \in {headerTip, Greatest(headerTip, h)}
      /\ haveData' \in {haveData, haveData \cup {h}}
  BY DEF AcceptBlock
<1>2. headerTip \in Int /\ headerTip' \in Heights /\ headerTip' \in Int /\ headerTip <= headerTip'
  BY <1>1, MaxHeightAssumption DEF IInv, ChainOK, Heights, Blocks, Greatest
<1>3. PeersOK' /\ ChainOK' /\ haveData \subseteq haveData'
  <2>1. haveData \subseteq haveData' /\ haveData' \subseteq Blocks
    BY <1>1 DEF IInv, ChainOK
  <2>2. Downloaded \in Nat /\ Downloaded' \in Nat /\ Downloaded <= Downloaded'
    BY <2>1, DownloadedGrows
  <2>3. active' = active /\ active \in Nat /\ active <= Downloaded
    BY DEF IInv, ChainOK
  <2> QED  BY <1>2, <2>1, <2>2, <2>3 DEF IInv, PeersOK, ChainOK
<1>4. KnowledgeOK'
  BY <1>2, <1>3, KnowledgeKept DEF IInv, knowledge
<1>5. Fit(t, conn, verified, headerTip')
  BY <1>2, FitGrows DEF IInv
<1> QED  BY <1>3, <1>4, <1>5 DEF IInv

(* Work in hand is for a connected peer. *)
LEMMA WorkInHand ==
    ASSUME HandOK, inHand.kind # "none"
    PROVE  inHand \in Work /\ inHand.peer \in conn
<1>1. inHand # NoWork
  BY DEF NoWork
<1>2. inHand \in Work
  BY <1>1 DEF HandOK
<1>3. inHand.peer \in Peers
  BY <1>2 DEF Work
<1> QED  BY <1>2, <1>3, NoPeerAssumption DEF HandOK

LEMMA HandlerStep ==
    ASSUME IInv, HandlerNext
    PROVE  IInv'
<1>1. headerTip \in Int
  BY MaxHeightAssumption DEF IInv, ChainOK, Heights
<1>2. inHand.kind # "none" => inHand \in Work /\ inHand.peer \in conn
  BY WorkInHand DEF IInv
<1>3. ASSUME NEW valid \in BOOLEAN, ProcessNewBlock(valid)
      PROVE  IInv'
  <2>1. inHand \in Work /\ inHand.peer \in conn
    BY <1>2, <1>3 DEF ProcessNewBlock
  <2>2. /\ AcceptBlock(inHand.block, inHand.force, valid)
        /\ UNCHANGED <<t, conn, leaving, verified, backoff, best, unknown, lastCommon, active>>
    BY <1>3 DEF ProcessNewBlock, peerVars, knowledge
  <2>3. HandOK'
    BY <1>3, <2>1, <2>2 DEF ProcessNewBlock, Processed, ToConnect, HandOK, Work, NoWork
  <2>4. inHand.block \in Blocks
    BY <2>1 DEF Work
  <2> QED  BY <2>2, <2>3, <2>4, AcceptBlockStep
<1>4. ASSUME ClearDownloadState
      PROVE  IInv'
  <2>1. inHand.block \in Blocks
    BY <1>2, <1>4 DEF ClearDownloadState, Work
  <2>2. Fit(MarkBlockAsReceived(t, inHand.block, NoPeer), conn, verified, headerTip)
    BY <1>1, <2>1, FitReceived DEF IInv
  <2>3. /\ UNCHANGED <<conn, leaving, verified, backoff, best, unknown, lastCommon, headerTip, haveData, active>>
        /\ t' \in {t, MarkBlockAsReceived(t, inHand.block, NoPeer)} /\ inHand' = NoWork
    BY <1>4 DEF ClearDownloadState, peerVars, knowledge, chainVars
  <2>4. HandOK'
    BY <2>3 DEF HandOK, NoWork
  <2>5. Fit(t', conn, verified, headerTip)
    BY <2>2, <2>3 DEF IInv
  <2> QED  BY <2>3, <2>4, <2>5, TableStep
<1>5. ASSUME NEW direct \in BOOLEAN, RevertToHeaders(direct)
      PROVE  IInv'
  <2>1. inHand.block \in Blocks /\ inHand.peer \in conn /\ inHand.peer \in Peers
    BY <1>2, <1>5 DEF RevertToHeaders, Work
  <2> QED  BY <1>5, <2>1, HeadersStep DEF RevertToHeaders
<1> QED  BY <1>3, <1>4, <1>5 DEF HandlerNext

(* The active chain follows the downloaded one and does not pass it. *)
LEMMA ActivateBestChainStep ==
    ASSUME IInv, ActivateBestChain
    PROVE  IInv'
<1>1. /\ active < Downloaded /\ active' = active + 1
      /\ inHand' = inHand \/ (inHand.kind # "none" /\ inHand' = Processed)
      /\ UNCHANGED <<t, conn, leaving, verified, backoff, best, unknown, lastCommon, headerTip,
                     haveData>>
  BY DEF ActivateBestChain, peerVars, knowledge
<1>2. Downloaded' = Downloaded /\ Downloaded \in Nat
  BY <1>1, DownloadedType DEF Downloaded
<1>3. PeersOK' /\ ChainOK'
  BY <1>1, <1>2 DEF IInv, PeersOK, ChainOK
<1>4. HandOK'
  <2>1. CASE inHand' = inHand
    BY <1>1, <2>1 DEF IInv, HandOK
  <2>2. CASE inHand.kind # "none" /\ inHand' = Processed
    <3>1. inHand \in Work /\ inHand.peer \in conn
      BY <2>2, WorkInHand DEF IInv
    <3>2. Processed = NoWork \/ Processed = [inHand EXCEPT !.kind = "clear"]
      BY DEF Processed
    <3>3. CASE Processed = NoWork
      BY <2>2, <3>3 DEF HandOK, NoWork
    <3>4. CASE Processed = [inHand EXCEPT !.kind = "clear"]
      <4>1. inHand' \in Work /\ inHand'.peer = inHand.peer
        BY <2>2, <3>1, <3>4 DEF Work
      <4> QED  BY <1>1, <3>1, <4>1 DEF HandOK
    <3> QED  BY <3>2, <3>3, <3>4
  <2> QED  BY <1>1, <2>1, <2>2
<1>5. headerTip \in Int
  BY MaxHeightAssumption DEF IInv, ChainOK, Heights
<1>6. KnowledgeOK'
  BY <1>1, <1>3, <1>5, KnowledgeKept DEF IInv, knowledge
<1> QED  BY <1>1, <1>3, <1>4, <1>6 DEF IInv
=============================================================================
