-------------------------- MODULE BlockTransports --------------------------
(***************************************************************************)
(* Does the download complete?  Block download with a record of the blocks *)
(* asked for over TCP, and of who took the last step: a reservation for    *)
(* UDP puts a block in flight from a peer that was sent no getdata, and a  *)
(* request by the node may change the table in the same way.  The helper   *)
(* knows of a block only once it claimed or reserved it.  Each side is     *)
(* assumed to deliver what it was asked for, and nothing else.             *)
(***************************************************************************)
EXTENDS BlockDownload

VARIABLES
    asked,      \* the blocks in flight that a getdata was sent for
    byHelper    \* the last step was an RPC of the helper

transportVars == <<vars, asked, byHelper>>

StillAsked == {h \in asked : t'.owner[h] = t.owner[h]}

(* What the node puts in flight in this step, also when the UDP window of  *)
(* a block gives way to a getdata to the same peer.  vGetData gets all of  *)
(* it but the block a window is offered for.                               *)
GetDataSent ==
    {h \in Blocks :
        /\ t'.owner[h] # NoPeer
        /\ \A p \in Peers : t'.window[p].block # h
        /\ t'.owner[h] # t.owner[h] \/ \E p \in Peers : t.window[p].block = h}

NodeStep ==
    /\ NodeNext
    /\ asked' = StillAsked \cup GetDataSent
    /\ byHelper' = FALSE

(* No call of the helper sends a getdata. *)
HelperStep ==
    /\ \E p \in HelperPeers, h \in Blocks : HelperNext(p, h)
    /\ asked' = StillAsked
    /\ byHelper' = TRUE

TransportInit == Init /\ asked = {} /\ byHelper = FALSE

TransportNext == NodeStep \/ HelperStep

(* The node's fairness; a call of the helper that happens to change the    *)
(* table as SendMessages would is not the node's turn.                     *)
TransportSpec ==
    /\ TransportInit
    /\ [][TransportNext]_transportVars
    /\ Fairness
    /\ \A p \in Peers : SF_vars(byHelper' = FALSE /\ SendMessages(p))

-----------------------------------------------------------------------------
(* The world at its best: peers come back and announce the chain. *)
PeersReturn ==
    \A p \in Peers : WF_vars(InitializeNode(p)) /\ SF_vars(Headers(p, MaxHeight, FALSE))

(* Peers answer what they were asked, with valid blocks, often enough. *)
PeersAnswer ==
    /\ \A p \in Peers, h \in Blocks : SF_vars(h \in asked /\ t.owner[h] = p /\ Block(p, h))
    /\ \A h \in Blocks : SF_vars(inHand.block = h /\ ProcessNewBlock(TRUE))

(* The helper has h from p to fetch: it claimed the window, or reserved h. *)
Reserved(p, h) ==
    /\ t.owner[h] = p
    /\ h \notin asked
    /\ t.window[p].block = h => t.window[p].claimed

(* The helper verifies transports, claims windows, submits what it got. *)
HelperDelivers ==
    /\ \A p \in HelperPeers :
          /\ WF_vars(p \notin verified /\ SetFastSyncPeerTransportVerified(p, TRUE))
          /\ SF_vars(CanClaim(t, p) /\ byHelper' = TRUE /\ ReserveNextFastSyncBlockInFlight(p))
    /\ \A p \in HelperPeers, h \in Blocks : SF_vars(Reserved(p, h) /\ SubmitBlock(h, TRUE))

TcpSpec == TransportSpec /\ PeersReturn /\ PeersAnswer

UdpSpec == TransportSpec /\ PeersReturn /\ HelperDelivers

-----------------------------------------------------------------------------
Completed == <>[](active = MaxHeight)

(* A disconnection, by the world or by one of the node's timeouts, or the  *)
(* end of a UDP transport.                                                 *)
Interrupted == \E p \in Peers : SetFastSyncPeerTransportVerified(p, FALSE) \/ Disconnect(p)

(* A disconnection that is not due to a timeout of block download. *)
Dropped == \E p \in Peers : Disconnect(p) /\ ~IsTimedOut(p) /\ ~IsStalling(p)

(* The helper gives back a block in flight from p. *)
GivesBack(p) ==
    byHelper' /\ \E h \in Blocks : t.owner[h] = p /\ ReleaseFastSyncBlockInFlight(p, h)

(* With TCP block requests disabled, a helper that claims windows and      *)
(* submits what it claimed downloads the chain: an expired window or the   *)
(* backoff after it blocks nothing for good.                               *)
UdpCompletes == <>[][~Interrupted]_transportVars => Completed

(* A helper that claims and reserves blocks and delivers none of them does *)
(* not keep TCP from downloading the chain, unless it releases for ever or *)
(* connections break for ever.                                             *)
TcpCompletes == <>[][~Interrupted /\ \A p \in Peers : ~GivesBack(p)]_transportVars => Completed

(* Once the helper is gone, whatever it left behind, TCP downloads the     *)
(* chain: its windows expire, its other reservations are ended by the      *)
(* download timeout, which disconnects a peer for blocks it was never      *)
(* asked for, and the peer comes back with nothing reserved.               *)
TcpOutlivesHelper == <>[][~Dropped /\ ~byHelper']_transportVars => Completed

(* The blocks in flight from p outside a UDP window. *)
NotOffered(tt, p) == {h \in Blocks : tt.owner[h] = p /\ tt.window[p].block # h}

(* The helper goes beyond the windows it is offered: it reserves a block   *)
(* without one, by height or by reserve-next, or releases what it did not  *)
(* claim.                                                                  *)
BeyondOffers ==
    \E p \in Peers :
        \/ byHelper' /\ ~(NotOffered(t', p) \subseteq NotOffered(t, p))
        \/ GivesBack(p) /\ ~(t.window[p].claimed /\ t'.window[p].block = NoBlock)

(* net_processing.cpp.agent.md: timeouts and backoff let TCP sync make     *)
(* progress when UDP is not claimed or delivery fails, here also when the  *)
(* helper says so by releasing what it claimed.                            *)
TcpProgressAfterFailure == <>[][~Interrupted /\ ~BeyondOffers]_transportVars => Completed
=============================================================================
