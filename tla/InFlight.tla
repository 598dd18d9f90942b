------------------------------ MODULE InFlight ------------------------------
(***************************************************************************)
(* The table of blocks in flight (src/net_processing.cpp): which peer each *)
(* block is being downloaded from, the per-peer download queues, and the   *)
(* counters and timers that MarkBlockAsReceived and MarkBlockAsInFlight    *)
(* keep next to them.  All of it is guarded by cs_main, so the table is    *)
(* one record and each C++ helper is an operator from a table to a table;  *)
(* a handler composes the helpers it calls.                                *)
(*                                                                         *)
(* Time is kept as distances from now.  A deadline is the time left to it, *)
(* a start time is the age of what it started; one tick lowers the former  *)
(* and raises the latter.                                                  *)
(***************************************************************************)
EXTENDS Integers, Sequences, FiniteSets

CONSTANTS
    Peers,           \* the NodeIds
    NoPeer,          \* no node (nullopt, or -1 for a NodeId)
    MaxHeight        \* the highest block of the header chain

ASSUME NoPeerAssumption == NoPeer \notin Peers
ASSUME PeersAssumption == IsFiniteSet(Peers)
ASSUME MaxHeightAssumption == MaxHeight \in Nat

Blocks == 1..MaxHeight

(* The null hash: the genesis block is never downloaded. *)
NoBlock == 0

(* nStallingSince = 0. *)
NotStalling == -1

(* The UDP window of a peer: hashFastSyncPendingBlock, the time left to    *)
(* nFastSyncPendingUntil and fFastSyncPendingClaimed.                      *)
Windows == [block : Blocks \cup {NoBlock}, until : Int, claimed : BOOLEAN]

ClearFastSyncPendingBlock == [block |-> NoBlock, until |-> 0, claimed |-> FALSE]

PartialStates == {"none", "open", "spent"}

(* owner: mapBlocksInFlight.  queue: vBlocksInFlight.  count:              *)
(* nBlocksInFlight; every caller passes a block index, so each entry has   *)
(* fValidatedHeaders and nBlocksInFlightValidHeaders is the same number.   *)
(* downloading: nPeersWithValidatedDownloads.  since: age of               *)
(* nDownloadingSince.  stalling: age of nStallingSince.  partial: whether  *)
(* an entry has a partialBlock, and whether FillBlock has used it up.      *)
Tables ==
    [owner : [Blocks -> Peers \cup {NoPeer}],
     queue : [Peers -> Seq(Blocks)],
     count : [Peers -> Int],
     downloading : Int,
     since : [Peers -> Nat],
     stalling : [Peers -> Int],
     window : [Peers -> Windows],
     partial : [Blocks -> PartialStates]]

EmptyTable ==
    [owner |-> [h \in Blocks |-> NoPeer],
     queue |-> [p \in Peers |-> <<>>],
     count |-> [p \in Peers |-> 0],
     downloading |-> 0,
     since |-> [p \in Peers |-> 0],
     stalling |-> [p \in Peers |-> NotStalling],
     window |-> [p \in Peers |-> ClearFastSyncPendingBlock],
     partial |-> [h \in Blocks |-> "none"]]

Elements(q) == {q[i] : i \in 1..Len(q)}

(* list::erase at the entry that holds h. *)
Erase(q, h) ==
    LET k == CHOOSE i \in 1..Len(q) : q[i] = h
    IN  [i \in 1..(Len(q) - 1) |-> IF i < k THEN q[i] ELSE q[i + 1]]

InFlightFrom(t, p) == {h \in Blocks : t.owner[h] = p}

(* Mutant of DownloadingAfter: the last entry is looked for one too late. *)
DownloadingMiscounted(t, p) == IF t.count[p] = 0 THEN t.downloading - 1 ELSE t.downloading

(* nPeersWithValidatedDownloads once p has an entry less. *)
DownloadingAfter(t, p) == IF t.count[p] = 1 THEN t.downloading - 1 ELSE t.downloading

(* Mutant of SinceAfter: nDownloadingSince restarts whichever entry goes. *)
SinceRestarted(t, p, h) == [t.since EXCEPT ![p] = 0]

(* nDownloadingSince restarts when the head of the queue goes. *)
SinceAfter(t, p, h) == IF Head(t.queue[p]) = h THEN [t.since EXCEPT ![p] = 0] ELSE t.since

(* Drop h from the queue of p, its owner. *)
Release(t, p, h) ==
    [owner |-> [t.owner EXCEPT ![h] = NoPeer],
     queue |-> [t.queue EXCEPT ![p] = Erase(t.queue[p], h)],
     count |-> [t.count EXCEPT ![p] = @ - 1],
     downloading |-> DownloadingAfter(t, p),
     since |-> SinceAfter(t, p, h),
     stalling |-> [t.stalling EXCEPT ![p] = NotStalling],
     window |-> IF t.window[p].block = h
                THEN [t.window EXCEPT ![p] = ClearFastSyncPendingBlock]
                ELSE t.window,
     partial |-> [t.partial EXCEPT ![h] = "none"]]

(* from is NoPeer for nullopt: release the block whoever owns it.  A block *)
(* that another peer owns is left alone.                                   *)
MarkBlockAsReceived(t, h, from) ==
    IF t.owner[h] # NoPeer /\ from \in {NoPeer, t.owner[h]}
    THEN Release(t, t.owner[h], h)
    ELSE t

(* The value MarkBlockAsReceived returns: somebody was asked for h. *)
WasRequested(t, h) == t.owner[h] # NoPeer

(* Append the free blocks q, in order, to the queue of p. *)
Enqueue(t, p, q) ==
    [owner |-> [h \in Blocks |-> IF h \in Elements(q) THEN p ELSE t.owner[h]],
     queue |-> [t.queue EXCEPT ![p] = @ \o q],
     count |-> [t.count EXCEPT ![p] = @ + Len(q)],
     downloading |-> IF t.count[p] = 0 /\ Len(q) > 0 THEN t.downloading + 1 ELSE t.downloading,
     since |-> IF t.count[p] = 0 /\ Len(q) > 0 THEN [t.since EXCEPT ![p] = 0] ELSE t.since,
     stalling |-> t.stalling,
     window |-> t.window,
     partial |-> t.partial]

(* A block already in flight from p stays as it is; from another peer it   *)
(* is taken over.                                                          *)
MarkBlockAsInFlight(t, p, h) ==
    IF t.owner[h] = p THEN t
    ELSE Enqueue(MarkBlockAsReceived(t, h, NoPeer), p, <<h>>)

(* The in-flight part of FinalizeNode: the entries of p leave the map with *)
(* the state of p.                                                         *)
ForgetPeer(t, p) ==
    [owner |-> [h \in Blocks |-> IF h \in Elements(t.queue[p]) THEN NoPeer ELSE t.owner[h]],
     queue |-> [t.queue EXCEPT ![p] = <<>>],
     count |-> [t.count EXCEPT ![p] = 0],
     downloading |-> IF t.count[p] # 0 THEN t.downloading - 1 ELSE t.downloading,
     since |-> [t.since EXCEPT ![p] = 0],
     stalling |-> [t.stalling EXCEPT ![p] = NotStalling],
     window |-> [t.window EXCEPT ![p] = ClearFastSyncPendingBlock],
     partial |-> [h \in Blocks |-> IF h \in Elements(t.queue[p]) THEN "none" ELSE t.partial[h]]]

-----------------------------------------------------------------------------
(* What the table promises, as predicates of a table. *)

(* Each queue holds exactly the blocks the map gives to its peer, once. *)
QueuesMatchMap(t) ==
    \A p \in Peers :
        /\ Elements(t.queue[p]) = InFlightFrom(t, p)
        /\ \A i, j \in 1..Len(t.queue[p]) : t.queue[p][i] = t.queue[p][j] => i = j

(* The cached counters equal what they count. *)
CountersMatch(t) ==
    /\ \A p \in Peers : t.count[p] = Len(t.queue[p])
    /\ t.downloading = Cardinality({p \in Peers : t.count[p] > 0})

(* The block of an open UDP window is in flight from that very peer. *)
WindowsOwned(t) ==
    \A p \in Peers :
        t.window[p].block # NoBlock => t.owner[t.window[p].block] = p

(* Only a peer that owes a block can be timed as the staller. *)
StallersOwe(t) ==
    \A p \in Peers : t.stalling[p] # NotStalling => t.count[p] > 0

(* A partial block belongs to an entry of the map. *)
PartialsInFlight(t) == \A h \in Blocks : t.partial[h] # "none" => t.owner[h] # NoPeer

TableInv(t) ==
    /\ t \in Tables
    /\ QueuesMatchMap(t)
    /\ CountersMatch(t)
    /\ WindowsOwned(t)
    /\ StallersOwe(t)
    /\ PartialsInFlight(t)
=============================================================================
