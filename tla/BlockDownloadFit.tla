-------------------------- MODULE BlockDownloadFit --------------------------
(***************************************************************************)
(* The inductive invariant of BlockDownload, and what the operators of the *)
(* model do to its parts: the table, the knowledge of a peer, the chain.   *)
(***************************************************************************)
EXTENDS BlockDownload, InFlightProofs

Limit == MaxInTransit + FastSyncExtra

(* The invariants that concern the table, as a predicate of the table, the *)
(* connected and the verified peers and the header tip.                    *)
Fit(tb, c, v, ht) ==
    /\ TableInv(tb)
    /\ \A h \in Blocks : tb.owner[h] \in c \cup {NoPeer}
    /\ \A p \in Peers : tb.window[p].block # NoBlock => p \in v
    /\ \A p \in Peers : tb.count[p] <= Limit
    /\ \A h \in Blocks : tb.owner[h] # NoPeer => h <= ht

PeersOK ==
    /\ conn \subseteq Peers /\ leaving \subseteq conn /\ verified \subseteq conn
    /\ backoff \in [Peers -> Nat]

ChainOK ==
    /\ headerTip \in Heights /\ haveData \subseteq Blocks
    /\ active \in Nat /\ active <= Downloaded

KnowledgeOK ==
    /\ best \in [Peers -> Heights \cup {Null}]
    /\ unknown \in [Peers -> Blocks \cup {Null}]
    /\ lastCommon \in [Peers -> Int]
    /\ \A p \in Peers : /\ best[p] <= headerTip
                        /\ lastCommon[p] <= Downloaded
                        /\ lastCommon[p] <= best[p]

HandOK == inHand \in Work \cup {NoWork} /\ inHand.peer \in conn \cup {NoPeer}

(* The inductive invariant. *)
IInv == Fit(t, conn, verified, headerTip) /\ PeersOK /\ ChainOK /\ KnowledgeOK /\ HandOK

-----------------------------------------------------------------------------
(* Facts about the operators of the model. *)

LEMMA LimitType == Limit \in Nat /\ MaxInTransit \in Nat /\ FastSyncExtra \in Nat
  BY BoundsAssumption DEF Limit

(* The height of the downloaded chain is a height, and storing blocks      *)
(* never lowers it.                                                        *)
LEMMA DownloadedProperties ==
    ASSUME NEW D, NEW E, D \subseteq E
    PROVE  LET height(S) == Cardinality({h \in Blocks : 1..h \subseteq S})
           IN  height(D) \in Heights /\ height(D) <= height(E)
<1> DEFINE P(S) == {h \in Blocks : 1..h \subseteq S}
<1>1. IsFiniteSet(Blocks)
  BY MaxHeightAssumption, FS_Interval DEF Blocks
<1>2. P(E) \subseteq Blocks /\ P(D) \subseteq P(E)
  OBVIOUS
<1>3. IsFiniteSet(P(E))
  BY <1>1, <1>2, FS_Subset
<1>4. IsFiniteSet(P(D)) /\ Cardinality(P(D)) <= Cardinality(P(E))
  BY <1>2, <1>3, FS_Subset
<1>5. Cardinality(P(D)) \in Nat /\ Cardinality(P(D)) <= Cardinality(Blocks)
  BY <1>1, <1>2, <1>4, FS_CardinalityType, FS_Subset
<1>6. Cardinality(Blocks) = MaxHeight
  BY MaxHeightAssumption, FS_Interval DEF Blocks
<1>7. Cardinality(P(D)) \in Heights
  BY <1>5, <1>6, MaxHeightAssumption DEF Heights
<1> QED  BY <1>4, <1>7

(* A list of first blocks is a list without repetition of blocks of the    *)
(* set, no longer than asked for.                                          *)
LEMMA FirstBlocksProperties ==
    ASSUME NEW S \in SUBSET Blocks, NEW n \in Int, NEW q \in FirstBlocks(S, n)
    PROVE  /\ q \in Seq(Blocks) /\ Injective(q)
           /\ \A i \in 1..Len(q) : q[i] \in S
           /\ Len(q) \in Nat /\ Len(q) <= Greatest(n, 0)
<1> DEFINE m == Least(Greatest(n, 0), Cardinality(S))
<1>1. IsFiniteSet(Blocks)
  BY MaxHeightAssumption, FS_Interval DEF Blocks
<1>2. Cardinality(S) \in Nat
  BY <1>1, FS_Subset, FS_CardinalityType
<1>3. m \in Nat /\ m <= Greatest(n, 0)
  BY <1>2 DEF Least, Greatest
<1>4. q \in [1..m -> S] /\ \A i, j \in DOMAIN q : i < j => q[i] < q[j]
  BY DEF FirstBlocks
<1> HIDE DEF m
<1>5. q \in Seq(Blocks) /\ Len(q) = m /\ DOMAIN q = 1..m
  BY <1>3, <1>4
<1>6. Injective(q)
  <2> SUFFICES ASSUME NEW i \in 1..Len(q), NEW j \in 1..Len(q), q[i] = q[j]
               PROVE  i = j
    BY DEF Injective
  <2>1. q[i] \in Int /\ q[j] \in Int
    BY <1>5, MaxHeightAssumption DEF Blocks
  <2>2. ~(i < j) /\ ~(j < i)
    BY <1>4, <1>5, <2>1
  <2> QED  BY <1>3, <1>5, <2>2
<1> QED  BY <1>3, <1>4, <1>5, <1>6

-----------------------------------------------------------------------------
(* The table operations keep a table fit. *)

LEMMA FitReceived ==
    ASSUME NEW tb, NEW c, NEW v, NEW ht \in Int, Fit(tb, c, v, ht),
           NEW h \in Blocks, NEW from \in Peers \cup {NoPeer}
    PROVE  Fit(MarkBlockAsReceived(tb, h, from), c, v, ht)
<1> DEFINE r == MarkBlockAsReceived(tb, h, from)
<1>1. TableInv(tb)
  BY DEF Fit
<1>2. /\ TableInv(r)
      /\ \A g \in Blocks : r.owner[g] \in {tb.owner[g], NoPeer}
      /\ \A p \in Peers : r.count[p] <= tb.count[p]
      /\ \A p \in Peers : r.window[p] = tb.window[p] \/ r.window[p].block = NoBlock
  BY <1>1, ReceivedConsistent
<1>3. \A p \in Peers : r.count[p] \in Int /\ tb.count[p] \in Int
  BY <1>1, <1>2, TableParts
<1> HIDE DEF r
<1>4. \A p \in Peers : r.count[p] <= Limit
  BY <1>2, <1>3, LimitType DEF Fit
<1> QED  BY <1>2, <1>4 DEF Fit, r

LEMMA FitEnqueue ==
    ASSUME NEW tb, NEW c, NEW v, NEW ht \in Int, Fit(tb, c, v, ht),
           NEW p \in Peers, p \in c, NEW q \in Seq(Blocks), Injective(q),
           \A i \in 1..Len(q) : tb.owner[q[i]] = NoPeer /\ q[i] <= ht,
           tb.count[p] + Len(q) <= Limit
    PROVE  Fit(Enqueue(tb, p, q), c, v, ht)
<1> DEFINE r == Enqueue(tb, p, q)
<1>1. TableInv(tb)
  BY DEF Fit
<1>2. TableInv(r)
  BY <1>1, EnqueueConsistent
<1>3. tb.count \in [Peers -> Int]
  BY <1>1, TableParts
<1>4. /\ r.owner = [h \in Blocks |-> IF h \in Elements(q) THEN p ELSE tb.owner[h]]
      /\ r.count = [tb.count EXCEPT ![p] = tb.count[p] + Len(q)]
      /\ r.window = tb.window
  BY DEF Enqueue
<1> HIDE DEF r
<1>5. \A h \in Elements(q) : h <= ht
  BY DEF Elements
<1>6. \A x \in Peers : r.count[x] <= Limit
  BY <1>3, <1>4 DEF Fit
<1> QED  BY <1>2, <1>4, <1>5, <1>6 DEF Fit, r

LEMMA FitForget ==
    ASSUME NEW tb, NEW c, NEW v, NEW ht \in Int, Fit(tb, c, v, ht), NEW p \in Peers
    PROVE  Fit(ForgetPeer(tb, p), c \ {p}, v \ {p}, ht)
<1> DEFINE r == ForgetPeer(tb, p)
<1>1. TableInv(tb)
  BY DEF Fit
<1>2. TableInv(r) /\ InFlightFrom(r, p) = {}
  BY <1>1, ForgetPeerConsistent
<1>3. tb.count \in [Peers -> Int] /\ tb.window \in [Peers -> Windows]
  BY <1>1, TableParts
<1>4. /\ r.owner = [h \in Blocks |-> IF h \in Elements(tb.queue[p]) THEN NoPeer ELSE tb.owner[h]]
      /\ r.count = [tb.count EXCEPT ![p] = 0]
      /\ r.window = [tb.window EXCEPT ![p] = ClearFastSyncPendingBlock]
  BY DEF ForgetPeer
<1> HIDE DEF r
<1>5. \A h \in Blocks : r.owner[h] # p
  BY <1>2 DEF InFlightFrom
<1>6. \A h \in Blocks : r.owner[h] \in (c \ {p}) \cup {NoPeer}
  BY <1>4, <1>5 DEF Fit
<1>7. \A x \in Peers : r.window[x].block # NoBlock => x \in v \ {p}
  BY <1>3, <1>4 DEF Fit, ClearFastSyncPendingBlock
<1>8. \A x \in Peers : r.count[x] <= Limit
  BY <1>3, <1>4, LimitType DEF Fit
<1>9. \A h \in Blocks : r.owner[h] # NoPeer => h <= ht
  BY <1>4 DEF Fit
<1> QED  BY <1>2, <1>6, <1>7, <1>8, <1>9 DEF Fit, r

(* New connections, verifications and headers do no harm. *)
LEMMA FitGrows ==
    ASSUME NEW tb, NEW c, NEW v, NEW ht \in Int, Fit(tb, c, v, ht),
           NEW d, NEW w, NEW k \in Int, c \subseteq d, v \subseteq w, ht <= k
    PROVE  Fit(tb, d, w, k)
<1>1. \A h \in Blocks : h \in Int
  BY MaxHeightAssumption DEF Blocks
<1>2. \A h \in Blocks : tb.owner[h] # NoPeer => h <= k
  BY <1>1 DEF Fit
<1> QED  BY <1>2 DEF Fit

(* Timers, windows and partial blocks may change while the entries stay. *)
LEMMA FitSameEntries ==
    ASSUME NEW tb, NEW c, NEW v, NEW ht, Fit(tb, c, v, ht), NEW r \in Tables,
           r.owner = tb.owner, r.queue = tb.queue, r.count = tb.count,
           r.downloading = tb.downloading,
           \A p \in Peers : r.window[p].block # NoBlock =>
                                p \in v /\ tb.owner[r.window[p].block] = p,
           \A p \in Peers : r.stalling[p] # NotStalling => tb.count[p] > 0,
           \A h \in Blocks : r.partial[h] # "none" => tb.owner[h] # NoPeer
    PROVE  Fit(r, c, v, ht)
<1>1. QueuesMatchMap(tb) /\ CountersMatch(tb)
  BY DEF Fit, TableInv
<1>2. QueuesMatchMap(r)
  BY <1>1 DEF QueuesMatchMap, InFlightFrom
<1>3. CountersMatch(r)
  BY <1>1 DEF CountersMatch
<1>4. WindowsOwned(r) /\ StallersOwe(r) /\ PartialsInFlight(r)
  BY DEF WindowsOwned, StallersOwe, PartialsInFlight
<1> QED  BY <1>2, <1>3, <1>4 DEF Fit, TableInv

(* MarkBlockAsInFlight, as its callers use it: the block is free. *)
LEMMA FitInFlight ==
    ASSUME NEW tb, NEW c, NEW v, NEW ht \in Int, Fit(tb, c, v, ht),
           NEW p \in Peers, p \in c, NEW h \in Blocks, h <= ht,
           tb.owner[h] = NoPeer, tb.count[p] < Limit
    PROVE  Fit(MarkBlockAsInFlight(tb, p, h), c, v, ht) /\ MarkBlockAsInFlight(tb, p, h).owner[h] = p
<1>1. tb.owner[h] # p
  BY NoPeerAssumption
<1>2. MarkBlockAsInFlight(tb, p, h) = Enqueue(tb, p, <<h>>)
  BY <1>1 DEF MarkBlockAsInFlight, MarkBlockAsReceived
<1>3. /\ <<h>> \in Seq(Blocks) /\ Len(<<h>>) = 1
      /\ \A i \in 1..Len(<<h>>) : i = 1 /\ <<h>>[i] = h
  OBVIOUS
<1>4. Injective(<<h>>) /\ Elements(<<h>>) = {h}
  BY <1>3 DEF Injective, Elements
<1>5. tb.count[p] \in Int
  BY TableParts DEF Fit
<1>6. tb.count[p] + Len(<<h>>) <= Limit
  BY <1>3, <1>5, LimitType
<1>7. Fit(Enqueue(tb, p, <<h>>), c, v, ht)
  BY <1>3, <1>4, <1>6, FitEnqueue, ZenonT(30)
<1>8. Enqueue(tb, p, <<h>>).owner[h] = p
  BY <1>4 DEF Enqueue
<1> QED  BY <1>2, <1>7, <1>8

-----------------------------------------------------------------------------
(* What is known of a peer stays within the headers and the chain. *)

LEMMA BestKnownProperties ==
    ASSUME KnowledgeOK, ChainOK, NEW p \in Peers, NEW ht \in Heights, headerTip <= ht
    PROVE  /\ BestKnown(p, ht) \in Heights \cup {Null}
           /\ best[p] <= BestKnown(p, ht) /\ BestKnown(p, ht) <= ht
<1>1. best[p] \in Heights \cup {Null} /\ unknown[p] \in Blocks \cup {Null} /\ best[p] <= headerTip
  BY DEF KnowledgeOK
<1> QED  BY <1>1, MaxHeightAssumption
         DEF BestKnown, Resolved, Greatest, Heights, Blocks, Null, ChainOK

LEMMA DownloadedType == Downloaded \in Heights /\ Downloaded \in Nat
<1>1. Downloaded \in Heights
  BY DownloadedProperties, ZenonT(30) DEF Downloaded
<1> QED  BY <1>1, MaxHeightAssumption DEF Heights

LEMMA DownloadedGrows ==
    ASSUME haveData \subseteq haveData'
    PROVE  Downloaded \in Nat /\ Downloaded' \in Nat /\ Downloaded <= Downloaded'
<1>1. Downloaded \in Heights /\ Downloaded' \in Heights /\ Downloaded <= Downloaded'
  BY DownloadedProperties, ZenonT(30) DEF Downloaded
<1> QED  BY <1>1, MaxHeightAssumption DEF Heights

LEMMA KnowledgeKept ==
    ASSUME KnowledgeOK, ChainOK, ChainOK', UNCHANGED knowledge,
           headerTip <= headerTip', haveData \subseteq haveData'
    PROVE  KnowledgeOK'
<1>1. Downloaded \in Nat /\ Downloaded' \in Nat /\ Downloaded <= Downloaded'
  BY DownloadedGrows
<1>2. headerTip \in Int /\ headerTip' \in Int
  BY MaxHeightAssumption DEF ChainOK, Heights
<1>3. best' = best /\ unknown' = unknown /\ lastCommon' = lastCommon
  BY DEF knowledge
<1>4. \A p \in Peers : best[p] \in Int /\ lastCommon[p] \in Int
  BY MaxHeightAssumption DEF KnowledgeOK, Heights, Null
<1> QED  BY <1>1, <1>2, <1>3, <1>4 DEF KnowledgeOK

LEMMA KnowledgeUpdated ==
    ASSUME KnowledgeOK, ChainOK, ChainOK', NEW p \in Peers, NEW h \in Blocks,
           headerTip <= headerTip', UpdateBlockAvailability(p, h, headerTip'),
           UNCHANGED <<lastCommon, haveData>>
    PROVE  KnowledgeOK'
<1> DEFINE bk == BestKnown(p, headerTip')
<1>1. /\ bk \in Heights \cup {Null} /\ best[p] <= bk /\ bk <= headerTip'
  BY BestKnownProperties DEF ChainOK
<1>2. headerTip \in Int /\ headerTip' \in Int /\ h \in Heights
  BY MaxHeightAssumption DEF ChainOK, Heights, Blocks
<1>3. /\ best' = [best EXCEPT ![p] = IF h <= headerTip' THEN Greatest(bk, h) ELSE bk]
      /\ unknown' = [unknown EXCEPT ![p] =
                        IF h > headerTip' THEN h ELSE IF Resolved(p, headerTip') THEN Null ELSE @]
  BY DEF UpdateBlockAvailability
<1> HIDE DEF bk
<1> DEFINE nb == IF h <= headerTip' THEN Greatest(bk, h) ELSE bk
<1>4. nb \in Heights \cup {Null} /\ best[p] <= nb /\ nb <= headerTip'
  BY <1>1, <1>2, MaxHeightAssumption DEF Greatest, Heights, Null, KnowledgeOK
<1>5. best' = [best EXCEPT ![p] = nb]
  BY <1>3
<1> HIDE DEF nb
<1>6. unknown' \in [Peers -> Blocks \cup {Null}]
  BY <1>3 DEF KnowledgeOK
<1>7. best' \in [Peers -> Heights \cup {Null}]
  BY <1>4, <1>5 DEF KnowledgeOK
<1>8. Downloaded' = Downloaded
  BY DEF Downloaded
<1>9. ASSUME NEW x \in Peers
      PROVE  best'[x] <= headerTip' /\ lastCommon[x] <= best'[x]
  <2>1. best[x] \in Int /\ lastCommon[x] \in Int /\ best[x] <= headerTip /\ lastCommon[x] <= best[x]
    BY MaxHeightAssumption DEF KnowledgeOK, Heights, Null
  <2>2. CASE x = p
    <3>1. best'[x] = nb /\ nb \in Int
      BY <1>4, <1>5, <2>2, MaxHeightAssumption DEF KnowledgeOK, Heights, Null
    <3> QED  BY <1>2, <1>4, <2>1, <2>2, <3>1
  <2>3. CASE x # p
    BY <1>2, <1>5, <2>1, <2>3 DEF KnowledgeOK
  <2> QED  BY <2>2, <2>3
<1> QED  BY <1>6, <1>7, <1>8, <1>9 DEF KnowledgeOK

LEMMA KnowledgeProcessed ==
    ASSUME KnowledgeOK, ChainOK, NEW p \in Peers, ProcessBlockAvailability(p),
           UNCHANGED chainVars, UNCHANGED lastCommon \/ UpdateLastCommon(p)
    PROVE  KnowledgeOK'
<1> DEFINE bk == BestKnown(p, headerTip)
<1>1. headerTip' = headerTip /\ haveData' = haveData /\ Downloaded' = Downloaded /\ Downloaded \in Nat
  BY DownloadedType DEF chainVars, Downloaded
<1>2. headerTip \in Int
  BY MaxHeightAssumption DEF ChainOK, Heights
<1>3. bk \in Heights \cup {Null} /\ best[p] <= bk /\ bk <= headerTip
  BY <1>2, BestKnownProperties DEF ChainOK
<1>4. best' = [best EXCEPT ![p] = bk]
  BY DEF ProcessBlockAvailability
<1>5. unknown' \in [Peers -> Blocks \cup {Null}]
  BY DEF ProcessBlockAvailability, KnowledgeOK
<1>6. lastCommon' \in [Peers -> Int] /\ \A x \in Peers :
          lastCommon'[x] = lastCommon[x] \/ (x = p /\ lastCommon'[x] <= Downloaded /\ lastCommon'[x] <= bk)
  <2>1. CASE UNCHANGED lastCommon
    BY <2>1 DEF KnowledgeOK
  <2>2. CASE UpdateLastCommon(p) /\ ~Interesting(p)
    BY <2>2 DEF UpdateLastCommon, KnowledgeOK
  <2>3. CASE UpdateLastCommon(p) /\ Interesting(p)
    <3> DEFINE fp == ForkPoint(p)
               lc == Greatest(fp, Least(Downloaded, WalkEnd(p)))
    <3>1. lastCommon[p] \in Int /\ lastCommon[p] <= Downloaded /\ bk \in Int
      BY <1>3, MaxHeightAssumption DEF KnowledgeOK, Heights, Null
    <3>2. fp \in Int /\ fp <= Downloaded /\ fp <= bk
      BY <1>1, <3>1 DEF ForkPoint, Least, ChainOK
    <3>3. WalkEnd(p) \in Int /\ WalkEnd(p) <= bk
      <4>1. Window \in Nat /\ ServeHeight[p] \in Nat
        BY BoundsAssumption, PeerDataAssumption
      <4> HIDE DEF bk, fp
      <4>2. WalkEnd(p) = Least(Least(bk, fp + Window + 1), ServeHeight[p])
        BY DEF WalkEnd, bk, fp
      <4> QED  BY <3>1, <3>2, <4>1, <4>2 DEF Least
    <3> HIDE DEF bk, fp
    <3>4. lc \in Int /\ lc <= Downloaded /\ lc <= bk
      BY <1>1, <3>1, <3>2, <3>3 DEF Least, Greatest
    <3>5. lastCommon' = [lastCommon EXCEPT ![p] = lc]
      BY <2>3 DEF UpdateLastCommon, fp
    <3> HIDE DEF lc
    <3> QED  BY <3>4, <3>5 DEF KnowledgeOK
  <2> QED  BY <2>1, <2>2, <2>3
<1> HIDE DEF bk
<1>7. best' \in [Peers -> Heights \cup {Null}]
  BY <1>3, <1>4 DEF KnowledgeOK
<1>8. ASSUME NEW x \in Peers
      PROVE  best'[x] <= headerTip /\ lastCommon'[x] <= Downloaded /\ lastCommon'[x] <= best'[x]
  <2>1. /\ best[x] \in Int /\ lastCommon[x] \in Int /\ best[x] <= headerTip
        /\ lastCommon[x] <= best[x] /\ lastCommon[x] <= Downloaded
    BY MaxHeightAssumption DEF KnowledgeOK, Heights, Null
  <2>2. CASE x = p
    <3>1. best'[x] = bk /\ bk \in Int
      BY <1>3, <1>4, <2>2, MaxHeightAssumption DEF KnowledgeOK, Heights, Null
    <3> QED  BY <1>2, <1>3, <1>6, <2>1, <2>2, <3>1
  <2>3. CASE x # p
    BY <1>4, <1>6, <2>1, <2>3 DEF KnowledgeOK
  <2> QED  BY <2>2, <2>3
<1> QED  BY <1>1, <1>5, <1>6, <1>7, <1>8 DEF KnowledgeOK

-----------------------------------------------------------------------------
(* Requests, partial blocks, windows and stall timers. *)

(* Blocks appended from a list of first blocks: requests from SendMessages *)
(* and from the direct fetch.                                              *)
LEMMA FitRequests ==
    ASSUME NEW tb, NEW c, NEW v, NEW ht \in Int, Fit(tb, c, v, ht),
           NEW p \in Peers, p \in c, NEW S \in SUBSET Blocks,
           \A h \in S : tb.owner[h] = NoPeer /\ h <= ht,
           NEW n \in Int, n <= 0 \/ tb.count[p] + n <= Limit,
           NEW q \in FirstBlocks(S, n)
    PROVE  /\ Fit(Enqueue(tb, p, q), c, v, ht)
           /\ q \in Seq(Blocks) /\ \A i \in 1..Len(q) : Enqueue(tb, p, q).owner[q[i]] = p
<1>1. /\ q \in Seq(Blocks) /\ Injective(q) /\ \A i \in 1..Len(q) : q[i] \in S
      /\ Len(q) \in Nat /\ Len(q) <= Greatest(n, 0)
  BY FirstBlocksProperties, ZenonT(30)
<1>2. tb.count[p] \in Int /\ tb.count[p] <= Limit
  BY TableParts DEF Fit
<1>3. tb.count[p] + Len(q) <= Limit
  <2> DEFINE k == tb.count[p]
             l == Len(q)
  <2>1. k \in Int /\ k <= Limit /\ (n <= 0 \/ k + n <= Limit)
    BY <1>2
  <2>2. l \in Nat /\ l <= (IF n > 0 THEN n ELSE 0)
    BY <1>1 DEF Greatest
  <2> HIDE DEF k, l
  <2>3. k + l <= Limit
    BY <2>1, <2>2, LimitType
  <2> QED  BY <2>3 DEF k, l
<1>4. Fit(Enqueue(tb, p, q), c, v, ht)
  BY <1>1, <1>3, FitEnqueue
<1>5. \A i \in 1..Len(q) : q[i] \in Elements(q) /\ q[i] \in Blocks
  BY <1>1 DEF Elements
<1>6. \A i \in 1..Len(q) : Enqueue(tb, p, q).owner[q[i]] = p
  BY <1>5 DEF Enqueue
<1> QED  BY <1>1, <1>4, <1>6

LEMMA FitPartial ==
    ASSUME NEW tb, NEW c, NEW v, NEW ht, Fit(tb, c, v, ht),
           NEW h \in Blocks, tb.owner[h] # NoPeer, NEW s \in PartialStates
    PROVE  Fit([tb EXCEPT !.partial[h] = s], c, v, ht)
<1> DEFINE r == [tb EXCEPT !.partial[h] = s]
<1>1. tb \in Tables /\ WindowsOwned(tb) /\ StallersOwe(tb) /\ PartialsInFlight(tb)
  BY DEF Fit, TableInv
<1>2. /\ r.owner = tb.owner /\ r.queue = tb.queue /\ r.count = tb.count
      /\ r.downloading = tb.downloading /\ r.window = tb.window /\ r.stalling = tb.stalling
      /\ r.since = tb.since /\ r.partial = [tb.partial EXCEPT ![h] = s]
  BY <1>1 DEF Tables
<1>3. r \in Tables
  BY <1>1, ZenonT(30) DEF Tables
<1> HIDE DEF r
<1>4. \A p \in Peers : r.window[p].block # NoBlock => p \in v /\ tb.owner[r.window[p].block] = p
  BY <1>1, <1>2 DEF Fit, WindowsOwned
<1>5. \A p \in Peers : r.stalling[p] # NotStalling => tb.count[p] > 0
  BY <1>1, <1>2 DEF StallersOwe
<1>6. \A g \in Blocks : r.partial[g] # "none" => tb.owner[g] # NoPeer
  BY <1>1, <1>2 DEF PartialsInFlight, Tables
<1>7. Fit(r, c, v, ht)
  BY <1>2, <1>3, <1>4, <1>5, <1>6, FitSameEntries, ZenonT(30)
<1> QED  BY <1>7 DEF r

LEMMA FitClaimed ==
    ASSUME NEW tb, NEW c, NEW v, NEW ht, Fit(tb, c, v, ht), NEW p \in Peers,
           NEW w \in Windows, w.block # NoBlock => p \in v /\ tb.owner[w.block] = p
    PROVE  Fit([tb EXCEPT !.window[p] = w], c, v, ht)
<1> DEFINE r == [tb EXCEPT !.window[p] = w]
<1>1. tb \in Tables /\ WindowsOwned(tb) /\ StallersOwe(tb) /\ PartialsInFlight(tb)
  BY DEF Fit, TableInv
<1>2. /\ r.owner = tb.owner /\ r.queue = tb.queue /\ r.count = tb.count
      /\ r.downloading = tb.downloading /\ r.stalling = tb.stalling /\ r.partial = tb.partial
      /\ r.since = tb.since /\ r.window = [tb.window EXCEPT ![p] = w]
  BY <1>1 DEF Tables
<1>3. r \in Tables
  BY <1>1, ZenonT(30) DEF Tables
<1> HIDE DEF r
<1>4. tb.window \in [Peers -> Windows]
  BY <1>1 DEF Tables
<1>5. \A x \in Peers : r.window[x].block # NoBlock => x \in v /\ tb.owner[r.window[x].block] = x
  BY <1>1, <1>2, <1>4 DEF Fit, WindowsOwned
<1>6. \A x \in Peers : r.stalling[x] # NotStalling => tb.count[x] > 0
  BY <1>1, <1>2 DEF StallersOwe
<1>7. \A g \in Blocks : r.partial[g] # "none" => tb.owner[g] # NoPeer
  BY <1>1, <1>2, ZenonT(30) DEF PartialsInFlight
<1>8. Fit(r, c, v, ht)
  BY <1>2, <1>3, <1>5, <1>6, <1>7, FitSameEntries, ZenonT(30)
<1> QED  BY <1>8 DEF r

(* The window of a peer that is un-verified is closed in the same step. *)
LEMMA ReleaseWindow ==
    ASSUME NEW tb, NEW p \in Peers
    PROVE  Release(tb, p, tb.window[p].block).window
               = [tb.window EXCEPT ![p] = ClearFastSyncPendingBlock]
<1> DEFINE w == tb.window
           h == w[p].block
<1>1. Release(tb, p, h).window = IF w[p].block = h
                                 THEN [w EXCEPT ![p] = ClearFastSyncPendingBlock]
                                 ELSE w
  BY DEF Release
<1> QED  BY <1>1

LEMMA OwnersCounted ==
    ASSUME NEW tb, TableInv(tb), NEW h \in Blocks, NEW p \in Peers, tb.owner[h] = p
    PROVE  tb.count[p] > 0
<1>1. h \in Elements(tb.queue[p]) /\ tb.count[p] = Len(tb.queue[p]) /\ tb.queue[p] \in Seq(Blocks)
  BY DEF TableInv, QueuesMatchMap, CountersMatch, InFlightFrom, Tables
<1> QED  BY <1>1 DEF Elements

LEMMA FitStalling ==
    ASSUME NEW tb, NEW c, NEW v, NEW ht, Fit(tb, c, v, ht), NEW p \in Peers, NEW stallers,
           \A s \in stallers : s \in Peers => tb.count[s] > 0
    PROVE  Fit(StartStalling(tb, p, stallers), c, v, ht)
<1> DEFINE st == [s \in Peers |-> IF s \in stallers /\ tb.stalling[s] = NotStalling
                                  THEN 0 ELSE tb.stalling[s]]
           r == [tb EXCEPT !.stalling = st]
<1>1. tb \in Tables /\ WindowsOwned(tb) /\ StallersOwe(tb) /\ PartialsInFlight(tb)
  BY DEF Fit, TableInv
<1>2. st \in [Peers -> Int]
  BY <1>1 DEF Tables
<1>3. \A s \in Peers : st[s] # NotStalling => tb.count[s] > 0
  BY <1>1 DEF StallersOwe
<1>4. StartStalling(tb, p, stallers) \in {tb, r}
  BY DEF StartStalling
<1> HIDE DEF st
<1>5. /\ r.owner = tb.owner /\ r.queue = tb.queue /\ r.count = tb.count
      /\ r.downloading = tb.downloading /\ r.window = tb.window /\ r.partial = tb.partial
      /\ r.since = tb.since /\ r.stalling = st
  BY <1>1 DEF Tables
<1>6. r \in Tables
  BY <1>1, <1>2, ZenonT(30) DEF Tables
<1> HIDE DEF r
<1>7. \A x \in Peers : r.window[x].block # NoBlock => x \in v /\ tb.owner[r.window[x].block] = x
  BY <1>1, <1>5 DEF Fit, WindowsOwned
<1>8. \A x \in Peers : r.stalling[x] # NotStalling => tb.count[x] > 0
  BY <1>3, <1>5
<1>9. \A g \in Blocks : r.partial[g] # "none" => tb.owner[g] # NoPeer
  BY <1>1, <1>5, ZenonT(30) DEF PartialsInFlight
<1>10. Fit(r, c, v, ht)
  BY <1>5, <1>6, <1>7, <1>8, <1>9, FitSameEntries
<1> QED  BY <1>4, <1>10

LEMMA EnqueueOwns ==
    ASSUME NEW tb, NEW p \in Peers, NEW q \in Seq(Blocks)
    PROVE  \A i \in 1..Len(q) : Enqueue(tb, p, q).owner[q[i]] = p
<1>1. \A i \in 1..Len(q) : q[i] \in Blocks /\ q[i] \in Elements(q)
  BY DEF Elements
<1>2. \A h \in Blocks : h \in Elements(q) => Enqueue(tb, p, q).owner[h] = p
  BY DEF Enqueue
<1> QED  BY <1>1, <1>2

(* What FindNextBlocksToDownload returns is free and has a known header. *)
LEMMA DownloadableProperties ==
    ASSUME IInv, NEW tt, NEW p \in Peers
    PROVE  /\ Downloadable(tt, p) \in SUBSET Blocks
           /\ \A h \in Downloadable(tt, p) : tt.owner[h] = NoPeer /\ h <= headerTip
<1>1. /\ headerTip \in Int /\ BestKnown(p, headerTip) \in Int /\ BestKnown(p, headerTip) <= headerTip
  BY BestKnownProperties, MaxHeightAssumption DEF IInv, ChainOK, Heights, Null
<1>2. \A h \in Downloadable(tt, p) : h \in Blocks /\ tt.owner[h] = NoPeer /\ h <= WalkEnd(p)
  BY DEF Downloadable, Free, Missing
<1>3. WalkEnd(p) \in Int /\ WalkEnd(p) <= headerTip
  <2>1. lastCommon[p] \in Int /\ active \in Int
    BY DEF IInv, KnowledgeOK, ChainOK
  <2>2. ForkPoint(p) \in Int
    BY <1>1, <2>1 DEF ForkPoint, Least
  <2>3. Window \in Nat /\ ServeHeight[p] \in Nat
    BY BoundsAssumption, PeerDataAssumption
  <2> QED  BY <1>1, <2>2, <2>3 DEF WalkEnd, Least
<1>4. \A h \in Blocks : h \in Int
  BY MaxHeightAssumption DEF Blocks
<1>5. \A h \in Downloadable(tt, p) : h <= headerTip
  BY <1>1, <1>2, <1>3, <1>4
<1> QED  BY <1>2, <1>5

(* When nobody is connected nothing is in flight, so that the count of     *)
(* downloading peers is back at zero.                                      *)
LEMMA NobodyDownloads ==
    ASSUME NEW tb, TableInv(tb), \A h \in Blocks : tb.owner[h] = NoPeer
    PROVE  tb.downloading = 0
<1>1. \A p \in Peers : tb.count[p] = 0
  <2> SUFFICES ASSUME NEW p \in Peers
               PROVE  tb.count[p] = 0
    OBVIOUS
  <2>1. Elements(tb.queue[p]) = {} /\ tb.count[p] = Len(tb.queue[p]) /\ tb.queue[p] \in Seq(Blocks)
    BY NoPeerAssumption, ZenonT(30) DEF TableInv, QueuesMatchMap, CountersMatch, InFlightFrom, Tables
  <2> DEFINE q == tb.queue[p]
  <2>2. q \in Seq(Blocks) /\ {q[i] : i \in 1..Len(q)} = {} /\ tb.count[p] = Len(q)
    BY <2>1, ZenonT(30) DEF Elements
  <2> HIDE DEF q
  <2>3. Len(q) \in Nat
    BY <2>2
  <2>4. ~(1 <= Len(q))
    <3> SUFFICES ASSUME 1 <= Len(q)
                 PROVE  FALSE
      OBVIOUS
    <3>1. 1 \in 1..Len(q)
      BY <2>3
    <3>2. q[1] \in {q[i] : i \in 1..Len(q)}
      BY <3>1
    <3> QED  BY <2>2, <3>2, ZenonT(30)
  <2>5. Len(q) = 0
    BY <2>3, <2>4
  <2> QED  BY <2>2, <2>5
<1>2. {p \in Peers : tb.count[p] > 0} = {}
  BY <1>1
<1> QED  BY <1>2, FS_EmptySet, ZenonT(30) DEF TableInv, CountersMatch
=============================================================================
