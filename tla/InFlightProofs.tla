--------------------------- MODULE InFlightProofs ---------------------------
(***************************************************************************)
(* The helpers of the table of blocks in flight keep its promises, for any *)
(* number of peers and blocks.                                             *)
(***************************************************************************)
EXTENDS InFlight, FiniteSetTheorems, TLAPS

Injective(q) == \A i, j \in 1..Len(q) : q[i] = q[j] => i = j

(* list::erase takes out the one entry that holds h and nothing else. *)
LEMMA EraseProperties ==
    ASSUME NEW q \in Seq(Blocks), Injective(q), NEW h \in Elements(q)
    PROVE  /\ Erase(q, h) \in Seq(Blocks)
           /\ Len(Erase(q, h)) = Len(q) - 1
           /\ Elements(Erase(q, h)) = Elements(q) \ {h}
           /\ Injective(Erase(q, h))
<1> DEFINE k == CHOOSE i \in 1..Len(q) : q[i] = h
           e == [i \in 1..(Len(q) - 1) |-> IF i < k THEN q[i] ELSE q[i + 1]]
<1>1. k \in 1..Len(q) /\ q[k] = h
  BY DEF Elements
<1>2. Len(q) \in Nat /\ \A i \in 1..Len(q) : q[i] \in Blocks
  OBVIOUS
<1> HIDE DEF k
<1>3. e \in Seq(Blocks) /\ Len(e) = Len(q) - 1
  BY <1>1, <1>2
<1>4. \A i \in 1..Len(e) : e[i] = IF i < k THEN q[i] ELSE q[i + 1]
  BY <1>3, ZenonT(30)
<1>5. Erase(q, h) = e
  BY DEF Erase, k
<1> HIDE DEF e
<1>6. Injective(e)
  BY <1>1, <1>2, <1>3, <1>4 DEF Injective
<1>7. ASSUME NEW x \in Elements(e)
      PROVE  x \in Elements(q) \ {h}
  <2>1. PICK i \in 1..Len(e) : x = e[i]
    BY DEF Elements
  <2>2. \E j \in 1..Len(q) : j # k /\ x = q[j]
    <3>1. CASE i < k
      BY <1>1, <1>2, <1>3, <1>4, <2>1, <3>1
    <3>2. CASE ~(i < k)
      <4>1. i + 1 \in 1..Len(q) /\ i + 1 # k /\ x = q[i + 1]
        BY <1>1, <1>2, <1>3, <1>4, <2>1, <3>2
      <4> QED  BY <4>1
    <3> QED  BY <3>1, <3>2
  <2> QED  BY <1>1, <2>2 DEF Elements, Injective
<1>8. ASSUME NEW x \in Elements(q) \ {h}
      PROVE  x \in Elements(e)
  <2>1. PICK i \in 1..Len(q) : x = q[i]
    BY DEF Elements
  <2>2. i # k
    BY <1>1, <2>1
  <2>3. CASE i < k
    <3>1. i \in 1..Len(e) /\ e[i] = x
      BY <1>1, <1>2, <1>3, <1>4, <2>1, <2>3
    <3> QED  BY <3>1 DEF Elements
  <2>4. CASE i > k
    <3>1. i - 1 \in 1..Len(e) /\ e[i - 1] = x
      BY <1>1, <1>2, <1>3, <1>4, <2>1, <2>4
    <3> QED  BY <3>1 DEF Elements
  <2> QED  BY <1>1, <1>2, <2>2, <2>3, <2>4
<1> QED  BY <1>3, <1>5, <1>6, <1>7, <1>8

(* Appending free blocks adds exactly those. *)
LEMMA AppendAllProperties ==
    ASSUME NEW q \in Seq(Blocks), Injective(q), NEW r \in Seq(Blocks), Injective(r),
           Elements(q) \cap Elements(r) = {}
    PROVE  /\ q \o r \in Seq(Blocks)
           /\ Len(q \o r) = Len(q) + Len(r)
           /\ Elements(q \o r) = Elements(q) \cup Elements(r)
           /\ Injective(q \o r)
<1> DEFINE s == q \o r
<1>1. /\ s \in Seq(Blocks)
      /\ Len(s) = Len(q) + Len(r)
      /\ Len(q) \in Nat /\ Len(r) \in Nat
      /\ \A i \in 1..Len(s) : s[i] = IF i <= Len(q) THEN q[i] ELSE r[i - Len(q)]
  OBVIOUS
<1> HIDE DEF s
<1>2. ASSUME NEW x \in Elements(s)
      PROVE  x \in Elements(q) \cup Elements(r)
  <2>1. PICK i \in 1..Len(s) : x = s[i]
    BY DEF Elements
  <2>2. CASE i <= Len(q)
    BY <1>1, <2>1, <2>2 DEF Elements
  <2>3. CASE ~(i <= Len(q))
    <3>1. i - Len(q) \in 1..Len(r) /\ x = r[i - Len(q)]
      BY <1>1, <2>1, <2>3
    <3> QED  BY <3>1 DEF Elements
  <2> QED  BY <2>2, <2>3
<1>3. ASSUME NEW x \in Elements(q) \cup Elements(r)
      PROVE  x \in Elements(s)
  <2>1. CASE x \in Elements(q)
    <3>1. PICK i \in 1..Len(q) : x = q[i]
      BY <2>1 DEF Elements
    <3>2. i \in 1..Len(s) /\ s[i] = x
      BY <1>1, <3>1
    <3> QED  BY <3>2 DEF Elements
  <2>2. CASE x \in Elements(r)
    <3>1. PICK i \in 1..Len(r) : x = r[i]
      BY <2>2 DEF Elements
    <3>2. i + Len(q) \in 1..Len(s) /\ ~(i + Len(q) <= Len(q)) /\ (i + Len(q)) - Len(q) = i
      BY <1>1
    <3>3. s[i + Len(q)] = x
      BY <1>1, <3>1, <3>2
    <3> QED  BY <3>2, <3>3 DEF Elements
  <2> QED  BY <2>1, <2>2
<1>4. Injective(s)
  <2> SUFFICES ASSUME NEW i \in 1..Len(s), NEW j \in 1..Len(s), s[i] = s[j]
               PROVE  i = j
    BY DEF Injective
  <2>1. CASE i <= Len(q) /\ j <= Len(q)
    BY <1>1, <2>1 DEF Injective
  <2>2. CASE i > Len(q) /\ j > Len(q)
    <3>1. i - Len(q) \in 1..Len(r) /\ j - Len(q) \in 1..Len(r) /\ r[i - Len(q)] = r[j - Len(q)]
      BY <1>1, <2>2
    <3>2. i - Len(q) = j - Len(q)
      BY <3>1 DEF Injective
    <3> QED  BY <1>1, <3>2
  <2>3. CASE i <= Len(q) /\ j > Len(q)
    <3>1. i \in 1..Len(q) /\ j - Len(q) \in 1..Len(r) /\ q[i] = r[j - Len(q)]
      BY <1>1, <2>3
    <3> QED  BY <3>1, ZenonT(30) DEF Elements
  <2>4. CASE i > Len(q) /\ j <= Len(q)
    <3>1. j \in 1..Len(q) /\ i - Len(q) \in 1..Len(r) /\ q[j] = r[i - Len(q)]
      BY <1>1, <2>4
    <3> QED  BY <3>1, ZenonT(30) DEF Elements
  <2> QED  BY <1>1, <2>1, <2>2, <2>3, <2>4
<1> QED  BY <1>1, <1>2, <1>3, <1>4 DEF s

-----------------------------------------------------------------------------
Busy(c) == {p \in Peers : c[p] > 0}

(* nPeersWithValidatedDownloads moves with the counter of one peer. *)
LEMMA BusyProperties ==
    ASSUME NEW c \in [Peers -> Int], NEW p \in Peers, NEW n \in Int
    PROVE  /\ Cardinality(Busy(c)) \in Nat
           /\ n > 0 /\ c[p] <= 0 =>
                Cardinality(Busy([c EXCEPT ![p] = n])) = Cardinality(Busy(c)) + 1
           /\ n <= 0 /\ c[p] > 0 =>
                Cardinality(Busy([c EXCEPT ![p] = n])) = Cardinality(Busy(c)) - 1
           /\ (n > 0 <=> c[p] > 0) => Busy([c EXCEPT ![p] = n]) = Busy(c)
<1>1. IsFiniteSet(Busy(c))
  BY PeersAssumption, FS_Subset DEF Busy
<1>2. Cardinality(Busy(c)) \in Nat
  BY <1>1, FS_CardinalityType
<1>3. ASSUME n > 0, c[p] <= 0
      PROVE  Cardinality(Busy([c EXCEPT ![p] = n])) = Cardinality(Busy(c)) + 1
  <2>1. Busy([c EXCEPT ![p] = n]) = Busy(c) \cup {p} /\ p \notin Busy(c)
    BY <1>3 DEF Busy
  <2> QED  BY <1>1, <2>1, FS_AddElement, ZenonT(30)
<1>4. ASSUME n <= 0, c[p] > 0
      PROVE  Cardinality(Busy([c EXCEPT ![p] = n])) = Cardinality(Busy(c)) - 1
  <2>1. Busy([c EXCEPT ![p] = n]) = Busy(c) \ {p} /\ p \in Busy(c)
    BY <1>4 DEF Busy
  <2> QED  BY <1>1, <2>1, FS_RemoveElement, ZenonT(30)
<1>5. ASSUME n > 0 <=> c[p] > 0
      PROVE  Busy([c EXCEPT ![p] = n]) = Busy(c)
  BY <1>5 DEF Busy
<1> QED  BY <1>2, <1>3, <1>4, <1>5, Zenon

(* Nothing is in flight at startup, and the table is consistent. *)
LEMMA EmptyTableConsistent == TableInv(EmptyTable)
<1> DEFINE e == EmptyTable
<1>1. e \in Tables
  BY DEF EmptyTable, Tables, PartialStates, Windows, ClearFastSyncPendingBlock, NotStalling, NoBlock
<1>2. QueuesMatchMap(e)
  BY NoPeerAssumption DEF EmptyTable, QueuesMatchMap, Elements, InFlightFrom
<1>3. CountersMatch(e)
  <2>1. {p \in Peers : e.count[p] > 0} = {}
    BY DEF EmptyTable
  <2>2. \A p \in Peers : e.count[p] = Len(e.queue[p])
    BY DEF EmptyTable
  <2> QED  BY <2>1, <2>2, FS_EmptySet DEF EmptyTable, CountersMatch
<1>4. WindowsOwned(e) /\ StallersOwe(e) /\ PartialsInFlight(e)
  BY DEF EmptyTable, WindowsOwned, StallersOwe, PartialsInFlight, ClearFastSyncPendingBlock
<1> QED  BY <1>1, <1>2, <1>3, <1>4 DEF TableInv

(* Releasing a block keeps the map, the queue and every counter in step    *)
(* (MarkBlockAsReceived, past its early returns).                          *)
LEMMA ReleaseConsistent ==
    ASSUME NEW tb, TableInv(tb), NEW p \in Peers, NEW h \in Blocks, tb.owner[h] = p
    PROVE  TableInv(Release(tb, p, h))
<1> DEFINE r == Release(tb, p, h)
<1>1. /\ tb \in Tables
      /\ QueuesMatchMap(tb) /\ CountersMatch(tb)
      /\ WindowsOwned(tb) /\ StallersOwe(tb) /\ PartialsInFlight(tb)
  BY DEF TableInv
<1>2. /\ tb.owner \in [Blocks -> Peers \cup {NoPeer}]
      /\ tb.queue \in [Peers -> Seq(Blocks)]
      /\ tb.count \in [Peers -> Int]
      /\ tb.downloading \in Int
      /\ tb.since \in [Peers -> Nat]
      /\ tb.stalling \in [Peers -> Int]
      /\ tb.window \in [Peers -> Windows]
      /\ tb.partial \in [Blocks -> PartialStates]
  BY <1>1 DEF Tables
<1>3. tb.queue[p] \in Seq(Blocks) /\ Injective(tb.queue[p]) /\ h \in Elements(tb.queue[p])
  BY <1>1, <1>2 DEF QueuesMatchMap, InFlightFrom, Injective
<1> DEFINE q == Erase(tb.queue[p], h)
<1>4. /\ q \in Seq(Blocks)
      /\ Len(q) = Len(tb.queue[p]) - 1
      /\ Elements(q) = Elements(tb.queue[p]) \ {h}
      /\ Injective(q)
  BY <1>3, EraseProperties
<1> HIDE DEF q
<1>5. /\ r.owner = [tb.owner EXCEPT ![h] = NoPeer]
      /\ r.queue = [tb.queue EXCEPT ![p] = q]
      /\ r.count = [tb.count EXCEPT ![p] = tb.count[p] - 1]
      /\ r.downloading = IF tb.count[p] = 1 THEN tb.downloading - 1 ELSE tb.downloading
      /\ r.since = IF Head(tb.queue[p]) = h THEN [tb.since EXCEPT ![p] = 0] ELSE tb.since
      /\ r.stalling = [tb.stalling EXCEPT ![p] = NotStalling]
      /\ r.window = IF tb.window[p].block = h
                    THEN [tb.window EXCEPT ![p] = ClearFastSyncPendingBlock]
                    ELSE tb.window
      /\ r.partial = [tb.partial EXCEPT ![h] = "none"]
      /\ r = [owner |-> r.owner, queue |-> r.queue, count |-> r.count,
              downloading |-> r.downloading, since |-> r.since, stalling |-> r.stalling,
              window |-> r.window, partial |-> r.partial]
  BY DEF Release, DownloadingAfter, SinceAfter, q
<1> HIDE DEF r
<1>6. r \in Tables
  <2>1. r.owner \in [Blocks -> Peers \cup {NoPeer}] /\ r.queue \in [Peers -> Seq(Blocks)]
    BY <1>2, <1>4, <1>5
  <2>2. r.count \in [Peers -> Int] /\ r.downloading \in Int
    BY <1>2, <1>5
  <2>3. r.since \in [Peers -> Nat] /\ r.stalling \in [Peers -> Int]
    BY <1>2, <1>5 DEF NotStalling
  <2>4. ClearFastSyncPendingBlock \in Windows
    BY DEF ClearFastSyncPendingBlock, Windows, NoBlock
  <2>5. r.window \in [Peers -> Windows]
    BY <1>2, <1>5, <2>4
  <2>6. r.partial \in [Blocks -> PartialStates]
    BY <1>2, <1>5 DEF PartialStates
  <2> QED  BY <1>5, <2>1, <2>2, <2>3, <2>5, <2>6, ZenonT(30) DEF Tables
<1>7. QueuesMatchMap(r)
  <2> SUFFICES ASSUME NEW x \in Peers
               PROVE  Elements(r.queue[x]) = InFlightFrom(r, x) /\ Injective(r.queue[x])
    BY DEF QueuesMatchMap, Injective
  <2>1. InFlightFrom(r, x) = InFlightFrom(tb, x) \ {h}
    BY <1>2, <1>5, NoPeerAssumption DEF InFlightFrom
  <2>2. CASE x = p
    BY <1>1, <1>2, <1>4, <1>5, <2>1, <2>2 DEF QueuesMatchMap
  <2>3. CASE x # p
    <3>1. r.queue[x] = tb.queue[x] /\ h \notin InFlightFrom(tb, x)
      BY <1>2, <1>5, <2>3 DEF InFlightFrom
    <3> QED  BY <1>1, <2>1, <3>1 DEF QueuesMatchMap, Injective
  <2> QED  BY <2>2, <2>3
<1>8. tb.count[p] = Len(tb.queue[p]) /\ tb.count[p] \in Nat /\ tb.count[p] # 0
  <2>1. Len(tb.queue[p]) \in Nat /\ Len(tb.queue[p]) # 0
    BY <1>3 DEF Elements
  <2> QED  BY <1>1, <2>1 DEF CountersMatch
<1>9. CountersMatch(r)
  <2>1. \A x \in Peers : r.count[x] = Len(r.queue[x])
    BY <1>1, <1>2, <1>4, <1>5, <1>8 DEF CountersMatch
  <2>2. tb.downloading = Cardinality(Busy(tb.count))
    BY <1>1 DEF CountersMatch, Busy
  <2>3. r.downloading = Cardinality(Busy(r.count))
    <3> DEFINE c == tb.count
               n == tb.count[p] - 1
    <3>0. r.count = [c EXCEPT ![p] = n]
      BY <1>5, Zenon
    <3>1. c \in [Peers -> Int] /\ n \in Int
      BY <1>2
    <3>2. /\ n <= 0 /\ c[p] > 0 => Cardinality(Busy([c EXCEPT ![p] = n])) = Cardinality(Busy(c)) - 1
          /\ (n > 0 <=> c[p] > 0) => Busy([c EXCEPT ![p] = n]) = Busy(c)
      BY <3>1, BusyProperties
    <3>3. r.downloading = IF n = 0 THEN tb.downloading - 1 ELSE tb.downloading
      BY <1>5, <1>8
    <3>4. c[p] = n + 1 /\ c[p] > 0
      BY <1>8, <3>1
    <3> HIDE DEF c, n
    <3>5. CASE n = 0
      <4>1. n <= 0
        BY <3>5
      <4> QED  BY <2>2, <3>0, <3>2, <3>3, <3>4, <3>5, <4>1 DEF c
    <3>6. CASE n # 0
      <4>1. n > 0
        BY <3>1, <3>4, <3>6
      <4> QED  BY <2>2, <3>0, <3>2, <3>3, <3>4, <3>6, <4>1 DEF c
    <3> QED  BY <3>5, <3>6
  <2> QED  BY <2>1, <2>3 DEF CountersMatch, Busy
<1>10. WindowsOwned(r)
  <2> SUFFICES ASSUME NEW x \in Peers, r.window[x].block # NoBlock
               PROVE  r.owner[r.window[x].block] = x
    BY DEF WindowsOwned
  <2>1. r.window[x] = tb.window[x] /\ tb.window[x].block # h
    <3>1. CASE x = p
      BY <1>2, <1>5, <3>1 DEF ClearFastSyncPendingBlock
    <3>2. CASE x # p
      BY <1>1, <1>2, <1>5, <3>2 DEF WindowsOwned, NoBlock, Blocks
    <3> QED  BY <3>1, <3>2
  <2>2. tb.window[x].block \in Blocks
    BY <1>2, <2>1 DEF Windows
  <2> QED  BY <1>1, <1>2, <1>5, <2>1, <2>2 DEF WindowsOwned
<1>11. StallersOwe(r)
  BY <1>1, <1>2, <1>5 DEF StallersOwe
<1>12. PartialsInFlight(r)
  BY <1>1, <1>2, <1>5 DEF PartialsInFlight
<1> QED  BY <1>6, <1>7, <1>9, <1>10, <1>11, <1>12 DEF TableInv, r

(* The parts of a consistent table, for the lemmas below. *)
LEMMA TableParts ==
    ASSUME NEW tb, TableInv(tb)
    PROVE  /\ tb.owner \in [Blocks -> Peers \cup {NoPeer}]
           /\ tb.queue \in [Peers -> Seq(Blocks)]
           /\ tb.count \in [Peers -> Int]
           /\ tb.downloading \in Int
           /\ tb.since \in [Peers -> Nat]
           /\ tb.stalling \in [Peers -> Int]
           /\ tb.window \in [Peers -> Windows]
           /\ tb.partial \in [Blocks -> PartialStates]
           /\ tb = [owner |-> tb.owner, queue |-> tb.queue, count |-> tb.count,
                    downloading |-> tb.downloading, since |-> tb.since,
                    stalling |-> tb.stalling, window |-> tb.window, partial |-> tb.partial]
           /\ QueuesMatchMap(tb) /\ CountersMatch(tb)
           /\ WindowsOwned(tb) /\ StallersOwe(tb) /\ PartialsInFlight(tb)
           /\ \A p \in Peers : tb.count[p] = Len(tb.queue[p]) /\ tb.count[p] \in Nat
<1>1. tb \in Tables
  BY DEF TableInv
<1>2. /\ QueuesMatchMap(tb) /\ CountersMatch(tb)
      /\ WindowsOwned(tb) /\ StallersOwe(tb) /\ PartialsInFlight(tb)
  BY DEF TableInv
<1>3. tb.queue \in [Peers -> Seq(Blocks)]
  BY <1>1 DEF Tables
<1>4. \A p \in Peers : tb.count[p] = Len(tb.queue[p]) /\ tb.count[p] \in Nat
  BY <1>2, <1>3 DEF CountersMatch
<1> QED  BY <1>1, <1>2, <1>4 DEF Tables

(* Requesting free blocks keeps them in step (MarkBlockAsInFlight, run     *)
(* over the blocks of one getdata message).                                *)
LEMMA EnqueueConsistent ==
    ASSUME NEW tb, TableInv(tb), NEW p \in Peers, NEW q \in Seq(Blocks), Injective(q),
           \A i \in 1..Len(q) : tb.owner[q[i]] = NoPeer
    PROVE  TableInv(Enqueue(tb, p, q))
<1> DEFINE r == Enqueue(tb, p, q)
           s == tb.queue[p] \o q
<1>1. /\ tb.owner \in [Blocks -> Peers \cup {NoPeer}]
      /\ tb.queue \in [Peers -> Seq(Blocks)]
      /\ tb.count \in [Peers -> Int]
      /\ tb.downloading \in Int
      /\ tb.since \in [Peers -> Nat]
      /\ tb.stalling \in [Peers -> Int]
      /\ tb.window \in [Peers -> Windows]
      /\ tb.partial \in [Blocks -> PartialStates]
  BY TableParts
<1>2. /\ QueuesMatchMap(tb) /\ CountersMatch(tb)
      /\ WindowsOwned(tb) /\ StallersOwe(tb) /\ PartialsInFlight(tb)
      /\ \A x \in Peers : tb.count[x] = Len(tb.queue[x]) /\ tb.count[x] \in Nat
  BY TableParts
<1>3. \A h \in Elements(q) : h \in Blocks /\ tb.owner[h] = NoPeer
  BY DEF Elements
<1>4. Len(q) \in Nat /\ (Len(q) = 0 => Elements(q) = {})
  BY DEF Elements
<1>5. /\ s \in Seq(Blocks)
      /\ Len(s) = Len(tb.queue[p]) + Len(q)
      /\ Elements(s) = Elements(tb.queue[p]) \cup Elements(q)
      /\ Injective(s)
  <2>1. tb.queue[p] \in Seq(Blocks) /\ Injective(tb.queue[p])
    BY <1>1, <1>2, ZenonT(30) DEF QueuesMatchMap, Injective
  <2>2. Elements(tb.queue[p]) = InFlightFrom(tb, p)
    BY <1>2 DEF QueuesMatchMap
  <2>3. Elements(tb.queue[p]) \cap Elements(q) = {}
    BY <1>3, <2>2, NoPeerAssumption DEF InFlightFrom
  <2> QED  BY <2>1, <2>3, AppendAllProperties
<1> HIDE DEF s
<1>6. /\ r.owner = [h \in Blocks |-> IF h \in Elements(q) THEN p ELSE tb.owner[h]]
      /\ r.queue = [tb.queue EXCEPT ![p] = s]
      /\ r.count = [tb.count EXCEPT ![p] = tb.count[p] + Len(q)]
      /\ r.downloading = IF tb.count[p] = 0 /\ Len(q) > 0
                         THEN tb.downloading + 1 ELSE tb.downloading
      /\ r.since = IF tb.count[p] = 0 /\ Len(q) > 0 THEN [tb.since EXCEPT ![p] = 0] ELSE tb.since
      /\ r.stalling = tb.stalling
      /\ r.window = tb.window
      /\ r.partial = tb.partial
      /\ r = [owner |-> r.owner, queue |-> r.queue, count |-> r.count,
              downloading |-> r.downloading, since |-> r.since, stalling |-> r.stalling,
              window |-> r.window, partial |-> r.partial]
  BY DEF Enqueue, s
<1> HIDE DEF r
<1>7. r \in Tables
  <2>1. r.owner \in [Blocks -> Peers \cup {NoPeer}] /\ r.queue \in [Peers -> Seq(Blocks)]
    BY <1>1, <1>5, <1>6
  <2>2. r.count \in [Peers -> Int] /\ r.downloading \in Int /\ r.since \in [Peers -> Nat]
    BY <1>1, <1>4, <1>6
  <2> QED  BY <1>1, <1>6, <2>1, <2>2, ZenonT(30) DEF Tables
<1>8. QueuesMatchMap(r)
  <2> SUFFICES ASSUME NEW x \in Peers
               PROVE  Elements(r.queue[x]) = InFlightFrom(r, x) /\ Injective(r.queue[x])
    BY DEF QueuesMatchMap, Injective
  <2>0. Elements(tb.queue[x]) = InFlightFrom(tb, x) /\ Injective(tb.queue[x])
    BY <1>2 DEF QueuesMatchMap, Injective
  <2>1. CASE x = p
    <3>1. InFlightFrom(r, x) = InFlightFrom(tb, x) \cup Elements(q)
      BY <1>1, <1>3, <1>6, <2>1 DEF InFlightFrom
    <3> QED  BY <1>1, <1>5, <1>6, <2>0, <2>1, <3>1
  <2>2. CASE x # p
    <3>1. InFlightFrom(r, x) = InFlightFrom(tb, x)
      BY <1>1, <1>3, <1>6, <2>2, NoPeerAssumption DEF InFlightFrom
    <3> QED  BY <1>1, <1>6, <2>0, <2>2, <3>1
  <2> QED  BY <2>1, <2>2
<1>9. CountersMatch(r)
  <2>1. \A x \in Peers : r.count[x] = Len(r.queue[x])
    BY <1>1, <1>2, <1>4, <1>5, <1>6, ZenonT(30)
  <2>2. tb.downloading = Cardinality(Busy(tb.count))
    BY <1>2 DEF CountersMatch, Busy
  <2>3. r.downloading = Cardinality(Busy(r.count))
    <3> DEFINE c == tb.count
               n == tb.count[p] + Len(q)
    <3>1. r.count = [c EXCEPT ![p] = n]
      BY <1>6, Zenon
    <3>2. c \in [Peers -> Int] /\ n \in Int /\ c[p] >= 0
      BY <1>1, <1>2, <1>4
    <3>3. /\ n > 0 /\ c[p] <= 0 => Cardinality(Busy([c EXCEPT ![p] = n])) = Cardinality(Busy(c)) + 1
          /\ (n > 0 <=> c[p] > 0) => Busy([c EXCEPT ![p] = n]) = Busy(c)
      BY <3>2, BusyProperties
    <3>4. r.downloading = IF n > 0 /\ c[p] <= 0 THEN tb.downloading + 1 ELSE tb.downloading
      BY <1>2, <1>4, <1>6, <3>2
    <3>5. (n > 0 /\ c[p] <= 0) \/ (n > 0 <=> c[p] > 0)
      BY <1>4, <3>2
    <3> HIDE DEF c, n
    <3>6. CASE n > 0 /\ c[p] <= 0
      BY <2>2, <3>1, <3>3, <3>4, <3>6 DEF c
    <3>7. CASE ~(n > 0 /\ c[p] <= 0)
      BY <2>2, <3>1, <3>3, <3>4, <3>5, <3>7 DEF c
    <3> QED  BY <3>6, <3>7
  <2> QED  BY <2>1, <2>3 DEF CountersMatch, Busy
<1>10. WindowsOwned(r)
  <2> SUFFICES ASSUME NEW x \in Peers, tb.window[x].block # NoBlock
               PROVE  r.owner[tb.window[x].block] = x
    BY <1>6 DEF WindowsOwned
  <2>1. tb.window[x].block \in Blocks /\ tb.owner[tb.window[x].block] = x
    BY <1>1, <1>2 DEF Windows, WindowsOwned
  <2> QED  BY <1>3, <1>6, <2>1, NoPeerAssumption
<1>11. StallersOwe(r)
  <2> SUFFICES ASSUME NEW x \in Peers, tb.stalling[x] # NotStalling
               PROVE  r.count[x] > 0
    BY <1>6 DEF StallersOwe
  <2>1. tb.count[x] > 0
    BY <1>2 DEF StallersOwe
  <2> QED  BY <1>1, <1>2, <1>4, <1>6, <2>1
<1>12. PartialsInFlight(r)
  BY <1>2, <1>6, NoPeerAssumption DEF PartialsInFlight
<1> QED  BY <1>7, <1>8, <1>9, <1>10, <1>11, <1>12 DEF TableInv, r

(* A peer that leaves takes its entries and its share of every counter     *)
(* with it (FinalizeNode).                                                 *)
LEMMA ForgetPeerConsistent ==
    ASSUME NEW tb, TableInv(tb), NEW p \in Peers
    PROVE  TableInv(ForgetPeer(tb, p)) /\ InFlightFrom(ForgetPeer(tb, p), p) = {}
<1> DEFINE r == ForgetPeer(tb, p)
<1>1. /\ tb.owner \in [Blocks -> Peers \cup {NoPeer}]
      /\ tb.queue \in [Peers -> Seq(Blocks)]
      /\ tb.count \in [Peers -> Int]
      /\ tb.downloading \in Int
      /\ tb.since \in [Peers -> Nat]
      /\ tb.stalling \in [Peers -> Int]
      /\ tb.window \in [Peers -> Windows]
      /\ tb.partial \in [Blocks -> PartialStates]
  BY TableParts
<1>2. /\ QueuesMatchMap(tb) /\ CountersMatch(tb)
      /\ WindowsOwned(tb) /\ StallersOwe(tb) /\ PartialsInFlight(tb)
      /\ \A x \in Peers : tb.count[x] = Len(tb.queue[x]) /\ tb.count[x] \in Nat
  BY TableParts
<1>3. Elements(tb.queue[p]) = InFlightFrom(tb, p)
  BY <1>2 DEF QueuesMatchMap
<1>4. \A h \in Blocks : h \in Elements(tb.queue[p]) <=> tb.owner[h] = p
  BY <1>3 DEF InFlightFrom
<1>5. /\ r.owner = [h \in Blocks |-> IF h \in Elements(tb.queue[p]) THEN NoPeer ELSE tb.owner[h]]
      /\ r.queue = [tb.queue EXCEPT ![p] = <<>>]
      /\ r.count = [tb.count EXCEPT ![p] = 0]
      /\ r.downloading = IF tb.count[p] # 0 THEN tb.downloading - 1 ELSE tb.downloading
      /\ r.since = [tb.since EXCEPT ![p] = 0]
      /\ r.stalling = [tb.stalling EXCEPT ![p] = NotStalling]
      /\ r.window = [tb.window EXCEPT ![p] = ClearFastSyncPendingBlock]
      /\ r.partial = [h \in Blocks |-> IF h \in Elements(tb.queue[p]) THEN "none" ELSE tb.partial[h]]
      /\ r = [owner |-> r.owner, queue |-> r.queue, count |-> r.count,
              downloading |-> r.downloading, since |-> r.since, stalling |-> r.stalling,
              window |-> r.window, partial |-> r.partial]
  BY DEF ForgetPeer
<1> HIDE DEF r
<1>6. r \in Tables
  <2>1. ClearFastSyncPendingBlock \in Windows
    BY DEF ClearFastSyncPendingBlock, Windows, NoBlock
  <2>2. r.owner \in [Blocks -> Peers \cup {NoPeer}] /\ r.queue \in [Peers -> Seq(Blocks)]
    BY <1>1, <1>5
  <2>3. r.count \in [Peers -> Int] /\ r.downloading \in Int /\ r.since \in [Peers -> Nat]
    BY <1>1, <1>5
  <2>4. r.stalling \in [Peers -> Int] /\ r.window \in [Peers -> Windows]
    BY <1>1, <1>5, <2>1 DEF NotStalling
  <2>5. r.partial \in [Blocks -> PartialStates]
    BY <1>1, <1>5 DEF PartialStates
  <2> QED  BY <1>5, <2>2, <2>3, <2>4, <2>5, ZenonT(30) DEF Tables
<1>7. \A h \in Blocks : r.owner[h] = IF tb.owner[h] = p THEN NoPeer ELSE tb.owner[h]
  BY <1>4, <1>5
<1>8. QueuesMatchMap(r)
  <2> SUFFICES ASSUME NEW x \in Peers
               PROVE  Elements(r.queue[x]) = InFlightFrom(r, x) /\ Injective(r.queue[x])
    BY DEF QueuesMatchMap, Injective
  <2>1. CASE x = p
    <3>1. r.queue[x] = <<>>
      BY <1>1, <1>5, <2>1
    <3>2. InFlightFrom(r, x) = {}
      BY <1>7, <2>1, NoPeerAssumption DEF InFlightFrom
    <3> QED  BY <3>1, <3>2 DEF Elements, Injective
  <2>2. CASE x # p
    <3>1. r.queue[x] = tb.queue[x]
      BY <1>1, <1>5, <2>2
    <3>2. InFlightFrom(r, x) = InFlightFrom(tb, x)
      BY <1>7, <2>2, NoPeerAssumption DEF InFlightFrom
    <3> QED  BY <1>2, <3>1, <3>2 DEF QueuesMatchMap, Injective
  <2> QED  BY <2>1, <2>2
<1>9. CountersMatch(r)
  <2>1. \A x \in Peers : r.count[x] = Len(r.queue[x])
    BY <1>1, <1>2, <1>5
  <2>2. tb.downloading = Cardinality(Busy(tb.count))
    BY <1>2 DEF CountersMatch, Busy
  <2>3. r.downloading = Cardinality(Busy(r.count))
    <3> DEFINE c == tb.count
    <3>1. c \in [Peers -> Int] /\ c[p] >= 0
      BY <1>1, <1>2
    <3>2. /\ c[p] > 0 => Cardinality(Busy([c EXCEPT ![p] = 0])) = Cardinality(Busy(c)) - 1
          /\ ~(c[p] > 0) => Busy([c EXCEPT ![p] = 0]) = Busy(c)
      <4>1. 0 \in Int /\ 0 <= 0 /\ ~(0 > 0)
        OBVIOUS
      <4> QED  BY <3>1, <4>1, BusyProperties
    <3>3. c[p] # 0 <=> c[p] > 0
      BY <3>1
    <3> QED  BY <1>5, <2>2, <3>2, <3>3
  <2> QED  BY <2>1, <2>3 DEF CountersMatch, Busy
<1>10. WindowsOwned(r)
  <2> SUFFICES ASSUME NEW x \in Peers, r.window[x].block # NoBlock
               PROVE  r.owner[r.window[x].block] = x
    BY DEF WindowsOwned
  <2>1. x # p /\ r.window[x] = tb.window[x]
    BY <1>1, <1>5 DEF ClearFastSyncPendingBlock
  <2>2. tb.window[x].block \in Blocks /\ tb.owner[tb.window[x].block] = x
    BY <1>1, <1>2, <2>1 DEF Windows, WindowsOwned
  <2> QED  BY <1>7, <2>1, <2>2
<1>11. StallersOwe(r)
  BY <1>1, <1>2, <1>5 DEF StallersOwe
<1>12. PartialsInFlight(r)
  BY <1>2, <1>4, <1>5 DEF PartialsInFlight
<1>13. InFlightFrom(r, p) = {}
  BY <1>7, NoPeerAssumption DEF InFlightFrom
<1> QED  BY <1>6, <1>8, <1>9, <1>10, <1>11, <1>12, <1>13 DEF TableInv, r

(* MarkBlockAsReceived, early returns included: besides keeping the table  *)
(* consistent it frees at most the one block, and gives nobody anything.   *)
LEMMA ReceivedConsistent ==
    ASSUME NEW tb, TableInv(tb), NEW h \in Blocks, NEW from \in Peers \cup {NoPeer}
    PROVE  /\ TableInv(MarkBlockAsReceived(tb, h, from))
           /\ \A g \in Blocks : MarkBlockAsReceived(tb, h, from).owner[g] \in {tb.owner[g], NoPeer}
           /\ \A p \in Peers : MarkBlockAsReceived(tb, h, from).count[p] <= tb.count[p]
           /\ \A p \in Peers : \/ MarkBlockAsReceived(tb, h, from).window[p] = tb.window[p]
                               \/ MarkBlockAsReceived(tb, h, from).window[p].block = NoBlock
<1> DEFINE r == MarkBlockAsReceived(tb, h, from)
           o == tb.owner[h]
<1>1. /\ tb.owner \in [Blocks -> Peers \cup {NoPeer}]
      /\ tb.count \in [Peers -> Int]
      /\ tb.window \in [Peers -> Windows]
  BY TableParts
<1>2. CASE o # NoPeer /\ from \in {NoPeer, o}
  <2>1. r = Release(tb, o, h) /\ o \in Peers
    BY <1>1, <1>2 DEF MarkBlockAsReceived
  <2>2. TableInv(r)
    BY <2>1, ReleaseConsistent
  <2>3. /\ r.owner = [tb.owner EXCEPT ![h] = NoPeer]
        /\ r.count = [tb.count EXCEPT ![o] = tb.count[o] - 1]
        /\ r.window = IF tb.window[o].block = h
                      THEN [tb.window EXCEPT ![o] = ClearFastSyncPendingBlock]
                      ELSE tb.window
    BY <2>1 DEF Release, DownloadingAfter, SinceAfter
  <2> HIDE DEF r, o
  <2>4. \A g \in Blocks : r.owner[g] \in {tb.owner[g], NoPeer}
    BY <1>1, <2>3
  <2>5. \A p \in Peers : r.count[p] <= tb.count[p]
    BY <1>1, <2>1, <2>3
  <2>6. \A p \in Peers : r.window[p] = tb.window[p] \/ r.window[p].block = NoBlock
    BY <1>1, <2>1, <2>3 DEF ClearFastSyncPendingBlock
  <2> QED  BY <2>2, <2>4, <2>5, <2>6 DEF r
<1>3. CASE ~(o # NoPeer /\ from \in {NoPeer, o})
  <2>1. r = tb
    BY <1>3 DEF MarkBlockAsReceived
  <2> QED  BY <1>1, <2>1
<1> QED  BY <1>2, <1>3
=============================================================================
