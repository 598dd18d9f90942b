# A TLA+ verification of Defcoin Core

This directory models parts of Defcoin Core (`src/`) in TLA+, checks the models
with TLC on small instances, and proves theorems about them with TLAPS for every
value of the constants.  `PROJECT.json` lists the components, runs, mutants,
findings, hazards and theorems, and maps each definition to the lines it
translates.

File names below are relative to `src/src/`.

## 1. The system

Defcoin Core is a full node descended from Litecoin Core 0.21, with an external
helper ("Fast Sync") that moves block bodies over UDP.  Its parts, what they
keep, and what makes each of them correct:

| Part | State | Operations | Hard behaviour | Correct when |
|---|---|---|---|---|
| Block download, UDP Fast Sync (`net_processing.cpp`) | map of blocks in flight, per-peer queues and counters, UDP windows, what each peer has | block messages, SendMessages, reserve/release/verify RPCs, disconnection | handlers drop `cs_main` half way; two transports; timeouts; three limits on one counter | one owner per block, all counters exact, no peer past its limit, nothing held for ever, the chain completes |
| Transaction requests (`txrequest.cpp`) | announcements in five states, three indexes, per-peer counts | ReceivedInv, GetRequestable, RequestedTx, ReceivedResponse, ForgetTxHash, DisconnectedPeer | a clock that goes backwards; expiry against late answers; caches of what to ask next | one outstanding request per hash, the best peer chosen, no peer asked twice |
| Orphan pool (`net_processing.cpp`) | four indexes, expiry, per-peer work sets | add, erase, limit, process | swap-with-last erasure, eviction during processing | the indexes agree, the size limit holds |
| Coins cache and flush (`coins.cpp`, `txdb.cpp`) | layered caches with FRESH/DIRTY, database with head markers | add, spend, flush, replay | a crash between two partial batches, or during the replay | every layer shows the same coins; recovery reaches the new tip |
| Chain activation (`validation.cpp`) | block tree, candidates, unlinked blocks, active chain | AcceptBlock, ActivateBestChain, InvalidateBlock | `cs_main` is dropped between steps | the tip is a best valid candidate; no candidate is lost |
| Script check queue (`checkqueue.h`) | batch queue, `nTodo`, `nIdle`, `fAllOk` | Add, Wait, worker loop | two condition variables | the verdict covers every check; nobody sleeps for ever |
| Scheduler, callbacks (`scheduler.cpp`, `validationinterface.cpp`) | task queue, pending callbacks, registration list | schedule, ProcessQueue, Register, Unregister, Iterate | test-then-schedule, unregistration while running | callbacks in order, one at a time, each exactly once |
| Mempool (`txmempool.cpp`) | entries, links, ancestor and descendant totals | add, remove, reorganisation, trim | totals kept incrementally | totals equal their definition |
| Address manager (`addrman.cpp`) | new and tried tables, collisions | Add, Good, Attempt, Select, ResolveCollisions | entries deleted from under the collision set | reference counts and positions agree |
| Connections, framing (`net.cpp`) | nodes, buffers, message start per stream | receive, disconnect, evict | a message start in pieces, a setting that changes | a stream keeps one message start; a node is deleted once |
| Ban list, indexes, HTTP queue | dirty flags, locators, a bounded queue | dump, sync, enqueue | changes during a write; restart; shutdown | nothing is lost silently |
| MWEB state (`libmw/`) | outputs, leaf set, mountain range | apply, undo, flush | files and database written separately | undo reverses apply; files match the tip |
| Consensus arithmetic (`pow.cpp`, `versionbits.cpp`) | none | pure functions | clamps and boundaries | equal to a reference definition |

The parts meet in `cs_main`: messages, RPC calls and timers become critical
sections on shared tables, and most of what is hard to test lies in the order of
these sections.  Block download is where Defcoin differs most from its ancestor,
so it comes first.

`PROJECT.json` gives each part's status; section 8 has the plan.

## 2. Modules

| Module | Role |
|---|---|
| `InFlight` | the table of blocks in flight as a record, and the helpers on it as operators |
| `BlockDownload` | the state machine: peers, messages, RPCs, SendMessages, the clock; all properties |
| `BlockAssignment` | abstract specification of what block download promises |
| `BlockTransports` | `BlockDownload` with a record of what was asked over TCP and of who took the last step; whether the download completes |
| `MCBlockDownload`, `MCBlockTransports` | values for TLC |
| `InFlightProofs` | lemmas about the operators of `InFlight` |
| `BlockDownloadFit` | the inductive invariant, and lemmas about queues, limits and windows |
| `BlockDownloadMessages` | connection and message steps preserve the invariant |
| `BlockDownloadProofs` | the remaining steps, and the theorems |

## 3. Block download: the model and the code

**State.**  `t` is the table: `owner` is `mapBlocksInFlight`, `queue` each
peer's `vBlocksInFlight`, `count` is `nBlocksInFlight`, `downloading` is
`nPeersWithValidatedDownloads`, `since`/`stalling` are the ages of
`nDownloadingSince` and `nStallingSince`, `window` the three
`...FastSyncPending...` fields, `partial` whether an entry has a `partialBlock`
and whether `FillBlock` has consumed it.  The other variables are the peers with
a `CNodeState` (`conn`), those with `fDisconnect` (`leaving`), those with
`fFastSyncUdpTransportVerified` (`verified`), `nFastSyncDeferBackoffUntil`
(`backoff`), `pindexBestKnownBlock`, `hashLastUnknownBlock` and
`pindexLastCommonBlock` (`best`, `unknown`, `lastCommon`), the best header, the
blocks with data (`haveData`), the height of the active chain (`active`), and
`inHand`: what the message handler carries while it does not hold `cs_main`.
`Downloaded` is the last block with `HaveTxsDownloaded()`: it and all before it
have data.

**Steps.**  One critical section of `cs_main` is one step.  BLOCK is at least
three: the entry leaves the table, the lock is dropped, `ProcessNewBlock` stores
the block or not, the lock is dropped again, and `ActivateBestChain` connects
one block per section until the active chain has caught up.  A block stored out
of order is connected with the one that fills the gap; a block stored by
`submitblock` is connected on the RPC thread.  After a reconstructed compact
block one more section clears the download.  Between storing and connecting,
`pindexLastCommonBlock` may be ahead of the active chain.  The handler is free
again once its own block is connected; in the code its `ActivateBestChain` may
go on with later blocks, so the model has more interleavings.  While `inHand` is
set the one message-handler thread takes no other message, but RPC threads, the
clock and disconnections go on.  A handler's helpers are composed, so an action
has the effect of the whole handler; SendMessages first expires the window,
then tests, walks, offers and requests.

**Time** is kept as distances from now: deadlines as the time left, start times
as ages.  One tick lowers the former and raises the latter; ages stop one above
the largest value any test compares with, so the state space is finite without
a bound on the run.

**What is abstracted.**

- One header chain: a block is its height and its work.  Forks of the header
  chain are left out, and with them `LastCommonAncestor` beyond a minimum.
- A block that fails validation is not stored and its header stays valid.
- On one chain the active chain only grows, and every stored block connects.
  `fTooFarAhead` needs 288 blocks and is out of reach.
- A node is deleted when the handler does not work for it (`Unreferenced`).  The
  code waits longer: `ThreadMessageHandler` refers to all nodes during a round.
- The limits on a peer (`fHaveWitness`, `fHaveMWEB`) are one height up to which
  it serves; `fFetch`, `fClient`, limited nodes and initial download are one set
  of peers to fetch from.  The age test of `CanDirectFetch`, the verdict of
  block checks and the outcomes of `InitData` and `FillBlock` are inputs.  A
  failed `InitData` falls back to a full request from the same peer and is
  merged with "transactions are missing".
- `InitializeNode` and VERSION are one step.
- The header part and the table part of HEADERS and CMPCTBLOCK are two sections
  in the code and one step here; in between only the header tip is new, and
  headers alone touch nothing in the table.
- Every caller passes a block index, so `nBlocksInFlightValidHeaders` equals
  `nBlocksInFlight`.

**The abstract specification** `BlockAssignment` has three variables: who is
present, who holds each block, what is stored.  A step lets a peer join, leave,
or be rescheduled: it keeps some of its blocks, gives up others and takes
missing blocks nobody else holds, within its capacity.  `BlockDownload`
implements it under the mapping in the definition `Assignment`.

## 4. Block download: what is checked

| Run | Properties | What it shows |
|---|---|---|
| `two_peers` | `TypeOK`, `InFlightConsistent`, `OwnersConnected`, `WindowsVerified`, `LastCommonDownloaded` | two peers, one with UDP, one with compact blocks, compete for two blocks |
| `one_peer` | `InFlightConsistent`, `CapacityRespected`, `LastCommonDownloaded` | one peer with every ability, from one header to three, below the minimum work: fallback reservations, far compact blocks, blocks stored out of order |
| `udp_windows` | `TcpHasItsTurn`, `ClaimedOnce` | the life of a window, with the timeouts in the order of the code |
| `assignment` | `ImplementsAssignment` | refinement of `BlockAssignment`, with compact blocks next to downloads in flight |
| `reservations_end` | `ReservationsEnd`, `AnnouncementsCount` | nobody holds a block for ever; an announced block counts once its header is here, also when another announcement takes its place in `hashLastUnknownBlock` |
| `tcp_completes` | `TcpCompletes`, `TcpOutlivesHelper` | TCP completes the chain past a helper that takes blocks and delivers none (but does not release them for ever), and after a helper that is gone, whatever it reserved |
| `udp_completes` | `UdpCompletes` | with TCP block requests disabled, a helper that claims and submits completes it |
| `asked_twice`, `gate_bypassed`, `not_released`, `release_starves_tcp` | one each | four places where the code does less than its comments or RPC help say (section 6) |

**Bounds.**  Two or three blocks, one or two peers, `MaxInTransit = 1` and
`FastSyncExtra = 1`.  With one normal and one extra slot every limit is met and
can be overrun by one; `one_peer` has three blocks because with two the capacity
of two could not be exceeded.  A download window of one block leaves the second
block outside it, which is what the staller logic needs.  In `two_peers` and
`assignment` SendMessages downloads from the first peer only and the second
serves block 1, through compact blocks and direct fetch: both peers still
compete for block 1, the second can be the one that stalls the first, and the
state space stays in reach.  `reservations_end` starts with no headers, so that
announcements come before their headers.  Clock constants are the smallest that
keep the order of the real ones where it matters (`udp_windows`: claim 1 <
transfer 2 = backoff 2 < download 3, for 4 s, 30 s, 30 s and 2 min); in the
other runs they are 0 or 1, so every timeout can fire at every point.  The two
peers differ in what they can do, so there is no symmetry to use.

**Fairness.**  `Fairness` is what the node's own threads give: the clock moves;
the handler finishes the message in hand; whoever stored a block goes on to
connect it; the socket thread deletes disconnected nodes without references.
`FairSpec` adds that SendMessages comes round to each peer, strongly fair
because a peer is skipped while another's message is in hand but
`ThreadMessageHandler` visits all nodes in turn.  `ReservationsEnd` and
`AnnouncementsCount` need no more.

Whether the download completes depends on the world, and `BlockTransports`
assumes no more of it than the code asks for.  The variable `asked` records the
blocks in flight that a getdata was sent for: a UDP reservation sends none, so a
peer is not expected to answer it (`PeersAnswer`), and the helper is expected to
submit only what it claimed or reserved (`HelperDelivers`).  `byHelper` tells a
call of the helper from a step of the node: a reservation and a request can
change the table in the same way, and only the latter sends a getdata, counts as
the node's turn, and may still happen once the helper is gone.  Peers come back
and announce their chain (`PeersReturn`), and their answers are valid blocks
often enough.  The premises of the properties matter:

- `TcpCompletes` and `UdpCompletes` assume that disconnections and
  un-verifications end.  A disconnection by the node's own download timeout
  counts as one, so these two say nothing of a helper whose reservations by
  height time the peer out again and again.
- `TcpCompletes` also assumes that releases end; without that it is false
  (`release_starves_tcp`).
- `TcpOutlivesHelper` assumes only that the helper stops calling and that
  connections do not break for other reasons; timeouts may go on.  A window it
  left expires; any other reservation ends when the download timeout disconnects
  the peer, although that peer was never asked, and the peer comes back.  The
  mutant that spares peers with a verified transport breaks it.

The four liveness runs have one peer, two blocks and no compact blocks: with a
second peer the released block could be taken by that peer, and completion is
not checked there.

## 5. What is proved

`BlockDownloadProofs` proves, for any finite set of peers, any chain length and
any values of the limits and timeouts, that `Spec` keeps `TypeOK`,
`InFlightConsistent`, `OwnersConnected`, `WindowsVerified`,
`CapacityRespected` and `LastCommonDownloaded`.  The assumptions are the named
ones of `InFlight` and `BlockDownload`: the constants have their types, `Peers`
is finite, `NoPeer` is not a peer.

The invariant `IInv` (`BlockDownloadFit`) collects these, with the types and the
fact that the peer of a carried message is connected.  The parts lean on each
other:

- the counters are exact only while queue and map agree, because a release
  removes one queue entry and takes one off the counter;
- `nPeersWithValidatedDownloads` is exact only while each count is exact;
- a window's block can be released safely only if the window's peer owns it;
- owners are connected only because an open window, a partial block and a
  carried message all belong to a connected peer;
- the last common block stays within the downloaded chain only because the
  active chain does (`active <= Downloaded`): a walk for a new peer starts at
  the active tip;
- what is requested of a peer, and what a peer is credited with, stays within
  the headers, which keeps every height in its type.

The argument has three layers.  `InFlightProofs`: `Erase`, `Release`, `Enqueue`,
`MarkBlockAsReceived`, `MarkBlockAsInFlight` and `ForgetPeer` keep `TableInv`,
with the cardinality facts about the set of downloading peers.
`BlockDownloadFit`: what `FirstBlocks`, `Downloadable`, expiry and the
availability updates return and bound.  Then one lemma per action, `InitIInv`,
`NextIInv`, and the theorems by PTL.

Only model-checked: liveness (under fairness, hence `ENABLED`), the refinement
of `BlockAssignment`, the action properties `TcpHasItsTurn` and `ClaimedOnce`.

## 6. Findings

Four runs end in a violation; each property states what a text of the
repository says.

- **`asked_twice`.**  The BLOCK handler removes the entry and drops `cs_main`
  before the block is stored (`net_processing.cpp:4443`).  A reservation in
  between finds a block that was requested, and has arrived, neither stored nor
  in flight, and reserves it from the same peer again.  `rpc/net.cpp:1104` says the two transports are not "independent
  reasons to request the same block twice".
- **`gate_bypassed`.**  Reserve-next by starting height
  (`net_processing.cpp:1272`) looks at neither `fHaveWitness` nor `fHaveMWEB`;
  the comment at 1252 says it mirrors the gates of
  `FindNextBlocksToDownload()`.
- **`not_released`.**  `ReleaseFastSyncBlockInFlight` returns what
  `MarkBlockAsReceived` returns, which is true also for a block that stays in
  flight from another peer; the RPC then answers success, "released".
- **`release_starves_tcp`.**  Expiry and un-verification set
  `nFastSyncDeferBackoffUntil`; a release does not (`net_processing.cpp:1375`).
  A helper that claims a window, fails and releases it is offered the same block
  at the next SendMessages, and from a single peer TCP never asks for it.
  `net_processing.cpp.agent.md:19` wants TCP to make progress "if UDP is not
  claimed or delivery fails".

None of them breaks the invariants: a block asked for twice is owned once.

## 7. Mutants

Every property of a passing run has a mutant in `PROJECT.json`: an operator that
changes a mapped definition as a plausible slip would (a counter compared with
the wrong value, a backoff not set, a guard dropped).  With it, TLC finds the
property violated under the same configuration.

## 8. Plan

Order of work, the most important behaviour first; abstract specifications and
theorems where named.

1. Block download (done): `InFlight`, `BlockDownload`, refinement, proofs.
2. Transaction requests: the tracker and its callers, with the specification in
   `txrequest.h` as the abstract module and a refinement.
3. Coins cache and flush: a layered cache refining a plain set of coins;
   partial batches, crashes, replay.  Theorem: the layers always show the same
   coins.
4. Check queue, scheduler and validation callbacks: three small concurrent
   modules with liveness; theorems for mutual exclusion and exactly-once.
5. Chain activation: block tree with forks, candidates, invalidation; then
   composed with block download in place of the single chain.
6. Mempool totals and the orphan pool.
7. Address manager, message framing, ban list, optional indexes, HTTP queue.
8. Pure algorithms: retarget, version bits, compact block positions, mountain
   range indices, against reference definitions.
9. MWEB state: apply, undo and flush.
10. More proofs: `BlockDownload` implements `BlockAssignment`; the action
    properties.

Not planned: the script interpreter (a pure function over byte strings, out of
TLC's reach and covered by vectors), cryptography, bundled libraries, the
graphical interface, start-up and argument parsing.
