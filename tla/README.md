# A TLA+ model of rbitt

rbitt is a BitTorrent client: a Tauri application whose back end is a Rust
workspace (`src/src-tauri`). The protocol, disk, cache and network crates are
libraries (`crates/oxidebt-*`); the *engine* (`src-tauri/src/engine`) puts them
together and holds all the state that several tasks share. This directory
models the parts of it in which concurrent tasks, late events and failures can
take the client to a state nobody wrote a test for.

Paths below are relative to `src/src-tauri`; `piece.rs` is
`crates/oxidebt-peer/src/piece.rs`, `mod.rs` and `peer_connection.rs` are in
`src/engine`, and so on. PROJECT.json maps each definition to its lines.

## 1. The system

### How it runs

Everything shared is reached from one `Arc<EngineInner>`. The tasks are tokio
tasks:

- one **event processor** for the engine, reading one channel of `PeerEvent`s
  (unbounded: a sender never waits) in order;
- one **run loop** per torrent (dial, announce, choke, look for completion);
- one **connection task** per peer (handshake, then a `select!` between messages,
  the cancel broadcast, the shutdown broadcast and a 5 s tick);
- the **listener** for incoming connections, and tasks for DHT, PEX, LSD, RSS,
  watch folders, request cleanup, persistence;
- the **commands** of the user, called from Tauri;
- short-lived tasks for verification, announces, preallocation and moves.

The map `torrents` is one `parking_lot::RwLock`: the event processor, the
commands and the run loop take it for writing, connection tasks for reading.
A `PieceManager` has finer locks of its own and is used under the *read* lock,
so connection tasks interleave inside it. No lock is held across an await: a
task that waits for disk or network comes back to state others have changed.
Tasks name a torrent by its info hash and a peer by its address; nothing names
a particular *incarnation* of either. These facts (read sections that interleave,
state used after an await, events that outlive their subject) are what the
hard behaviours come from.

### Components

| Component | State | Operations | Interacts with |
| --- | --- | --- | --- |
| **Piece index** (`piece.rs`) | availability counters, ordered candidates, our bitfield | Have, bitfield and departure update counters; pick; complete and fail | connection tasks (read sections), event processor (atomic) |
| **Piece download** (`piece.rs`, `peer_connection.rs`, disk) | active pieces with received and pending blocks, verification claims, each peer's pipeline | request, receive, write, verify, complete, cancel, clean up stale requests, endgame | storage, cancel broadcast, event channel |
| **Peer table, run loop, choking** (`mod.rs`, `torrent.rs`, `incoming.rs`, `peer_connection.rs`) | known, connecting, connected, failed peers; interest; upload slots; global counter | discover, dial, accept, retry, report, choke, pause, resume, remove, add, complete, move | event channel, shutdown broadcast, tracker and DHT results |
| **Queue** (`mod.rs`, `torrent.rs`) | state of each torrent, position, limits | check, start, pause, resume, remove, dequeue, share limits, complete, move | commands, run loop, event processor |
| **Session and persistence** (`persistence.rs`, `settings.rs`, `mod.rs`) | session file, torrent blobs, settings file | debounced save, save at shutdown, restore, share limits | commands, file system |
| **Magnets and metadata** (`metadata.rs`, `magnet.rs`, `mod.rs`) | pending magnets, metadata pieces | fetch, add, remove, promote to a torrent | connections, add_torrent |
| **Disk storage** (`oxidebt-disk`) | registered storages, open handles, allocation | register, read, write, verify, evict, flush | download, move, remove |
| **Caching disk manager, caches, memory budget** (`oxidebt-disk`, `oxidebt-cache`) | write coalescer, ARC piece cache, permits | read through, flush, promote, evict | not reached from the engine |
| **Bandwidth limiter** (`bandwidth.rs`) | token bucket per direction | acquire, refill, change of limit | connection tasks |
| **Wire protocol** (`oxidebt-peer`) | remote bitfield, choke and interest flags, allowed-fast set | send, receive, framing | connection tasks |
| **Choker** (`choking.rs`) | a library type | recompute | not used by the engine, which has its own round |
| **DHT** (`oxidebt-dht`) | routing table, pending queries, tokens, stored peers | query, answer, refresh, announce | UDP, run loop |
| **Trackers** (`oxidebt-tracker`, `tracker_info.rs`) | per-tracker status and back-off, UDP exchange | connect, announce, scrape, retransmit | run loop |
| **PEX, LSD, UPnP** | recent addresses, mappings | discover, announce | peer table |
| **RSS, watch folders, search** | feeds, rules, seen items | poll, match, add | add_torrent |
| **Metainfo, bencode, hashes** | none | parse, encode, Merkle root, magnet | add_torrent |
| **Statistics, Tauri commands, frontend, constants, tests** | counters for display | poll | engine |

### What is hard, and what makes each part correct

- *Piece index.* Three structures that describe one fact are updated under three
  locks, by tasks inside read sections. Correct: every missing piece stays
  pickable; owned pieces are not picked; a drained counter equals the number of
  peers that own the piece.
- *Piece download.* Claims are taken, blocks written and pieces verified across
  awaits; requests go stale, are repeated in endgame, answered late; a
  connection may end at any of its awaits. Correct: a piece becomes ours only
  through a verification of its whole content; one task verifies; nothing
  counts as received that is not written; nothing is stuck; the download ends.
- *Peer table.* Entries are made before a connection exists, removed by events
  that arrive after it is gone, and the tables are cleared by pause, remove and
  move while both are on their way. Correct: no entry without something that
  will remove it; half-open slots come back; limits of upload slots; one run
  loop.
- *Queue and session.* Check-then-act over separate critical sections, with
  limits that must hold and files that must stay consistent over a crash.
  Correct: no more active than the limits allow, nothing waits for a slot that is
  free, a paused torrent stays paused, completion actions run once; a torrent
  that was stored is restored, one that was removed is not.
- *Storage and caches.* Handles evicted under a running write; two lists of a
  cache locked one after the other; tokens owed by waiters and granted again.
  Correct: what was written is read; the spans of a block cover it; what is
  counted is what is held; the rate stays within a bound.
- *Network and feeds.* Retransmitted requests with two answers; a receive loop
  that waits for what only it can deliver; findings that are marked in memory
  and saved later. Correct: an answer is taken for the request it belongs to;
  a node pays for its own silence; an item is added once.

PROJECT.json lists the hazards at their lines, each with the properties that
cover it.

## 2. The modules

```
PieceAvailability      <- MCPieceAvailability      <- AvailabilityChurn
        ^--- PieceAvailabilityProofs
PieceLifecycle  (abstract)
        ^ implemented by
PieceDownload          <- MCPieceDownload          <- DownloadSafety, DownloadLiveness,
        ^--- PieceDownloadProofs                      OwnedNotVerified, IdleAfterClose
PeerTable              <- MCPeerTable              <- PeerTableChurn
        ^--- PeerTableProofs
TorrentQueue           <- MCTorrentQueue           <- QueueChurn, QueueOldData
        ^--- TorrentQueueProofs
SessionStore           <- MCSessionStore           <- SessionChurn, RestoreInterrupted
        ^--- SessionStoreProofs

DiskStorage, FileSpans, BlockCaching, PieceCacheLists,
MemoryBudget, RateLimiter, WriteQueue  <- MCStorage <- StorageChurn
                                                 ^--- StorageProofs
Feeds, UdpTracker, Dht                 <- MCOutside <- OutsideChurn
                                                 ^--- OutsideProofs

CountingLemmas  (finite sets and sums, used by several of the proofs)
```

### PieceAvailability: the picker's index

`avail`, `candidates` and `inCandidates` are `AvailabilityIndex` and
`DownloadablePieces`; `have` and `active` the bitfield and the keys of
`active_pieces`. A peer task inside its read section is at `pc[c]`, with the
locals `arg` (the piece) and `seen` (the availability it read). One step is one
critical section of the finer locks: `ReceiveHave` bumps the counter and
`MoveIncremented` moves the entry; `MarkComplete` sets the bit and reads the
counter, `RemoveMarked` removes the entry at the counter *read then*;
`MarkFailed`/`AddFailed` likewise; `ChooseMode`, `PickPiece`, `StartPiece` are a
pick. The actions of the event processor (`OnConnected`, `OnPeerBitfield`,
`OnPeerHave`, `OnDisconnected`, `OnPieceCompleted`) and of the cleanup hold the
write lock, hence `AllIdle`. `Connect`, `ReceiveBitfield` and `Disconnect` are
the connection's own part. `ClearPeers` is what pause does to the table.
A Bitfield, HaveAll or HaveNone is taken at any time and any number of times, as
the code does: `remote` and, by the event, `stored` are overwritten, the
counters raised once more. `drifted` is a history variable: a peer told again what it
has (a repeated Have, a bitfield when it owned something already), or the table
was cleared with its bitfields. A verification does its work outside every lock, so
`MarkComplete` and `MarkFailed` do not ask whether the piece is still active.
`PickPiece` is `pick_piece_with_priorities`, the one that the engine calls: what
can be started (`Picks`), and else a piece under way that may lack a request
(`Helped`); which pieces are wanted is free, as file priorities can change.

Whole bitfields are sets; the ordered set of candidates is a set of pairs with
the order in `Before`. The random pool of the cold start is any of the first
`PoolSize`.

### PieceDownload: requesting, receiving, verifying

One instance of the message loop per peer. A step ends at an await (`WriteBlock`,
`VerifyPiece`, sending) or between two critical sections of the piece manager
(`PickPiece`, `StartPiece`, `AddPending` of one `request_pieces` call). The
path of a block is `ReceivePiece` (taken out of `requested`, the active entry
checked), `WriteBlock`, `ReceiveBlock`, `StartVerifying`, `VerifyPiece`, then
`MarkComplete` with `Broadcast` or `MarkFailed`, then the next request.
`cancels[q]` is the receiver's window of the cancel broadcast, which a slow
task overruns (`CancelCap`). `events` carries `PieceCompleted` to the engine.
`FindStale`/`RemoveStale` are the cleanup task, `CleanupStale` the run loop's.
`asked` is what the remote peer has to answer; it answers in any order.

A block on disk is `none`, `good` or `bad`. Time is not counted: an
outstanding request may be found older than `REQUEST_TIMEOUT` at any moment.
What may go wrong in an instance is a set of `FaultKinds` with a budget of
`MaxFaults`: a wrong block, a choke, a reject, a closed connection, an answer
after the timeout, a failed write, a failed read in verification, a stale
index entry (which PieceAvailability produces). Serving blocks to others, PEX
and metadata messages are not part of it.

### PieceLifecycle: what the download promises

The abstract specification. Each piece is `missing`, `claimed` by a
verification, `passed`, or `ours`; anybody may write any block at any time
(`Write`), and `Pass` requires that at its moment all blocks of the piece are
good. PieceDownload implements it under `Phase`, which reads the phase off the
bitfield, the claims and the program counters.

It deliberately does not say that a piece that is ours *stays* good on disk:
the code does not keep that (finding `OwnedNotVerified`).

### PeerTable: connections of one torrent

`torrent` is the part of `ManagedTorrent` that concerns peers, as one record;
`present` whether the map has it; `pc` the place of each connection task
(`dialing`, `accepted`, `handshake`, `setup` before it subscribes, `loop`);
`told` the tasks whose shutdown receiver fires; `events` the channel, whose
entries name an address only. Several connection tasks of one address (`Slots`)
and several run loops (`Loops`) may exist, because the code can make them.

A run loop's round is `LoopTop` (plan the dials: the expired retries first, then
known peers that are neither connected nor connecting nor failed),
`FindSlots` (room left by the limits), `Dial` (mark as connecting, count,
spawn) and `Round` (choke round, completion, moving). `Accept` is the
listener; `DialSucceeds`, `DialFails`, `Handshake`, `Subscribe`, `Close`,
`Declare` the connection task; `OnConnected`, `OnDisconnected`, `OnPeerState`,
`OnPieceCompleted` the event processor; `Pause`, `Resume`, `Remove`, `Add`,
`Start`, `SpawnLoop`, `FinishCheck`, `MoveBegins`, `MoveEnds` the rest.
Rates are a free choice in `Choking`: the round may prefer any interested
peers, within its rules (regular slots, one optimistic slot, rotation).

`Add` may find the torrent in the map: add_torrent looks for it before it waits for
the preallocation and inserts after it, so the second of two additions replaces
what the first put there. A PieceCompleted that comes late marks its piece in whatever
torrent has the hash by then (`Marked`), and may complete one added since.

Left out: queue limits (a resume is granted) and share limits, which
TorrentQueue has, and what the messages carry.

### TorrentQueue: which torrents run

`state`, `complete`, `verified`, `looping` and `processed` are the fields of
each `ManagedTorrent` that decide whether it runs; `limits` the two queue limits.
A torrent is its place in the order of `added_at`, which is what
`queue_position_of_active` compares. A task that has decided and not yet acted is a
variable: `starts` (start_torrent while it announces, then between its look at
the state and the spawn of the run loop), `resumes` (with what
the resume has chosen), `freed` (pauses and removals that will call
start_next_queued), `picked` (what that has chosen), `due` (what the share-limit
checker has found), `completion` and `verify`. So `ResumeChooses`/`ResumeActs`,
`DequeueChooses`/`DequeueStarts`, `StartDecides`/`StartSpawns`,
`SharesScan`/`SharesAct`, `VerifyBatches`/`VerifyEnds` and
`MoveBegins`/`MoveEnds` are the pairs between which others act. `VerifyFails` is a check
whose storage a move has taken away, which counts as done. `Stop` is the write of a
pause or removal; a removal (by the user or by the share limits) may fail to
delete the content and then leaves before start_next_queued. `Add` is an
addition in this life or a torrent found on the disk (`seeded`).

The properties hold outside of named windows, which the history records:
`stale` (a resume or dequeue acted on a count that no longer held), `lowered` and
`raised` (limits changed), `finished` (a download completed, or was found
complete, and its slot is not offered to anybody), `again` (a running torrent was
resumed, and was queued behind itself), `crossed` (a check ended behind a
torrent that a resume had put into the queue: each waits for the other), `undeleted` (a
removal failed to delete the content and offered its slot to nobody), and
`revived` (a move took a torrent that was queued or paused, and ends with it
Completed). Each of the exceptions was added when TLC had found the property
violated without it, and names what happens in the code.

### SessionStore: what survives a restart

The disk is `session` (session.json) and `blobs` (the info dictionaries, one
file each); both survive `End` (a crash, or the end of the exit) and are read
again after `Boot`. In memory are `torrents`, those `paused`, the `pending`
magnets and those that `failed`. Each of the code's tasks is what it has in
hand: `loaded` (what restore_session has still to restore), `adding` (calls of
add_torrent inside preallocation, each with its source), `saving` (spawned blob
tasks), `removing` (removals that are deleting files), `fetching`. A step ends
at an await of the file system or the network.

`requested` is a request in the writer's channel, `WriterSnapshots` the moment
after its sleep when it empties the channel and takes the snapshot,
`WriterSaves` the rename; `ExitRequested` and `ExitSaves` are the same two of
`save_all_now`. `UserAdds`/`UserAdded`, `RestoreBegins`/`RestoreAdded` and
`Fetched`/`MagnetAdded` are add_torrent with its two halves `BeginAdd` (the look
for a duplicate) and `Insert`; `RemoveBegins`, `RemoveFails`, `RemoveEnds` the
removal; `Overwrite` the state changes of the engine that do not look at
Paused. Failures of every file operation are included; a session.json or a blob
that does not parse is not.

The properties speak of promises the code keeps *outside* of named windows.
`mishaps` records which windows a behaviour has gone through, so that each
property lists what it excepts: a reader sees from `Losing` and `Reviving` all
the ways in which a torrent can be lost or come back. `kept` are the torrents
some save has stored, `removed` those whose removal has ended, `unsaved` says
that something has changed that the code does not ask to save (a failed fetch,
a removed magnet, a resume that queues).

Of an entry only its presence and its pause are kept: tags, priorities, limits
and counters have the same path, and most of their setters leave them to the
minute's flush.

### The storage modules

- **DiskStorage** is one torrent's part of `DiskManager`: tasks that read and
  write through the cache of open handles, eviction and flush (`Sweep` lists
  handles, in use or not, `SweepOne` removes them one by one), `Unregister` with
  its flush, and the move. What a handle of `fileHandle` has in flight is what
  `tokio::fs::File` has been given and the operating system has not yet written:
  the next use of the *same* handle waits for it, that of another handle of the
  same file does not. It `Reaches` the file, or never does (`NeverReaches`: the
  write that was asked for has long returned Ok). `OpenHandle` replaces a read
  handle by a writing one; any step of an operation may fail (`DiskOpFails`).
  There are two places, and a third for files that are deleted but open. The
  move is a rename, which takes open handles along (`MoveRenames`), or goes file
  by file: `CopyFile` for all, then `DeleteFile` one after the other, and it may
  fail between any two of them (`MoveFails`): the storage is then rooted where it was,
  with what is left there. Tasks that hold the old storage go on throughout.
- **FileSpans** is the loop of `block_file_spans`: one step per file, over every
  layout of files, piece length, number of pieces and block of the instance. Blocks are
  checked for validity before, as the function does. The number of pieces is what
  `piece_count` says: by the hashes of the field `pieces`, which nothing compares
  with the length, or by the length without that field (`PieceCounts`).
- **BlockCaching** is a piece in the caching disk manager: blocks arrive, the
  hash runs ahead over the prefix that is there, `Verify` ends it, `TakePiece`
  puts it into the piece cache, `StoreBegins`/`StoreEnds` write it (several
  writers at once, half of it on the disk in between, or failing), and the block cache
  evicts or is cleared (in two operations) under the tasks. `ReadPiece` finds the
  piece in no cache, `ReadFromDisk` reads whatever the disk has, `KeepPiece`
  keeps it as verified. Of the data in a piece the model keeps how it came to be wrong,
  if it is. A verification that finds no entry
  ends the hash state and leaves the rest; a hash state that outlives a clear
  goes on from data that is no longer there and yields another digest.
- **PieceCacheLists** is the adaptive replacement cache: `Get`, `Promote`,
  `InsertGhost`, `MakeRoom`, `Evict`, `Put`, `Count`, `RemoveKey`, each
  under the lock of one list. A key leaves a list where it is found first; that
  no list has a key twice is part of what is proved. `overlapped` counts
  the insertions that looked for room while another piece was on its way into a list,
  or that found the list they were to evict from empty although there was something to evict
  or another piece was on its way.
- **MemoryBudget** is the compare-and-exchange loop of `try_allocate` with the
  permits' `resize` and `drop`.
- **RateLimiter** is the token bucket of one direction: a step of `Acquire`
  takes what there is, the task sleeps for the rest outside the lock, time
  passes in ticks of one unit of data.
- **WriteQueue** is the dispatcher with its sorted batches and the workers with
  their handles and the seeks that they leave out. The sort is modelled by what it
  yields (`InOrder`): each operation at the place of its rank, as many before it
  as come `Sooner`. An operation writes as many places as it is long (`Target`), so
  operations that begin at different offsets overlap; `Overlapped` are the places
  at which the sort has turned two of them around. A write may be done in part
  and report it, or report nothing (the error comes with the next one), and the
  file then stands where `last_write_offset` does not say.

The engine uses the first two and the limiter; the caching manager, its caches,
the budget and the write queue are exported by their crates and nothing in the
repository calls them. They are modelled as the libraries they are: any order
of calls that their public functions allow.

### Feeds, UdpTracker, Dht

- **Feeds** has a watched folder, an RSS feed with rules, and settings.json.
  `ScanBegins`/`ScanFile` are the scan, `RefreshBegins` to `RefreshEnds`
  the refresh loop (fetch, store, read the rules, match item by item),
  `ForceRefresh` to `ForcedStores` the refresh on demand, which runs beside it;
  `TakeFile`/`TakeMatch` the processors. `ChangeSettings`, `AskToSave`,
  `WriterTakes`, `SaveSettings` and `Quit` are the setters, the debounced writer and
  the save at exit; `SaveFails` is a write of settings.json that fails, in the
  writer or at exit, after which nobody tries again until the next request;
  `LifeEnds`/`BootFeeds` a crash or exit and the next start.
- **UdpTracker** is one announce or scrape: connect and request over one
  socket, retransmitted after a timeout, over a network that loses, delays and
  duplicates (a bag of datagrams), with an answer to an earlier owner of the port.
- **Dht** is a bucket with its replacements, lookups of several rounds that
  wait for all their queries, `pending_queries`, tokens with their rotation and
  the peer store, and the receiving task, which refreshes stale buckets
  itself and so hears nothing while it waits for the answers. `MaxIterations`
  bounds the rounds as in the code.

## 3. What the runs check

| Run | Instance | Distinct states | Shows |
| --- | --- | --- | --- |
| `AvailabilityChurn` | 1 piece, 2 connections, 2 addresses, 2 events in flight, counters up to 2 | 3.0 M | `MissingIsCandidate`: no interleaving takes a missing piece out of the index. `AvailabilityExact`: drained counters equal the owners in the table; after a Have or bitfield told twice or a cleared table they may be too high, never too low. |
| `DownloadSafety` | 1 piece of 2 blocks, 2 peers, 2 faults among choke, reject, close, late answer, write error, read error | 478 k | `OneVerifier`, `ReceivedIsWritten`, `NoPieceStuck`, `PipelineBounded`. |
| `DownloadLiveness` | 2 pieces (one skipped) of 1 block, 2 peers, 1 fault among close, wrong block, stale entry; a cancel channel of 1; fairness | 868 k | `Completes`: the wanted piece is eventually ours. `ImplementsLifecycle`. `EndgameCancelled`: who has seen every cancel waits for nothing we own, but for a piece that was started again or a channel that overflowed. |
| `PeerTableChurn` | one address we dial, one that dials us, 2 tasks per address, 2 loops, 2 commands, 5 scenarios; fairness | 965 k | `HalfOpenAccounted`, `NoGhostPeer`, `UploadSlots`, `TableExact`, `OneRunLoop`, and `HalfOpenReleased`: every half-open slot comes back. |
| `SessionChurn` | 2 torrents, 2 commands, 1 end of the process, with the exit or with magnets | 5.0 M | `Settled`: no request to save is lost. `Remembered`: a stored torrent is lost in four windows only. `RemovedStaysRemoved`: a removed one comes back in four only. |
| `QueueChurn` | 2 torrents, 2 commands, limits 1 or none, 5 scenarios | 3.6 M | `DownloadsBounded`: the limit is exceeded only by a choice that was stale or a limit lowered. `SlotsUsed`: who waits although it fits is about to be started. `PauseHolds`: only a dequeue or a move under way revives a paused torrent. `LoopRuns`: what runs has its loop. `CompletionFitting`: completion actions run once and for downloads. |
| `StorageChurn` | each storage module with 2 or 3 tasks, 3 to 6 operations (the part is chosen at the start) | 1.1 M | `WritesAreRead`, `SpansCover`, `OnlyVerifiedStored`, `MemoryCounted`, `BudgetKept`, `RateBounded`, `LastWriteWins`. |
| `OutsideChurn` | 2 files or items, 1 rule, 2 lives; 2 tries, 1 duplicate; 3 nodes, bucket of 2, 2 lookups | 2.1 M | `FeedsKept`: a finding is handed over once per life and again only if its mark was lost; settings reach the file. `AnswersOwn`: a call succeeds on its own answer. `TableKept`: failures, bucket, pending queries and announces stay true to what the nodes did. |
| `OwnedNotVerified` | as DownloadSafety, 1 wrong block | violation | a late endgame duplicate overwrites verified data. |
| `IdleAfterClose` | 2 pieces, 1 peer, 1 close; fairness | violation | requests that expire while every connection is idle are not made again. |
| `RestoreInterrupted` | as SessionChurn, no commands | violation | leaving during the restore drops the torrents not yet restored. |
| `QueueOldData` | 1 torrent, on the disk | violation | a resume before the end of the check makes old data a new completion. |

**Bounds, and why they suffice.** *AvailabilityChurn* needs two tasks so that
the read sections interleave, two addresses so that a counter can be 2 and two
events so that a Have or a bitfield and a departure wait together. One piece is
enough because every operation touches the pieces one by one and the only
relation between pieces is the order of the pick; `ColdStart = 1` lets both
modes of the picker occur. *DownloadSafety* needs two peers (endgame duplicates,
two verifiers) and two blocks (a piece partly received); a piece of two blocks
with `MaxRequests = 2` fills the pipeline. *DownloadLiveness* has a cancel
channel of one, which the second cancel overruns, and a second piece
that is skipped: it stays missing for ever, so endgame, which counts every missing
piece, never ends, and the picker must pass it over.
*PeerTableChurn* has one dialled and one incoming address; two tasks per address
are the fewest in which an event of an old connection meets a newer one, two
loops the fewest in which a removed torrent's loop meets the new one's.
`MaxEvents = 0` means that no connection *begins* while an event waits; those
under way still queue several. `MaxUnchoked = 1` makes the slots contended.
`MaxRetries = 1` is enough to give up. `Scenarios` are sets of features that
occur together in one behaviour: their product would be too large, and each set
holds those that meet in the code (pause and resume with incoming peers,
completion with disconnect, completion with a move and a pause,
removal and a second addition with a completion that comes late). `MaxAvail`,
`MaxFaults` and `MaxCommands` cap counters the code leaves open.
*SessionChurn* has two lives (`MaxEnds = 1`), so every state of the disk that a
first life can leave is restored by a second; the user acts in the first only
(a `Command` needs an end to come), while restore, writer and blob tasks run in
both. Two torrents are needed for a restore that is interrupted between entries,
two commands for a removal against an addition of the same torrent; a failed
session write uses up one. `Scenarios` keep the exit and the magnets apart. At
most one fetch and one removal of a hash are under way.
*QueueChurn* has two torrents for one slot: an earlier and a later one are all
that a position in the queue can tell apart, and two commands are a resume and the
other resume, pause or removal that crosses it (starts, checks, dequeues, share limits
and completions are no commands and come on top). `Limits` are one
or unlimited; the initial ones are one, so that somebody waits.
`StorageChurn` and `OutsideChurn` put modules side by side that share no state in
the code: a behaviour is one of one part (`part`), so the states are the sum and
not the product, and the properties of all parts are checked in one run. In
DiskStorage one block lies in one file and the other spans two; two handles per
behaviour are the fewest with which a file is open twice, and three
spans the fewest for a write of a block, a write of the other over it and a reader after them. FileSpans takes all
layouts of three files of 0 to 3 bytes and all blocks of all their pieces, with as many pieces
as the length needs, with one, and with four. Three
keys in a cache of two make every insertion contended; three users of the
budget can race an exchange while the third grows. A bucket of the limiter of two
with blocks of one and three lets a task borrow more than the bucket holds. In
WriteQueue a batch is shorter than the queue, operations are one or two places
long and there are two places in each of two files, so that two overlap from different offsets and
an operation may be sorted before, dealt to another worker or written without a seek. Feeds has two findings, of which one can be marked
while the other is stored, and two lives; `FeedScenarios` keep apart folder and
feed, which share only settings.json, and let one item meet a forced refresh or the
setters. UdpTracker tries twice, the fewest for a
late answer. In Dht three nodes overfill a bucket of two, two failures make
a node bad and two ids let one be drawn again; its scenarios (queries that are
answered, a network that is down, tokens) share the table but their product
would be too large. The theorems below do not depend on any of these bounds.

**Symmetry** is declared for connections (AvailabilityChurn), peers
(DownloadSafety), hashes (SessionChurn, RestoreInterrupted), tasks (StorageChurn)
and DHT nodes and transaction ids (OutsideChurn), only in runs without liveness
properties; they occur in the specifications only as names. Addresses are not
declared symmetric because the initial value of `addr` names one.

**Deadlock** is not checked: the environment is bounded (faults, commands,
events), so a behaviour may come to rest with nothing left to happen. What
must happen nevertheless is stated as liveness.

**Fairness.** In PieceDownload every task runs when it can (weak fairness of
`Task`), and the remote peers connect, unchoke, announce and answer (weak: it
is the environment in which a download is promised at all). The event
processor and the stale cleanup wait for the write lock, which other tasks'
read sections disable again and again: `parking_lot`'s lock does not let
readers overtake a waiting writer for ever, hence strong fairness. In PeerTable
every task runs; connects and handshakes end by `HANDSHAKE_TIMEOUT`; a task
that has been told to stop is in its `select!` and takes that branch
(`c \in told /\ Close(c)`); nothing is assumed of a connection that merely could
close, of the user, or of incoming peers.

**Completes and its limits.** With chokes, rejects, read errors or a lagging
cancel receiver in the fault set the download does *not* always complete, so
`Completes` is checked without them: the Choke handler leaves the requests
that were never answered in the pipeline's count (`PipelineBounded` is what
remains true), a read error in verification abandons the claim
(`NoPieceStuck` names this exception), and a lagging receiver keeps completed
blocks in its count. These follow from the same lines as the hazards of
PROJECT.json.

### Findings

1. **An owned piece is overwritten** (`OwnedNotVerified`). `handle_piece_message`
   writes a block without asking whether its piece is ours. In endgame two
   peers are asked for the same block; a wrong one that comes after the
   verification is written over the right one, and the bit stays set.
2. **Expired requests wait for a message** (`IdleAfterClose`). The cleanup frees
   pieces, but `request_pieces` is called from message handlers only. A
   connection that is unchoked and silent is never asked again.
3. **A torrent is lost when the application is left during its start**
   (`RestoreInterrupted`). `restore_session` adds the stored torrents one after
   the other and waits for the preallocation of each; the save at exit and the
   debounced writer store what is in the map at that time. What was not yet
   restored is dropped from session.json, although README.md:88 has the session
   restored on startup.
4. **Old data is a new completion** (`QueueOldData`). A torrent whose files are
   there is added paused and resumed before its check has found the last piece.
   `resume_torrent` (mod.rs:3296) makes it Downloading; the check then only
   marks the pieces, and the run loop finds a torrent that is complete and
   Downloading and runs the completion actions (mod.rs:2850), which may move
   the data. The comment at mod.rs:1930 says "Data was complete before this
   session; never fire completion actions for it."

## 4. What is proved

All proofs are checked by TLAPS for every value of the constants that satisfies
the named assumptions of the modules: limits, counts and sizes are natural
numbers (positive where the code divides by them or a size of nothing makes no
sense), addresses, connections of a bucket, users of the budget, torrents of the
queue and the scenarios' names are what their modules say, an address we dial is
not one that dials us, addresses, connections, DHT nodes and the tasks of the cache are finitely many, a file of a watched
folder is not an item of a feed, and every block of a torrent lies in one file at least. TLC
evaluates the assumptions in the runs. Each invariant was checked by TLC on a small
instance together with its strengthening before it was proved. The proofs have
one step per action; what several actions have in common is a lemma.

**PieceAvailabilityProofs.** `NoPieceLost` is `Spec => []MissingIsCandidate`: no
missing piece leaves the index. It is not inductive: `DownloadablePieces.add`
does nothing for a piece that is marked as in the set, so one has to know that
every marked piece really has an entry (`IndexedHasEntry`), and
`RemoveMarked` may only concern pieces whose bit is set (`MarkedIsOwned`).
`IndexInv` is their conjunction with `TypeOK`.

`CountersExact` (`AvailabilityExact`) is about the counters of that index, which
three parties raise and lower at different moments. By `CountInv` a counter is
never below what is due: the owners stored in the table, the Haves in the channel
and those counted but not yet sent. While nothing has drifted (a piece told twice, be it
by a Have or by a bitfield that comes when something is owned; a
table cleared under live connections) it is exactly that, because the events of one
address are in order (`Orderly`): Connected first, Disconnected last, a bitfield
before anything is owned, and no piece told twice. When and how often bitfields come
is left to the peer; that such a peer drives the counters up is what the code does. When the channel is empty and no task
has a Have in hand only the owners are left.

**PieceDownloadProofs.** `SingleVerification` (`OneVerifier`), `NothingUnwritten`
(`ReceivedIsWritten`) and `TypeCorrect` follow from `DownloadInv`, which adds
that a block about to be counted is on disk (`WrittenFirst`), that a dropped
piece has no blocks (`BlocksWritten`), and that a completion under way concerns an
owned piece (`EventsOwned`: else the event processor would release a claim that
a verifier holds). `DownloadImplementsLifecycle` shows
with these that every step is a step of PieceLifecycle or a stutter; its cases
are the steps of the claim (`StartVerifying`, `VerifyPiece`, `MarkComplete`,
`MarkFailed`) and the writes, and a lemma that every other action leaves phase
and disk alone. Three more theorems rest on `DownloadInv`:

- `NoPieceLeftStuck` (`NoPieceStuck`) by `StuckInv`: a piece we miss is in the
  index, an inactive one has no blocks, one whose blocks are all there has a task that
  verifies it or will, and a claim without a task comes from a failed read.
- `PipelineKept` (`PipelineBounded`) by `PipelineInv`: besides what is sent one
  has to count what the collecting loop still has in hand (`Collecting`). The
  requests are a bag; the lemmas count a bag as the set of its numbered entries, because its
  own cardinality is defined by recursion.
- `CancelsKept` (`EndgameCancelled`) by `CancelInv`: a task that asks for blocks
  of a piece that is ours has the piece in its channel, at whatever moment
  between its choice, its collection and its request the piece became ours.

**PeerTableProofs.** `NoHalfOpenLeak`, `NoGhosts`, `SlotsAreBounded` and
`TypeCorrect` follow from `PeerInv`. `HalfOpenAccounted` needs no strengthening
once the events are part of it: each handler removes one event and the entry it
accounted for. `NoGhostPeer` needs `ConnectedFollowed`: handling a Connected
makes an entry, so a Connected in the channel must have its task, or that task's
departure *behind* it. `SlotsAreBounded` needs that interest is kept for peers
of the table only (`InterestedArePeers`), since the round picks its
slots from the interested. `OneLoop` (`OneRunLoop`) counts the loops: a torrent
marked as looping has one, one that is not has none, unless it was added again
(`LoopsCounted`). `TableIsExact` (`TableExact`) is about one address at a
time: `AddrInv` says that it has at most one task, that the *last* report in the
channel tells whether it is connected, that an address we may dial is in the table
from the dial until its departure is handled, and that a loop's targets are
addresses nobody uses; `Directions` that we dial some addresses and accept
from others. It holds while nothing clears the tables under live connections
(`Calm`), and that exception is why it has to be conditional throughout the induction.

**TorrentQueueProofs.** `QueueInv` is the conjunction of: `PauseHolds`, which is
inductive with the types; `LoopInv`, which says of *every* state that is running
or will run when a check or move ends that a loop or a start is there (`LoopsKeptRunning`);
`CheckedInv`, `CompleteInv` and `HandledInv`, which relate completeness,
verification and completion actions (`CompletionKeptFitting`); `OrderInv`, from
which `DownloadsKeptBounded` follows: each torrent that downloads has fewer than
the limit *before* it, and the last of them has all the others before it; and
`WaitInv`, from which `SlotsKeptUsed` follows: while somebody waits, the active
downloads with the slots that came free and the choices that are about to be acted on
reach the limit. It counts choices of one torrent by several tasks as pairs.

**SessionStoreProofs.** `SessionSettles` (`Settled`) by `SettledInv`: a request is
due, or a task that will ask, or the file (the one being written, if one is)
says what the list says. `StoredRemembered` (`Remembered`) by `KeptInv`: what was
stored is in the list or still to be restored, its blob on the disk, and in
every snapshot of a whole list on its way to the file. `RemovedForGood`
(`RemovedStaysRemoved`) by `RemovedInv`: what was removed has neither an entry nor
a blob nor a task (addition, restore, blob writer) that could bring one back. The
process may end in any of these states, any number of times.

**StorageProofs.** Each of the seven modules is proved under its own
specification, its types with it. `StorageSpec`, which the run checks, runs one of
them and leaves the variables of the others alone (`PartsApart`);
`StorageKept` concludes that all types and all seven properties hold of it.

- `BudgetIsKept` (`BudgetKept`): the usage is what the permits hold, and goes beyond the
  limit only by `Growth`, what permits were resized by. A task about to exchange has seen a usage
  that its wish fits.
- `RateIsBounded` (`RateBounded`): the sum of what has passed, what the bucket has
  and what the sleepers are ahead by (`LagSum`) comes from the full buckets, the time
  booked by the bucket and the time slept.
- `OnlyVerifiedIsStored` (`OnlyVerifiedStored`) by `CachingInv`: a hash state that
  says right has been fed only right blocks, but for those replaced since
  (`HashedRight`); who has found the piece complete and was not overtaken finds it
  whole and takes what was hashed (`CompletesWhole`, `TakesRight`); and what is
  on its way to the disk is right, or wrong in one of two named ways (`StoresHashed`). A
  reader may keep what it read too early, but that never goes to the disk. The memory counted is
  that of the blocks (`MemoryIsBlocks`).
- `WritesAreFound` (`WritesAreRead`) by `DiskInv`: of every file that has met with none of
  the four mishaps (`Met`), a block that was written is on the disk where the file is at
  home (`Home`) or on its way there through a handle, and the storage in use has one handle
  of it that anybody uses (`OneServes`), so whoever looks for the block waits
  for it. What a read has found is stronger: it is in every place from which the storage may yet
  go on (`Homes`: both, while a copied file may still have to stay), mishap or
  not, but for files that a failing move had deleted (`ConfirmedThere`). Nothing is on its way to a
  file that is being copied, or it has met with the mishap `late` (`StillFiles`).
  This is what eviction, flush, late writers and the four ways through a move must preserve.
- `BlocksAreCovered` (`SpansCover`) by `SpansInv`: what was taken so far ends where the
  next span begins, and the spans are files in order, each inside of its own
  bounds. The offset of a file is a sum over the files before it, defined by a
  recursive function; that the sums exist for any number of files is shown by
  the greatest place up to which they do. What is left at the end is compared with what
  lies behind the last file, whatever the number of pieces says.

- `MemoryIsCounted` (`MemoryCounted`) by `ListsInv`: what bounds the cache is not the length of
  its lists but that and the pieces on their way into one, between a promotion's
  two locks or between making room and the insertion. The calls at each stage are
  counted as sets of tasks, and the lists hold each key once (`KeyLists`), which is why
  the removal of a key shortens a list by one or not at all.
- `LastWritesWin` (`LastWriteWins`) by `QueueInv`: operations come in the order of
  their ids, and a worker has what came before everything that still waits (`ComeInOrder`); on one place
  they stay in that order unless the sort turned it (`WaitInOrder`); what the place holds
  came before what waits for it, and if it is not the latest then the latest waits
  (`HoldsOrWaits`), which is claimed of the places where no overlap was turned round and no write
  failed or went astray (`Fine`); and a seek is left out only where the handle stands at
  the place, in a file in which no write has fallen short (`SeekLeftOut`).
  That the sort is a permutation of its batch, each operation at its rank, is shown by
  counting those before it.

**OutsideProofs.** Each of the three parts is proved under its own specification,
its types with it, and `OutsideKept` puts them together for `OutsideSpec`, as above.

- `FindingsKept` (`FeedsKept`) by `FeedsInv`: the mark of an item that was sent is in memory,
  or in the file, or was lost with a life and is counted as `forgotten`
  (`LivesCounted`: each life sends an item once), so nothing is sent twice in a life; and a
  change of the settings is about to be asked for, asked for, in the writer's snapshot, in the
  file, or was lost with a write that failed (`ChangeIsUnderWay`). What a forced refresh, which
  stores flags it read earlier, has read as marked is marked (`ForcedRead`).
- `AnswersAreOwn` (`AnswersOwn`) by `UdpInv`: what is on its way to us carries an id that
  was granted or an answer that was served (`WireIsOwn`), for any bag of
  datagrams; and as long as nothing disturbed the call (`Undisturbed`) there is at most one datagram until
  we are connected, and after that all are of this transaction (`WireIsExpected`): so a
  call cannot fail as invalid. The ids are numbered, and that there are never more than
  `UdpTypeOK` allows is an invariant of its own: those granted are at most the
  connects sent or doubled (`GrantsCounted`), those at most the tries and the copies (`TriesCounted`).
- `DhtKept` (`TableKept`) by `DhtInv`: a node that is twice in the bucket is blamed in its first
  entry only (`FirstIsBlamed`), which is why hearing it clears all its failures;
  replacements join without failures; a node that is in both lists, or twice in one,
  was queued twice (`QueuedTwice`); and a lookup asks a node once (`AskedOnce`), so that two
  queries with one id are different ones and the second owner shows as `collided`. The
  bounds of the counters in its type are `DhtCounted`.

**CountingLemmas** has what the library's theorems do not state: a finite set of
numbers has a greatest element, and pairs below a bound are finitely many and grow
by one when a bound does.

**Model-checked only.** Every invariant and every action property of the passing runs
is stated by a theorem. What stays with TLC is liveness under fairness, which the prover does not
reason about: `Completes` and `HalfOpenReleased`. The findings (`ExpiredRedownloaded`,
a liveness property, among them) are violations, which only a run can show.

## 5. What the reading showed besides

These follow from the code, and are noted here for the modules to come or
because no statement of the repository contradicts them.

- A connection between handshake and subscription misses the shutdown signal
  and joins a paused or moving torrent (mod.rs:3241, 2094), although peers are to be
  "disconnected for the duration" (mod.rs:2081).
- A Disconnected of a connection from before a pause removes the entry of the
  one made after the resume (mod.rs:879), hence the condition `~cleared` of
  `TableExact`.
- After remove and add, the old run loop finds the new torrent under its hash and
  goes on: two loops for one torrent (mod.rs:2491), hence `~readded`.
- Dials planned before a pause are carried out after it (mod.rs:2719).
- The global connection limit is read and counted in two steps (mod.rs:2619);
  peers half-open are not counted towards a torrent's limit.
- The tracker's announce of the run loop inserts addresses that are in back-off
  (mod.rs:2359).
- A move overwrites a concurrent pause, and a dequeue does too (mod.rs:2093, 3434).
- A completed download does not start the next queued one (mod.rs:3256): the
  window `finished` of SlotsUsed.
- A move that finds its torrent queued or paused takes it all the same and leaves it
  Completed when it ends, without a run loop (mod.rs:2093, 2130): the
  exception `revived` of LoopRuns.
- A download whose last piece comes from an incoming peer while it is paused, queued
  or checked never runs its completion actions (mod.rs:904, 1932).
- A piece that is completed between another task's choice and its `start_piece`
  becomes active again although it is ours, and endgame has everybody ask
  for its blocks: the exception `reopened` of EndgameCancelled.
- A piece that is owned may be picked again: `mark_piece_complete` reads the
  availability before it locks the index and removes the entry at *that*
  availability (piece.rs:262); a Have in between has moved it, and the picker
  does not look at our bitfield. The piece is fetched again: wasted traffic, no
  loss.
- A block that is waited for refills the bucket while it sleeps, and so do those of
  others: with N connections the rate can reach N+1 times the limit
  (bandwidth.rs:65; `RateBounded` states this bound).
- `evict_idle_handles` is called by nobody in the engine, so handles stay
  open; the flush that unregistering spawns is not awaited, although the
  comment before the move says that file handles are closed before the files are
  touched (mod.rs:2104). `WritesAreRead` names the exceptions: `split`, `late`, `failed`.
- A move across file systems that fails while it deletes the source goes back to
  a place that is half empty, although the copy was whole (mod.rs:2112, 2246): the
  exception `deleted`. The pieces stay marked as ours.
- A background write that fails after `write_block` has returned Ok shows only in the next use
  of the handle, if there is one: the block counts as received. Verification reads it again.
- A bitfield that comes again raises the availability again and overwrites what the
  departure will take away (mod.rs:974): `drifted`.
- A removal that cannot delete the files has removed the torrent all the same, and returns before the next
  queued one is started (mod.rs:3334): the window `undeleted`.
- A hybrid torrent may have more hashes than its files have bytes for
  (metainfo.rs:410, 196): reads and writes of what lies behind the last file succeed with
  fewer bytes than were asked for.
- `CachingDiskManager::read_piece` keeps what the disk has as verified, also before the piece was written
  (caching_manager.rs:146), and a batch of the write queue is sorted by offset, so that the older one of two overlapping
  operations may be written last (io_queue.rs:117). Nothing in the repository calls either.
- A DHT refresh runs inside the receiving task, so its own queries all time out
  (server.rs:499). A node that failed once, or was silent for 15 minutes, is
  not chosen by find_closest any more, and nothing asks it again; hearsay resets its failures. A send that fails
  leaves its entry in pending_queries (server.rs:459): after 1024 of them every
  query is refused. An error of the socket ends the receive loop (server.rs:488).
- RSS marks are saved only when a setting is saved or at exit; an item or a file
  whose addition failed is not tried again in that life, and the files of a
  watched folder are added again after each restart (and found to be duplicates).
  A forced refresh sets `last_refresh`, so that the rules look at the new items one
  interval later.
- An error that a UDP tracker answers to an announce is reported as a response
  that is too short when its text has fewer than 12 bytes (udp.rs:144 looks at
  the length before the action).
- Rounds of announces may overlap (mod.rs:2974); the tick of a connection's
  `select!` begins anew with every message (peer_connection.rs:275). Both
  are matters of timing that the models do not count.

## 6. Plan

1. **What a connection does besides downloading**: serving requests, the
   exchange of peers and of metadata over one connection, the allowed-fast set. They share
   the connection task of PieceDownload and add their own state.
2. **Algorithms** against reference definitions over bounded inputs: bitfield
   bytes, Merkle roots. Recursive, hence without theorem.

Not modelled and not planned: parsing and formatting (bencode, magnet links, HTTP
trackers, metainfo), the search plugins (a process per search whose output
is parsed), UPnP and LSD (a datagram each, whose finds enter PeerTable as
`Discover`), statistics, the stand-alone choker that nothing uses, the Tauri commands (one
call of the engine each) and the frontend. They keep no state of the
protocol or are pure I/O; what they discover or add enters the models as a free
choice (`Discover`, `Add`).
