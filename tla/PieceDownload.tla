---------------------------- MODULE PieceDownload ----------------------------
(***************************************************************************)
(* The download of one torrent: the peer tasks of peer_connection.rs, each *)
(* in its message loop, share one PieceManager and one storage.            *)
(*                                                                         *)
(* A step of a peer task ends where another task can run: at an await      *)
(* (disk, socket) or between two critical sections of the piece manager's  *)
(* locks.  The engine's `torrents` lock is held for reading by the tasks   *)
(* and for writing by the event processor and the run loop.                *)
(*                                                                         *)
(* Data: a block on the disk is none, good or bad (bad: its piece cannot   *)
(* hash to the metainfo's value).  The order of the rarest-first index is  *)
(* the subject of PieceAvailability; here any candidate may come first.    *)
(* Time: a request may be older than REQUEST_TIMEOUT whenever it is        *)
(* outstanding.  What may go wrong is a set of fault kinds and a budget.   *)
(***************************************************************************)
EXTENDS Integers, FiniteSets, Sequences, Bags, Functions, FiniteSetsExt

CONSTANTS
    PieceCount,    \* pieces are 0 .. PieceCount - 1
    BlocksPerPiece,\* piece length in blocks
    Peers,         \* peer connections
    SkippedPieces, \* pieces of priority 0
    Sequential,    \* ManagedTorrent.sequential_download
    MaxRequests,   \* MAX_REQUESTS_PER_PEER
    MaxParallel,   \* MAX_PARALLEL_PIECES
    EndgameLimit,  \* is_endgame: remaining pieces at most this
    CancelCap,     \* capacity of the cancel broadcast channel
    FaultKinds,    \* the kinds of faults of this instance
    MaxFaults,     \* how many of them may happen
    MaxEvents      \* bound on the length of the event channel

Pieces == 0 .. PieceCount - 1
Blocks == 0 .. BlocksPerPiece - 1
Kinds == {"badBlock", "choke", "reject", "close", "late",
          "writeError", "verifyError", "staleEntry"}

ASSUME SizesAssumption ==
    {PieceCount, BlocksPerPiece, MaxRequests, MaxParallel, CancelCap} \subseteq Nat \ {0}
ASSUME LimitsAssumption ==
    /\ {EndgameLimit, MaxFaults, MaxEvents} \subseteq Nat
    /\ SkippedPieces \subseteq Pieces /\ Sequential \in BOOLEAN
    /\ FaultKinds \subseteq Kinds

VARIABLES
    (* PieceManager *)
    have,          \* our_bitfield
    active,        \* keys of active_pieces
    blocks,        \* PieceState.blocks of each active piece
    pending,       \* PieceState.pending_blocks
    verifying,     \* verifying_pieces
    indexed,       \* DownloadablePieces.in_candidates
    candidates,    \* pieces with an entry in DownloadablePieces.candidates
    (* storage *)
    disk,          \* what is written for each block of each piece
    (* a peer task *)
    pc,            \* closed, loop (in select), or inside a handler
    piece, block, data,  \* the block or the piece being handled
    wanted,        \* offsets get_block_requests returned
    batch,         \* requests collected by this request_pieces call (one that is
                   \* collected twice, after a cleanup in between, counts once)
    rounds,        \* pieces picked by this call
    endgame,       \* is_endgame as this call saw it
    requested,     \* pending_requests: a bag of <<piece, offset>>
    cancels,       \* cancel_rx: pieces completed elsewhere
    (* the remote peer *)
    choking,       \* whether it chokes us
    owns,          \* PeerConnection.remote_bitfield
    asked,         \* requests it has received and not yet answered
    (* engine *)
    events,        \* PieceCompleted events on their way to the engine
    snapshot,      \* pieces found stale by the cleanup task
    faults,        \* faults so far
    (* history *)
    overrun,       \* tasks whose full channel has lost a cancel
    reopened       \* pieces that were started when they were ours already

manager == <<have, active, blocks, pending, verifying, indexed, candidates>>
handled == <<piece, block, data>>
request == <<wanted, batch, rounds, endgame>>
remote == <<choking, owns, asked>>
channel == <<cancels, overrun>>
engine == <<events, snapshot, faults, reopened>>
vars == <<manager, disk, pc, handled, request, requested, channel, remote, engine>>

Data == {"good", "bad"}
InRead == {"pick", "start", "addPending"}  \* inside torrents.read(), between two locks
Verification == {"verify", "valid", "invalid"}
Steps == {"closed", "loop", "write", "receive", "startVerify", "request"}
             \cup InRead \cup Verification

Init ==
    /\ have = {} /\ active = {} /\ verifying = {}
    /\ indexed = Pieces /\ candidates = Pieces
    /\ blocks = [p \in Pieces |-> {}] /\ pending = [p \in Pieces |-> {}]
    /\ disk = [p \in Pieces |-> [b \in Blocks |-> "none"]]
    /\ pc = [q \in Peers |-> "closed"]
    /\ piece = [q \in Peers |-> 0] /\ block = [q \in Peers |-> 0]
    /\ data = [q \in Peers |-> "good"]
    /\ wanted = [q \in Peers |-> {}] /\ batch = [q \in Peers |-> {}]
    /\ rounds = [q \in Peers |-> 0] /\ endgame = [q \in Peers |-> FALSE]
    /\ requested = [q \in Peers |-> EmptyBag]
    /\ cancels = [q \in Peers |-> <<>>]
    /\ choking = [q \in Peers |-> TRUE]
    /\ owns = [q \in Peers |-> {}]
    /\ asked = [q \in Peers |-> {}]
    /\ events = <<>> /\ snapshot = {} /\ faults = 0
    /\ overrun = {} /\ reopened = {}

-----------------------------------------------------------------------------
Goto(q, step) == pc' = [pc EXCEPT ![q] = step]
Fault(kind) == kind \in FaultKinds /\ faults < MaxFaults /\ faults' = faults + 1
WriteLockFree == \A q \in Peers : pc[q] \notin InRead
Entries(bag) == UNION {{r} \X (1 .. bag[r]) : r \in DOMAIN bag}
Size(bag) == Cardinality(Entries(bag))
Without(bag, ps) == Restrict(bag, {r \in DOMAIN bag : r[1] \notin ps})
Unanswered(q, ps) == {r \in asked[q] : r[1] \in ps}

(* active_pieces.remove of every piece of ps. *)
Deactivate(ps) ==
    /\ active' = active \ ps
    /\ blocks' = [p \in Pieces |-> IF p \in ps THEN {} ELSE blocks[p]]
    /\ pending' = [p \in Pieces |-> IF p \in ps THEN {} ELSE pending[p]]

-----------------------------------------------------------------------------
(* The message loop.                                                       *)

(* A connection is set up; the peer's bitfield, once known, stays until    *)
(* its next Have.  A peer that has sent none is taken to own everything.   *)
Open(q, ps) ==
    /\ pc[q] = "closed"
    /\ Goto(q, "loop")
    /\ owns' = [owns EXCEPT ![q] = ps]
    /\ choking' = [choking EXCEPT ![q] = TRUE]
    /\ UNCHANGED <<manager, disk, handled, request, requested, channel, asked, engine>>

(* run_peer_connection returns: pending_requests is dropped with the task, *)
(* the piece manager's pending blocks are not touched.                     *)
End(q) ==
    /\ Goto(q, "closed")
    /\ requested' = [requested EXCEPT ![q] = EmptyBag]
    /\ cancels' = [cancels EXCEPT ![q] = <<>>] /\ overrun' = overrun \ {q}
    /\ asked' = [asked EXCEPT ![q] = {}]
    /\ UNCHANGED <<choking, owns>>

Close(q) ==
    /\ pc[q] = "loop" /\ Fault("close")
    /\ End(q)
    /\ UNCHANGED <<manager, disk, handled, request, events, snapshot, reopened>>

Unchoke(q) ==
    /\ pc[q] = "loop" /\ choking[q]
    /\ choking' = [choking EXCEPT ![q] = FALSE]
    /\ Goto(q, "request")
    /\ UNCHANGED <<manager, disk, handled, request, requested, channel, owns, asked, engine>>

(* Message::Choke: the peer forgets our requests, all or (fast extension)  *)
(* some of them; the handler only records the choking.                     *)
Choke(q, kept) ==
    /\ pc[q] = "loop" /\ ~choking[q] /\ Fault("choke")
    /\ kept \subseteq asked[q]
    /\ choking' = [choking EXCEPT ![q] = TRUE]
    /\ asked' = [asked EXCEPT ![q] = kept]
    /\ UNCHANGED <<manager, disk, pc, handled, request, requested, channel, owns,
                   events, snapshot, reopened>>

(* Message::RejectRequest is only logged. *)
Reject(q, r) ==
    /\ pc[q] = "loop" /\ r \in asked[q] /\ Fault("reject")
    /\ asked' = [asked EXCEPT ![q] = @ \ {r}]
    /\ UNCHANGED <<manager, disk, pc, handled, request, requested, channel,
                   choking, owns, events, snapshot, reopened>>

ReceiveHave(q, p) ==
    /\ pc[q] = "loop" /\ p \notin owns[q]
    /\ owns' = [owns EXCEPT ![q] = @ \cup {p}]
    /\ Goto(q, IF choking[q] THEN "loop" ELSE "request")
    /\ UNCHANGED <<manager, disk, handled, request, requested, channel, choking, asked, engine>>

(* handle_cancel: our entries for the piece go; the Cancel may or may not  *)
(* reach the peer before it has answered.                                  *)
HandleCancel(q, kept) ==
    /\ pc[q] = "loop" /\ cancels[q] # <<>>
    /\ LET p == Head(cancels[q]) IN
       /\ requested' = [requested EXCEPT ![q] = Without(@, {p})]
       /\ kept \subseteq Unanswered(q, {p})
       /\ asked' = IF \E r \in DOMAIN requested[q] : r[1] = p
                     THEN [asked EXCEPT ![q] = (@ \ Unanswered(q, {p})) \cup kept]
                     ELSE asked
    /\ cancels' = [cancels EXCEPT ![q] = Tail(@)] /\ UNCHANGED overrun
    /\ UNCHANGED <<manager, disk, pc, handled, request, choking, owns, engine>>

-----------------------------------------------------------------------------
(* handle_piece_message.                                                   *)

ReceivePiece(q, r, d) ==
    /\ pc[q] = "loop" /\ r \in asked[q]
    /\ IF d = "bad" THEN Fault("badBlock") ELSE UNCHANGED faults
    /\ asked' = [asked EXCEPT ![q] = @ \ {r}]
    /\ requested' = [requested EXCEPT ![q] = Restrict(@, DOMAIN @ \ {r})]
    /\ piece' = [piece EXCEPT ![q] = r[1]]
    /\ block' = [block EXCEPT ![q] = r[2]]
    /\ data' = [data EXCEPT ![q] = d]
    /\ Goto(q, "write")
    /\ UNCHANGED <<manager, disk, request, channel, choking, owns, events, snapshot, reopened>>

(* Mutant: every block is written at the start of its piece. *)
WriteAtStart(q) ==
    /\ pc[q] = "write"
    /\ disk' = [disk EXCEPT ![piece[q]][0] = data[q]]
    /\ Goto(q, "receive")
    /\ data' = [data EXCEPT ![q] = "good"]
    /\ UNCHANGED <<manager, piece, block, request, requested, channel, remote, engine>>

(* write_block does not ask whether we already have the piece. *)
WriteBlock(q) ==
    /\ pc[q] = "write"
    /\ disk' = [disk EXCEPT ![piece[q]][block[q]] = data[q]]
    /\ Goto(q, "receive")
    /\ data' = [data EXCEPT ![q] = "good"]
    /\ UNCHANGED <<manager, piece, block, request, requested, channel, remote, engine>>

WriteFails(q) ==
    /\ pc[q] = "write" /\ Fault("writeError")
    /\ End(q)
    /\ UNCHANGED <<manager, disk, handled, request, events, snapshot, reopened>>

(* Mutant: the last block is never noticed. *)
ReceiveBlockUnnoticed(q) ==
    LET p == piece[q] IN
    /\ pc[q] = "receive"
    /\ blocks' = IF p \in active THEN [blocks EXCEPT ![p] = @ \cup {block[q]}] ELSE blocks
    /\ pending' = [pending EXCEPT ![p] = @ \ {block[q]}]
    /\ Goto(q, "request")
    /\ UNCHANGED <<have, active, verifying, indexed, candidates, disk, handled, request,
                   requested, channel, remote, engine>>

(* receive_block: refused, without effect, for a piece that is not active. *)
ReceiveBlock(q) ==
    LET p == piece[q]
        got == blocks[p] \cup {block[q]} IN
    /\ pc[q] = "receive"
    /\ blocks' = IF p \in active THEN [blocks EXCEPT ![p] = got] ELSE blocks
    /\ pending' = [pending EXCEPT ![p] = @ \ {block[q]}]
    /\ Goto(q, IF p \in active /\ got = Blocks THEN "startVerify" ELSE "request")
    /\ UNCHANGED <<have, active, verifying, indexed, candidates, disk, handled, request,
                   requested, channel, remote, engine>>

(* Mutant: the answer of the set insertion is ignored. *)
StartVerifyingAnyway(q) ==
    /\ pc[q] = "startVerify"
    /\ verifying' = verifying \cup {piece[q]}
    /\ Goto(q, "verify")
    /\ UNCHANGED <<have, active, blocks, pending, indexed, candidates, disk, handled,
                   request, requested, channel, remote, engine>>

StartVerifying(q) ==
    /\ pc[q] = "startVerify"
    /\ verifying' = verifying \cup {piece[q]}
    /\ Goto(q, IF piece[q] \in verifying THEN "request" ELSE "verify")
    /\ UNCHANGED <<have, active, blocks, pending, indexed, candidates, disk, handled,
                   request, requested, channel, remote, engine>>

(* Mutant: the hash is not compared. *)
VerifyNothing(q) ==
    /\ pc[q] = "verify"
    /\ Goto(q, "valid")
    /\ UNCHANGED <<manager, disk, handled, request, requested, channel, remote, engine>>

(* verify_piece reads the piece back and hashes it. *)
VerifyPiece(q) ==
    /\ pc[q] = "verify"
    /\ Goto(q, IF \A b \in Blocks : disk[piece[q]][b] = "good" THEN "valid" ELSE "invalid")
    /\ UNCHANGED <<manager, disk, handled, request, requested, channel, remote, engine>>

(* A read error ends the task; nobody takes the piece out of verifying.    *)
VerifyFails(q) ==
    /\ pc[q] = "verify" /\ Fault("verifyError")
    /\ End(q)
    /\ UNCHANGED <<manager, disk, handled, request, events, snapshot, reopened>>

BroadcastNothing(p) == UNCHANGED channel  \* mutant: cancel_tx is never used

(* A full broadcast channel loses its oldest entry. *)
Broadcast(p) ==
    /\ cancels' = [q \in Peers |->
           IF pc[q] = "closed" THEN cancels[q]
           ELSE IF Len(cancels[q]) < CancelCap THEN Append(cancels[q], p)
           ELSE Append(Tail(cancels[q]), p)]
    /\ overrun' = overrun \cup {q \in Peers : pc[q] # "closed" /\ Len(cancels[q]) >= CancelCap}

(* DownloadablePieces.remove; a concurrent Have may leave an entry behind  *)
(* (see PieceAvailability).                                                *)
Remove(p, left) ==
    /\ indexed' = indexed \ {p}
    /\ candidates' = IF p \in indexed \ left THEN candidates \ {p} ELSE candidates

MarkComplete(q, left) ==
    LET p == piece[q] IN
    /\ pc[q] = "valid" /\ Len(events) < MaxEvents
    /\ left \subseteq {p}
    /\ IF left # {} THEN Fault("staleEntry") ELSE UNCHANGED faults
    /\ have' = have \cup {p}
    /\ Deactivate({p})
    /\ verifying' = verifying \ {p}
    /\ Remove(p, left)
    /\ Broadcast(p)
    /\ requested' = [requested EXCEPT ![q] = Without(@, {p})]
    /\ events' = Append(events, p)
    /\ Goto(q, "request")
    /\ UNCHANGED <<disk, handled, request, remote, snapshot, reopened>>

MarkFailed(q) ==
    LET p == piece[q] IN
    /\ pc[q] = "invalid"
    /\ Deactivate({p})
    /\ verifying' = verifying \ {p}
    /\ indexed' = indexed \cup {p}
    /\ candidates' = IF p \in indexed THEN candidates ELSE candidates \cup {p}
    /\ requested' = [requested EXCEPT ![q] = Without(@, {p})]
    /\ Goto(q, "request")
    /\ UNCHANGED <<have, disk, handled, request, channel, remote, engine>>

-----------------------------------------------------------------------------
(* request_pieces.                                                         *)

BeginRequest(q) ==
    LET idle == choking[q] \/ Size(requested[q]) >= MaxRequests
        remaining == PieceCount - Cardinality(have) IN
    /\ pc[q] = "request"
    /\ Goto(q, IF idle THEN "loop" ELSE "pick")
    /\ batch' = [batch EXCEPT ![q] = {}]
    /\ rounds' = [rounds EXCEPT ![q] = 0]
    /\ endgame' = [endgame EXCEPT ![q] = ~idle /\ remaining \in 1 .. EndgameLimit]
    /\ piece' = [piece EXCEPT ![q] = 0] /\ block' = [block EXCEPT ![q] = 0]
    /\ UNCHANGED <<manager, disk, data, wanted, requested, channel, remote, engine>>

Budget(q) == MaxRequests - Size(requested[q]) - Cardinality(batch[q])
HasRoom(p) == Cardinality(blocks[p]) + Cardinality(pending[p]) < BlocksPerPiece

(* pick_piece_sequential_with_priorities looks at our bitfield,            *)
(* pick_piece_with_priorities at the candidates only.                      *)
Picks(q) ==
    LET pool == ((IF Sequential THEN Pieces \ have ELSE candidates) \cap owns[q])
                    \ SkippedPieces
        fresh == pool \ active
        shared == {p \in pool \cap active : HasRoom(p)}
        best == IF fresh # {} THEN fresh ELSE shared
    IN IF Sequential THEN {p \in best : \A o \in best : p <= o} ELSE best

MayPick(q) == rounds[q] < MaxParallel /\ Budget(q) > 0 /\ Picks(q) # {}

PickPiece(q) ==
    /\ pc[q] = "pick" /\ MayPick(q)
    /\ \E p \in Picks(q) : piece' = [piece EXCEPT ![q] = p]
    /\ rounds' = [rounds EXCEPT ![q] = @ + 1]
    /\ Goto(q, "start")
    /\ UNCHANGED <<manager, disk, block, data, wanted, batch, endgame, requested,
                   channel, remote, engine>>

FirstOfNext(bs, n) ==  \* mutant: block numbers count from one
    {b + 1 : b \in {c \in bs : Cardinality({o \in bs : o < c}) < n}}
FirstOf(bs, n) == {b \in bs : Cardinality({o \in bs : o < b}) < n}

(* start_piece, then get_block_requests. *)
StartPiece(q) ==
    LET p == piece[q] IN
    /\ pc[q] = "start"
    /\ active' = active \cup {p}
    /\ reopened' = IF p \in have THEN reopened \cup {p} ELSE reopened
    /\ wanted' = [wanted EXCEPT ![q] = FirstOf(Blocks \ (blocks[p] \cup pending[p]), Budget(q))]
    /\ Goto(q, "addPending")
    /\ UNCHANGED <<have, blocks, pending, verifying, indexed, candidates, disk, handled,
                   batch, rounds, endgame, requested, channel, remote, events, snapshot, faults>>

AddPending(q) ==
    LET p == piece[q] IN
    /\ pc[q] = "addPending"
    /\ pending' = IF p \in active THEN [pending EXCEPT ![p] = @ \cup wanted[q]] ELSE pending
    /\ batch' = [batch EXCEPT ![q] = @ \cup ({p} \X wanted[q])]
    /\ wanted' = [wanted EXCEPT ![q] = {}]
    /\ piece' = [piece EXCEPT ![q] = 0]
    /\ Goto(q, "pick")
    /\ UNCHANGED <<have, active, blocks, verifying, indexed, candidates, disk, block, data,
                   rounds, endgame, requested, channel, remote, engine>>

(* Mutants: endgame asks for blocks nobody has asked for, or ignores the   *)
(* budget.                                                                 *)
NotOutstanding(q) ==
    UNION {{p} \X (Blocks \ (blocks[p] \cup pending[p])) : p \in active \cap owns[q]}
EndgameUnbounded(q) ==
    IF endgame[q] /\ batch[q] = {}
      THEN {UNION {{p} \X pending[p] : p \in active \cap owns[q]}}
      ELSE {{}}

(* get_endgame_requests of the pieces the peer has, up to the budget: every *)
(* outstanding block, our own requests to this peer included.              *)
Outstanding(q) == UNION {{p} \X pending[p] : p \in active \cap owns[q]}
EndgameRequests(q) ==
    IF endgame[q] /\ batch[q] = {}
      THEN kSubset(Min({Budget(q), Cardinality(Outstanding(q))}), Outstanding(q))
      ELSE {{}}

SendRequests(q) ==
    /\ pc[q] = "pick" /\ ~MayPick(q)
    /\ \E extra \in EndgameRequests(q) :
          LET reqs == batch[q] \cup extra IN
          /\ requested' = [requested EXCEPT ![q] = @ (+) SetToBag(reqs)]
          /\ asked' = [asked EXCEPT ![q] = @ \cup reqs]
    /\ batch' = [batch EXCEPT ![q] = {}]
    /\ rounds' = [rounds EXCEPT ![q] = 0]
    /\ endgame' = [endgame EXCEPT ![q] = FALSE]
    /\ Goto(q, "loop")
    /\ UNCHANGED <<manager, disk, handled, wanted, channel, choking, owns, engine>>

-----------------------------------------------------------------------------
(* The engine.                                                             *)

(* PieceCompleted: the event processor marks the piece again. *)
OnPieceCompleted ==
    /\ events # <<>> /\ WriteLockFree
    /\ events' = Tail(events)
    /\ LET p == Head(events) IN
       /\ have' = have \cup {p}
       /\ Deactivate({p})
       /\ verifying' = verifying \ {p}
       /\ Remove(p, {})
    /\ UNCHANGED <<disk, pc, handled, request, requested, channel, remote, snapshot, faults,
                   reopened>>

(* A piece is stale when one of its requests is older than the timeout: a  *)
(* request nobody will answer always gets there; one that is still to be   *)
(* answered does when the answer is late, which is a fault.                *)
Awaited(p, b) ==
    \E q \in Peers :
        \/ <<p, b>> \in asked[q] \cup batch[q]
        \/ pc[q] \in {"write", "receive"} /\ piece[q] = p /\ block[q] = b
Orphans == {p \in active : \E b \in pending[p] : ~Awaited(p, b)}
Stale(ps) ==
    /\ ps # {} /\ ps \subseteq {p \in active : pending[p] # {}}
    /\ IF ps \subseteq Orphans THEN UNCHANGED faults ELSE Fault("late")

(* cleanup_stale_pieces in the run loop, with the write lock ... *)
CleanupStale(ps) ==
    /\ WriteLockFree /\ Stale(ps)
    /\ Deactivate(ps)
    /\ UNCHANGED <<have, verifying, indexed, candidates, disk, pc, handled, request,
                   requested, channel, remote, events, snapshot, reopened>>

(* ... and in the cleanup task, which finds the stale pieces under one     *)
(* lock and removes them under another.                                    *)
FindStale(ps) ==
    /\ snapshot = {} /\ Stale(ps)
    /\ snapshot' = ps
    /\ UNCHANGED <<manager, disk, pc, handled, request, requested, channel, remote, events,
                   reopened>>

RemoveStale ==
    /\ snapshot # {}
    /\ Deactivate(snapshot)
    /\ snapshot' = {}
    /\ UNCHANGED <<have, verifying, indexed, candidates, disk, pc, handled, request,
                   requested, channel, remote, events, faults, reopened>>

-----------------------------------------------------------------------------
Requests == Pieces \X Blocks

(* What the task itself does next, and what the remote peer sends it. *)
Task(q) ==
    \/ \E kept \in SUBSET asked[q] : HandleCancel(q, kept)
    \/ WriteBlock(q) \/ ReceiveBlock(q) \/ StartVerifying(q) \/ VerifyPiece(q)
    \/ \E left \in SUBSET {piece[q]} : MarkComplete(q, left)
    \/ MarkFailed(q)
    \/ BeginRequest(q) \/ PickPiece(q) \/ StartPiece(q) \/ AddPending(q) \/ SendRequests(q)

Remote(q) ==
    \/ \E ps \in SUBSET Pieces : Open(q, ps)
    \/ Unchoke(q)
    \/ \E p \in Pieces : ReceiveHave(q, p)
    \/ \E r \in Requests, d \in Data : ReceivePiece(q, r, d)

Failure(q) ==
    \/ Close(q) \/ WriteFails(q) \/ VerifyFails(q)
    \/ \E kept \in SUBSET asked[q] : Choke(q, kept)
    \/ \E r \in Requests : Reject(q, r)

Cleanup ==
    \/ \E ps \in SUBSET Pieces : CleanupStale(ps) \/ FindStale(ps)
    \/ RemoveStale

Next ==
    \/ \E q \in Peers : Task(q) \/ Remote(q) \/ Failure(q)
    \/ OnPieceCompleted
    \/ Cleanup

Spec == Init /\ [][Next]_vars

(* Progress.  Every task is scheduled, and a writer of the torrents lock   *)
(* is not starved by its readers (parking_lot's RwLock), so the event      *)
(* processor and the run loop's cleanup get their turn; a remote peer      *)
(* connects, unchokes us, announces what it gets and answers what it was   *)
(* asked.                                                                  *)
Answer(q) == \E r \in Requests, d \in Data : ReceivePiece(q, r, d)
Connected(q) == \E ps \in SUBSET Pieces : Open(q, ps)

Fairness ==
    /\ \A q \in Peers :
          /\ WF_vars(Task(q))
          /\ WF_vars(Answer(q)) /\ WF_vars(Connected(q)) /\ WF_vars(Unchoke(q))
          /\ \A p \in Pieces : WF_vars(ReceiveHave(q, p))
    /\ SF_vars(OnPieceCompleted)
    /\ SF_vars(CleanupStale(Orphans))
    /\ WF_vars(RemoveStale)

FairSpec == Spec /\ Fairness

-----------------------------------------------------------------------------
(* Properties *)

(* The type invariant. *)
TypeOK ==
    /\ have \subseteq Pieces /\ active \subseteq Pieces /\ verifying \subseteq Pieces
    /\ indexed \subseteq Pieces /\ candidates \subseteq Pieces
    /\ blocks \in [Pieces -> SUBSET Blocks] /\ pending \in [Pieces -> SUBSET Blocks]
    /\ disk \in [Pieces -> [Blocks -> Data \cup {"none"}]]
    /\ pc \in [Peers -> Steps]
    /\ piece \in [Peers -> Pieces] /\ block \in [Peers -> Blocks]
    /\ data \in [Peers -> Data]
    /\ wanted \in [Peers -> SUBSET Blocks] /\ batch \in [Peers -> SUBSET Requests]
    /\ rounds \in [Peers -> Nat] /\ endgame \in [Peers -> BOOLEAN]
    /\ choking \in [Peers -> BOOLEAN] /\ owns \in [Peers -> SUBSET Pieces]
    /\ asked \in [Peers -> SUBSET Requests]
    /\ cancels \in [Peers -> Seq(Pieces)] /\ events \in Seq(Pieces)
    /\ snapshot \subseteq Pieces /\ faults \in Nat
    /\ overrun \subseteq Peers /\ reopened \subseteq Pieces

(* Of the tasks that hold a complete copy of a piece we miss, one verifies *)
(* it: start_verifying is taken by one and released only by that one.      *)
Verifying(q, p) == pc[q] \in Verification /\ piece[q] = p
OneVerifier ==
    \A p \in Pieces \ have :
        /\ \A q, r \in Peers : Verifying(q, p) /\ Verifying(r, p) => q = r
        /\ (\E q \in Peers : Verifying(q, p)) => p \in verifying

(* What memory counts as received has been written: a piece is complete in *)
(* memory only when every block of it is on the disk, whoever sent it and  *)
(* however often the piece was dropped and started again.                  *)
ReceivedIsWritten ==
    \A p \in active, b \in Blocks : b \in blocks[p] => disk[p][b] # "none"

(* Why they hold: what a task is about to count as received is written, a  *)
(* dropped piece has no blocks, and a completion in the event channel      *)
(* concerns a piece that is ours already.                                  *)
BlocksWritten == \A p \in Pieces : \A b \in blocks[p] : disk[p][b] # "none"
WrittenFirst == \A q \in Peers : pc[q] = "receive" => disk[piece[q]][block[q]] # "none"
EventsOwned == \A i \in 1 .. Len(events) : events[i] \in have
DownloadInv == TypeOK /\ EventsOwned /\ OneVerifier /\ BlocksWritten /\ WrittenFirst

(* What README.md:30 ("SHA-1 piece verification") promises of the pieces   *)
(* we own, when a peer may send a wrong block: they are correct on disk.   *)
OwnedIsVerified == \A p \in have, b \in Blocks : disk[p][b] = "good"

(* No piece is stuck.  A piece we miss can be picked, or waits for a block *)
(* whose request will be found stale, or is complete and some task is      *)
(* about to verify it.  The exception is a piece the disk could not read   *)
(* back: the task that held its claim is gone and nobody takes it up.      *)
Pickable(p) == p \in candidates /\ (p \in active => HasRoom(p))
Attended(p) == \E q \in Peers : piece[q] = p /\ pc[q] \in Verification \cup {"startVerify"}
Abandoned(p) == p \in verifying /\ ~\E q \in Peers : Verifying(q, p)
NoPieceStuck ==
    \A p \in Pieces \ have :
        \/ Pickable(p) \/ pending[p] # {} \/ Attended(p)
        \/ "verifyError" \in FaultKinds /\ Abandoned(p)

(* The pipeline to one peer never exceeds MAX_REQUESTS_PER_PEER, endgame   *)
(* repetitions included.                                                   *)
PipelineBounded ==
    \A q \in Peers : Size(requested[q]) + Cardinality(batch[q]) <= MaxRequests

(* Once a task has seen every cancel it waits for no block of a piece we   *)
(* own (issues.md:35, "cancel_tx sends notifications when pieces           *)
(* complete"), unless its full channel has lost one, or the piece became   *)
(* ours between the choice of another task and its start_piece and is      *)
(* fetched again.                                                          *)
EndgameCancelled ==
    \A q \in Peers \ overrun : pc[q] = "loop" /\ cancels[q] = <<>> =>
        \A r \in DOMAIN requested[q] : r[1] \in have => r[1] \in reopened

(* The download implements PieceLifecycle: a piece becomes ours only       *)
(* through one verification that held its claim all along and found every  *)
(* block of it correct, and no later event, timeout, duplicate or failure  *)
(* takes it back.                                                          *)
Phase == [p \in Pieces |->
    IF p \in have THEN "ours"
    ELSE IF \E q \in Peers : pc[q] = "valid" /\ piece[q] = p THEN "passed"
    ELSE IF p \in verifying THEN "claimed" ELSE "missing"]
Lifecycle == INSTANCE PieceLifecycle WITH phase <- Phase
ImplementsLifecycle == Lifecycle!Spec

(* The download completes: with a finite number of faults and peers that   *)
(* answer, every piece that is wanted is eventually ours.                  *)
Completes == <>(Pieces \ SkippedPieces \subseteq have)

(* mod.rs:1272 ("Pieces with expired requests are removed from             *)
(* active_pieces and made available for re-download"): a wanted piece with *)
(* a request nobody will answer is downloaded in the end.                  *)
ExpiredRedownloaded ==
    \A p \in Pieces \ SkippedPieces : p \in Orphans ~> p \in have
=============================================================================
