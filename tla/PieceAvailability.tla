-------------------------- MODULE PieceAvailability --------------------------
(***************************************************************************)
(* The piece picker's index: how often each piece occurs in the swarm      *)
(* (AvailabilityIndex) and the ordered set of pieces worth requesting      *)
(* (DownloadablePieces), both inside PieceManager.                         *)
(*                                                                         *)
(* Every use of the PieceManager happens under the engine's `torrents`     *)
(* lock.  The event processor takes it for writing, so its handlers are    *)
(* atomic and run when no peer task is inside a read section.  The peer    *)
(* tasks take it for READING: they run concurrently with one another, and  *)
(* one step below is one critical section of the finer locks (or one       *)
(* atomic counter operation).  pc, arg and seen are the locals of a peer   *)
(* task that is inside such a read section.                                *)
(***************************************************************************)
EXTENDS Integers, FiniteSets, Sequences

CONSTANTS
    Pieces,        \* piece indices of the torrent
    Conns,         \* peer connection tasks
    Addrs,         \* peer socket addresses
    ColdStart,     \* COLD_START_THRESHOLD
    PoolSize,      \* RANDOM_POOL_SIZE
    MaxEvents,     \* bound on the length of the event channel
    MaxAvail       \* bound on an availability counter

ASSUME PiecesAssumption == Pieces \subseteq Nat /\ Pieces # {}
ASSUME AddrsAssumption == Addrs # {} /\ IsFiniteSet(Addrs)
ASSUME ConnsAssumption == IsFiniteSet(Conns)
ASSUME LimitsAssumption == {ColdStart, PoolSize, MaxEvents, MaxAvail} \subseteq Nat

VARIABLES
    avail,         \* AvailabilityIndex.piece_to_availability
    candidates,    \* DownloadablePieces.candidates: <<availability, piece>>
    inCandidates,  \* DownloadablePieces.in_candidates
    have,          \* PieceManager.our_bitfield
    active,        \* keys of PieceManager.active_pieces
    pc, arg, seen, \* where a peer task is in its read section, and its locals
    conn,          \* connection task: closed, fresh (no message yet), open
    addr,          \* the address each task talks to
    remote,        \* PeerConnection.remote_bitfield of each task
    connecting,    \* ManagedTorrent.connecting_peers
    registered,    \* keys of ManagedTorrent.peers
    stored,        \* PeerInfo.bitfield of each registered peer
    events,        \* the engine's event channel, oldest first
    drifted        \* history: a peer told again what it has (a repeated Have, a
                   \* bitfield after others), or the peer table was cleared

index == <<avail, candidates, inCandidates>>
pieces == <<have, active>>
locals == <<pc, arg, seen>>
link == <<conn, addr, remote>>
table == <<connecting, registered, stored>>
vars == <<index, pieces, locals, link, table, events, drifted>>

Steps == {"idle", "incremented", "marked", "failed", "coldPick", "rarestPick", "picked"}

NoneYet == CHOOSE p \in Pieces : TRUE   \* value of an argument not in use
AnAddr == CHOOSE a \in Addrs : TRUE

Init ==
    /\ avail = [p \in Pieces |-> 0]
    /\ candidates = {0} \X Pieces
    /\ inCandidates = Pieces
    /\ have = {} /\ active = {}
    /\ pc = [c \in Conns |-> "idle"]
    /\ arg = [c \in Conns |-> NoneYet]
    /\ seen = [c \in Conns |-> 0]
    /\ conn = [c \in Conns |-> "closed"]
    /\ addr = [c \in Conns |-> AnAddr]
    /\ remote = [c \in Conns |-> {}]
    /\ connecting = {} /\ registered = {}
    /\ stored = [a \in Addrs |-> {}]
    /\ events = <<>> /\ drifted = FALSE

-----------------------------------------------------------------------------
(* Operations of DownloadablePieces, as the new values of the two sets.    *)

Add(p, a) ==
    /\ inCandidates' = inCandidates \cup {p}
    /\ candidates' = IF p \in inCandidates THEN candidates
                                           ELSE candidates \cup {<<a, p>>}

Remove(p, a) ==
    /\ inCandidates' = inCandidates \ {p}
    /\ candidates' = IF p \in inCandidates THEN candidates \ {<<a, p>>}
                                           ELSE candidates

(* update_availability of every piece of ps, from old[p] to new[p]. *)
Move(ps, old, new) ==
    LET moved == ps \cap inCandidates IN
    /\ candidates' = (candidates \ {<<old[p], p>> : p \in moved})
                         \cup {<<new[p], p>> : p \in moved}
    /\ UNCHANGED inCandidates

(* AvailabilityIndex.increment / decrement of every piece of ps. *)
Countable(ps) == \A p \in ps : avail[p] < MaxAvail
Incremented(ps) == [p \in Pieces |-> IF p \in ps THEN avail[p] + 1 ELSE avail[p]]
DecrementedAll(ps) == [p \in Pieces |-> avail[p] - 1]  \* mutant: no bitfield, no floor
Decremented(ps) == [p \in Pieces |-> IF p \in ps /\ avail[p] > 0 THEN avail[p] - 1
                                                                 ELSE avail[p]]

-----------------------------------------------------------------------------
(* Peer tasks, inside torrents.read().                                     *)

(* Enter a critical section's follow-up with its locals, or leave. *)
Goto(c, step, p, a) ==
    /\ pc' = [pc EXCEPT ![c] = step]
    /\ arg' = [arg EXCEPT ![c] = p]
    /\ seen' = [seen EXCEPT ![c] = a]
Leave(c) == Goto(c, "idle", NoneYet, 0)
Send(e) == Len(events) < MaxEvents /\ events' = Append(events, e)
AllIdle == \A c \in Conns : pc[c] = "idle"       \* torrents.write() can be taken
BitfieldFree == \A c \in Conns : pc[c] # "marked" \* our_bitfield is not write-locked

(* Message::Have: increment_piece_availability bumps the atomic counter    *)
(* before it takes the downloadable lock.                                  *)
ReceiveHave(c, p) ==
    /\ conn[c] \in {"fresh", "open"} /\ pc[c] = "idle"
    /\ Countable({p})
    /\ conn' = [conn EXCEPT ![c] = "open"]
    /\ remote' = [remote EXCEPT ![c] = @ \cup {p}]
    /\ avail' = Incremented({p})
    /\ drifted' = (drifted \/ p \in remote[c])
    /\ Goto(c, "incremented", p, avail[p])
    /\ UNCHANGED <<candidates, inCandidates, pieces, addr, table, events>>

MoveIncremented(c) ==
    /\ pc[c] = "incremented"
    /\ Move({arg[c]}, [p \in {arg[c]} |-> seen[c]], [p \in {arg[c]} |-> seen[c] + 1])
    /\ Send([type |-> "Have", addr |-> addr[c], ps |-> {arg[c]}])
    /\ Leave(c)
    /\ UNCHANGED <<avail, pieces, link, table, drifted>>

(* Mutant: the bit is left to the event that reports the completion. *)
MarkCompleteLater(c, p) ==
    /\ conn[c] # "closed" /\ pc[c] = "idle"
    /\ BitfieldFree
    /\ active' = active \ {p}
    /\ Goto(c, "marked", p, avail[p])
    /\ UNCHANGED <<index, have, link, table, events, drifted>>

(* mark_piece_complete: our_bitfield stays write-locked to the end; the    *)
(* availability is read before the downloadable lock is taken.  The piece  *)
(* was verified outside every lock: it may no longer be active by now.     *)
MarkComplete(c, p) ==
    /\ conn[c] # "closed" /\ pc[c] = "idle"
    /\ BitfieldFree
    /\ have' = have \cup {p}
    /\ active' = active \ {p}
    /\ Goto(c, "marked", p, avail[p])
    /\ UNCHANGED <<index, link, table, events, drifted>>

RemoveMarked(c) ==
    /\ pc[c] = "marked"
    /\ Remove(arg[c], seen[c])
    /\ Send([type |-> "PieceCompleted", addr |-> addr[c], ps |-> {arg[c]}])
    /\ Leave(c)
    /\ UNCHANGED <<avail, pieces, link, table, drifted>>

(* mark_piece_failed: the same two critical sections, and the piece is     *)
(* added whether or not we own it.                                         *)
MarkFailed(c, p) ==
    /\ conn[c] # "closed" /\ pc[c] = "idle"
    /\ active' = active \ {p}
    /\ Goto(c, "failed", p, avail[p])
    /\ UNCHANGED <<index, have, link, table, events, drifted>>

AddFailed(c) ==
    /\ pc[c] = "failed"
    /\ Add(arg[c], seen[c])
    /\ Leave(c)
    /\ UNCHANGED <<avail, pieces, link, table, events, drifted>>

(* pick_piece_with_priorities: have_count first, under a lock of its own. *)
ChooseMode(c) ==
    /\ conn[c] # "closed" /\ pc[c] = "idle" /\ BitfieldFree
    /\ Goto(c, IF Cardinality(have) < ColdStart THEN "coldPick" ELSE "rarestPick", NoneYet, 0)
    /\ UNCHANGED <<index, pieces, link, table, events, drifted>>

Before(x, y) == x[1] < y[1] \/ (x[1] = y[1] /\ x[2] < y[2])

(* The candidates a peer owning ps can start, and which of them is picked: *)
(* one of the first PoolSize, shuffled, or the least available one.        *)
Eligible(ps) == {x \in candidates : x[2] \in ps /\ x[2] \notin active}
Picks(mode, ps) ==
    LET rank(x) == Cardinality({y \in Eligible(ps) : Before(y, x)})
        width == IF mode = "coldPick" THEN PoolSize ELSE 1
    IN {x[2] : x \in {y \in Eligible(ps) : rank(y) < width}}

(* With nothing to start, a candidate in progress that may lack a request. *)
Helped(ps) == {p \in ps \cap active : \E x \in candidates : x[2] = p}

(* A peer that has told nothing yet is taken to own every piece. *)
Owned(c) == IF conn[c] = "fresh" THEN Pieces ELSE remote[c]

(* wanted: the pieces that no skipped file holds (has_skipped_files).  The *)
(* sequential picker does not look at the index.                           *)
PickPiece(c) ==
    /\ pc[c] \in {"coldPick", "rarestPick"}
    /\ \E wanted \in SUBSET Pieces :
          LET ps == Owned(c) \cap wanted IN
          \/ \E p \in Picks(pc[c], ps) : Goto(c, "picked", p, 0)
          \/ Eligible(ps) = {} /\ \E p \in Helped(ps) : Goto(c, "picked", p, 0)
          \/ Eligible(ps) = {} /\ Leave(c)
    /\ UNCHANGED <<index, pieces, link, table, events, drifted>>

StartPiece(c) ==
    /\ pc[c] = "picked"
    /\ active' = active \cup {arg[c]}
    /\ Leave(c)
    /\ UNCHANGED <<index, have, link, table, events, drifted>>

(* The connection itself: the run loop dials an address that is neither    *)
(* registered nor being dialled; the task announces Connected, passes on   *)
(* what the peer tells of its pieces, and announces Disconnected.          *)
Connect(c, a) ==
    /\ conn[c] = "closed" /\ AllIdle
    /\ a \notin registered \cup connecting
    /\ conn' = [conn EXCEPT ![c] = "fresh"]
    /\ addr' = [addr EXCEPT ![c] = a]
    /\ remote' = [remote EXCEPT ![c] = {}]
    /\ connecting' = connecting \cup {a}
    /\ Send([type |-> "Connected", addr |-> a, ps |-> {}])
    /\ UNCHANGED <<index, pieces, locals, registered, stored, drifted>>

(* Message::Bitfield, HaveAll (ps = Pieces) and HaveNone (ps = {}), each   *)
(* taken at any time and any number of times: the peer's pieces are        *)
(* replaced, and the event will count every one of ps again.               *)
ReceiveBitfield(c, ps) ==
    /\ conn[c] # "closed" /\ pc[c] = "idle"
    /\ conn' = [conn EXCEPT ![c] = "open"]
    /\ remote' = [remote EXCEPT ![c] = ps]
    /\ drifted' = (drifted \/ remote[c] # {})
    /\ Send([type |-> "PeerBitfield", addr |-> addr[c], ps |-> ps])
    /\ UNCHANGED <<index, pieces, locals, addr, table>>

Disconnect(c) ==
    /\ conn[c] # "closed" /\ pc[c] = "idle"
    /\ conn' = [conn EXCEPT ![c] = "closed"]
    /\ remote' = [remote EXCEPT ![c] = {}]
    /\ Send([type |-> "Disconnected", addr |-> addr[c], ps |-> {}])
    /\ UNCHANGED <<index, pieces, locals, addr, table, drifted>>

-----------------------------------------------------------------------------
(* The event processor and the commands, inside torrents.write().          *)

Take(type) ==
    /\ AllIdle /\ events # <<>> /\ Head(events).type = type
    /\ events' = Tail(events)
    /\ UNCHANGED <<locals, link, drifted>>

OnConnected ==
    LET a == Head(events).addr IN
    /\ Take("Connected")
    /\ connecting' = connecting \ {a}
    /\ registered' = registered \cup {a}
    /\ stored' = [stored EXCEPT ![a] = {}]
    /\ UNCHANGED <<index, pieces>>

OnPeerBitfield ==
    LET a == Head(events).addr
        ps == Head(events).ps IN
    /\ Take("PeerBitfield") /\ Countable(ps)
    /\ avail' = Incremented(ps)
    /\ Move(ps, avail, avail')
    /\ stored' = IF a \in registered THEN [stored EXCEPT ![a] = ps] ELSE stored
    /\ UNCHANGED <<pieces, connecting, registered>>

OnPeerHave ==
    LET a == Head(events).addr IN
    /\ Take("Have")
    /\ stored' = IF a \in registered THEN [stored EXCEPT ![a] = @ \cup Head(events).ps]
                                     ELSE stored
    /\ UNCHANGED <<index, pieces, connecting, registered>>

(* Mutant: the counters are left alone. *)
OnDisconnectedUncounted ==
    LET a == Head(events).addr IN
    /\ Take("Disconnected")
    /\ registered' = registered \ {a}
    /\ connecting' = connecting \ {a}
    /\ stored' = [stored EXCEPT ![a] = {}]
    /\ UNCHANGED <<index, pieces>>

OnDisconnected ==
    LET a == Head(events).addr
        ps == stored[a] IN
    /\ Take("Disconnected")
    /\ IF a \in registered
         THEN avail' = Decremented(ps) /\ Move(ps, avail, avail')
         ELSE UNCHANGED index
    /\ registered' = registered \ {a}
    /\ connecting' = connecting \ {a}
    /\ stored' = [stored EXCEPT ![a] = {}]
    /\ UNCHANGED pieces

(* PieceCompleted marks the piece a second time. *)
OnPieceCompleted ==
    LET ps == Head(events).ps IN
    /\ Take("PieceCompleted")
    /\ have' = have \cup ps
    /\ active' = active \ ps
    /\ \E p \in ps : Remove(p, avail[p])
    /\ UNCHANGED <<avail, table>>

(* pause_torrent, move_torrent_data and disconnect-on-complete drop the    *)
(* whole peer table; the connection tasks end later, on their own.         *)
ClearPeers ==
    /\ AllIdle
    /\ registered' = {} /\ connecting' = {}
    /\ stored' = [a \in Addrs |-> {}]
    /\ drifted' = TRUE
    /\ UNCHANGED <<index, pieces, locals, link, events>>

(* cleanup_stale_pieces, from the run loop: any piece may have a request   *)
(* older than REQUEST_TIMEOUT.                                             *)
CleanupStale(ps) ==
    /\ AllIdle /\ ps \subseteq active
    /\ active' = active \ ps
    /\ UNCHANGED <<index, have, locals, link, table, events, drifted>>

-----------------------------------------------------------------------------
PeerTask(c) ==
    \/ Disconnect(c)
    \/ \E a \in Addrs : Connect(c, a)
    \/ \E ps \in SUBSET Pieces : ReceiveBitfield(c, ps)
    \/ \E p \in Pieces : ReceiveHave(c, p) \/ MarkComplete(c, p) \/ MarkFailed(c, p)
    \/ MoveIncremented(c) \/ RemoveMarked(c) \/ AddFailed(c)
    \/ ChooseMode(c) \/ PickPiece(c) \/ StartPiece(c)

EventProcessor ==
    \/ OnConnected \/ OnPeerBitfield \/ OnPeerHave
    \/ OnDisconnected \/ OnPieceCompleted

Next ==
    \/ \E c \in Conns : PeerTask(c)
    \/ EventProcessor
    \/ ClearPeers
    \/ \E ps \in SUBSET Pieces : CleanupStale(ps)

Spec == Init /\ [][Next]_vars

-----------------------------------------------------------------------------
(* Properties *)

Events == [type : {"Connected", "PeerBitfield", "Have", "Disconnected", "PieceCompleted"},
           addr : Addrs, ps : SUBSET Pieces]

(* The type invariant. *)
TypeOK ==
    /\ avail \in [Pieces -> Nat]
    /\ candidates \subseteq Nat \X Pieces
    /\ inCandidates \subseteq Pieces
    /\ have \subseteq Pieces /\ active \subseteq Pieces
    /\ pc \in [Conns -> Steps]
    /\ arg \in [Conns -> Pieces] /\ seen \in [Conns -> Nat]
    /\ conn \in [Conns -> {"closed", "fresh", "open"}]
    /\ addr \in [Conns -> Addrs]
    /\ remote \in [Conns -> SUBSET Pieces]
    /\ connecting \subseteq Addrs /\ registered \subseteq Addrs
    /\ stored \in [Addrs -> SUBSET Pieces]
    /\ events \in Seq(Events) /\ drifted \in BOOLEAN

HasEntry(p) == \E x \in candidates : x[2] = p

(* No piece is lost: however Have messages, completions, failures and      *)
(* departures interleave, a piece we do not own stays among the candidates *)
(* the rarest-first picker looks at.                                       *)
MissingIsCandidate ==
    \A p \in Pieces \ have : p \in inCandidates /\ HasEntry(p)

(* The inductive strengthening: an indexed piece has an entry, and a task  *)
(* that is about to remove a piece has already set its bit.                *)
IndexedHasEntry == \A p \in inCandidates : HasEntry(p)
MarkedIsOwned == \A c \in Conns : pc[c] = "marked" => arg[c] \in have
IndexInv == TypeOK /\ MissingIsCandidate /\ IndexedHasEntry /\ MarkedIsOwned

Quiet == AllIdle /\ events = <<>>

Owners(p) == {a \in registered : p \in stored[a]}

(* The counter of a piece is the number of registered peers that own it,   *)
(* once the channel is drained: what a departing peer takes away is what   *)
(* its bitfield and its Haves had brought.  Two things make the counters   *)
(* drift, upwards only: a peer that tells again what it has (a repeated    *)
(* Have; a Bitfield, HaveAll or HaveNone once it owns something, which is  *)
(* counted again while the stored one is overwritten), and a cleared peer  *)
(* table.  The picker may then take a piece for too common, never for too  *)
(* rare.                                                                   *)
AvailabilityExact ==
    Quiet => \A p \in Pieces : /\ avail[p] >= Cardinality(Owners(p))
                               /\ drifted \/ avail[p] = Cardinality(Owners(p))
=============================================================================
