------------------------------ MODULE PeerTable ------------------------------
(***************************************************************************)
(* The peers of one torrent: the tables of ManagedTorrent, the run loop    *)
(* that dials, the listener that accepts, the connection tasks and the     *)
(* event channel through which they report, and the user's pause, resume,  *)
(* remove and add, and the move on completion, which clear the tables.     *)
(*                                                                         *)
(* Tasks know the torrent by its hash only: what a task of a connection    *)
(* reports is applied to whatever the tables hold when it is handled.      *)
(*                                                                         *)
(* A step is one critical section of the `torrents` lock.  Effects on the  *)
(* connection counter that follow a section without an await in between    *)
(* belong to its step: they commute with every other task's.               *)
(***************************************************************************)
EXTENDS Integers, FiniteSets, Sequences, FiniteSetsExt

CONSTANTS
    OutAddrs,        \* addresses of peers we may dial
    InAddrs,         \* addresses peers connect from
    Slots,           \* bound: connection tasks of one address at a time
    Loops,           \* bound: run loops at a time
    MaxPeers,        \* MAX_PEERS_PER_TORRENT
    MaxHalfOpen,     \* MAX_HALF_OPEN
    MaxGlobal,       \* MAX_GLOBAL_CONNECTIONS
    ConnectionSpeed, \* attempts per second of the connection limiter
    MaxUnchoked,     \* MAX_UNCHOKED_PEERS
    MaxRetries,      \* MAX_PEER_RETRY_ATTEMPTS
    Scenarios,       \* what may happen together in a behaviour of this instance
    MaxCommands,     \* bound on the user's commands
    MaxEvents        \* bound: no connection starts while more events wait

Addrs == OutAddrs \cup InAddrs
Conns == Addrs \X Slots
NoPeer == "none"

(* The settings, the user's commands and what else may happen.             *)
Settings == {"noSeed", "leaveOnComplete", "moveOnComplete"}
Features == Settings \cup {"pause", "resume", "remove", "add", "incoming", "interest", "complete"}

ASSUME BoundsAssumption ==
    /\ {MaxPeers, MaxHalfOpen, MaxGlobal, ConnectionSpeed, MaxUnchoked, MaxRetries}
           \subseteq Nat \ {0}
    /\ {MaxCommands, MaxEvents} \subseteq Nat
    /\ Scenarios \subseteq SUBSET Features
ASSUME AddrsAssumption ==
    OutAddrs \cap InAddrs = {} /\ NoPeer \notin Addrs /\ IsFiniteSet(Addrs)

VARIABLES
    torrent,   \* the ManagedTorrent under this hash
    present,   \* whether `torrents` has one
    global,    \* global_connections
    pc,        \* where each connection task is
    told,      \* tasks whose shutdown receiver fires
    events,    \* PeerEvents on their way to the event processor
    loopPc,    \* where each run loop is
    targets,   \* peers_to_connect of its present round
    room,      \* how many of them it may dial
    starting,  \* start_torrent calls in flight
    mover,     \* the completion task: none, spawned, moving
    scenario,  \* the features of this behaviour
    commands,  \* user commands so far
    cleared,   \* history: tables have been cleared under live connections
    readded    \* history: the torrent has been added again

conns == <<global, pc, told>>
loops == <<loopPc, targets, room>>
tasks == <<starting, mover>>
history == <<scenario, commands, cleared, readded>>
vars == <<torrent, present, conns, events, loops, tasks, history>>

States == {"Checking", "Downloading", "Seeding", "Completed", "Paused", "Moving"}
Serving == {"Downloading", "Seeding", "Completed"}
Live == {c \in Conns : pc[c] # "free"}
Running == {l \in Loops : loopPc[l] # "none"}
Failed == {a \in Addrs : torrent.failed[a] > 0}

(* with_save_path: a torrent that has just been added. *)
NewTorrent(st) ==
    [state |-> st, verified |-> FALSE, complete |-> FALSE, processed |-> FALSE,
     looping |-> FALSE, known |-> {}, connecting |-> {}, peers |-> {}, interested |-> {},
     unchoked |-> {}, optimistic |-> NoPeer, failed |-> [a \in Addrs |-> 0]]

Init ==
    /\ torrent = NewTorrent("Checking") /\ present = TRUE
    /\ global = 0 /\ pc = [c \in Conns |-> "free"] /\ told = {} /\ events = <<>>
    /\ loopPc = [l \in Loops |-> "none"] /\ targets = [l \in Loops |-> {}]
    /\ room = [l \in Loops |-> 0]
    /\ starting = 1 /\ mover = "none"
    /\ scenario \in Scenarios /\ commands = 0 /\ cleared = FALSE /\ readded = FALSE

-----------------------------------------------------------------------------
(* Least of two, and the difference that stops at zero.                    *)
Lesser(m, n) == IF m <= n THEN m ELSE n
Less(m, n) == IF m <= n THEN 0 ELSE m - n

Post(kind, a) == events' = Append(events, [kind |-> kind, addr |-> a])

(* shutdown_tx.send and the tables cleared: the tasks that have subscribed *)
(* are told, those still on their way to subscribe are not.                *)
Cleared(t) == [t EXCEPT !.peers = {}, !.interested = {}, !.connecting = {}, !.unchoked = {}]
TellAll ==
    /\ told' = told \cup {c \in Conns : pc[c] = "loop"}
    /\ cleared' = (cleared \/ Live # {} \/ events # <<>>)

-----------------------------------------------------------------------------
(* Discovery.  Every source adds to the known peers; they differ in what   *)
(* they leave out.  Whether a torrent is Downloading or Seeding is looked  *)
(* at when a round of announces or queries begins, not when it answers.    *)
Learn(a) == torrent' = [torrent EXCEPT !.known = @ \cup {a}]
Unknown(a) == a \notin torrent.peers \cup torrent.connecting \cup torrent.known

(* start_torrent and the run loop: all that trackers and the DHT name.     *)
Announces(a) == Learn(a)
Reannounces(a) == a \notin torrent.peers \cup torrent.connecting /\ Learn(a)
FindsLocal(a) == Unknown(a) /\ Learn(a)
QueriesDht(a) == Unknown(a) /\ a \notin Failed /\ Learn(a)
Exchanges(a) == Unknown(a) /\ a \notin Failed /\ Learn(a)

Discover(a) ==
    /\ present /\ a \in OutAddrs
    /\ Announces(a) \/ Reannounces(a) \/ FindsLocal(a) \/ QueriesDht(a) \/ Exchanges(a)
    /\ UNCHANGED <<present, conns, events, loops, tasks, history>>

-----------------------------------------------------------------------------
(* The run loop. *)

(* no_seed_mode and disconnect_on_complete: no peers once complete.        *)
Leaves == {"noSeed", "leaveOnComplete"} \subseteq scenario

(* What the loop goes on with; straight to the end of the round if there   *)
(* is nobody to dial or no room.                                           *)
Plan(l, as, n, step) ==
    LET dials == as # {} /\ n > 0 IN
    /\ targets' = [targets EXCEPT ![l] = IF dials THEN as ELSE {}]
    /\ room' = [room EXCEPT ![l] = IF dials THEN n ELSE 0]
    /\ loopPc' = [loopPc EXCEPT ![l] = IF dials THEN step ELSE "round"]

(* peers_to_connect.  Mutant: half-open addresses are not left out.        *)
ToDialAgain(ready) == (torrent.known \cup ready) \ torrent.peers
ToDial(ready) == (torrent.known \cup ready) \ (torrent.peers \cup torrent.connecting)

(* A round begins: parked states sleep; otherwise the peers to dial and    *)
(* the room for them are read.  `ready`: whose backoff has elapsed.        *)
LoopTop(l, ready) ==
    /\ loopPc[l] = "top" /\ present /\ torrent.state \in Serving
    /\ ready \subseteq Failed
    /\ LET leave == torrent.state = "Completed" /\ Leaves
           n == Lesser(Less(MaxPeers, Cardinality(torrent.peers)),
                       Less(MaxHalfOpen, Cardinality(torrent.connecting)))
       IN Plan(l, IF leave THEN {} ELSE ToDial(ready), n, "slots")
    /\ UNCHANGED <<torrent, present, conns, events, tasks, history>>

LoopEnds(l) ==
    /\ loopPc[l] = "top" /\ ~present
    /\ loopPc' = [loopPc EXCEPT ![l] = "none"]
    /\ UNCHANGED <<torrent, present, conns, events, targets, room, tasks, history>>

(* The global counter and the connection limiter (`recent` attempts).      *)
FindSlots(l, recent) ==
    /\ loopPc[l] = "slots" /\ recent \in 0 .. ConnectionSpeed
    /\ LET slots == IF present THEN Lesser(ConnectionSpeed - recent, Less(MaxGlobal, global))
                    ELSE 0
       IN Plan(l, targets[l], Lesser(room[l], slots), "dial")
    /\ UNCHANGED <<torrent, present, conns, events, tasks, history>>

(* The dials: marked half open under the lock if the torrent is still      *)
(* there, spawned in any case.                                             *)
Idle(a) == {k \in Slots : pc[<<a, k>>] = "free"}
Slot(a) == CHOOSE k \in Idle(a) : TRUE
Dial(l, as) ==
    /\ loopPc[l] = "dial" /\ as \subseteq targets[l]
    /\ Cardinality(as) = Lesser(room[l], Cardinality(targets[l]))
    /\ Len(events) <= MaxEvents
    /\ \A a \in as : Idle(a) # {}
    /\ pc' = [c \in Conns |-> IF c[1] \in as /\ c[2] = Slot(c[1]) THEN "dialing" ELSE pc[c]]
    /\ global' = global + Cardinality(as)
    /\ torrent' = IF present
                  THEN [torrent EXCEPT !.known = @ \ as, !.connecting = @ \cup as]
                  ELSE torrent
    /\ Plan(l, {}, 0, "round")
    /\ UNCHANGED <<present, told, events, tasks, history>>

(* run_choking_algorithm on t: `best` are the interested peers that rank   *)
(* first, `lucky` the one the random choice would take.                    *)
Choking(t, best, lucky, rotate) ==
    LET remaining == t.interested \ best
        optimistic == IF rotate \/ t.optimistic \notin remaining THEN lucky
                      ELSE t.optimistic
    IN [t EXCEPT !.optimistic = optimistic,
                 !.unchoked = best \cup (IF optimistic = NoPeer THEN {} ELSE {optimistic})]
Ranks(t) ==
    kSubset(Lesser(MaxUnchoked - 1, Cardinality(t.interested)), t.interested)
Lucky(t, best) ==
    IF t.interested = best THEN {NoPeer} ELSE t.interested \ best

(* Downloading -> Completed, where the completion task is spawned once ... *)
Finished(t) == t.complete /\ t.state = "Downloading"
Finish(t) == IF Finished(t) THEN [t EXCEPT !.state = "Completed", !.processed = TRUE] ELSE t
SpawnMover(t) ==
    IF Finished(t) /\ ~t.processed /\ "moveOnComplete" \in scenario
    THEN mover = "none" /\ mover' = "spawned" ELSE UNCHANGED mover

(* ... and Seeding <-> Completed, by whether some peer is interested.      *)
Serve(t) ==
    IF ~t.complete THEN t
    ELSE IF t.state = "Seeding" /\ t.interested = {} THEN [t EXCEPT !.state = "Completed"]
    ELSE IF t.state = "Completed" /\ t.interested # {} /\ "noSeed" \notin scenario
    THEN [t EXCEPT !.state = "Seeding"] ELSE t

(* The write section of the round; `choke`: whether a choke round is due.  *)
Round(l, choke, rotate) ==
    /\ loopPc[l] = "round"
    /\ IF present
       THEN LET t == Serve(Finish(torrent)) IN
            /\ IF choke
               THEN \E best \in Ranks(t) : \E lucky \in Lucky(t, best) :
                        torrent' = Choking(t, best, lucky, rotate)
               ELSE torrent' = t
            /\ SpawnMover(torrent)
       ELSE UNCHANGED <<torrent, mover>>
    /\ loopPc' = [loopPc EXCEPT ![l] = "top"]
    /\ UNCHANGED <<present, conns, events, targets, room, starting, history>>

-----------------------------------------------------------------------------
(* The connection tasks. *)
Goto(c, step) == pc' = [pc EXCEPT ![c] = step]

(* The listener: refuses at the global limit. *)
Accept(c) ==
    /\ "incoming" \in scenario /\ c[1] \in InAddrs /\ Idle(c[1]) = Slots /\ c[2] = Slot(c[1])
    /\ global < MaxGlobal /\ Len(events) <= MaxEvents
    /\ global' = global + 1 /\ Goto(c, "accepted")
    /\ UNCHANGED <<torrent, present, told, events, loops, tasks, history>>

(* handle_incoming_connection finds the torrent of the handshake ...       *)
Admit(c) ==
    /\ pc[c] = "accepted"
    /\ present /\ Cardinality(torrent.peers) < MaxPeers
    /\ Goto(c, "handshake")
    /\ UNCHANGED <<torrent, present, global, told, events, loops, tasks, history>>

(* ... or returns before it has told anybody.                              *)
Refuse(c) ==
    /\ pc[c] = "accepted"
    /\ Goto(c, "free") /\ global' = global - 1
    /\ UNCHANGED <<torrent, present, told, events, loops, tasks, history>>

DialSucceeds(c) ==
    /\ pc[c] = "dialing" /\ Goto(c, "handshake")
    /\ UNCHANGED <<torrent, present, global, told, events, loops, tasks, history>>

(* FailedPeer: attempts so far, none after the last.  Mutant: one more.    *)
RetryOnce(failed, a) ==
    [failed EXCEPT ![a] = IF @ > MaxRetries THEN 0 ELSE @ + 1]
Retry(failed, a) ==
    [failed EXCEPT ![a] = IF @ >= MaxRetries THEN 0 ELSE @ + 1]
(* Mutant: the half-open entry stays. *)
DialFailsLeaving(c) ==
    /\ pc[c] = "dialing"
    /\ Goto(c, "free") /\ global' = global - 1
    /\ torrent' = IF present THEN [torrent EXCEPT !.failed = Retry(@, c[1])] ELSE torrent
    /\ UNCHANGED <<present, told, events, loops, tasks, history>>
DialFails(c) ==
    /\ pc[c] = "dialing"
    /\ Goto(c, "free") /\ global' = global - 1
    /\ torrent' = IF present
                  THEN [torrent EXCEPT !.connecting = @ \ {c[1]}, !.failed = Retry(@, c[1])]
                  ELSE torrent
    /\ UNCHANGED <<present, told, events, loops, tasks, history>>

(* handshake and extension handshake done: Connected is sent.              *)
Handshake(c) ==
    /\ pc[c] = "handshake"
    /\ Goto(c, "setup") /\ Post("connected", c[1])
    /\ UNCHANGED <<torrent, present, global, told, loops, tasks, history>>

(* Bitfield sent; the task subscribes to the shutdown channel that the     *)
(* torrent has now (a closed one if there is no torrent).                  *)
Subscribe(c) ==
    /\ pc[c] = "setup"
    /\ Goto(c, "loop") /\ told' = IF present THEN told ELSE told \cup {c}
    /\ UNCHANGED <<torrent, present, global, events, loops, tasks, history>>

(* handle_peer_connection returns: Disconnected is sent whatever happened. *)
(* Mutants: not when the handshake failed, not on shutdown.                *)
CloseSilently(c, silent) ==
    /\ pc[c] \in {"handshake", "setup", "loop"}
    /\ Goto(c, "free") /\ told' = told \ {c} /\ global' = global - 1
    /\ IF silent THEN UNCHANGED events ELSE Post("disconnected", c[1])
    /\ UNCHANGED <<torrent, present, loops, tasks, history>>
CloseUnlessShaken(c) == CloseSilently(c, pc[c] = "handshake")
CloseUnlessTold(c) == CloseSilently(c, c \in told)
Close(c) ==
    /\ pc[c] \in {"handshake", "setup", "loop"}
    /\ Goto(c, "free") /\ told' = told \ {c} /\ global' = global - 1
    /\ Post("disconnected", c[1])
    /\ UNCHANGED <<torrent, present, loops, tasks, history>>

(* The peer says it is interested, or no longer.                           *)
Declare(c, kind) ==
    /\ "interest" \in scenario /\ pc[c] = "loop" /\ kind \in {"interested", "uninterested"}
    /\ Len(events) <= MaxEvents /\ Post(kind, c[1])
    /\ UNCHANGED <<torrent, present, conns, loops, tasks, history>>

(* The last missing piece is verified by this task. *)
LastPiece(c) ==
    /\ "complete" \in scenario /\ pc[c] = "loop" /\ present /\ ~torrent.complete
    /\ torrent' = [torrent EXCEPT !.complete = TRUE]
    /\ Post("pieceCompleted", c[1])
    /\ UNCHANGED <<present, conns, loops, tasks, history>>

-----------------------------------------------------------------------------
(* The event processor: one event at a time, in order.                     *)
Take(kind, a) ==
    /\ events # <<>> /\ Head(events) = [kind |-> kind, addr |-> a]
    /\ events' = Tail(events)

OnConnected(a) ==
    /\ Take("connected", a)
    /\ torrent' = IF present
                  THEN [torrent EXCEPT !.connecting = @ \ {a}, !.failed[a] = 0,
                                       !.peers = @ \cup {a}, !.interested = @ \ {a}]
                  ELSE torrent
    /\ UNCHANGED <<present, conns, loops, tasks, history>>

(* Mutant: the upload slot is kept. *)
OnDisconnectedUnchoked(a) ==
    /\ Take("disconnected", a)
    /\ torrent' = IF present
                  THEN [torrent EXCEPT !.peers = @ \ {a}, !.interested = @ \ {a},
                                       !.connecting = @ \ {a}]
                  ELSE torrent
    /\ UNCHANGED <<present, conns, loops, tasks, history>>
OnDisconnected(a) ==
    /\ Take("disconnected", a)
    /\ torrent' = IF present
                  THEN [torrent EXCEPT !.peers = @ \ {a}, !.interested = @ \ {a},
                                       !.connecting = @ \ {a}, !.unchoked = @ \ {a}]
                  ELSE torrent
    /\ UNCHANGED <<present, conns, loops, tasks, history>>

OnPeerState(a, kind) ==
    /\ kind \in {"interested", "uninterested"} /\ Take(kind, a)
    /\ torrent' = IF ~present \/ a \notin torrent.peers THEN torrent
                  ELSE IF kind = "interested"
                  THEN [torrent EXCEPT !.interested = @ \cup {a}]
                  ELSE [torrent EXCEPT !.interested = @ \ {a}]
    /\ UNCHANGED <<present, conns, loops, tasks, history>>

(* The piece of the event is marked in whatever torrent is there: an event *)
(* of a removed torrent that comes late may complete the one added since.  *)
Marked(t, late) == [t EXCEPT !.complete = @ \/ late]
OnPieceCompleted(a) ==
    /\ Take("pieceCompleted", a)
    /\ \E late \in BOOLEAN :
        LET t == Marked(torrent, late) IN
        /\ late => present /\ readded
        /\ IF present /\ Finished(t)
           THEN /\ SpawnMover(t)
                /\ IF Leaves
                   THEN torrent' = Cleared(Finish(t)) /\ TellAll
                   ELSE torrent' = Finish(t) /\ UNCHANGED <<told, cleared>>
           ELSE torrent' = t /\ UNCHANGED <<mover, told, cleared>>
    /\ UNCHANGED <<present, global, pc, loops, starting, scenario, commands, readded>>

-----------------------------------------------------------------------------
(* The user, and the tasks the user's commands start. *)
Command(name) ==
    /\ name \in scenario /\ commands < MaxCommands
    /\ Len(events) <= MaxEvents /\ commands' = commands + 1

Pause ==
    /\ Command("pause") /\ present
    /\ torrent' = [Cleared(torrent) EXCEPT !.state = "Paused"]
    /\ TellAll
    /\ UNCHANGED <<present, global, pc, events, loops, tasks, scenario, readded>>

Resume ==
    /\ Command("resume") /\ present
    /\ torrent' = [torrent EXCEPT !.state = IF torrent.complete THEN "Completed"
                                            ELSE "Downloading"]
    /\ starting' = starting + 1
    /\ UNCHANGED <<present, conns, events, loops, mover, scenario, cleared, readded>>

(* The torrent's shutdown sender is dropped with it.                       *)
Remove ==
    /\ Command("remove") /\ present
    /\ present' = FALSE /\ TellAll
    /\ torrent' = NewTorrent("Checking")
    /\ UNCHANGED <<global, pc, events, loops, tasks, scenario, readded>>

(* The torrent goes into the map.  The map was asked for it before an      *)
(* await: two additions of one torrent may both have found it missing, and *)
(* the second replaces what the first has put there, its sender included.  *)
Add(paused) ==
    /\ Command("add")
    /\ present' = TRUE /\ readded' = TRUE
    /\ torrent' = NewTorrent(IF paused THEN "Paused" ELSE "Checking")
    /\ starting' = IF paused THEN starting ELSE starting + 1
    /\ IF present THEN TellAll ELSE UNCHANGED <<told, cleared>>
    /\ UNCHANGED <<global, pc, events, loops, mover, scenario>>

(* verify_existing_pieces ends; queue limits are not in this module.       *)
FinishCheck(whole) ==
    /\ present /\ ~torrent.verified
    /\ LET complete == torrent.complete \/ whole
           checking == torrent.state = "Checking" IN
       torrent' = [torrent EXCEPT
           !.verified = TRUE, !.complete = complete,
           !.processed = @ \/ (checking /\ complete),
           !.state = IF ~checking THEN @ ELSE IF complete THEN "Completed" ELSE "Downloading"]
    /\ UNCHANGED <<present, conns, events, loops, tasks, history>>

(* start_torrent, after its announces: one run loop per torrent.           *)
(* Mutant: without looking whether it runs. *)
SpawnLoopAlways ==
    /\ torrent' = [torrent EXCEPT !.looping = TRUE]
    /\ \E l \in Loops \ Running : loopPc' = [loopPc EXCEPT ![l] = "top"]
SpawnLoop ==
    IF present /\ ~torrent.looping
    THEN /\ torrent' = [torrent EXCEPT !.looping = TRUE]
         /\ \E l \in Loops \ Running : loopPc' = [loopPc EXCEPT ![l] = "top"]
    ELSE UNCHANGED <<torrent, loopPc>>
Start ==
    /\ starting > 0 /\ starting' = starting - 1
    /\ SpawnLoop
    /\ UNCHANGED <<present, conns, events, targets, room, mover, history>>

(* move_torrent_data: the torrent sits in Moving for the duration.         *)
MoveBegins ==
    /\ mover = "spawned"
    /\ IF present
       THEN /\ torrent' = [Cleared(torrent) EXCEPT !.state = "Moving"]
            /\ TellAll /\ mover' = "moving"
       ELSE mover' = "none" /\ UNCHANGED <<torrent, told, cleared>>
    /\ UNCHANGED <<present, global, pc, events, loops, starting, scenario, commands, readded>>

MoveEnds ==
    /\ mover = "moving" /\ mover' = "none"
    /\ torrent' = IF present /\ torrent.state = "Moving"
                  THEN [torrent EXCEPT !.state = "Completed"] ELSE torrent
    /\ UNCHANGED <<present, conns, events, loops, starting, history>>

-----------------------------------------------------------------------------
RunLoop(l) ==
    \/ \E ready \in SUBSET Addrs : LoopTop(l, ready)
    \/ \E recent \in 0 .. ConnectionSpeed : FindSlots(l, recent)
    \/ \E as \in SUBSET Addrs : Dial(l, as)
    \/ \E choke, rotate \in BOOLEAN : Round(l, choke, rotate)
    \/ LoopEnds(l)

Establish(c) == DialSucceeds(c) \/ DialFails(c) \/ Admit(c) \/ Refuse(c) \/ Handshake(c)
Connection(c) ==
    \/ Accept(c) \/ Establish(c) \/ Subscribe(c) \/ Close(c) \/ LastPiece(c)
    \/ \E kind \in {"interested", "uninterested"} : Declare(c, kind)

Process ==
    \E a \in Addrs :
        \/ OnConnected(a) \/ OnDisconnected(a) \/ OnPieceCompleted(a)
        \/ \E kind \in {"interested", "uninterested"} : OnPeerState(a, kind)

User == Pause \/ Resume \/ Remove \/ \E paused \in BOOLEAN : Add(paused)
Task == Start \/ MoveBegins \/ MoveEnds \/ \E whole \in BOOLEAN : FinishCheck(whole)

Next ==
    \/ \E a \in OutAddrs : Discover(a)
    \/ \E l \in Loops : RunLoop(l)
    \/ \E c \in Conns : Connection(c)
    \/ Process \/ User \/ Task

Spec == Init /\ [][Next]_vars

(* Every task is scheduled.  Connects and handshakes end by their timeouts *)
(* (HANDSHAKE_TIMEOUT), a task that is told to shut down is in its select. *)
Fairness ==
    /\ WF_vars(Process) /\ WF_vars(Task)
    /\ \A l \in Loops : WF_vars(RunLoop(l))
    /\ \A c \in Conns : WF_vars(Establish(c)) /\ WF_vars(Subscribe(c))
    /\ \A c \in Conns : WF_vars(c \in told /\ Close(c))
FairSpec == Spec /\ Fairness

-----------------------------------------------------------------------------
(* Properties *)

(* The type invariant. *)
Torrents ==
    [state : States, verified : BOOLEAN, complete : BOOLEAN, processed : BOOLEAN,
     looping : BOOLEAN, known : SUBSET Addrs, connecting : SUBSET Addrs,
     peers : SUBSET Addrs, interested : SUBSET Addrs, unchoked : SUBSET Addrs,
     optimistic : Addrs \cup {NoPeer}, failed : [Addrs -> 0 .. MaxRetries]]
Event ==
    [kind : {"connected", "disconnected", "interested", "uninterested", "pieceCompleted"},
     addr : Addrs]
TypeOK ==
    /\ torrent \in Torrents /\ present \in BOOLEAN
    /\ pc \in [Conns -> {"free", "dialing", "accepted", "handshake", "setup", "loop"}]
    /\ told \subseteq Conns /\ events \in Seq(Event)
    /\ loopPc \in [Loops -> {"none", "top", "slots", "dial", "round"}]
    /\ targets \in [Loops -> SUBSET Addrs] /\ room \in [Loops -> Nat]
    /\ global \in Int /\ starting \in Nat /\ commands \in Nat
    /\ mover \in {"none", "spawned", "moving"}
    /\ scenario \in Scenarios /\ cleared \in BOOLEAN /\ readded \in BOOLEAN

Waiting(kind, a) == \E i \in 1 .. Len(events) : events[i] = [kind |-> kind, addr |-> a]
At(a, steps) == \E k \in Slots : pc[<<a, k>>] \in steps

(* peer_connection.rs:135 ("a leaked connecting_peers entry would          *)
(* permanently consume a half-open slot and block ever retrying this       *)
(* address"): behind a half-open entry there is an attempt under way, or   *)
(* what it reported is still to be handled.                                *)
HalfOpenAccounted ==
    present => \A a \in torrent.connecting :
        \/ At(a, {"dialing", "handshake"})
        \/ Waiting("connected", a) \/ Waiting("disconnected", a)

(* An entry of the peer table is backed by a connection or by the          *)
(* departure that will remove it: no order of pauses, removals, additions  *)
(* and reconnections leaves a ghost that counts towards the peer limit and *)
(* keeps the address from being dialled.                                   *)
NoGhostPeer ==
    present => \A a \in torrent.peers : At(a, {"setup", "loop"}) \/ Waiting("disconnected", a)

(* The upload slots: never more than MAX_UNCHOKED_PEERS, and all of them   *)
(* with peers of the table.                                                *)
UploadSlots ==
    torrent.unchoked \subseteq torrent.peers /\ Cardinality(torrent.unchoked) <= MaxUnchoked

(* Why they hold: interest is kept for peers of the table only, and a      *)
(* Connected on its way is followed by a Disconnected or by a task that    *)
(* will send one.                                                          *)
InterestedArePeers == torrent.interested \subseteq torrent.peers
ConnectedFollowed ==
    \A i \in 1 .. Len(events) : events[i].kind = "connected" =>
        \/ At(events[i].addr, {"setup", "loop"})
        \/ \E j \in i + 1 .. Len(events) :
               events[j] = [kind |-> "disconnected", addr |-> events[i].addr]
PeerInv ==
    /\ TypeOK /\ InterestedArePeers /\ UploadSlots
    /\ HalfOpenAccounted /\ NoGhostPeer /\ ConnectedFollowed

(* As long as nothing has cleared the tables under live connections (and   *)
(* one loop dials), no address is connected twice, and the table is exact  *)
(* once every event is handled: its peers are those connected.             *)
Connected == {c \in Conns : pc[c] \in {"setup", "loop"}}
TableExact ==
    present /\ ~cleared /\ ~readded =>
        /\ \A a \in Addrs, j, k \in Slots :
               pc[<<a, j>>] # "free" /\ pc[<<a, k>>] # "free" => j = k
        /\ events = <<>> => torrent.peers = {c[1] : c \in Connected}

(* mod.rs:2491 ("Exactly one run loop per torrent: the loop survives pause *)
(* and resume"): a torrent marked as looping has a loop, and one only; two *)
(* when it is removed and added again before its old loop has looked.      *)
OneRunLoop ==
    /\ present /\ torrent.looping => Running # {}
    /\ ~readded => Cardinality(Running) <= 1

(* A half-open slot is given back: every attempt ends, whatever clears or  *)
(* replaces the tables meanwhile.                                          *)
HalfOpenReleased == \A a \in OutAddrs : a \in torrent.connecting ~> a \notin torrent.connecting
=============================================================================
