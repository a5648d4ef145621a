--------------------------- MODULE PeerTableProofs ---------------------------
(* What holds of the peer tables of any torrent: any number of addresses,  *)
(* connections and run loops, any limits, any schedule.                    *)
EXTENDS PeerTable, FiniteSetTheorems, TLAPS

USE DEF conns, loops, tasks, history

(* Sets of addresses are finite, so their sizes are numbers. *)
LEMMA AddrsCount == \A as \in SUBSET Addrs : IsFiniteSet(as) /\ Cardinality(as) \in Nat
BY AddrsAssumption, FS_Subset, FS_CardinalityType

LEMMA BoundsTyped ==
    /\ {MaxPeers, MaxHalfOpen, MaxGlobal, ConnectionSpeed, MaxUnchoked, MaxRetries}
           \subseteq Nat \ {0}
    /\ \A m, n \in Int : /\ Lesser(m, n) \in {m, n} /\ Lesser(m, n) <= m
                         /\ Less(m, n) \in Nat
BY BoundsAssumption DEF Lesser, Less

LEMMA LesserType ==
    /\ \A m, n \in Nat : Lesser(m, n) \in Nat /\ Less(m, n) \in Nat
    /\ 0 \in 0 .. MaxRetries /\ MaxPeers \in Nat /\ MaxHalfOpen \in Nat
    /\ MaxGlobal \in Nat /\ ConnectionSpeed \in Nat
BY BoundsAssumption DEF Lesser, Less

LEMMA ConnAddrs ==
    /\ \A c \in Conns : c = <<c[1], c[2]>> /\ c[1] \in Addrs /\ c[2] \in Slots
    /\ \A a \in Addrs, k \in Slots : <<a, k>> \in Conns
    /\ OutAddrs \subseteq Addrs /\ NoPeer \notin Addrs
BY AddrsAssumption DEF Conns, Addrs

LEMMA NewTorrentType == NewTorrent("Checking") \in Torrents /\ NewTorrent("Paused") \in Torrents
BY BoundsTyped DEF NewTorrent, Torrents, States

(* A peer is told to end, or posts an event, within the types. *)
LEMMA TellType == ASSUME TypeOK, TellAll PROVE told' \subseteq Conns /\ cleared' \in BOOLEAN
BY DEF TellAll, TypeOK
LEMMA PostType ==
  ASSUME TypeOK, NEW a \in Addrs, NEW kind, Post(kind, a),
         kind \in {"connected", "disconnected", "interested", "uninterested", "pieceCompleted"}
  PROVE  events' \in Seq(Event)
BY DEF Post, TypeOK, Event
LEMMA TakeType ==
  ASSUME TypeOK, NEW a, NEW kind, Take(kind, a)
  PROVE  events' \in Seq(Event)
BY DEF Take, TypeOK

(* What the run loop goes on with. *)
LEMMA PlanType ==
  ASSUME TypeOK, NEW l \in Loops, NEW as \in SUBSET Addrs, NEW n \in Nat,
         NEW step \in {"slots", "dial", "round"}, Plan(l, as, n, step)
  PROVE  /\ targets' \in [Loops -> SUBSET Addrs] /\ room' \in [Loops -> Nat]
         /\ loopPc' \in [Loops -> {"none", "top", "slots", "dial", "round"}]
BY DEF Plan, TypeOK

(* The sections of the run loop and the event processor keep the type of   *)
(* the torrent.                                                            *)
LEMMA ServeType ==
  ASSUME NEW t \in Torrents
  PROVE  /\ Serve(t) \in Torrents /\ Finish(t) \in Torrents /\ Cleared(t) \in Torrents
         /\ Serve(t).interested = t.interested /\ Finish(t).interested = t.interested
BY DEF Serve, Finish, Finished, Cleared, Torrents, States
(* The round completes or serves; who is connected stays as it is.         *)
LEMMA ServedRecord ==
  ASSUME NEW t \in Torrents
  PROVE  LET s == Serve(Finish(t))
         IN /\ s \in Torrents /\ s.peers = t.peers /\ s.connecting = t.connecting
            /\ s.known = t.known /\ s.failed = t.failed /\ s.looping = t.looping
            /\ s.interested = t.interested /\ s.unchoked = t.unchoked
<1>. DEFINE Same(s) == /\ s \in Torrents /\ s.peers = t.peers /\ s.connecting = t.connecting
                       /\ s.known = t.known /\ s.failed = t.failed /\ s.looping = t.looping
                       /\ s.interested = t.interested /\ s.unchoked = t.unchoked
<1>1. \A u \in Torrents : Same(u) =>
          \A st \in States : Same([u EXCEPT !.state = st])
                             /\ Same([u EXCEPT !.state = st, !.processed = TRUE])
  <2>1. ASSUME NEW u \in Torrents, Same(u), NEW st \in States
        PROVE  Same([u EXCEPT !.state = st])
    BY <2>1 DEF Torrents
  <2>2. ASSUME NEW u \in Torrents, Same(u), NEW st \in States
        PROVE  Same([u EXCEPT !.state = st, !.processed = TRUE])
    BY <2>2 DEF Torrents
  <2>. HIDE DEF Same
  <2>. QED BY <2>1, <2>2
<1>2. {"Completed", "Seeding"} \subseteq States
  BY DEF States
<1>3. Same(Finish(t))
  BY <1>1, <1>2 DEF Finish
<1>. DEFINE f == Finish(t)
<1>. HIDE DEF f, Same
<1>4. f \in Torrents
  BY ServeType DEF f
<1>5. Serve(f) \in {f, [f EXCEPT !.state = "Completed"], [f EXCEPT !.state = "Seeding"]}
  BY DEF Serve
<1>6. Same(Serve(f))
  BY <1>1, <1>2, <1>3, <1>4, <1>5 DEF f
<1>. QED BY <1>6 DEF f, Same
LEMMA ChokingType ==
  ASSUME NEW t \in Torrents, NEW best \in Ranks(t), NEW lucky \in Lucky(t, best),
         NEW rotate \in BOOLEAN
  PROVE  Choking(t, best, lucky, rotate) \in Torrents
<1>1. best \subseteq t.interested /\ t.interested \subseteq Addrs
  BY DEF Ranks, kSubset, Torrents
<1>2. lucky \in Addrs \cup {NoPeer}
  BY <1>1 DEF Lucky
<1>. QED
  BY <1>1, <1>2 DEF Choking, Torrents

(* The type invariant is kept by every step. *)
LEMMA TypeStep == TypeOK /\ [Next]_vars => TypeOK'
<1>. SUFFICES ASSUME TypeOK, [Next]_vars PROVE TypeOK'
  OBVIOUS
<1>1. ASSUME NEW a \in OutAddrs, Discover(a)
     PROVE  TypeOK'
  <2>1. torrent' = [torrent EXCEPT !.known = @ \cup {a}]
    BY <1>1 DEF Discover, Announces, Reannounces, FindsLocal, QueriesDht, Exchanges, Learn
  <2>2. a \in Addrs /\ UNCHANGED <<present, conns, events, loops, tasks, history>>
    BY <1>1 DEF Discover, Addrs
  <2>. QED BY <2>1, <2>2, ConnAddrs DEF TypeOK, Torrents, States, conns, loops, tasks, history
<1>2. ASSUME NEW l \in Loops, NEW ready \in SUBSET Addrs, LoopTop(l, ready)
     PROVE  TypeOK'
  <2>1. ToDial(ready) \subseteq Addrs
    BY ConnAddrs DEF TypeOK, Torrents, ToDial
  <2>2. /\ Cardinality(torrent.peers) \in Nat /\ Cardinality(torrent.connecting) \in Nat
    BY AddrsCount DEF TypeOK, Torrents
  <2>3. Lesser(Less(MaxPeers, Cardinality(torrent.peers)),
               Less(MaxHalfOpen, Cardinality(torrent.connecting))) \in Nat
    BY <2>2, LesserType
  <2>4. PICK as \in SUBSET Addrs, n \in Nat : Plan(l, as, n, "slots")
    BY <1>2, <2>1, <2>3 DEF LoopTop
  <2>. QED BY <1>2, <2>4, PlanType DEF LoopTop, TypeOK
<1>3. ASSUME NEW l \in Loops, NEW recent \in 0 .. ConnectionSpeed, FindSlots(l, recent)
     PROVE  TypeOK'
  <2>0. recent \in 0 .. ConnectionSpeed => ConnectionSpeed - recent \in Nat
    BY LesserType
  <2>a. ASSUME global \in Int PROVE Less(MaxGlobal, global) \in Nat
    BY <2>a, LesserType DEF Less
  <2>1. PICK slots \in Nat : Plan(l, targets[l], Lesser(room[l], slots), "dial")
    BY <1>3, <2>0, <2>a, LesserType DEF FindSlots, TypeOK
  <2>2. targets[l] \in SUBSET Addrs /\ Lesser(room[l], slots) \in Nat
    BY LesserType DEF TypeOK
  <2>. QED BY <1>3, <2>1, <2>2, PlanType DEF FindSlots, TypeOK
<1>4. ASSUME NEW l \in Loops, NEW as \in SUBSET Addrs, Dial(l, as)
     PROVE  TypeOK'
  <2>1. Plan(l, {}, 0, "round") /\ global' \in Int
    <3>1. Cardinality(as) \in Nat
      BY AddrsCount
    <3>. QED BY <1>4, <3>1 DEF Dial, TypeOK
  <2>2. pc' \in [Conns -> {"free", "dialing", "accepted", "handshake", "setup", "loop"}]
    BY <1>4 DEF Dial, TypeOK
  <2>3. torrent' \in Torrents
    BY <1>4 DEF Dial, TypeOK, Torrents
  <2>. QED BY <1>4, <2>1, <2>2, <2>3, PlanType DEF Dial, TypeOK
<1>5. ASSUME NEW l \in Loops, NEW choke \in BOOLEAN, NEW rotate \in BOOLEAN, Round(l, choke, rotate)
     PROVE  TypeOK'
  <2>1. torrent' \in Torrents
    BY <1>5, ServeType, ChokingType DEF Round, TypeOK
  <2>2. mover' \in {"none", "spawned", "moving"}
    BY <1>5 DEF Round, SpawnMover, TypeOK
  <2>. QED BY <1>5, <2>1, <2>2 DEF Round, TypeOK
<1>6. ASSUME NEW l \in Loops, LoopEnds(l)
     PROVE  TypeOK'
  BY <1>6 DEF LoopEnds, Goto, TypeOK, Torrents, States
<1>7. ASSUME NEW c \in Conns, Accept(c)
     PROVE  TypeOK'
  BY <1>7 DEF Accept, Goto, TypeOK, Torrents, States
<1>8. ASSUME NEW c \in Conns, DialSucceeds(c)
     PROVE  TypeOK'
  BY <1>8 DEF DialSucceeds, Goto, TypeOK, Torrents, States
<1>9. ASSUME NEW c \in Conns, DialFails(c)
     PROVE  TypeOK'
  <2>1. Retry(torrent.failed, c[1]) \in [Addrs -> 0 .. MaxRetries]
    BY ConnAddrs, BoundsTyped DEF Retry, TypeOK, Torrents
  <2>2. torrent' \in Torrents
    BY <1>9, <2>1 DEF DialFails, TypeOK, Torrents
  <2>. QED BY <1>9, <2>2 DEF DialFails, Goto, TypeOK
<1>10. ASSUME NEW c \in Conns, Admit(c)
     PROVE  TypeOK'
  BY <1>10 DEF Admit, Goto, TypeOK, Torrents, States
<1>11. ASSUME NEW c \in Conns, Refuse(c)
     PROVE  TypeOK'
  BY <1>11 DEF Refuse, Goto, TypeOK, Torrents, States
<1>12. ASSUME NEW c \in Conns, Handshake(c)
     PROVE  TypeOK'
  <2>1. events' \in Seq(Event)
    BY <1>12, PostType, ConnAddrs DEF Handshake
  <2>. QED BY <1>12, <2>1 DEF Handshake, Goto, TypeOK, Torrents
<1>13. ASSUME NEW c \in Conns, Subscribe(c)
     PROVE  TypeOK'
  BY <1>13 DEF Subscribe, Goto, TypeOK, Torrents, States
<1>14. ASSUME NEW c \in Conns, Close(c)
     PROVE  TypeOK'
  <2>1. events' \in Seq(Event)
    BY <1>14, PostType, ConnAddrs DEF Close
  <2>. QED BY <1>14, <2>1 DEF Close, Goto, TypeOK, Torrents
<1>15. ASSUME NEW c \in Conns, LastPiece(c)
     PROVE  TypeOK'
  <2>1. events' \in Seq(Event)
    BY <1>15, PostType, ConnAddrs DEF LastPiece
  <2>. QED BY <1>15, <2>1 DEF LastPiece, Goto, TypeOK, Torrents
<1>16. ASSUME NEW c \in Conns, NEW kind \in {"interested", "uninterested"}, Declare(c, kind)
     PROVE  TypeOK'
  <2>1. events' \in Seq(Event)
    BY <1>16, PostType, ConnAddrs DEF Declare
  <2>. QED BY <1>16, <2>1 DEF Declare, Goto, TypeOK, Torrents
<1>17. ASSUME NEW a \in Addrs, OnConnected(a)
     PROVE  TypeOK'
  <2>0. [torrent.failed EXCEPT ![a] = 0] \in [Addrs -> 0 .. MaxRetries]
    BY LesserType DEF TypeOK, Torrents
  <2>1. torrent' \in Torrents
    BY <1>17, <2>0 DEF OnConnected, TypeOK, Torrents
  <2>. QED BY <1>17, <2>1, TakeType DEF OnConnected, TypeOK
<1>18. ASSUME NEW a \in Addrs, OnDisconnected(a)
     PROVE  TypeOK'
  <2>1. torrent' \in Torrents
    BY <1>18 DEF OnDisconnected, TypeOK, Torrents
  <2>. QED BY <1>18, <2>1, TakeType DEF OnDisconnected, TypeOK
<1>19. ASSUME NEW a \in Addrs, OnPieceCompleted(a)
     PROVE  TypeOK'
  <2>0. \A late \in BOOLEAN : Marked(torrent, late) \in Torrents
    BY DEF Marked, TypeOK, Torrents
  <2>1. torrent' \in Torrents
    BY <1>19, <2>0, ServeType DEF OnPieceCompleted, TypeOK
  <2>2. mover' \in {"none", "spawned", "moving"} /\ told' \subseteq Conns /\ cleared' \in BOOLEAN
    BY <1>19, TellType DEF OnPieceCompleted, SpawnMover, TypeOK
  <2>. QED BY <1>19, <2>1, <2>2, TakeType DEF OnPieceCompleted, TypeOK
<1>20. ASSUME NEW a \in Addrs, NEW kind \in {"interested", "uninterested"}, OnPeerState(a, kind)
     PROVE  TypeOK'
  <2>1. torrent' \in Torrents
    BY <1>20 DEF OnPeerState, TypeOK, Torrents
  <2>. QED BY <1>20, <2>1, TakeType DEF OnPeerState, TypeOK
<1>21. CASE Pause
  <2>1. torrent' \in Torrents
    BY <1>21, NewTorrentType DEF Pause, Cleared, TypeOK, Torrents, States
  <2>2. told' \subseteq Conns /\ cleared' \in BOOLEAN
    BY <1>21, TellType DEF Pause, TypeOK
  <2>. QED BY <1>21, <2>1, <2>2 DEF Pause, Command, TypeOK
<1>22. CASE Resume
  <2>1. torrent' \in Torrents
    BY <1>22 DEF Resume, TypeOK, Torrents, States
  <2>2. starting' \in Nat /\ commands' \in Nat
    BY <1>22 DEF Resume, Command, TypeOK
  <2>. QED BY <1>22, <2>1, <2>2 DEF Resume, TypeOK
<1>23. CASE Remove
  <2>1. torrent' \in Torrents
    BY <1>23, NewTorrentType DEF Remove, Cleared, TypeOK, Torrents, States
  <2>2. told' \subseteq Conns /\ cleared' \in BOOLEAN
    BY <1>23, TellType DEF Remove, TypeOK
  <2>3. present' \in BOOLEAN
    BY <1>23 DEF Remove
  <2>4. commands' \in Nat
    BY <1>23 DEF Remove, Command, TypeOK
  <2>. QED BY <1>23, <2>1, <2>2, <2>3, <2>4 DEF Remove, Command, TypeOK
<1>24. ASSUME NEW paused \in BOOLEAN, Add(paused)
     PROVE  TypeOK'
  <2>1. told' \subseteq Conns /\ cleared' \in BOOLEAN
    BY <1>24, TellType DEF Add, TypeOK
  <2>. QED BY <1>24, <2>1, NewTorrentType DEF Add, Command, TypeOK, States
<1>25. CASE Start
  <2>1. torrent' \in Torrents
    <3>1. [torrent EXCEPT !.looping = TRUE] \in Torrents
      BY DEF TypeOK, Torrents
    <3>. QED BY <1>25, <3>1 DEF Start, SpawnLoop, TypeOK
  <2>2. loopPc' \in [Loops -> {"none", "top", "slots", "dial", "round"}]
    BY <1>25 DEF Start, SpawnLoop, Running, TypeOK
  <2>. QED BY <1>25, <2>1, <2>2 DEF Start, TypeOK
<1>26. CASE MoveBegins
  <2>1. torrent' \in Torrents
    <3>1. [Cleared(torrent) EXCEPT !.state = "Moving"] \in Torrents
      BY DEF Cleared, TypeOK, Torrents, States
    <3>. QED BY <1>26, <3>1 DEF MoveBegins, TypeOK
  <2>2. told' \subseteq Conns /\ cleared' \in BOOLEAN
    BY <1>26, TellType DEF MoveBegins, TypeOK
  <2>. QED BY <1>26, <2>1, <2>2 DEF MoveBegins, Command, TypeOK
<1>27. CASE MoveEnds
  BY <1>27 DEF MoveEnds, Goto, TypeOK, Torrents, States
<1>28. ASSUME NEW whole \in BOOLEAN, FinishCheck(whole)
     PROVE  TypeOK'
  <2>1. torrent' \in Torrents
    <3>1. torrent \in Torrents /\ torrent.complete \in BOOLEAN /\ torrent.processed \in BOOLEAN
          /\ torrent.state \in States
      BY DEF TypeOK, Torrents
    <3>2. PICK complete \in BOOLEAN, processed \in BOOLEAN, state \in States :
             torrent' = [torrent EXCEPT !.verified = TRUE, !.complete = complete,
                                        !.processed = processed, !.state = state]
      <4>. DEFINE complete == torrent.complete \/ whole
                  checking == torrent.state = "Checking"
                  processed == torrent.processed \/ (checking /\ complete)
                  state == IF ~checking THEN torrent.state
                           ELSE IF complete THEN "Completed" ELSE "Downloading"
      <4>1. complete \in BOOLEAN /\ processed \in BOOLEAN /\ state \in States
        BY <3>1 DEF States
      <4>2. torrent' = [torrent EXCEPT !.verified = TRUE, !.complete = complete,
                                       !.processed = processed, !.state = state]
        BY <1>28 DEF FinishCheck
      <4>. HIDE DEF complete, processed, state
      <4>. QED BY <4>1, <4>2
    <3>. QED BY <3>1, <3>2 DEF Torrents
  <2>. QED BY <1>28, <2>1 DEF FinishCheck, TypeOK
<1>29. CASE UNCHANGED vars
  BY <1>29 DEF vars, TypeOK
<1>. QED
  BY <1>1, <1>2, <1>3, <1>4, <1>5, <1>6, <1>7, <1>8, <1>9, <1>10, <1>11,
     <1>12, <1>13, <1>14, <1>15, <1>16, <1>17, <1>18, <1>19, <1>20, <1>21,
     <1>22, <1>23, <1>24, <1>25, <1>26, <1>27, <1>28, <1>29
     DEF Next, RunLoop, Connection, Establish, Process, User, Task

LEMMA TypeInit == Init => TypeOK
<1>. SUFFICES ASSUME Init PROVE TypeOK
  OBVIOUS
<1>1. torrent \in Torrents /\ present \in BOOLEAN /\ events \in Seq(Event)
  BY NewTorrentType DEF Init
<1>2. pc \in [Conns -> {"free", "dialing", "accepted", "handshake", "setup", "loop"}]
  BY DEF Init
<1>3. /\ loopPc \in [Loops -> {"none", "top", "slots", "dial", "round"}]
      /\ targets \in [Loops -> SUBSET Addrs] /\ room \in [Loops -> Nat]
  BY DEF Init
<1>4. cleared \in BOOLEAN /\ readded \in BOOLEAN
  BY DEF Init
<1>5. /\ told \subseteq Conns /\ global \in Int /\ starting \in Nat /\ commands \in Nat
      /\ mover \in {"none", "spawned", "moving"} /\ scenario \in Scenarios
  BY DEF Init
<1>. QED BY <1>1, <1>2, <1>3, <1>4, <1>5 DEF TypeOK

(* Every variable keeps its type. *)
THEOREM TypeCorrect == Spec => []TypeOK
BY TypeInit, TypeStep, PTL DEF Spec

-----------------------------------------------------------------------------
(* What posting and taking an event does to the channel. *)
LEMMA Posted ==
  ASSUME TypeOK, NEW kind, NEW a, Post(kind, a)
  PROVE  /\ Len(events) \in Nat /\ Len(events') = Len(events) + 1
         /\ \A i \in 1 .. Len(events) : events'[i] = events[i]
         /\ events'[Len(events) + 1] = [kind |-> kind, addr |-> a]
BY DEF Post, TypeOK

(* What is posted waits, with all that waited before.                      *)
LEMMA PostedWaits ==
  ASSUME TypeOK, NEW kind, NEW a, Post(kind, a)
  PROVE  /\ Waiting(kind, a)'
         /\ \A k, b : Waiting(k, b) => Waiting(k, b)'
<1>1. 1 .. Len(events) \subseteq 1 .. Len(events') /\ Len(events) + 1 \in 1 .. Len(events')
  <2>1. Len(events) \in Nat /\ Len(events') = Len(events) + 1
    BY Posted
  <2>. QED BY <2>1
<1>. QED BY <1>1, Posted DEF Waiting

(* What taking an event leaves of the channel: the rest, one place         *)
(* earlier.                                                                *)
LEMMA Taken ==
  ASSUME TypeOK, NEW kind, NEW a, Take(kind, a)
  PROVE  /\ Len(events) \in Nat \ {0} /\ Len(events') = Len(events) - 1
         /\ \A i \in 1 .. Len(events) : i > 1 =>
                i - 1 \in 1 .. Len(events') /\ events'[i - 1] = events[i]
         /\ \A i \in 1 .. Len(events') : i + 1 \in 1 .. Len(events) /\ events'[i] = events[i + 1]
         /\ events[1] = [kind |-> kind, addr |-> a]
<1>a. /\ events \in Seq(Event) /\ events # <<>> /\ events' = Tail(events)
      /\ Head(events) = [kind |-> kind, addr |-> a]
  BY DEF Take, TypeOK
<1>b. Head(events) = events[1]
  BY <1>a
<1>1. /\ events \in Seq(Event) /\ events # <<>> /\ events' = Tail(events)
      /\ events[1] = [kind |-> kind, addr |-> a]
  BY <1>a, <1>b
<1>2. /\ Len(events) \in Nat \ {0} /\ Len(events') = Len(events) - 1
      /\ \A i \in 1 .. Len(events) - 1 : events'[i] = events[i + 1]
  BY <1>1
<1>3. ASSUME NEW i \in 1 .. Len(events), i > 1
     PROVE  i - 1 \in 1 .. Len(events') /\ events'[i - 1] = events[i]
  <2>1. i - 1 \in 1 .. Len(events) - 1 /\ (i - 1) + 1 = i
    BY <1>2, <1>3
  <2>. QED BY <1>2, <2>1
<1>4. \A i \in 1 .. Len(events') : i + 1 \in 1 .. Len(events)
  BY <1>2
<1>. QED BY <1>1, <1>2, <1>3, <1>4

(* Taking an event ends the waiting of that one only.                      *)
LEMMA TakenWaits ==
  ASSUME TypeOK, NEW kind, NEW a, Take(kind, a)
  PROVE  \A k, b : Waiting(k, b) => Waiting(k, b)' \/ (k = kind /\ b = a)
<1>. SUFFICES ASSUME NEW k, NEW b, Waiting(k, b) PROVE Waiting(k, b)' \/ (k = kind /\ b = a)
  OBVIOUS
<1>1. PICK i \in 1 .. Len(events) : events[i] = [kind |-> k, addr |-> b]
  BY DEF Waiting
<1>2. CASE i > 1
  BY <1>1, <1>2, Taken DEF Waiting
<1>3. CASE ~(i > 1)
  <2>1. i = 1
    BY <1>3
  <2>2. [kind |-> k, addr |-> b].kind = [kind |-> kind, addr |-> a].kind
    BY <1>1, <2>1, Taken
  <2>3. [kind |-> k, addr |-> b].addr = [kind |-> kind, addr |-> a].addr
    BY <1>1, <2>1, Taken
  <2>. QED BY <2>2, <2>3
<1>. QED BY <1>2, <1>3

(* A connection task moves: the others stay where they are. *)
LEMMA Moved ==
  ASSUME TypeOK, NEW c \in Conns, NEW step, Goto(c, step), NEW S
  PROVE  /\ step \in S => At(c[1], S)'
         /\ pc[c] \notin S => \A a \in Addrs : At(a, S) => At(a, S)'
         /\ \A a \in Addrs : a # c[1] /\ At(a, S) => At(a, S)'
<1>1. pc' = [pc EXCEPT ![c] = step] /\ c \in DOMAIN pc /\ DOMAIN pc = Conns
  BY DEF Goto, TypeOK
<1>2. pc'[c] = step /\ \A d \in Conns : d # c => pc'[d] = pc[d]
  BY <1>1
<1>3. <<c[1], c[2]>> = c /\ c[2] \in Slots
  BY ConnAddrs
<1>4. ASSUME NEW a \in Addrs, NEW k \in Slots, pc[<<a, k>>] \in S, a # c[1] \/ pc[c] \notin S
     PROVE  At(a, S)'
  <2>1. <<a, k>> \in Conns /\ <<a, k>> # c
    BY <1>4, <1>3, ConnAddrs
  <2>. QED BY <2>1, <1>4, <1>2 DEF At
<1>5. step \in S => At(c[1], S)'
  BY <1>2, <1>3 DEF At
<1>. QED BY <1>4, <1>5 DEF At

(* The listener's task is a new one. *)
LEMMA AcceptsFree ==
  ASSUME TypeOK, NEW c \in Conns, Accept(c) PROVE pc[c] = "free" /\ Goto(c, "accepted")
<1>1. c[2] \in Idle(c[1])
  BY ConnAddrs DEF Accept
<1>. QED BY <1>1, ConnAddrs DEF Accept, Idle

(* Half-open entries are accounted for. *)
LEMMA HalfOpenStep == TypeOK /\ HalfOpenAccounted /\ [Next]_vars => HalfOpenAccounted'
<1>. SUFFICES ASSUME TypeOK, HalfOpenAccounted, [Next]_vars PROVE HalfOpenAccounted'
  OBVIOUS
<1>1. ASSUME NEW a \in OutAddrs, Discover(a)
     PROVE  HalfOpenAccounted'
  <2>1. torrent'.connecting \subseteq torrent.connecting
    BY <1>1 DEF Discover, Announces, Reannounces, FindsLocal, QueriesDht, Exchanges,
         Learn, TypeOK, Torrents
  <2>. QED BY <1>1, <2>1 DEF Discover, Announces, Reannounces, FindsLocal, QueriesDht, Exchanges,
         Learn, HalfOpenAccounted, Waiting, At
<1>2. ASSUME NEW l \in Loops, NEW ready \in SUBSET Addrs, LoopTop(l, ready)
     PROVE  HalfOpenAccounted'
  BY <1>2 DEF LoopTop, TypeOK, Torrents, HalfOpenAccounted, Waiting, At
<1>3. ASSUME NEW l \in Loops, NEW recent \in 0 .. ConnectionSpeed, FindSlots(l, recent)
     PROVE  HalfOpenAccounted'
  BY <1>3 DEF FindSlots, TypeOK, Torrents, HalfOpenAccounted, Waiting, At
<1>4. ASSUME NEW l \in Loops, NEW as \in SUBSET Addrs, Dial(l, as)
     PROVE  HalfOpenAccounted'
  <2>1. ASSUME NEW a \in as PROVE At(a, {"dialing", "handshake"})'
    <3>1. Slot(a) \in Slots
      BY <1>4, <2>1 DEF Dial, Slot, Idle
    <3>2. pc'[<<a, Slot(a)>>] = "dialing"
      BY <1>4, <2>1, <3>1, ConnAddrs DEF Dial
    <3>. QED BY <3>1, <3>2 DEF At
  <2>2. ASSUME NEW a \in Addrs, At(a, {"dialing", "handshake"})
       PROVE  At(a, {"dialing", "handshake"})'
    <3>1. PICK k \in Slots : pc[<<a, k>>] \in {"dialing", "handshake"}
      BY <2>2 DEF At
    <3>2. pc'[<<a, k>>] \in {"dialing", "handshake"}
      BY <1>4, <3>1, ConnAddrs DEF Dial
    <3>. QED BY <3>2 DEF At
  <2>3. present => torrent'.connecting = torrent.connecting \cup as
    BY <1>4 DEF Dial, TypeOK, Torrents
  <2>4. torrent.connecting \subseteq Addrs
    BY DEF TypeOK, Torrents
  <2>. QED BY <1>4, <2>1, <2>2, <2>3, <2>4 DEF Dial, HalfOpenAccounted, Waiting
<1>5. ASSUME NEW l \in Loops, NEW choke \in BOOLEAN, NEW rotate \in BOOLEAN, Round(l, choke, rotate)
     PROVE  HalfOpenAccounted'
  <2>1. torrent'.connecting = torrent.connecting
    <3>1. Serve(Finish(torrent)).connecting = torrent.connecting
      BY DEF Serve, Finish, Finished, TypeOK, Torrents
    <3>2. \A t, best, lucky :
             t \in Torrents => Choking(t, best, lucky, rotate).connecting = t.connecting
      BY DEF Choking, Torrents
    <3>3. Serve(Finish(torrent)) \in Torrents
      BY ServeType DEF TypeOK
    <3>. QED BY <1>5, <3>1, <3>2, <3>3 DEF Round
  <2>. QED BY <1>5, <2>1 DEF Round, HalfOpenAccounted, Waiting, At
<1>6. ASSUME NEW l \in Loops, LoopEnds(l)
     PROVE  HalfOpenAccounted'
  BY <1>6 DEF LoopEnds, TypeOK, Torrents, HalfOpenAccounted, Waiting, At
<1>7. ASSUME NEW c \in Conns, Accept(c)
     PROVE  HalfOpenAccounted'
  <2>1. \A a \in Addrs : At(a, {"dialing", "handshake"}) => At(a, {"dialing", "handshake"})'
    BY <1>7, Moved, AcceptsFree DEF Accept
  <2>2. torrent.connecting \subseteq Addrs
    BY DEF TypeOK, Torrents
  <2>. QED BY <1>7, <2>1, <2>2 DEF Accept, HalfOpenAccounted, Waiting
<1>8. ASSUME NEW c \in Conns, DialSucceeds(c)
     PROVE  HalfOpenAccounted'
  <2>1. \A a \in Addrs : At(a, {"dialing", "handshake"}) => At(a, {"dialing", "handshake"})'
    BY <1>8, Moved DEF DialSucceeds
  <2>2. torrent.connecting \subseteq Addrs
    BY DEF TypeOK, Torrents
  <2>. QED BY <1>8, <2>1, <2>2 DEF DialSucceeds, HalfOpenAccounted, Waiting
<1>9. ASSUME NEW c \in Conns, DialFails(c)
     PROVE  HalfOpenAccounted'
  <2>1. \A a \in Addrs : a # c[1] /\ At(a, {"dialing", "handshake"})
            => At(a, {"dialing", "handshake"})'
    BY <1>9, Moved DEF DialFails
  <2>2. present => torrent'.connecting = torrent.connecting \ {c[1]}
    BY <1>9 DEF DialFails, TypeOK, Torrents
  <2>3. torrent.connecting \subseteq Addrs
    BY DEF TypeOK, Torrents
  <2>. QED BY <1>9, <2>1, <2>2, <2>3 DEF DialFails, HalfOpenAccounted, Waiting
<1>10. ASSUME NEW c \in Conns, Admit(c)
     PROVE  HalfOpenAccounted'
  <2>1. \A a \in Addrs : At(a, {"dialing", "handshake"}) => At(a, {"dialing", "handshake"})'
    BY <1>10, Moved DEF Admit
  <2>2. torrent.connecting \subseteq Addrs
    BY DEF TypeOK, Torrents
  <2>. QED BY <1>10, <2>1, <2>2 DEF Admit, HalfOpenAccounted, Waiting
<1>11. ASSUME NEW c \in Conns, Refuse(c)
     PROVE  HalfOpenAccounted'
  <2>1. \A a \in Addrs : At(a, {"dialing", "handshake"}) => At(a, {"dialing", "handshake"})'
    BY <1>11, Moved DEF Refuse
  <2>2. torrent.connecting \subseteq Addrs
    BY DEF TypeOK, Torrents
  <2>. QED BY <1>11, <2>1, <2>2 DEF Refuse, HalfOpenAccounted, Waiting
<1>12. ASSUME NEW c \in Conns, Handshake(c)
     PROVE  HalfOpenAccounted'
  <2>1. \A a \in Addrs : a # c[1] /\ At(a, {"dialing", "handshake"})
            => At(a, {"dialing", "handshake"})'
    BY <1>12, Moved DEF Handshake
  <2>2. Waiting("connected", c[1])' /\ \A k, a : Waiting(k, a) => Waiting(k, a)'
    BY <1>12, PostedWaits DEF Handshake
  <2>3. torrent.connecting \subseteq Addrs
    BY DEF TypeOK, Torrents
  <2>. QED BY <1>12, <2>1, <2>2, <2>3 DEF Handshake, HalfOpenAccounted
<1>13. ASSUME NEW c \in Conns, Subscribe(c)
     PROVE  HalfOpenAccounted'
  <2>1. \A a \in Addrs : At(a, {"dialing", "handshake"}) => At(a, {"dialing", "handshake"})'
    BY <1>13, Moved DEF Subscribe
  <2>2. torrent.connecting \subseteq Addrs
    BY DEF TypeOK, Torrents
  <2>. QED BY <1>13, <2>1, <2>2 DEF Subscribe, HalfOpenAccounted, Waiting
<1>14. ASSUME NEW c \in Conns, Close(c)
     PROVE  HalfOpenAccounted'
  <2>1. \A a \in Addrs : a # c[1] /\ At(a, {"dialing", "handshake"})
            => At(a, {"dialing", "handshake"})'
    BY <1>14, Moved DEF Close
  <2>2. Waiting("disconnected", c[1])' /\ \A k, a : Waiting(k, a) => Waiting(k, a)'
    BY <1>14, PostedWaits DEF Close
  <2>3. torrent.connecting \subseteq Addrs
    BY DEF TypeOK, Torrents
  <2>. QED BY <1>14, <2>1, <2>2, <2>3 DEF Close, HalfOpenAccounted
<1>15. ASSUME NEW c \in Conns, LastPiece(c)
     PROVE  HalfOpenAccounted'
  <2>1. \A k, a : Waiting(k, a) => Waiting(k, a)'
    BY <1>15, PostedWaits DEF LastPiece
  <2>2. torrent'.connecting = torrent.connecting
    BY <1>15 DEF LastPiece, TypeOK, Torrents
  <2>. QED BY <1>15, <2>1, <2>2 DEF LastPiece, HalfOpenAccounted, At
<1>16. ASSUME NEW c \in Conns, NEW kind \in {"interested", "uninterested"}, Declare(c, kind)
     PROVE  HalfOpenAccounted'
  <2>1. \A k, a : Waiting(k, a) => Waiting(k, a)'
    BY <1>16, PostedWaits DEF Declare
  <2>2. torrent'.connecting = torrent.connecting
    BY <1>16 DEF Declare, TypeOK, Torrents
  <2>. QED BY <1>16, <2>1, <2>2 DEF Declare, HalfOpenAccounted, At
<1>17. ASSUME NEW a \in Addrs, OnConnected(a)
     PROVE  HalfOpenAccounted'
  <2>1. \A k, b : Waiting(k, b) => Waiting(k, b)' \/ b = a
    BY <1>17, TakenWaits DEF OnConnected
  <2>2. present => torrent'.connecting = torrent.connecting \ {a}
    BY <1>17 DEF OnConnected, TypeOK, Torrents
  <2>. QED BY <1>17, <2>1, <2>2 DEF OnConnected, HalfOpenAccounted, At
<1>18. ASSUME NEW a \in Addrs, OnDisconnected(a)
     PROVE  HalfOpenAccounted'
  <2>1. \A k, b : Waiting(k, b) => Waiting(k, b)' \/ b = a
    BY <1>18, TakenWaits DEF OnDisconnected
  <2>2. present => torrent'.connecting = torrent.connecting \ {a}
    BY <1>18 DEF OnDisconnected, TypeOK, Torrents
  <2>. QED BY <1>18, <2>1, <2>2 DEF OnDisconnected, HalfOpenAccounted, At
<1>19. ASSUME NEW a \in Addrs, OnPieceCompleted(a)
     PROVE  HalfOpenAccounted'
  <2>1. \A b : /\ Waiting("connected", b) => Waiting("connected", b)'
               /\ Waiting("disconnected", b) => Waiting("disconnected", b)'
    BY <1>19, TakenWaits DEF OnPieceCompleted
  <2>2. torrent'.connecting \subseteq torrent.connecting
    BY <1>19 DEF OnPieceCompleted, Marked, Cleared, Finish, Finished, TypeOK, Torrents
  <2>. QED BY <1>19, <2>1, <2>2 DEF OnPieceCompleted, HalfOpenAccounted, At
<1>20. ASSUME NEW a \in Addrs, NEW kind \in {"interested", "uninterested"}, OnPeerState(a, kind)
     PROVE  HalfOpenAccounted'
  <2>1. \A b : /\ Waiting("connected", b) => Waiting("connected", b)'
               /\ Waiting("disconnected", b) => Waiting("disconnected", b)'
    BY <1>20, TakenWaits DEF OnPeerState
  <2>2. torrent'.connecting = torrent.connecting
    BY <1>20 DEF OnPeerState, TypeOK, Torrents
  <2>. QED BY <1>20, <2>1, <2>2 DEF OnPeerState, HalfOpenAccounted, At
<1>21. CASE Pause
  <2>1. torrent'.connecting \subseteq torrent.connecting
    BY <1>21 DEF Pause, Cleared, TypeOK, Torrents
  <2>. QED BY <1>21, <2>1 DEF Pause, HalfOpenAccounted, Waiting, At
<1>22. CASE Resume
  <2>1. torrent'.connecting \subseteq torrent.connecting
    BY <1>22 DEF Resume, TypeOK, Torrents
  <2>. QED BY <1>22, <2>1 DEF Resume, HalfOpenAccounted, Waiting, At
<1>23. CASE Remove
  BY <1>23 DEF Remove, TypeOK, Torrents, HalfOpenAccounted, Waiting, At
<1>24. ASSUME NEW paused \in BOOLEAN, Add(paused)
     PROVE  HalfOpenAccounted'
  BY <1>24 DEF Add, TypeOK, Torrents, HalfOpenAccounted, Waiting, At, NewTorrent
<1>25. CASE Start
  <2>1. torrent'.connecting \subseteq torrent.connecting
    BY <1>25 DEF Start, SpawnLoop, TypeOK, Torrents
  <2>. QED BY <1>25, <2>1 DEF Start, HalfOpenAccounted, Waiting, At
<1>26. CASE MoveBegins
  <2>1. torrent'.connecting \subseteq torrent.connecting
    BY <1>26 DEF MoveBegins, Cleared, TypeOK, Torrents
  <2>. QED BY <1>26, <2>1 DEF MoveBegins, HalfOpenAccounted, Waiting, At
<1>27. CASE MoveEnds
  <2>1. torrent'.connecting = torrent.connecting
    BY <1>27 DEF MoveEnds, TypeOK, Torrents
  <2>. QED BY <1>27, <2>1 DEF MoveEnds, HalfOpenAccounted, Waiting, At
<1>28. ASSUME NEW whole \in BOOLEAN, FinishCheck(whole)
     PROVE  HalfOpenAccounted'
  <2>1. torrent'.connecting \subseteq torrent.connecting
    BY <1>28 DEF FinishCheck, TypeOK, Torrents
  <2>. QED BY <1>28, <2>1 DEF FinishCheck, HalfOpenAccounted, Waiting, At
<1>29. CASE UNCHANGED vars
  BY <1>29 DEF vars, HalfOpenAccounted, Waiting, At
<1>. QED
  BY <1>1, <1>2, <1>3, <1>4, <1>5, <1>6, <1>7, <1>8, <1>9, <1>10, <1>11,
     <1>12, <1>13, <1>14, <1>15, <1>16, <1>17, <1>18, <1>19, <1>20, <1>21,
     <1>22, <1>23, <1>24, <1>25, <1>26, <1>27, <1>28, <1>29
     DEF Next, RunLoop, Connection, Establish, Process, User, Task

(* A half-open slot is never leaked. *)
THEOREM NoHalfOpenLeak == Spec => []HalfOpenAccounted
<1>1. Init => HalfOpenAccounted
  BY DEF Init, NewTorrent, HalfOpenAccounted
<1>. QED BY <1>1, TypeInit, TypeStep, HalfOpenStep, PTL DEF Spec

-----------------------------------------------------------------------------
(* Upload slots. *)
LEMMA SlotsKept ==
  ASSUME TypeOK, UploadSlots, torrent'.unchoked \subseteq torrent.unchoked,
         torrent'.interested \subseteq torrent'.peers, torrent'.unchoked \subseteq torrent'.peers
  PROVE  (InterestedArePeers /\ UploadSlots)'
<1>1. torrent.unchoked \in SUBSET Addrs
  BY DEF TypeOK, Torrents
<1>2. /\ Cardinality(torrent.unchoked) \in Nat /\ Cardinality(torrent'.unchoked) \in Nat
      /\ Cardinality(torrent'.unchoked) <= Cardinality(torrent.unchoked)
  BY <1>1, AddrsCount, FS_Subset
<1>3. Cardinality(torrent'.unchoked) <= MaxUnchoked
  BY <1>2, BoundsTyped DEF UploadSlots
<1>. QED BY <1>3 DEF InterestedArePeers, UploadSlots

(* The round unchokes interested peers only, and no more than there are    *)
(* slots.                                                                  *)
LEMMA ChokingSlots ==
  ASSUME NEW t \in Torrents, NEW best \in Ranks(t), NEW lucky \in Lucky(t, best),
         NEW rotate \in BOOLEAN, NEW u, u = Choking(t, best, lucky, rotate)
  PROVE  /\ u.peers = t.peers /\ u.interested = t.interested
         /\ u.unchoked \subseteq t.interested /\ Cardinality(u.unchoked) <= MaxUnchoked
<1>1. /\ t.interested \in SUBSET Addrs /\ best \subseteq t.interested
      /\ Cardinality(best) = Lesser(MaxUnchoked - 1, Cardinality(t.interested))
  BY DEF Ranks, kSubset, Torrents
<1>2. /\ IsFiniteSet(best) /\ Cardinality(best) \in Nat
      /\ Cardinality(best) + 1 <= MaxUnchoked
  <2>1. IsFiniteSet(best) /\ Cardinality(best) \in Nat /\ Cardinality(t.interested) \in Nat
    BY <1>1, AddrsCount
  <2>2. MaxUnchoked \in Nat /\ Cardinality(best) <= MaxUnchoked - 1
    BY <1>1, <2>1, BoundsTyped
  <2>. QED BY <2>1, <2>2
<1>3. u.peers = t.peers /\ u.interested = t.interested
  BY DEF Choking, Torrents
<1>4. PICK p : /\ u.unchoked = best \cup (IF p = NoPeer THEN {} ELSE {p})
               /\ p \in (t.interested \ best) \cup {NoPeer}
  BY DEF Choking, Torrents, Lucky
<1>5. u.unchoked \subseteq t.interested
  BY <1>1, <1>4
<1>6. Cardinality(u.unchoked) <= MaxUnchoked
  <2>1. CASE p = NoPeer
    BY <1>2, <1>4, <2>1, BoundsTyped
  <2>2. CASE p # NoPeer
    <3>1. u.unchoked = best \cup {p}
      BY <1>4, <2>2
    <3>2. Cardinality(best \cup {p}) = IF p \in best THEN Cardinality(best)
                                        ELSE Cardinality(best) + 1
      BY <1>2, FS_AddElement
    <3>3. Cardinality(best \cup {p}) \in Nat
      BY <1>1, <1>5, <3>1, AddrsCount
    <3>4. Cardinality(u.unchoked) <= Cardinality(best) + 1
      <4>1. CASE p \in best
        BY <1>2, <3>1, <3>2, <4>1, BoundsTyped
      <4>2. CASE p \notin best
        BY <1>2, <3>1, <3>2, <4>2, BoundsTyped
      <4>. QED BY <4>1, <4>2
    <3>5. MaxUnchoked \in Nat /\ Cardinality(u.unchoked) \in Nat
      BY <3>1, <3>3, BoundsTyped
    <3>. QED BY <1>2, <3>4, <3>5
  <2>. QED BY <2>1, <2>2
<1>. QED BY <1>3, <1>5, <1>6

(* Interest is kept for peers of the table, slots are given to them only.  *)
LEMMA SlotsStep ==
  TypeOK /\ InterestedArePeers /\ UploadSlots /\ [Next]_vars
      => (InterestedArePeers /\ UploadSlots)'
<1>. SUFFICES ASSUME TypeOK, InterestedArePeers, UploadSlots, [Next]_vars
              PROVE  (InterestedArePeers /\ UploadSlots)'
  OBVIOUS
<1>1. ASSUME NEW a \in OutAddrs, Discover(a)
     PROVE  (InterestedArePeers /\ UploadSlots)'
  <2>1. /\ torrent'.unchoked \subseteq torrent.unchoked
        /\ torrent'.interested \subseteq torrent'.peers
        /\ torrent'.unchoked \subseteq torrent'.peers
    BY <1>1 DEF Discover, Announces, Reannounces, FindsLocal, QueriesDht, Exchanges,
         Learn, TypeOK, Torrents, InterestedArePeers, UploadSlots
  <2>. QED BY <2>1, SlotsKept
<1>2. ASSUME NEW l \in Loops, NEW ready \in SUBSET Addrs, LoopTop(l, ready)
     PROVE  (InterestedArePeers /\ UploadSlots)'
  <2>1. /\ torrent'.unchoked \subseteq torrent.unchoked
        /\ torrent'.interested \subseteq torrent'.peers
        /\ torrent'.unchoked \subseteq torrent'.peers
    BY <1>2 DEF LoopTop, TypeOK, Torrents, InterestedArePeers, UploadSlots
  <2>. QED BY <2>1, SlotsKept
<1>3. ASSUME NEW l \in Loops, NEW recent \in 0 .. ConnectionSpeed, FindSlots(l, recent)
     PROVE  (InterestedArePeers /\ UploadSlots)'
  <2>1. /\ torrent'.unchoked \subseteq torrent.unchoked
        /\ torrent'.interested \subseteq torrent'.peers
        /\ torrent'.unchoked \subseteq torrent'.peers
    BY <1>3 DEF FindSlots, TypeOK, Torrents, InterestedArePeers, UploadSlots
  <2>. QED BY <2>1, SlotsKept
<1>4. ASSUME NEW l \in Loops, NEW as \in SUBSET Addrs, Dial(l, as)
     PROVE  (InterestedArePeers /\ UploadSlots)'
  <2>1. /\ torrent'.unchoked \subseteq torrent.unchoked
        /\ torrent'.interested \subseteq torrent'.peers
        /\ torrent'.unchoked \subseteq torrent'.peers
    BY <1>4 DEF Dial, TypeOK, Torrents, InterestedArePeers, UploadSlots
  <2>. QED BY <2>1, SlotsKept
<1>5. ASSUME NEW l \in Loops, NEW choke \in BOOLEAN, NEW rotate \in BOOLEAN, Round(l, choke, rotate)
     PROVE  (InterestedArePeers /\ UploadSlots)'
  <2>1. CASE ~present
    BY <1>5, <2>1, SlotsKept DEF Round, InterestedArePeers, UploadSlots
  <2>2. CASE present
    <3>. DEFINE t == Serve(Finish(torrent))
    <3>1. /\ t \in Torrents /\ t.peers = torrent.peers /\ t.interested = torrent.interested
          /\ t.unchoked = torrent.unchoked
      BY ServedRecord DEF TypeOK
    <3>2. CASE torrent' = t
      BY <3>1, <3>2, SlotsKept DEF InterestedArePeers, UploadSlots
    <3>3. CASE \E best \in Ranks(t) : \E lucky \in Lucky(t, best) :
                 torrent' = Choking(t, best, lucky, rotate)
      <4>1. PICK best \in Ranks(t) :
                \E lucky \in Lucky(t, best) : torrent' = Choking(t, best, lucky, rotate)
        BY <3>3
      <4>3. PICK lucky \in Lucky(t, best) : torrent' = Choking(t, best, lucky, rotate)
        BY <4>1
      <4>2. /\ torrent'.peers = t.peers /\ torrent'.interested = t.interested
            /\ torrent'.unchoked \subseteq t.interested
            /\ Cardinality(torrent'.unchoked) <= MaxUnchoked
        BY <3>1, <4>1, <4>3, ChokingSlots
      <4>. QED BY <3>1, <4>2 DEF InterestedArePeers, UploadSlots
    <3>. QED BY <1>5, <2>2, <3>2, <3>3 DEF Round
  <2>. QED BY <2>1, <2>2
<1>6. ASSUME NEW l \in Loops, LoopEnds(l)
     PROVE  (InterestedArePeers /\ UploadSlots)'
  <2>1. /\ torrent'.unchoked \subseteq torrent.unchoked
        /\ torrent'.interested \subseteq torrent'.peers
        /\ torrent'.unchoked \subseteq torrent'.peers
    BY <1>6 DEF LoopEnds, TypeOK, Torrents, InterestedArePeers, UploadSlots
  <2>. QED BY <2>1, SlotsKept
<1>7. ASSUME NEW c \in Conns, Accept(c)
     PROVE  (InterestedArePeers /\ UploadSlots)'
  <2>1. /\ torrent'.unchoked \subseteq torrent.unchoked
        /\ torrent'.interested \subseteq torrent'.peers
        /\ torrent'.unchoked \subseteq torrent'.peers
    BY <1>7 DEF Accept, TypeOK, Torrents, InterestedArePeers, UploadSlots
  <2>. QED BY <2>1, SlotsKept
<1>8. ASSUME NEW c \in Conns, DialSucceeds(c)
     PROVE  (InterestedArePeers /\ UploadSlots)'
  <2>1. /\ torrent'.unchoked \subseteq torrent.unchoked
        /\ torrent'.interested \subseteq torrent'.peers
        /\ torrent'.unchoked \subseteq torrent'.peers
    BY <1>8 DEF DialSucceeds, TypeOK, Torrents, InterestedArePeers, UploadSlots
  <2>. QED BY <2>1, SlotsKept
<1>9. ASSUME NEW c \in Conns, DialFails(c)
     PROVE  (InterestedArePeers /\ UploadSlots)'
  <2>1. /\ torrent'.unchoked \subseteq torrent.unchoked
        /\ torrent'.interested \subseteq torrent'.peers
        /\ torrent'.unchoked \subseteq torrent'.peers
    BY <1>9 DEF DialFails, TypeOK, Torrents, InterestedArePeers, UploadSlots
  <2>. QED BY <2>1, SlotsKept
<1>10. ASSUME NEW c \in Conns, Admit(c)
     PROVE  (InterestedArePeers /\ UploadSlots)'
  <2>1. /\ torrent'.unchoked \subseteq torrent.unchoked
        /\ torrent'.interested \subseteq torrent'.peers
        /\ torrent'.unchoked \subseteq torrent'.peers
    BY <1>10 DEF Admit, TypeOK, Torrents, InterestedArePeers, UploadSlots
  <2>. QED BY <2>1, SlotsKept
<1>11. ASSUME NEW c \in Conns, Refuse(c)
     PROVE  (InterestedArePeers /\ UploadSlots)'
  <2>1. /\ torrent'.unchoked \subseteq torrent.unchoked
        /\ torrent'.interested \subseteq torrent'.peers
        /\ torrent'.unchoked \subseteq torrent'.peers
    BY <1>11 DEF Refuse, TypeOK, Torrents, InterestedArePeers, UploadSlots
  <2>. QED BY <2>1, SlotsKept
<1>12. ASSUME NEW c \in Conns, Handshake(c)
     PROVE  (InterestedArePeers /\ UploadSlots)'
  <2>1. /\ torrent'.unchoked \subseteq torrent.unchoked
        /\ torrent'.interested \subseteq torrent'.peers
        /\ torrent'.unchoked \subseteq torrent'.peers
    BY <1>12 DEF Handshake, TypeOK, Torrents, InterestedArePeers, UploadSlots
  <2>. QED BY <2>1, SlotsKept
<1>13. ASSUME NEW c \in Conns, Subscribe(c)
     PROVE  (InterestedArePeers /\ UploadSlots)'
  <2>1. /\ torrent'.unchoked \subseteq torrent.unchoked
        /\ torrent'.interested \subseteq torrent'.peers
        /\ torrent'.unchoked \subseteq torrent'.peers
    BY <1>13 DEF Subscribe, TypeOK, Torrents, InterestedArePeers, UploadSlots
  <2>. QED BY <2>1, SlotsKept
<1>14. ASSUME NEW c \in Conns, Close(c)
     PROVE  (InterestedArePeers /\ UploadSlots)'
  <2>1. /\ torrent'.unchoked \subseteq torrent.unchoked
        /\ torrent'.interested \subseteq torrent'.peers
        /\ torrent'.unchoked \subseteq torrent'.peers
    BY <1>14 DEF Close, TypeOK, Torrents, InterestedArePeers, UploadSlots
  <2>. QED BY <2>1, SlotsKept
<1>15. ASSUME NEW c \in Conns, LastPiece(c)
     PROVE  (InterestedArePeers /\ UploadSlots)'
  <2>1. /\ torrent'.unchoked \subseteq torrent.unchoked
        /\ torrent'.interested \subseteq torrent'.peers
        /\ torrent'.unchoked \subseteq torrent'.peers
    BY <1>15 DEF LastPiece, TypeOK, Torrents, InterestedArePeers, UploadSlots
  <2>. QED BY <2>1, SlotsKept
<1>16. ASSUME NEW c \in Conns, NEW kind \in {"interested", "uninterested"}, Declare(c, kind)
     PROVE  (InterestedArePeers /\ UploadSlots)'
  <2>1. /\ torrent'.unchoked \subseteq torrent.unchoked
        /\ torrent'.interested \subseteq torrent'.peers
        /\ torrent'.unchoked \subseteq torrent'.peers
    BY <1>16 DEF Declare, TypeOK, Torrents, InterestedArePeers, UploadSlots
  <2>. QED BY <2>1, SlotsKept
<1>17. ASSUME NEW a \in Addrs, OnConnected(a)
     PROVE  (InterestedArePeers /\ UploadSlots)'
  <2>1. /\ torrent'.unchoked \subseteq torrent.unchoked
        /\ torrent'.interested \subseteq torrent'.peers
        /\ torrent'.unchoked \subseteq torrent'.peers
    BY <1>17 DEF OnConnected, TypeOK, Torrents, InterestedArePeers, UploadSlots
  <2>. QED BY <2>1, SlotsKept
<1>18. ASSUME NEW a \in Addrs, OnDisconnected(a)
     PROVE  (InterestedArePeers /\ UploadSlots)'
  <2>1. /\ torrent'.unchoked \subseteq torrent.unchoked
        /\ torrent'.interested \subseteq torrent'.peers
        /\ torrent'.unchoked \subseteq torrent'.peers
    BY <1>18 DEF OnDisconnected, TypeOK, Torrents, InterestedArePeers, UploadSlots
  <2>. QED BY <2>1, SlotsKept
<1>19. ASSUME NEW a \in Addrs, OnPieceCompleted(a)
     PROVE  (InterestedArePeers /\ UploadSlots)'
  <2>0. PICK t \in Torrents : /\ UNCHANGED torrent \/ torrent' \in {t, Finish(t), Cleared(Finish(t))}
                              /\ t.unchoked = torrent.unchoked /\ t.peers = torrent.peers
                              /\ t.interested = torrent.interested
    <3>1. PICK late \in BOOLEAN :
              torrent' \in {Marked(torrent, late), Finish(Marked(torrent, late)),
                            Cleared(Finish(Marked(torrent, late)))}
      BY <1>19 DEF OnPieceCompleted
    <3>2. /\ Marked(torrent, late) \in Torrents
          /\ Marked(torrent, late).unchoked = torrent.unchoked
          /\ Marked(torrent, late).peers = torrent.peers
          /\ Marked(torrent, late).interested = torrent.interested
      BY DEF Marked, TypeOK, Torrents
    <3>. QED  BY <3>1, <3>2
  <2>1. /\ torrent'.unchoked \subseteq torrent.unchoked
        /\ torrent'.interested \subseteq torrent'.peers
        /\ torrent'.unchoked \subseteq torrent'.peers
    BY <2>0 DEF Cleared, Finish, Torrents, InterestedArePeers, UploadSlots
  <2>. QED BY <2>1, SlotsKept
<1>20. ASSUME NEW a \in Addrs, NEW kind \in {"interested", "uninterested"}, OnPeerState(a, kind)
     PROVE  (InterestedArePeers /\ UploadSlots)'
  <2>1. /\ torrent'.unchoked \subseteq torrent.unchoked
        /\ torrent'.interested \subseteq torrent'.peers
        /\ torrent'.unchoked \subseteq torrent'.peers
    BY <1>20 DEF OnPeerState, TypeOK, Torrents, InterestedArePeers, UploadSlots
  <2>. QED BY <2>1, SlotsKept
<1>21. CASE Pause
  <2>1. /\ torrent'.unchoked \subseteq torrent.unchoked
        /\ torrent'.interested \subseteq torrent'.peers
        /\ torrent'.unchoked \subseteq torrent'.peers
    BY <1>21 DEF Pause, Cleared, TypeOK, Torrents, InterestedArePeers, UploadSlots
  <2>. QED BY <2>1, SlotsKept
<1>22. CASE Resume
  <2>1. /\ torrent'.unchoked \subseteq torrent.unchoked
        /\ torrent'.interested \subseteq torrent'.peers
        /\ torrent'.unchoked \subseteq torrent'.peers
    BY <1>22 DEF Resume, TypeOK, Torrents, InterestedArePeers, UploadSlots
  <2>. QED BY <2>1, SlotsKept
<1>23. CASE Remove
  <2>1. /\ torrent'.unchoked \subseteq torrent.unchoked
        /\ torrent'.interested \subseteq torrent'.peers
        /\ torrent'.unchoked \subseteq torrent'.peers
    BY <1>23 DEF Remove, NewTorrent, TypeOK, Torrents, InterestedArePeers, UploadSlots
  <2>. QED BY <2>1, SlotsKept
<1>24. ASSUME NEW paused \in BOOLEAN, Add(paused)
     PROVE  (InterestedArePeers /\ UploadSlots)'
  <2>1. /\ torrent'.unchoked \subseteq torrent.unchoked
        /\ torrent'.interested \subseteq torrent'.peers
        /\ torrent'.unchoked \subseteq torrent'.peers
    BY <1>24 DEF Add, NewTorrent, TypeOK, Torrents, InterestedArePeers, UploadSlots
  <2>. QED BY <2>1, SlotsKept
<1>25. CASE Start
  <2>1. /\ torrent'.unchoked \subseteq torrent.unchoked
        /\ torrent'.interested \subseteq torrent'.peers
        /\ torrent'.unchoked \subseteq torrent'.peers
    BY <1>25 DEF Start, SpawnLoop, TypeOK, Torrents, InterestedArePeers, UploadSlots
  <2>. QED BY <2>1, SlotsKept
<1>26. CASE MoveBegins
  <2>1. /\ torrent'.unchoked \subseteq torrent.unchoked
        /\ torrent'.interested \subseteq torrent'.peers
        /\ torrent'.unchoked \subseteq torrent'.peers
    BY <1>26 DEF MoveBegins, Cleared, TypeOK, Torrents, InterestedArePeers, UploadSlots
  <2>. QED BY <2>1, SlotsKept
<1>27. CASE MoveEnds
  <2>1. /\ torrent'.unchoked \subseteq torrent.unchoked
        /\ torrent'.interested \subseteq torrent'.peers
        /\ torrent'.unchoked \subseteq torrent'.peers
    BY <1>27 DEF MoveEnds, TypeOK, Torrents, InterestedArePeers, UploadSlots
  <2>. QED BY <2>1, SlotsKept
<1>28. ASSUME NEW whole \in BOOLEAN, FinishCheck(whole)
     PROVE  (InterestedArePeers /\ UploadSlots)'
  <2>1. /\ torrent'.unchoked \subseteq torrent.unchoked
        /\ torrent'.interested \subseteq torrent'.peers
        /\ torrent'.unchoked \subseteq torrent'.peers
    BY <1>28 DEF FinishCheck, TypeOK, Torrents, InterestedArePeers, UploadSlots
  <2>. QED BY <2>1, SlotsKept
<1>29. CASE UNCHANGED vars
  BY <1>29 DEF vars, InterestedArePeers, UploadSlots
<1>. QED
  BY <1>1, <1>2, <1>3, <1>4, <1>5, <1>6, <1>7, <1>8, <1>9, <1>10, <1>11,
     <1>12, <1>13, <1>14, <1>15, <1>16, <1>17, <1>18, <1>19, <1>20, <1>21,
     <1>22, <1>23, <1>24, <1>25, <1>26, <1>27, <1>28, <1>29
     DEF Next, RunLoop, Connection, Establish, Process, User, Task

(* At most MAX_UNCHOKED_PEERS upload slots, all with connected peers.      *)
THEOREM SlotsAreBounded == Spec => []UploadSlots
<1>1. Init => InterestedArePeers /\ UploadSlots
  BY FS_EmptySet, BoundsTyped DEF Init, NewTorrent, InterestedArePeers, UploadSlots
<1>. QED BY <1>1, TypeInit, TypeStep, SlotsStep, PTL DEF Spec

-----------------------------------------------------------------------------
(* Ghosts.  A Connected stays followed when an event is posted, provided a *)
(* task that leaves posts its Disconnected; when one is taken; and when    *)
(* the channel is left alone.                                              *)
Alive == {"setup", "loop"}

LEMMA EventAddrs == TypeOK => \A i \in 1 .. Len(events) : events[i].addr \in Addrs
<1>. SUFFICES ASSUME TypeOK, NEW i \in 1 .. Len(events) PROVE events[i].addr \in Addrs
  OBVIOUS
<1>1. events \in Seq(Event) /\ i \in 1 .. Len(events)
  BY DEF TypeOK
<1>2. events[i] \in Event
  BY <1>1
<1>. QED BY <1>2 DEF Event

(* Posting a departure follows the Connected of its address; posting a     *)
(* Connected needs its task.                                               *)
LEMMA FollowedPosted ==
  ASSUME TypeOK, ConnectedFollowed, NEW kind, NEW a, Post(kind, a),
         kind = "connected" => At(a, Alive)',
         \A b \in Addrs : At(b, Alive) => At(b, Alive)' \/ (kind = "disconnected" /\ b = a)
  PROVE  ConnectedFollowed'
<1>. SUFFICES ASSUME NEW i \in 1 .. Len(events'), events'[i].kind = "connected"
     PROVE  \/ \E k \in Slots : pc'[<<events'[i].addr, k>>] \in Alive
            \/ \E j \in i + 1 .. Len(events') :
                   events'[j] = [kind |-> "disconnected", addr |-> events'[i].addr]
  BY DEF ConnectedFollowed, At, Alive
<1>1. Len(events) \in Nat /\ Len(events') = Len(events) + 1
  BY Posted
<1>2. CASE i = Len(events) + 1
  <2>1. events'[i] = [kind |-> kind, addr |-> a]
    BY <1>2, Posted
  <2>2. kind = "connected" /\ events'[i].addr = a
    BY <2>1
  <2>. QED BY <2>2 DEF At
<1>3. CASE i \in 1 .. Len(events)
  <2>1. events'[i] = events[i] /\ events[i].addr \in Addrs
    BY <1>3, Posted, EventAddrs
  <2>2. CASE \E j \in i + 1 .. Len(events) :
                 events[j] = [kind |-> "disconnected", addr |-> events[i].addr]
    <3>1. PICK j \in i + 1 .. Len(events) :
                 events[j] = [kind |-> "disconnected", addr |-> events[i].addr]
      BY <2>2
    <3>2. j \in 1 .. Len(events) /\ j \in i + 1 .. Len(events')
      BY <1>1, <1>3, <3>1
    <3>3. events'[j] = events[j]
      BY <3>2, Posted
    <3>. QED BY <2>1, <3>1, <3>2, <3>3
  <2>3. CASE At(events[i].addr, Alive)
    <3>1. At(events[i].addr, Alive)' \/ (kind = "disconnected" /\ events[i].addr = a)
      BY <2>1, <2>3 DEF At
    <3>2. events'[Len(events) + 1] = [kind |-> kind, addr |-> a]
      BY Posted
    <3>3. Len(events) + 1 \in i + 1 .. Len(events')
      BY <1>1, <1>3
    <3>4. CASE At(events[i].addr, Alive)'
      BY <2>1, <3>4 DEF At
    <3>5. CASE kind = "disconnected" /\ events[i].addr = a
      BY <2>1, <3>2, <3>3, <3>5
    <3>. QED BY <3>1, <3>4, <3>5
  <2>. QED BY <1>3, <2>1, <2>2, <2>3 DEF ConnectedFollowed, Alive
<1>4. i = Len(events) + 1 \/ i \in 1 .. Len(events)
  BY <1>1
<1>. QED BY <1>2, <1>3, <1>4

(* Taking an event leaves what follows a Connected behind it.              *)
LEMMA FollowedTaken ==
  ASSUME TypeOK, ConnectedFollowed, NEW kind, NEW a, Take(kind, a), UNCHANGED pc
  PROVE  ConnectedFollowed'
<1>. SUFFICES ASSUME NEW i \in 1 .. Len(events'), events'[i].kind = "connected"
     PROVE  \/ \E k \in Slots : pc'[<<events'[i].addr, k>>] \in Alive
            \/ \E j \in i + 1 .. Len(events') :
                   events'[j] = [kind |-> "disconnected", addr |-> events'[i].addr]
  BY DEF ConnectedFollowed, At, Alive
<1>1. /\ i + 1 \in 1 .. Len(events) /\ events'[i] = events[i + 1]
      /\ Len(events) \in Nat /\ Len(events') = Len(events) - 1
  BY Taken
<1>2. CASE At(events[i + 1].addr, Alive)
  <2>1. \E k \in Slots : pc[<<events[i + 1].addr, k>>] \in Alive
    BY <1>2 DEF At
  <2>. QED BY <1>1, <2>1
<1>3. CASE \E j \in (i + 1) + 1 .. Len(events) :
               events[j] = [kind |-> "disconnected", addr |-> events[i + 1].addr]
  <2>1. PICK j \in (i + 1) + 1 .. Len(events) :
               events[j] = [kind |-> "disconnected", addr |-> events[i + 1].addr]
    BY <1>3
  <2>2. j \in 1 .. Len(events) /\ j > 1 /\ j - 1 \in i + 1 .. Len(events')
    BY <1>1, <2>1
  <2>3. events'[j - 1] = events[j]
    BY <2>2, Taken
  <2>. QED BY <1>1, <2>1, <2>2, <2>3
<1>. QED BY <1>1, <1>2, <1>3 DEF ConnectedFollowed, Alive

(* A step that posts nothing and lets no task go leaves them followed.     *)
LEMMA FollowedKept ==
  ASSUME TypeOK, ConnectedFollowed, UNCHANGED events,
         \A b \in Addrs : At(b, Alive) => At(b, Alive)'
  PROVE  ConnectedFollowed'
<1>. SUFFICES ASSUME NEW i \in 1 .. Len(events), events[i].kind = "connected"
     PROVE  \/ At(events[i].addr, Alive)'
            \/ \E j \in i + 1 .. Len(events) :
                   events[j] = [kind |-> "disconnected", addr |-> events[i].addr]
  BY DEF ConnectedFollowed, Alive
<1>1. events[i].addr \in Addrs
  BY EventAddrs
<1>. QED BY <1>1 DEF ConnectedFollowed, Alive, At

(* An entry stays backed when no entry is added and no backing goes away.  *)
LEMMA GhostKept ==
  ASSUME TypeOK, NoGhostPeer, present' => present /\ torrent'.peers \subseteq torrent.peers,
         \A b \in Addrs : At(b, Alive) => At(b, Alive)',
         \A b : Waiting("disconnected", b) => Waiting("disconnected", b)'
  PROVE  NoGhostPeer'
<1>1. torrent.peers \subseteq Addrs
  BY DEF TypeOK, Torrents
<1>. QED BY <1>1 DEF NoGhostPeer, Alive

(* The peer table has no ghosts. *)
LEMMA GhostStep ==
  TypeOK /\ NoGhostPeer /\ ConnectedFollowed /\ [Next]_vars
      => (NoGhostPeer /\ ConnectedFollowed)'
<1>. SUFFICES ASSUME TypeOK, NoGhostPeer, ConnectedFollowed, [Next]_vars
              PROVE  (NoGhostPeer /\ ConnectedFollowed)'
  OBVIOUS
<1>1. ASSUME NEW a \in OutAddrs, Discover(a)
     PROVE  (NoGhostPeer /\ ConnectedFollowed)'
  <2>1. present' => present /\ torrent'.peers \subseteq torrent.peers
    BY <1>1 DEF Discover, Announces, Reannounces, FindsLocal, QueriesDht, Exchanges,
         Learn, TypeOK, Torrents
  <2>2. \A b \in Addrs : At(b, Alive) => At(b, Alive)'
    BY <1>1 DEF Discover, Announces, Reannounces, FindsLocal, QueriesDht, Exchanges,
         Learn, At
  <2>3. UNCHANGED events /\ \A b : Waiting("disconnected", b) => Waiting("disconnected", b)'
    BY <1>1 DEF Discover, Announces, Reannounces, FindsLocal, QueriesDht, Exchanges,
         Learn, Waiting
  <2>. QED BY <2>1, <2>2, <2>3, GhostKept, FollowedKept
<1>2. ASSUME NEW l \in Loops, NEW ready \in SUBSET Addrs, LoopTop(l, ready)
     PROVE  (NoGhostPeer /\ ConnectedFollowed)'
  <2>1. present' => present /\ torrent'.peers \subseteq torrent.peers
    BY <1>2 DEF LoopTop, TypeOK, Torrents
  <2>2. \A b \in Addrs : At(b, Alive) => At(b, Alive)'
    BY <1>2 DEF LoopTop, At
  <2>3. UNCHANGED events /\ \A b : Waiting("disconnected", b) => Waiting("disconnected", b)'
    BY <1>2 DEF LoopTop, Waiting
  <2>. QED BY <2>1, <2>2, <2>3, GhostKept, FollowedKept
<1>3. ASSUME NEW l \in Loops, NEW recent \in 0 .. ConnectionSpeed, FindSlots(l, recent)
     PROVE  (NoGhostPeer /\ ConnectedFollowed)'
  <2>1. present' => present /\ torrent'.peers \subseteq torrent.peers
    BY <1>3 DEF FindSlots, TypeOK, Torrents
  <2>2. \A b \in Addrs : At(b, Alive) => At(b, Alive)'
    BY <1>3 DEF FindSlots, At
  <2>3. UNCHANGED events /\ \A b : Waiting("disconnected", b) => Waiting("disconnected", b)'
    BY <1>3 DEF FindSlots, Waiting
  <2>. QED BY <2>1, <2>2, <2>3, GhostKept, FollowedKept
<1>4. ASSUME NEW l \in Loops, NEW as \in SUBSET Addrs, Dial(l, as)
     PROVE  (NoGhostPeer /\ ConnectedFollowed)'
  <2>1. present' => present /\ torrent'.peers \subseteq torrent.peers
    BY <1>4 DEF Dial, TypeOK, Torrents
  <2>2. \A b \in Addrs : At(b, Alive) => At(b, Alive)'
    <3>1. ASSUME NEW a \in Addrs, NEW k \in Slots, pc[<<a, k>>] \in Alive
         PROVE  pc'[<<a, k>>] \in Alive
      <4>1. <<a, k>> \in Conns
        BY <3>1, ConnAddrs
      <4>2. a \in as => Slot(a) # k
        BY <1>4, <3>1 DEF Dial, Slot, Idle, Alive
      <4>. QED BY <1>4, <3>1, <4>1, <4>2 DEF Dial
    <3>. QED BY <3>1 DEF At
  <2>3. UNCHANGED events /\ \A b : Waiting("disconnected", b) => Waiting("disconnected", b)'
    BY <1>4 DEF Dial, Waiting
  <2>. QED BY <2>1, <2>2, <2>3, GhostKept, FollowedKept
<1>5. ASSUME NEW l \in Loops, NEW choke \in BOOLEAN, NEW rotate \in BOOLEAN, Round(l, choke, rotate)
     PROVE  (NoGhostPeer /\ ConnectedFollowed)'
  <2>1. present' => present /\ torrent'.peers \subseteq torrent.peers
    <3>1. Serve(Finish(torrent)).peers = torrent.peers /\ Serve(Finish(torrent)) \in Torrents
      BY ServedRecord DEF TypeOK
    <3>2. \A t, best, lucky :
             t \in Torrents => Choking(t, best, lucky, rotate).peers = t.peers
      BY DEF Choking, Torrents
    <3>. QED BY <1>5, <3>1, <3>2 DEF Round
  <2>2. \A b \in Addrs : At(b, Alive) => At(b, Alive)'
    BY <1>5 DEF Round, At
  <2>3. UNCHANGED events /\ \A b : Waiting("disconnected", b) => Waiting("disconnected", b)'
    BY <1>5 DEF Round, Waiting
  <2>. QED BY <2>1, <2>2, <2>3, GhostKept, FollowedKept
<1>6. ASSUME NEW l \in Loops, LoopEnds(l)
     PROVE  (NoGhostPeer /\ ConnectedFollowed)'
  <2>1. present' => present /\ torrent'.peers \subseteq torrent.peers
    BY <1>6 DEF LoopEnds, TypeOK, Torrents
  <2>2. \A b \in Addrs : At(b, Alive) => At(b, Alive)'
    BY <1>6 DEF LoopEnds, At
  <2>3. UNCHANGED events /\ \A b : Waiting("disconnected", b) => Waiting("disconnected", b)'
    BY <1>6 DEF LoopEnds, Waiting
  <2>. QED BY <2>1, <2>2, <2>3, GhostKept, FollowedKept
<1>7. ASSUME NEW c \in Conns, Accept(c)
     PROVE  (NoGhostPeer /\ ConnectedFollowed)'
  <2>1. present' => present /\ torrent'.peers \subseteq torrent.peers
    BY <1>7 DEF Accept, TypeOK, Torrents
  <2>2. \A b \in Addrs : At(b, Alive) => At(b, Alive)'
    BY <1>7, Moved, AcceptsFree DEF Accept, Alive
  <2>3. UNCHANGED events /\ \A b : Waiting("disconnected", b) => Waiting("disconnected", b)'
    BY <1>7 DEF Accept, Waiting
  <2>. QED BY <2>1, <2>2, <2>3, GhostKept, FollowedKept
<1>8. ASSUME NEW c \in Conns, DialSucceeds(c)
     PROVE  (NoGhostPeer /\ ConnectedFollowed)'
  <2>1. present' => present /\ torrent'.peers \subseteq torrent.peers
    BY <1>8 DEF DialSucceeds, TypeOK, Torrents
  <2>2. \A b \in Addrs : At(b, Alive) => At(b, Alive)'
    BY <1>8, Moved DEF DialSucceeds, Alive
  <2>3. UNCHANGED events /\ \A b : Waiting("disconnected", b) => Waiting("disconnected", b)'
    BY <1>8 DEF DialSucceeds, Waiting
  <2>. QED BY <2>1, <2>2, <2>3, GhostKept, FollowedKept
<1>9. ASSUME NEW c \in Conns, DialFails(c)
     PROVE  (NoGhostPeer /\ ConnectedFollowed)'
  <2>1. present' => present /\ torrent'.peers \subseteq torrent.peers
    BY <1>9 DEF DialFails, TypeOK, Torrents
  <2>2. \A b \in Addrs : At(b, Alive) => At(b, Alive)'
    BY <1>9, Moved DEF DialFails, Alive
  <2>3. UNCHANGED events /\ \A b : Waiting("disconnected", b) => Waiting("disconnected", b)'
    BY <1>9 DEF DialFails, Waiting
  <2>. QED BY <2>1, <2>2, <2>3, GhostKept, FollowedKept
<1>10. ASSUME NEW c \in Conns, Admit(c)
     PROVE  (NoGhostPeer /\ ConnectedFollowed)'
  <2>1. present' => present /\ torrent'.peers \subseteq torrent.peers
    BY <1>10 DEF Admit, TypeOK, Torrents
  <2>2. \A b \in Addrs : At(b, Alive) => At(b, Alive)'
    BY <1>10, Moved DEF Admit, Alive
  <2>3. UNCHANGED events /\ \A b : Waiting("disconnected", b) => Waiting("disconnected", b)'
    BY <1>10 DEF Admit, Waiting
  <2>. QED BY <2>1, <2>2, <2>3, GhostKept, FollowedKept
<1>11. ASSUME NEW c \in Conns, Refuse(c)
     PROVE  (NoGhostPeer /\ ConnectedFollowed)'
  <2>1. present' => present /\ torrent'.peers \subseteq torrent.peers
    BY <1>11 DEF Refuse, TypeOK, Torrents
  <2>2. \A b \in Addrs : At(b, Alive) => At(b, Alive)'
    BY <1>11, Moved DEF Refuse, Alive
  <2>3. UNCHANGED events /\ \A b : Waiting("disconnected", b) => Waiting("disconnected", b)'
    BY <1>11 DEF Refuse, Waiting
  <2>. QED BY <2>1, <2>2, <2>3, GhostKept, FollowedKept
<1>12. ASSUME NEW c \in Conns, Handshake(c)
     PROVE  (NoGhostPeer /\ ConnectedFollowed)'
  <2>1. \A b \in Addrs : At(b, Alive) => At(b, Alive)'
    BY <1>12, Moved DEF Handshake, Alive
  <2>2. At(c[1], Alive)'
    BY <1>12, Moved DEF Handshake, Alive
  <2>3. \A b : Waiting("disconnected", b) => Waiting("disconnected", b)'
    BY <1>12, PostedWaits DEF Handshake
  <2>4. ConnectedFollowed'
    BY <1>12, <2>1, <2>2, FollowedPosted DEF Handshake
  <2>. QED BY <1>12, <2>1, <2>3, <2>4, GhostKept DEF Handshake
<1>13. ASSUME NEW c \in Conns, Subscribe(c)
     PROVE  (NoGhostPeer /\ ConnectedFollowed)'
  <2>1. present' => present /\ torrent'.peers \subseteq torrent.peers
    BY <1>13 DEF Subscribe, TypeOK, Torrents
  <2>2. \A b \in Addrs : At(b, Alive) => At(b, Alive)'
    BY <1>13, Moved DEF Subscribe, Alive
  <2>3. UNCHANGED events /\ \A b : Waiting("disconnected", b) => Waiting("disconnected", b)'
    BY <1>13 DEF Subscribe, Waiting
  <2>. QED BY <2>1, <2>2, <2>3, GhostKept, FollowedKept
<1>14. ASSUME NEW c \in Conns, Close(c)
     PROVE  (NoGhostPeer /\ ConnectedFollowed)'
  <2>1. \A b \in Addrs : b # c[1] /\ At(b, Alive) => At(b, Alive)'
    BY <1>14, Moved DEF Close
  <2>2. Waiting("disconnected", c[1])' /\ \A k, b : Waiting(k, b) => Waiting(k, b)'
    BY <1>14, PostedWaits DEF Close
  <2>3. ConnectedFollowed'
    BY <1>14, <2>1, FollowedPosted DEF Close
  <2>4. torrent.peers \subseteq Addrs
    BY DEF TypeOK, Torrents
  <2>5. NoGhostPeer'
    BY <1>14, <2>1, <2>2, <2>4 DEF Close, NoGhostPeer, Alive
  <2>. QED BY <2>3, <2>5
<1>15. ASSUME NEW c \in Conns, LastPiece(c)
     PROVE  (NoGhostPeer /\ ConnectedFollowed)'
  <2>1. present' => present /\ torrent'.peers \subseteq torrent.peers
    BY <1>15 DEF LastPiece, TypeOK, Torrents
  <2>2. \A b \in Addrs : At(b, Alive) => At(b, Alive)'
    BY <1>15 DEF LastPiece, At
  <2>3. \A b : Waiting("disconnected", b) => Waiting("disconnected", b)'
    BY <1>15, PostedWaits DEF LastPiece
  <2>4. ConnectedFollowed'
    BY <1>15, <2>2, FollowedPosted DEF LastPiece
  <2>. QED BY <2>1, <2>2, <2>3, <2>4, GhostKept
<1>16. ASSUME NEW c \in Conns, NEW kind \in {"interested", "uninterested"}, Declare(c, kind)
     PROVE  (NoGhostPeer /\ ConnectedFollowed)'
  <2>1. present' => present /\ torrent'.peers \subseteq torrent.peers
    BY <1>16 DEF Declare, TypeOK, Torrents
  <2>2. \A b \in Addrs : At(b, Alive) => At(b, Alive)'
    BY <1>16 DEF Declare, At
  <2>3. \A b : Waiting("disconnected", b) => Waiting("disconnected", b)'
    BY <1>16, PostedWaits DEF Declare
  <2>4. ConnectedFollowed'
    BY <1>16, <2>2, FollowedPosted DEF Declare
  <2>. QED BY <2>1, <2>2, <2>3, <2>4, GhostKept
<1>17. ASSUME NEW a \in Addrs, OnConnected(a)
     PROVE  (NoGhostPeer /\ ConnectedFollowed)'
  <2>1. ConnectedFollowed'
    BY <1>17, FollowedTaken DEF OnConnected
  <2>2. \A b : Waiting("disconnected", b) => Waiting("disconnected", b)'
    BY <1>17, TakenWaits DEF OnConnected
  <2>3. At(a, Alive) \/ Waiting("disconnected", a)'
    <3>1. /\ 1 \in 1 .. Len(events) /\ events[1] = [kind |-> "connected", addr |-> a]
          /\ Len(events) \in Nat
      BY <1>17, Taken DEF OnConnected
    <3>2. CASE At(a, Alive)
      BY <3>2
    <3>3. CASE \E j \in 1 + 1 .. Len(events) : events[j] = [kind |-> "disconnected", addr |-> a]
      <4>1. PICK j \in 1 + 1 .. Len(events) : events[j] = [kind |-> "disconnected", addr |-> a]
        BY <3>3
      <4>2. j \in 1 .. Len(events) /\ j > 1
        BY <3>1, <4>1
      <4>3. j - 1 \in 1 .. Len(events') /\ events'[j - 1] = events[j]
        BY <1>17, <4>2, Taken DEF OnConnected
      <4>. QED BY <4>1, <4>3 DEF Waiting
    <3>. QED BY <3>1, <3>2, <3>3 DEF ConnectedFollowed, Alive
  <2>4. present => torrent'.peers = torrent.peers \cup {a}
    BY <1>17 DEF OnConnected, TypeOK, Torrents
  <2>5. UNCHANGED pc /\ UNCHANGED present
    BY <1>17 DEF OnConnected
  <2>6. NoGhostPeer'
    BY <2>2, <2>3, <2>4, <2>5 DEF NoGhostPeer, At, Alive
  <2>. QED BY <2>1, <2>6
<1>18. ASSUME NEW a \in Addrs, OnDisconnected(a)
     PROVE  (NoGhostPeer /\ ConnectedFollowed)'
  <2>1. ConnectedFollowed'
    BY <1>18, FollowedTaken DEF OnDisconnected
  <2>2. \A b : Waiting("disconnected", b) => Waiting("disconnected", b)' \/ b = a
    BY <1>18, TakenWaits DEF OnDisconnected
  <2>3. present => torrent'.peers = torrent.peers \ {a}
    BY <1>18 DEF OnDisconnected, TypeOK, Torrents
  <2>4. UNCHANGED pc /\ UNCHANGED present
    BY <1>18 DEF OnDisconnected
  <2>5. NoGhostPeer'
    BY <2>2, <2>3, <2>4 DEF NoGhostPeer, At
  <2>. QED BY <2>1, <2>5
<1>19. ASSUME NEW a \in Addrs, OnPieceCompleted(a)
     PROVE  (NoGhostPeer /\ ConnectedFollowed)'
  <2>1. present' => present /\ torrent'.peers \subseteq torrent.peers
    BY <1>19 DEF OnPieceCompleted, Marked, Cleared, Finish, Finished, TypeOK, Torrents
  <2>2. \A b \in Addrs : At(b, Alive) => At(b, Alive)'
    BY <1>19 DEF OnPieceCompleted, At
  <2>3. \A b : Waiting("disconnected", b) => Waiting("disconnected", b)'
    BY <1>19, TakenWaits DEF OnPieceCompleted
  <2>4. ConnectedFollowed'
    BY <1>19, FollowedTaken DEF OnPieceCompleted
  <2>. QED BY <2>1, <2>2, <2>3, <2>4, GhostKept
<1>20. ASSUME NEW a \in Addrs, NEW kind \in {"interested", "uninterested"}, OnPeerState(a, kind)
     PROVE  (NoGhostPeer /\ ConnectedFollowed)'
  <2>1. present' => present /\ torrent'.peers \subseteq torrent.peers
    BY <1>20 DEF OnPeerState, TypeOK, Torrents
  <2>2. \A b \in Addrs : At(b, Alive) => At(b, Alive)'
    BY <1>20 DEF OnPeerState, At
  <2>3. \A b : Waiting("disconnected", b) => Waiting("disconnected", b)'
    BY <1>20, TakenWaits DEF OnPeerState
  <2>4. ConnectedFollowed'
    BY <1>20, FollowedTaken DEF OnPeerState
  <2>. QED BY <2>1, <2>2, <2>3, <2>4, GhostKept
<1>21. CASE Pause
  <2>1. present' => present /\ torrent'.peers \subseteq torrent.peers
    BY <1>21 DEF Pause, Cleared, TypeOK, Torrents
  <2>2. \A b \in Addrs : At(b, Alive) => At(b, Alive)'
    BY <1>21 DEF Pause, At
  <2>3. UNCHANGED events /\ \A b : Waiting("disconnected", b) => Waiting("disconnected", b)'
    BY <1>21 DEF Pause, Waiting
  <2>. QED BY <2>1, <2>2, <2>3, GhostKept, FollowedKept
<1>22. CASE Resume
  <2>1. present' => present /\ torrent'.peers \subseteq torrent.peers
    BY <1>22 DEF Resume, TypeOK, Torrents
  <2>2. \A b \in Addrs : At(b, Alive) => At(b, Alive)'
    BY <1>22 DEF Resume, At
  <2>3. UNCHANGED events /\ \A b : Waiting("disconnected", b) => Waiting("disconnected", b)'
    BY <1>22 DEF Resume, Waiting
  <2>. QED BY <2>1, <2>2, <2>3, GhostKept, FollowedKept
<1>23. CASE Remove
  <2>1. ConnectedFollowed'
    BY <1>23 DEF Remove, ConnectedFollowed, At
  <2>. QED BY <1>23, <2>1 DEF Remove, NoGhostPeer
<1>24. ASSUME NEW paused \in BOOLEAN, Add(paused)
     PROVE  (NoGhostPeer /\ ConnectedFollowed)'
  <2>1. ConnectedFollowed'
    BY <1>24 DEF Add, ConnectedFollowed, At
  <2>2. torrent'.peers = {}
    BY <1>24 DEF Add, NewTorrent
  <2>. QED BY <2>1, <2>2 DEF NoGhostPeer
<1>25. CASE Start
  <2>1. present' => present /\ torrent'.peers \subseteq torrent.peers
    BY <1>25 DEF Start, SpawnLoop, TypeOK, Torrents
  <2>2. \A b \in Addrs : At(b, Alive) => At(b, Alive)'
    BY <1>25 DEF Start, At
  <2>3. UNCHANGED events /\ \A b : Waiting("disconnected", b) => Waiting("disconnected", b)'
    BY <1>25 DEF Start, Waiting
  <2>. QED BY <2>1, <2>2, <2>3, GhostKept, FollowedKept
<1>26. CASE MoveBegins
  <2>1. present' => present /\ torrent'.peers \subseteq torrent.peers
    BY <1>26 DEF MoveBegins, Cleared, TypeOK, Torrents
  <2>2. \A b \in Addrs : At(b, Alive) => At(b, Alive)'
    BY <1>26 DEF MoveBegins, At
  <2>3. UNCHANGED events /\ \A b : Waiting("disconnected", b) => Waiting("disconnected", b)'
    BY <1>26 DEF MoveBegins, Waiting
  <2>. QED BY <2>1, <2>2, <2>3, GhostKept, FollowedKept
<1>27. CASE MoveEnds
  <2>1. present' => present /\ torrent'.peers \subseteq torrent.peers
    BY <1>27 DEF MoveEnds, TypeOK, Torrents
  <2>2. \A b \in Addrs : At(b, Alive) => At(b, Alive)'
    BY <1>27 DEF MoveEnds, At
  <2>3. UNCHANGED events /\ \A b : Waiting("disconnected", b) => Waiting("disconnected", b)'
    BY <1>27 DEF MoveEnds, Waiting
  <2>. QED BY <2>1, <2>2, <2>3, GhostKept, FollowedKept
<1>28. ASSUME NEW whole \in BOOLEAN, FinishCheck(whole)
     PROVE  (NoGhostPeer /\ ConnectedFollowed)'
  <2>1. present' => present /\ torrent'.peers \subseteq torrent.peers
    BY <1>28 DEF FinishCheck, TypeOK, Torrents
  <2>2. \A b \in Addrs : At(b, Alive) => At(b, Alive)'
    BY <1>28 DEF FinishCheck, At
  <2>3. UNCHANGED events /\ \A b : Waiting("disconnected", b) => Waiting("disconnected", b)'
    BY <1>28 DEF FinishCheck, Waiting
  <2>. QED BY <2>1, <2>2, <2>3, GhostKept, FollowedKept
<1>29. CASE UNCHANGED vars
  BY <1>29 DEF vars, NoGhostPeer, ConnectedFollowed, Waiting, At
<1>. QED
  BY <1>1, <1>2, <1>3, <1>4, <1>5, <1>6, <1>7, <1>8, <1>9, <1>10, <1>11,
     <1>12, <1>13, <1>14, <1>15, <1>16, <1>17, <1>18, <1>19, <1>20, <1>21,
     <1>22, <1>23, <1>24, <1>25, <1>26, <1>27, <1>28, <1>29
     DEF Next, RunLoop, Connection, Establish, Process, User, Task

(* Behind every entry of the peer table there is a connection, or the      *)
(* departure that will remove it.                                          *)
THEOREM NoGhosts == Spec => []NoGhostPeer
<1>1. Init => NoGhostPeer /\ ConnectedFollowed
  BY DEF Init, NewTorrent, NoGhostPeer, ConnectedFollowed
<1>. QED BY <1>1, TypeInit, TypeStep, GhostStep, PTL DEF Spec

-----------------------------------------------------------------------------
(* What the event processor still has to hear of an address: whether       *)
(* anything, and which report of it is the last.                           *)
Word == {"connected", "disconnected"}
Reported(a) == \E i \in 1 .. Len(events) : events[i].addr = a /\ events[i].kind \in Word
LastWord(i) ==
    \A j \in i + 1 .. Len(events) : events[j].addr = events[i].addr => events[j].kind \notin Word
Busy(a) == \E k \in Slots : pc[<<a, k>>] # "free"

(* The state of an address while nothing has cleared the tables under live *)
(* connections: one task at most; the last report tells whether it is      *)
(* connected, and once everything is handled the table does; an address we *)
(* may dial is in the table from the dial on until its departure, the last *)
(* thing reported of it, is handled; and a loop dials what nobody uses.    *)
OneTask(a) ==
    \A j, k \in Slots : pc[<<a, j>>] # "free" /\ pc[<<a, k>>] # "free" => j = k
ReportsTrue(a) ==
    /\ \A i \in 1 .. Len(events) :
           events[i].addr = a /\ events[i].kind \in Word /\ LastWord(i) =>
               (events[i].kind = "connected" <=> At(a, Alive))
    /\ ~Reported(a) => (a \in torrent.peers <=> At(a, Alive))
Held(a) ==
    /\ Busy(a) \/ Reported(a) => a \in torrent.connecting \cup torrent.peers
    /\ At(a, {"dialing"}) => ~Reported(a)
    /\ \A i \in 1 .. Len(events) : events[i].addr = a /\ events[i].kind = "disconnected" =>
           ~Busy(a) /\ LastWord(i)
Unused(a) == ~Busy(a) /\ ~Reported(a) /\ a \notin torrent.connecting \cup torrent.peers
AddrInv(a) ==
    /\ OneTask(a) /\ ReportsTrue(a)
    /\ a \in OutAddrs => Held(a)
    /\ \A l \in Loops : a \in targets[l] => Unused(a)
Calm == present /\ ~cleared /\ ~readded
CalmInv == Calm => \A a \in Addrs : AddrInv(a)

(* What is still to be heard of an address stays what it is ...            *)
WordsKept(a) ==
    \A i \in 1 .. Len(events') : events'[i].addr = a /\ events'[i].kind \in Word =>
        \E j \in 1 .. Len(events) : events[j] = events'[i] /\ (LastWord(i)' <=> LastWord(j))
SameWords(a) == WordsKept(a) /\ (Reported(a)' <=> Reported(a))

(* ... when the channel is left alone, ... *)
LEMMA WordsSame == ASSUME TypeOK, UNCHANGED events, NEW a PROVE SameWords(a)
BY DEF SameWords, WordsKept, LastWord, Reported

(* ... when something else is posted or handled, ...                       *)
LEMMA WordsPosted ==
  ASSUME TypeOK, NEW kind, NEW b, Post(kind, b)
  PROVE  /\ \A a : a # b \/ kind \notin Word => SameWords(a)
         /\ \A i \in 1 .. Len(events') :
                \/ i = Len(events) + 1 /\ events'[i] = [kind |-> kind, addr |-> b] /\ LastWord(i)'
                \/ /\ i \in 1 .. Len(events) /\ events'[i] = events[i]
                   /\ LastWord(i)' <=> LastWord(i) /\ (events[i].addr # b \/ kind \notin Word)
         /\ kind \in Word => Reported(b)'
<1>0. /\ Len(events) \in Nat /\ Len(events') = Len(events) + 1
      /\ \A i \in 1 .. Len(events) : events'[i] = events[i]
      /\ events'[Len(events) + 1] = [kind |-> kind, addr |-> b]
  BY Posted
<1>. DEFINE n == Len(events)
<1>1. \A i \in 1 .. n + 1 : i = n + 1 \/ i \in 1 .. n
  BY <1>0
<1>2. ASSUME NEW i \in 1 .. n + 1, i = n + 1
      PROVE  events'[i] = [kind |-> kind, addr |-> b] /\ LastWord(i)'
  BY <1>0, <1>2 DEF LastWord
<1>3. ASSUME NEW i \in 1 .. n
      PROVE  LastWord(i)' <=> LastWord(i) /\ (events[i].addr # b \/ kind \notin Word)
  <2>1. /\ \A j \in i + 1 .. n : j \in 1 .. n /\ j \in i + 1 .. n + 1
        /\ \A j \in i + 1 .. n + 1 : j = n + 1 \/ j \in i + 1 .. n
        /\ n + 1 \in i + 1 .. n + 1
    BY <1>0
  <2>. QED  BY <1>0, <2>1 DEF LastWord
<1>4. \A i \in 1 .. n + 1 :
         \/ i = n + 1 /\ events'[i] = [kind |-> kind, addr |-> b] /\ LastWord(i)'
         \/ /\ i \in 1 .. n /\ events'[i] = events[i]
            /\ LastWord(i)' <=> LastWord(i) /\ (events[i].addr # b \/ kind \notin Word)
  <2>. SUFFICES ASSUME NEW i \in 1 .. n + 1, i # n + 1
                PROVE  /\ i \in 1 .. n /\ events'[i] = events[i]
                       /\ LastWord(i)' <=> LastWord(i) /\ (events[i].addr # b \/ kind \notin Word)
    BY <1>2
  <2>1. i \in 1 .. n
    BY <1>1
  <2>. QED  BY <1>0, <1>3, <2>1
<1>5. ASSUME NEW a, a # b \/ kind \notin Word PROVE SameWords(a)
  <2>1. ASSUME NEW i \in 1 .. Len(events'), events'[i].addr = a, events'[i].kind \in Word
        PROVE  i \in 1 .. n /\ events[i] = events'[i] /\ (LastWord(i)' <=> LastWord(i))
    <3>1. i # n + 1
      BY <1>0, <1>5, <2>1
    <3>2. /\ i \in 1 .. n /\ events'[i] = events[i]
          /\ LastWord(i)' <=> LastWord(i) /\ (events[i].addr # b \/ kind \notin Word)
      BY <1>0, <1>4, <3>1
    <3>. QED  BY <1>5, <2>1, <3>2
  <2>2. WordsKept(a)
    BY <2>1 DEF WordsKept
  <2>3. Reported(a)' => Reported(a)
    BY <2>1 DEF Reported
  <2>4. Reported(a) => Reported(a)'
    <3>1. \A i \in 1 .. n : i \in 1 .. Len(events')
      BY <1>0
    <3>. QED  BY <1>0, <3>1 DEF Reported
  <2>. QED  BY <2>2, <2>3, <2>4 DEF SameWords
<1>6. kind \in Word => Reported(b)'
  <2>1. n + 1 \in 1 .. Len(events')
    BY <1>0
  <2>. QED  BY <1>0, <2>1 DEF Reported
<1>. QED  BY <1>0, <1>4, <1>5, <1>6

(* ... and nothing is added to it when an event is handled: of the event's *)
(* own address less is left, nothing if the event was the last word.       *)
LEMMA WordsTaken ==
  ASSUME TypeOK, NEW kind, NEW b, Take(kind, b)
  PROVE  /\ \A a : WordsKept(a) /\ (Reported(a)' => Reported(a))
         /\ \A a : a # b \/ kind \notin Word => SameWords(a)
         /\ 1 \in 1 .. Len(events) /\ events[1] = [kind |-> kind, addr |-> b]
         /\ kind \in Word => Reported(b) /\ (LastWord(1) <=> ~Reported(b)')
<1>0. /\ Len(events) \in Nat \ {0} /\ Len(events') = Len(events) - 1
      /\ \A i \in 1 .. Len(events) :
             i > 1 => i - 1 \in 1 .. Len(events') /\ events'[i - 1] = events[i]
      /\ \A i \in 1 .. Len(events') : i + 1 \in 1 .. Len(events) /\ events'[i] = events[i + 1]
      /\ events[1] = [kind |-> kind, addr |-> b]
  BY Taken
<1>. DEFINE n == Len(events)
<1>1. ASSUME NEW i \in 1 .. Len(events')
      PROVE  LastWord(i)' <=> LastWord(i + 1)
  <2>1. /\ \A j \in i + 1 .. Len(events') : j \in 1 .. Len(events') /\ j + 1 \in (i + 1) + 1 .. n
        /\ \A j \in (i + 1) + 1 .. n :
               /\ j \in 1 .. n /\ j > 1 /\ j - 1 \in i + 1 .. Len(events')
    BY <1>0
  <2>2. LastWord(i)' => LastWord(i + 1)
    BY <1>0, <2>1 DEF LastWord
  <2>3. LastWord(i + 1) => LastWord(i)'
    BY <1>0, <2>1 DEF LastWord
  <2>. QED  BY <2>2, <2>3
<1>2. \A a : WordsKept(a) /\ (Reported(a)' => Reported(a))
  BY <1>0, <1>1 DEF WordsKept, Reported
<1>3. ASSUME NEW a, a # b \/ kind \notin Word, Reported(a) PROVE Reported(a)'
  <2>1. PICK i \in 1 .. n : events[i].addr = a /\ events[i].kind \in Word
    BY <1>3 DEF Reported
  <2>2. i # 1
    BY <1>0, <1>3, <2>1
  <2>3. i > 1
    BY <1>0, <2>2
  <2>. QED  BY <1>0, <2>1, <2>3 DEF Reported
<1>4. ASSUME kind \in Word PROVE LastWord(1) <=> ~Reported(b)'
  <2>1. /\ \A j \in 1 + 1 .. n : j \in 1 .. n /\ j > 1
        /\ \A i \in 1 .. Len(events') : i + 1 \in 1 + 1 .. n
    BY <1>0
  <2>2. LastWord(1) => ~Reported(b)'
    BY <1>0, <2>1 DEF LastWord, Reported
  <2>3. ~Reported(b)' => LastWord(1)
    BY <1>0, <2>1 DEF LastWord, Reported
  <2>. QED  BY <2>2, <2>3
<1>5. 1 \in 1 .. n /\ (kind \in Word => Reported(b))
  BY <1>0 DEF Reported
<1>. QED  BY <1>0, <1>2, <1>3, <1>4, <1>5 DEF SameWords

(* The tasks of an address, when a task that has no other beside it moves. *)
LEMMA TaskMoves ==
  ASSUME TypeOK, NEW c \in Conns, NEW step, Goto(c, step),
         \A k \in Slots : pc[<<c[1], k>>] # "free" => <<c[1], k>> = c
  PROVE  /\ OneTask(c[1])'
         /\ Busy(c[1])' <=> step # "free"
         /\ \A S : At(c[1], S \ {"free"})' <=> step \in S \ {"free"}
         /\ \A a \in Addrs \ {c[1]} :
                \A k \in Slots : pc'[<<a, k>>] = pc[<<a, k>>]
<1>1. pc'[c] = step /\ \A d \in Conns \ {c} : pc'[d] = pc[d]
  BY DEF Goto, TypeOK
<1>2. /\ c = <<c[1], c[2]>> /\ c[1] \in Addrs /\ c[2] \in Slots
      /\ \A a \in Addrs, k \in Slots : <<a, k>> \in Conns
  BY ConnAddrs
<1>3. \A k \in Slots : k # c[2] => pc'[<<c[1], k>>] = "free"
  <2>. SUFFICES ASSUME NEW k \in Slots, k # c[2] PROVE pc'[<<c[1], k>>] = "free"
    OBVIOUS
  <2>1. <<c[1], k>> # c /\ <<c[1], k>> \in Conns
    BY <1>2
  <2>. QED  BY <1>1, <2>1
<1>4. pc'[<<c[1], c[2]>>] = step
  BY <1>1, <1>2
<1>5. \A a \in Addrs \ {c[1]} : \A k \in Slots : pc'[<<a, k>>] = pc[<<a, k>>]
  <2>. SUFFICES ASSUME NEW a \in Addrs \ {c[1]}, NEW k \in Slots
                PROVE  pc'[<<a, k>>] = pc[<<a, k>>]
    OBVIOUS
  <2>1. <<a, k>> # c /\ <<a, k>> \in Conns
    BY <1>2
  <2>. QED  BY <1>1, <2>1
<1>6. \A S : At(c[1], S \ {"free"})' <=> step \in S \ {"free"}
  BY <1>2, <1>3, <1>4 DEF At
<1>7. OneTask(c[1])' /\ (Busy(c[1])' <=> step # "free")
  BY <1>2, <1>3, <1>4 DEF OneTask, Busy
<1>. QED  BY <1>5, <1>6, <1>7

(* The names of a task's steps and of the reports, as sets. *)
LEMMA StepNames ==
  /\ Alive \ {"free"} = Alive /\ {"dialing"} \ {"free"} = {"dialing"}
  /\ "connected" \in Word /\ "disconnected" \in Word
BY DEF Alive, Word

(* An address that a step does not concern. *)
LEMMA AddrFrame ==
  ASSUME NEW a \in Addrs, AddrInv(a), SameWords(a),
         \A k \in Slots : pc'[<<a, k>>] = pc[<<a, k>>],
         a \in torrent'.peers <=> a \in torrent.peers,
         a \in torrent'.connecting <=> a \in torrent.connecting,
         \A l \in Loops : a \in targets'[l] => Unused(a)
  PROVE  AddrInv(a)'
<1>1. /\ (Busy(a)' <=> Busy(a)) /\ (\A S : At(a, S)' <=> At(a, S))
      /\ OneTask(a)' /\ (Reported(a)' <=> Reported(a))
  BY DEF Busy, At, OneTask, AddrInv, SameWords
<1>2. ReportsTrue(a)'
  <2>1. ASSUME NEW i \in 1 .. Len(events'), events'[i].addr = a, events'[i].kind \in Word,
               LastWord(i)'
        PROVE  events'[i].kind = "connected" <=> At(a, Alive)'
    <3>1. PICK j \in 1 .. Len(events) : events[j] = events'[i] /\ (LastWord(i)' <=> LastWord(j))
      BY <2>1 DEF SameWords, WordsKept
    <3>. QED  BY <1>1, <2>1, <3>1 DEF AddrInv, ReportsTrue
  <2>2. ~Reported(a)' => (a \in torrent'.peers <=> At(a, Alive)')
    BY <1>1 DEF AddrInv, ReportsTrue
  <2>3. Alive' = Alive
    BY DEF Alive
  <2>. QED  BY <2>1, <2>2, <2>3 DEF ReportsTrue
<1>3. Held(a) => Held(a)'
  <2>. SUFFICES ASSUME Held(a) PROVE Held(a)'
    OBVIOUS
  <2>1. ASSUME NEW i \in 1 .. Len(events'), events'[i].addr = a,
               events'[i].kind = "disconnected"
        PROVE  ~Busy(a)' /\ LastWord(i)'
    <3>1. PICK j \in 1 .. Len(events) : events[j] = events'[i] /\ (LastWord(i)' <=> LastWord(j))
      BY <2>1 DEF SameWords, WordsKept, Word
    <3>. QED  BY <1>1, <2>1, <3>1 DEF Held
  <2>. QED  BY <1>1, <2>1 DEF Held
<1>4. Unused(a) => Unused(a)'
  BY <1>1 DEF Unused
<1>. QED  BY <1>1, <1>2, <1>3, <1>4 DEF AddrInv

(* The table.  We dial the addresses of peers we may dial and accept from  *)
(* the others; a loop has targets only between planning and dialling.      *)
Directions ==
    /\ torrent.known \cup Failed \subseteq OutAddrs
    /\ \A l \in Loops : /\ targets[l] \subseteq OutAddrs
                        /\ loopPc[l] \notin {"slots", "dial"} => targets[l] = {}
    /\ \A c \in Conns : /\ pc[c] = "dialing" => c[1] \in OutAddrs
                        /\ pc[c] = "accepted" => c[1] \in InAddrs

(* Steps that leave two of its three parts alone. *)
LEMMA DirectionsKept ==
  ASSUME TypeOK, Directions,
         torrent'.known \cup Failed' \subseteq OutAddrs,
         UNCHANGED <<targets, loopPc>> \/
             \E l \in Loops, as \in SUBSET OutAddrs :
                 /\ targets' = [targets EXCEPT ![l] = as]
                 /\ loopPc' \in [Loops -> {"none", "top", "slots", "dial", "round"}]
                 /\ \A m \in Loops \ {l} : loopPc'[m] = loopPc[m]
                 /\ loopPc'[l] \notin {"slots", "dial"} => as = {},
         \A c \in Conns : pc'[c] \in {"dialing", "accepted"} =>
             \/ pc'[c] = pc[c]
             \/ pc'[c] = "dialing" /\ c[1] \in OutAddrs
             \/ pc'[c] = "accepted" /\ c[1] \in InAddrs
  PROVE  Directions'
<1>1. \A c \in Conns : /\ pc'[c] = "dialing" => c[1] \in OutAddrs
                       /\ pc'[c] = "accepted" => c[1] \in InAddrs
  BY DEF Directions
<1>2. \A l \in Loops : /\ targets'[l] \subseteq OutAddrs
                       /\ loopPc'[l] \notin {"slots", "dial"} => targets'[l] = {}
  BY DEF Directions, TypeOK
<1>. QED  BY <1>1, <1>2 DEF Directions

(* Every step keeps the directions. *)
LEMMA DirectionsStep == TypeOK /\ Directions /\ [Next]_vars => Directions'
<1>. SUFFICES ASSUME TypeOK, Directions, [Next]_vars PROVE Directions'
  OBVIOUS
<1>0. /\ torrent.known \subseteq OutAddrs /\ Failed \subseteq OutAddrs
      /\ torrent \in Torrents /\ OutAddrs \subseteq Addrs
      /\ \A c \in Conns : pc[c] = "dialing" => c[1] \in OutAddrs
      /\ \A l \in Loops : targets[l] \subseteq OutAddrs
  BY DEF Directions, TypeOK, Addrs
<1>1. ASSUME NEW a \in OutAddrs, Discover(a) PROVE Directions'
  <2>1. torrent'.known \cup Failed' \subseteq OutAddrs
    <3>1. torrent'.known = torrent.known \cup {a} /\ torrent'.failed = torrent.failed
      BY <1>1 DEF Discover, Announces, Reannounces, FindsLocal, QueriesDht, Exchanges,
         Learn, TypeOK, Torrents
    <3>. QED  BY <1>0, <3>1 DEF Failed
  <2>2. UNCHANGED <<targets, loopPc>>
    BY <1>1 DEF Discover, Announces, Reannounces, FindsLocal, QueriesDht, Exchanges,
         Learn
  <2>3. \A d \in Conns : pc'[d] \in {"dialing", "accepted"} =>
            \/ pc'[d] = pc[d]
            \/ pc'[d] = "dialing" /\ d[1] \in OutAddrs
            \/ pc'[d] = "accepted" /\ d[1] \in InAddrs
    BY <1>0, <1>1 DEF Discover, Announces, Reannounces, FindsLocal, QueriesDht, Exchanges,
         Learn
  <2>. QED  BY <2>1, <2>2, <2>3, DirectionsKept
<1>2. ASSUME NEW l \in Loops, NEW ready \in SUBSET Addrs, LoopTop(l, ready) PROVE Directions'
  <2>1. torrent'.known \cup Failed' \subseteq OutAddrs
    <3>1. torrent'.known = torrent.known /\ torrent'.failed = torrent.failed
      BY <1>2 DEF LoopTop, TypeOK, Torrents
    <3>. QED  BY <1>0, <3>1 DEF Failed
  <2>2. \E m \in Loops, ts \in SUBSET OutAddrs :
            /\ targets' = [targets EXCEPT ![m] = ts]
            /\ loopPc' \in [Loops -> {"none", "top", "slots", "dial", "round"}]
            /\ \A o \in Loops \ {m} : loopPc'[o] = loopPc[o]
            /\ loopPc'[m] \notin {"slots", "dial"} => ts = {}
    <3>. DEFINE base == IF torrent.state = "Completed" /\ Leaves THEN {} ELSE ToDial(ready)
    <3>1. base \subseteq OutAddrs
      BY <1>0, <1>2 DEF LoopTop, ToDial
    <3>2. PICK n : Plan(l, base, n, "slots")
      BY <1>2 DEF LoopTop
    <3>. HIDE DEF base
    <3>. QED  BY <3>1, <3>2 DEF Plan, TypeOK
  <2>3. \A d \in Conns : pc'[d] \in {"dialing", "accepted"} =>
            \/ pc'[d] = pc[d]
            \/ pc'[d] = "dialing" /\ d[1] \in OutAddrs
            \/ pc'[d] = "accepted" /\ d[1] \in InAddrs
    BY <1>0, <1>2 DEF LoopTop
  <2>. QED  BY <2>1, <2>2, <2>3, DirectionsKept
<1>3. ASSUME NEW l \in Loops, NEW recent \in 0 .. ConnectionSpeed, FindSlots(l, recent)
       PROVE  Directions'
  <2>1. torrent'.known \cup Failed' \subseteq OutAddrs
    <3>1. torrent'.known = torrent.known /\ torrent'.failed = torrent.failed
      BY <1>3 DEF FindSlots, TypeOK, Torrents
    <3>. QED  BY <1>0, <3>1 DEF Failed
  <2>2. \E m \in Loops, ts \in SUBSET OutAddrs :
            /\ targets' = [targets EXCEPT ![m] = ts]
            /\ loopPc' \in [Loops -> {"none", "top", "slots", "dial", "round"}]
            /\ \A o \in Loops \ {m} : loopPc'[o] = loopPc[o]
            /\ loopPc'[m] \notin {"slots", "dial"} => ts = {}
    <3>1. PICK n : Plan(l, targets[l], n, "dial")
      BY <1>3 DEF FindSlots
    <3>. QED  BY <1>0, <3>1 DEF Plan, TypeOK
  <2>3. \A d \in Conns : pc'[d] \in {"dialing", "accepted"} =>
            \/ pc'[d] = pc[d]
            \/ pc'[d] = "dialing" /\ d[1] \in OutAddrs
            \/ pc'[d] = "accepted" /\ d[1] \in InAddrs
    BY <1>0, <1>3 DEF FindSlots
  <2>. QED  BY <2>1, <2>2, <2>3, DirectionsKept
<1>4. ASSUME NEW l \in Loops, NEW as \in SUBSET Addrs, Dial(l, as) PROVE Directions'
  <2>1. torrent'.known \cup Failed' \subseteq OutAddrs
    <3>1. torrent'.known \subseteq torrent.known /\ torrent'.failed = torrent.failed
      BY <1>4 DEF Dial, TypeOK, Torrents
    <3>. QED  BY <1>0, <3>1 DEF Failed
  <2>2. \E m \in Loops, ts \in SUBSET OutAddrs :
            /\ targets' = [targets EXCEPT ![m] = ts]
            /\ loopPc' \in [Loops -> {"none", "top", "slots", "dial", "round"}]
            /\ \A o \in Loops \ {m} : loopPc'[o] = loopPc[o]
            /\ loopPc'[m] \notin {"slots", "dial"} => ts = {}
    <3>1. Plan(l, {}, 0, "round")
      BY <1>4 DEF Dial
    <3>. QED  BY <3>1 DEF Plan, TypeOK
  <2>3. \A d \in Conns : pc'[d] \in {"dialing", "accepted"} =>
            \/ pc'[d] = pc[d]
            \/ pc'[d] = "dialing" /\ d[1] \in OutAddrs
            \/ pc'[d] = "accepted" /\ d[1] \in InAddrs
    BY <1>0, <1>4 DEF Dial
  <2>. QED  BY <2>1, <2>2, <2>3, DirectionsKept
<1>5. ASSUME NEW l \in Loops, NEW choke \in BOOLEAN, NEW rotate \in BOOLEAN, Round(l, choke, rotate)
       PROVE  Directions'
  <2>1. torrent'.known \cup Failed' \subseteq OutAddrs
    <3>1. /\ Serve(Finish(torrent)).known = torrent.known
          /\ Serve(Finish(torrent)).failed = torrent.failed /\ Serve(Finish(torrent)) \in Torrents
      BY ServedRecord DEF TypeOK
    <3>2. \A t, best, lucky : t \in Torrents =>
              /\ Choking(t, best, lucky, rotate).known = t.known
              /\ Choking(t, best, lucky, rotate).failed = t.failed
      BY DEF Choking, Torrents
    <3>3. torrent'.known = torrent.known /\ torrent'.failed = torrent.failed
      BY <1>5, <3>1, <3>2 DEF Round
    <3>. QED  BY <1>0, <3>3 DEF Failed
  <2>2. \E m \in Loops, ts \in SUBSET OutAddrs :
            /\ targets' = [targets EXCEPT ![m] = ts]
            /\ loopPc' \in [Loops -> {"none", "top", "slots", "dial", "round"}]
            /\ \A o \in Loops \ {m} : loopPc'[o] = loopPc[o]
            /\ loopPc'[m] \notin {"slots", "dial"} => ts = {}
    <3>1. targets[l] = {} /\ targets' = targets
      BY <1>5 DEF Round, Directions
    <3>2. targets' = [targets EXCEPT ![l] = {}] /\ {} \in SUBSET OutAddrs
      BY <3>1 DEF TypeOK
    <3>3. /\ loopPc' \in [Loops -> {"none", "top", "slots", "dial", "round"}]
          /\ \A o \in Loops \ {l} : loopPc'[o] = loopPc[o]
      BY <1>5 DEF Round, TypeOK
    <3>. QED  BY <3>2, <3>3
  <2>3. \A d \in Conns : pc'[d] \in {"dialing", "accepted"} =>
            \/ pc'[d] = pc[d]
            \/ pc'[d] = "dialing" /\ d[1] \in OutAddrs
            \/ pc'[d] = "accepted" /\ d[1] \in InAddrs
    BY <1>0, <1>5 DEF Round
  <2>. QED  BY <2>1, <2>2, <2>3, DirectionsKept
<1>6. ASSUME NEW l \in Loops, LoopEnds(l) PROVE Directions'
  <2>1. torrent'.known \cup Failed' \subseteq OutAddrs
    <3>1. torrent'.known = torrent.known /\ torrent'.failed = torrent.failed
      BY <1>6 DEF LoopEnds, TypeOK, Torrents
    <3>. QED  BY <1>0, <3>1 DEF Failed
  <2>2. \E m \in Loops, ts \in SUBSET OutAddrs :
            /\ targets' = [targets EXCEPT ![m] = ts]
            /\ loopPc' \in [Loops -> {"none", "top", "slots", "dial", "round"}]
            /\ \A o \in Loops \ {m} : loopPc'[o] = loopPc[o]
            /\ loopPc'[m] \notin {"slots", "dial"} => ts = {}
    <3>1. targets[l] = {} /\ targets' = targets
      BY <1>6 DEF LoopEnds, Directions
    <3>2. targets' = [targets EXCEPT ![l] = {}] /\ {} \in SUBSET OutAddrs
      BY <3>1 DEF TypeOK
    <3>3. /\ loopPc' \in [Loops -> {"none", "top", "slots", "dial", "round"}]
          /\ \A o \in Loops \ {l} : loopPc'[o] = loopPc[o]
      BY <1>6 DEF LoopEnds, TypeOK
    <3>. QED  BY <3>2, <3>3
  <2>3. \A d \in Conns : pc'[d] \in {"dialing", "accepted"} =>
            \/ pc'[d] = pc[d]
            \/ pc'[d] = "dialing" /\ d[1] \in OutAddrs
            \/ pc'[d] = "accepted" /\ d[1] \in InAddrs
    BY <1>0, <1>6 DEF LoopEnds
  <2>. QED  BY <2>1, <2>2, <2>3, DirectionsKept
<1>7. ASSUME NEW c \in Conns, Accept(c) PROVE Directions'
  <2>1. torrent'.known \cup Failed' \subseteq OutAddrs
    <3>1. torrent'.known = torrent.known /\ torrent'.failed = torrent.failed
      BY <1>7 DEF Accept, TypeOK, Torrents
    <3>. QED  BY <1>0, <3>1 DEF Failed
  <2>2. UNCHANGED <<targets, loopPc>>
    BY <1>7 DEF Accept
  <2>3. \A d \in Conns : pc'[d] \in {"dialing", "accepted"} =>
            \/ pc'[d] = pc[d]
            \/ pc'[d] = "dialing" /\ d[1] \in OutAddrs
            \/ pc'[d] = "accepted" /\ d[1] \in InAddrs
    BY <1>0, <1>7 DEF Accept, Goto, TypeOK
  <2>. QED  BY <2>1, <2>2, <2>3, DirectionsKept
<1>8. ASSUME NEW c \in Conns, DialSucceeds(c) PROVE Directions'
  <2>1. torrent'.known \cup Failed' \subseteq OutAddrs
    <3>1. torrent'.known = torrent.known /\ torrent'.failed = torrent.failed
      BY <1>8 DEF DialSucceeds, TypeOK, Torrents
    <3>. QED  BY <1>0, <3>1 DEF Failed
  <2>2. UNCHANGED <<targets, loopPc>>
    BY <1>8 DEF DialSucceeds
  <2>3. \A d \in Conns : pc'[d] \in {"dialing", "accepted"} =>
            \/ pc'[d] = pc[d]
            \/ pc'[d] = "dialing" /\ d[1] \in OutAddrs
            \/ pc'[d] = "accepted" /\ d[1] \in InAddrs
    BY <1>0, <1>8 DEF DialSucceeds, Goto, TypeOK
  <2>. QED  BY <2>1, <2>2, <2>3, DirectionsKept
<1>9. ASSUME NEW c \in Conns, DialFails(c) PROVE Directions'
  <2>1. torrent'.known \cup Failed' \subseteq OutAddrs
    <3>1. /\ torrent'.known = torrent.known
          /\ \A b \in Addrs \ {c[1]} : torrent'.failed[b] = torrent.failed[b]
      BY <1>9 DEF DialFails, Retry, TypeOK, Torrents
    <3>2. c[1] \in OutAddrs
      BY <1>0, <1>9 DEF DialFails
    <3>. QED  BY <1>0, <3>1, <3>2 DEF Failed
  <2>2. UNCHANGED <<targets, loopPc>>
    BY <1>9 DEF DialFails
  <2>3. \A d \in Conns : pc'[d] \in {"dialing", "accepted"} =>
            \/ pc'[d] = pc[d]
            \/ pc'[d] = "dialing" /\ d[1] \in OutAddrs
            \/ pc'[d] = "accepted" /\ d[1] \in InAddrs
    BY <1>0, <1>9 DEF DialFails, Goto, TypeOK
  <2>. QED  BY <2>1, <2>2, <2>3, DirectionsKept
<1>10. ASSUME NEW c \in Conns, Admit(c) PROVE Directions'
  <2>1. torrent'.known \cup Failed' \subseteq OutAddrs
    <3>1. torrent'.known = torrent.known /\ torrent'.failed = torrent.failed
      BY <1>10 DEF Admit, TypeOK, Torrents
    <3>. QED  BY <1>0, <3>1 DEF Failed
  <2>2. UNCHANGED <<targets, loopPc>>
    BY <1>10 DEF Admit
  <2>3. \A d \in Conns : pc'[d] \in {"dialing", "accepted"} =>
            \/ pc'[d] = pc[d]
            \/ pc'[d] = "dialing" /\ d[1] \in OutAddrs
            \/ pc'[d] = "accepted" /\ d[1] \in InAddrs
    BY <1>0, <1>10 DEF Admit, Goto, TypeOK
  <2>. QED  BY <2>1, <2>2, <2>3, DirectionsKept
<1>11. ASSUME NEW c \in Conns, Refuse(c) PROVE Directions'
  <2>1. torrent'.known \cup Failed' \subseteq OutAddrs
    <3>1. torrent'.known = torrent.known /\ torrent'.failed = torrent.failed
      BY <1>11 DEF Refuse, TypeOK, Torrents
    <3>. QED  BY <1>0, <3>1 DEF Failed
  <2>2. UNCHANGED <<targets, loopPc>>
    BY <1>11 DEF Refuse
  <2>3. \A d \in Conns : pc'[d] \in {"dialing", "accepted"} =>
            \/ pc'[d] = pc[d]
            \/ pc'[d] = "dialing" /\ d[1] \in OutAddrs
            \/ pc'[d] = "accepted" /\ d[1] \in InAddrs
    BY <1>0, <1>11 DEF Refuse, Goto, TypeOK
  <2>. QED  BY <2>1, <2>2, <2>3, DirectionsKept
<1>12. ASSUME NEW c \in Conns, Handshake(c) PROVE Directions'
  <2>1. torrent'.known \cup Failed' \subseteq OutAddrs
    <3>1. torrent'.known = torrent.known /\ torrent'.failed = torrent.failed
      BY <1>12 DEF Handshake, TypeOK, Torrents
    <3>. QED  BY <1>0, <3>1 DEF Failed
  <2>2. UNCHANGED <<targets, loopPc>>
    BY <1>12 DEF Handshake
  <2>3. \A d \in Conns : pc'[d] \in {"dialing", "accepted"} =>
            \/ pc'[d] = pc[d]
            \/ pc'[d] = "dialing" /\ d[1] \in OutAddrs
            \/ pc'[d] = "accepted" /\ d[1] \in InAddrs
    BY <1>0, <1>12 DEF Handshake, Goto, TypeOK
  <2>. QED  BY <2>1, <2>2, <2>3, DirectionsKept
<1>13. ASSUME NEW c \in Conns, Subscribe(c) PROVE Directions'
  <2>1. torrent'.known \cup Failed' \subseteq OutAddrs
    <3>1. torrent'.known = torrent.known /\ torrent'.failed = torrent.failed
      BY <1>13 DEF Subscribe, TypeOK, Torrents
    <3>. QED  BY <1>0, <3>1 DEF Failed
  <2>2. UNCHANGED <<targets, loopPc>>
    BY <1>13 DEF Subscribe
  <2>3. \A d \in Conns : pc'[d] \in {"dialing", "accepted"} =>
            \/ pc'[d] = pc[d]
            \/ pc'[d] = "dialing" /\ d[1] \in OutAddrs
            \/ pc'[d] = "accepted" /\ d[1] \in InAddrs
    BY <1>0, <1>13 DEF Subscribe, Goto, TypeOK
  <2>. QED  BY <2>1, <2>2, <2>3, DirectionsKept
<1>14. ASSUME NEW c \in Conns, Close(c) PROVE Directions'
  <2>1. torrent'.known \cup Failed' \subseteq OutAddrs
    <3>1. torrent'.known = torrent.known /\ torrent'.failed = torrent.failed
      BY <1>14 DEF Close, TypeOK, Torrents
    <3>. QED  BY <1>0, <3>1 DEF Failed
  <2>2. UNCHANGED <<targets, loopPc>>
    BY <1>14 DEF Close
  <2>3. \A d \in Conns : pc'[d] \in {"dialing", "accepted"} =>
            \/ pc'[d] = pc[d]
            \/ pc'[d] = "dialing" /\ d[1] \in OutAddrs
            \/ pc'[d] = "accepted" /\ d[1] \in InAddrs
    BY <1>0, <1>14 DEF Close, Goto, TypeOK
  <2>. QED  BY <2>1, <2>2, <2>3, DirectionsKept
<1>15. ASSUME NEW c \in Conns, LastPiece(c) PROVE Directions'
  <2>1. torrent'.known \cup Failed' \subseteq OutAddrs
    <3>1. torrent'.known = torrent.known /\ torrent'.failed = torrent.failed
      BY <1>15 DEF LastPiece, TypeOK, Torrents
    <3>. QED  BY <1>0, <3>1 DEF Failed
  <2>2. UNCHANGED <<targets, loopPc>>
    BY <1>15 DEF LastPiece
  <2>3. \A d \in Conns : pc'[d] \in {"dialing", "accepted"} =>
            \/ pc'[d] = pc[d]
            \/ pc'[d] = "dialing" /\ d[1] \in OutAddrs
            \/ pc'[d] = "accepted" /\ d[1] \in InAddrs
    BY <1>0, <1>15 DEF LastPiece
  <2>. QED  BY <2>1, <2>2, <2>3, DirectionsKept
<1>16. ASSUME NEW c \in Conns, NEW kind \in {"interested", "uninterested"}, Declare(c, kind)
       PROVE  Directions'
  <2>1. torrent'.known \cup Failed' \subseteq OutAddrs
    <3>1. torrent'.known = torrent.known /\ torrent'.failed = torrent.failed
      BY <1>16 DEF Declare, TypeOK, Torrents
    <3>. QED  BY <1>0, <3>1 DEF Failed
  <2>2. UNCHANGED <<targets, loopPc>>
    BY <1>16 DEF Declare
  <2>3. \A d \in Conns : pc'[d] \in {"dialing", "accepted"} =>
            \/ pc'[d] = pc[d]
            \/ pc'[d] = "dialing" /\ d[1] \in OutAddrs
            \/ pc'[d] = "accepted" /\ d[1] \in InAddrs
    BY <1>0, <1>16 DEF Declare
  <2>. QED  BY <2>1, <2>2, <2>3, DirectionsKept
<1>17. ASSUME NEW a \in Addrs, OnConnected(a) PROVE Directions'
  <2>1. torrent'.known \cup Failed' \subseteq OutAddrs
    <3>1. /\ torrent'.known = torrent.known
          /\ torrent'.failed[a] = 0 \/ torrent'.failed = torrent.failed
          /\ \A b \in Addrs \ {a} : torrent'.failed[b] = torrent.failed[b]
      BY <1>17 DEF OnConnected, TypeOK, Torrents
    <3>. QED  BY <1>0, <3>1 DEF Failed
  <2>2. UNCHANGED <<targets, loopPc>>
    BY <1>17 DEF OnConnected
  <2>3. \A d \in Conns : pc'[d] \in {"dialing", "accepted"} =>
            \/ pc'[d] = pc[d]
            \/ pc'[d] = "dialing" /\ d[1] \in OutAddrs
            \/ pc'[d] = "accepted" /\ d[1] \in InAddrs
    BY <1>0, <1>17 DEF OnConnected
  <2>. QED  BY <2>1, <2>2, <2>3, DirectionsKept
<1>18. ASSUME NEW a \in Addrs, OnDisconnected(a) PROVE Directions'
  <2>1. torrent'.known \cup Failed' \subseteq OutAddrs
    <3>1. torrent'.known = torrent.known /\ torrent'.failed = torrent.failed
      BY <1>18 DEF OnDisconnected, TypeOK, Torrents
    <3>. QED  BY <1>0, <3>1 DEF Failed
  <2>2. UNCHANGED <<targets, loopPc>>
    BY <1>18 DEF OnDisconnected
  <2>3. \A d \in Conns : pc'[d] \in {"dialing", "accepted"} =>
            \/ pc'[d] = pc[d]
            \/ pc'[d] = "dialing" /\ d[1] \in OutAddrs
            \/ pc'[d] = "accepted" /\ d[1] \in InAddrs
    BY <1>0, <1>18 DEF OnDisconnected
  <2>. QED  BY <2>1, <2>2, <2>3, DirectionsKept
<1>19. ASSUME NEW a \in Addrs, OnPieceCompleted(a) PROVE Directions'
  <2>1. torrent'.known \cup Failed' \subseteq OutAddrs
    <3>1. PICK late \in BOOLEAN :
              torrent' \in {Marked(torrent, late), Finish(Marked(torrent, late)),
                            Cleared(Finish(Marked(torrent, late)))}
      BY <1>19 DEF OnPieceCompleted
    <3>2. torrent'.known = torrent.known /\ torrent'.failed = torrent.failed
      BY <3>1 DEF Marked, Cleared, Finish, TypeOK, Torrents
    <3>. QED  BY <1>0, <3>2 DEF Failed
  <2>2. UNCHANGED <<targets, loopPc>>
    BY <1>19 DEF OnPieceCompleted
  <2>3. \A d \in Conns : pc'[d] \in {"dialing", "accepted"} =>
            \/ pc'[d] = pc[d]
            \/ pc'[d] = "dialing" /\ d[1] \in OutAddrs
            \/ pc'[d] = "accepted" /\ d[1] \in InAddrs
    BY <1>0, <1>19 DEF OnPieceCompleted
  <2>. QED  BY <2>1, <2>2, <2>3, DirectionsKept
<1>20. ASSUME NEW a \in Addrs, NEW kind \in {"interested", "uninterested"}, OnPeerState(a, kind)
       PROVE  Directions'
  <2>1. torrent'.known \cup Failed' \subseteq OutAddrs
    <3>1. torrent'.known = torrent.known /\ torrent'.failed = torrent.failed
      BY <1>20 DEF OnPeerState, TypeOK, Torrents
    <3>. QED  BY <1>0, <3>1 DEF Failed
  <2>2. UNCHANGED <<targets, loopPc>>
    BY <1>20 DEF OnPeerState
  <2>3. \A d \in Conns : pc'[d] \in {"dialing", "accepted"} =>
            \/ pc'[d] = pc[d]
            \/ pc'[d] = "dialing" /\ d[1] \in OutAddrs
            \/ pc'[d] = "accepted" /\ d[1] \in InAddrs
    BY <1>0, <1>20 DEF OnPeerState
  <2>. QED  BY <2>1, <2>2, <2>3, DirectionsKept
<1>21. CASE Pause
  <2>1. torrent'.known \cup Failed' \subseteq OutAddrs
    <3>1. torrent'.known = torrent.known /\ torrent'.failed = torrent.failed
      BY <1>21 DEF Pause, Cleared, TypeOK, Torrents
    <3>. QED  BY <1>0, <3>1 DEF Failed
  <2>2. UNCHANGED <<targets, loopPc>>
    BY <1>21 DEF Pause
  <2>3. \A d \in Conns : pc'[d] \in {"dialing", "accepted"} =>
            \/ pc'[d] = pc[d]
            \/ pc'[d] = "dialing" /\ d[1] \in OutAddrs
            \/ pc'[d] = "accepted" /\ d[1] \in InAddrs
    BY <1>0, <1>21 DEF Pause
  <2>. QED  BY <2>1, <2>2, <2>3, DirectionsKept
<1>22. CASE Resume
  <2>1. torrent'.known \cup Failed' \subseteq OutAddrs
    <3>1. torrent'.known = torrent.known /\ torrent'.failed = torrent.failed
      BY <1>22 DEF Resume, TypeOK, Torrents
    <3>. QED  BY <1>0, <3>1 DEF Failed
  <2>2. UNCHANGED <<targets, loopPc>>
    BY <1>22 DEF Resume
  <2>3. \A d \in Conns : pc'[d] \in {"dialing", "accepted"} =>
            \/ pc'[d] = pc[d]
            \/ pc'[d] = "dialing" /\ d[1] \in OutAddrs
            \/ pc'[d] = "accepted" /\ d[1] \in InAddrs
    BY <1>0, <1>22 DEF Resume
  <2>. QED  BY <2>1, <2>2, <2>3, DirectionsKept
<1>23. CASE Remove
  <2>1. torrent'.known \cup Failed' \subseteq OutAddrs
    <3>1. torrent'.known = {} /\ \A b \in Addrs : torrent'.failed[b] = 0
      BY <1>23 DEF Remove, NewTorrent
    <3>. QED  BY <3>1 DEF Failed
  <2>2. UNCHANGED <<targets, loopPc>>
    BY <1>23 DEF Remove
  <2>3. \A d \in Conns : pc'[d] \in {"dialing", "accepted"} =>
            \/ pc'[d] = pc[d]
            \/ pc'[d] = "dialing" /\ d[1] \in OutAddrs
            \/ pc'[d] = "accepted" /\ d[1] \in InAddrs
    BY <1>0, <1>23 DEF Remove
  <2>. QED  BY <2>1, <2>2, <2>3, DirectionsKept
<1>24. ASSUME NEW paused \in BOOLEAN, Add(paused) PROVE Directions'
  <2>1. torrent'.known \cup Failed' \subseteq OutAddrs
    <3>1. torrent'.known = {} /\ \A b \in Addrs : torrent'.failed[b] = 0
      BY <1>24 DEF Add, NewTorrent
    <3>. QED  BY <3>1 DEF Failed
  <2>2. UNCHANGED <<targets, loopPc>>
    BY <1>24 DEF Add
  <2>3. \A d \in Conns : pc'[d] \in {"dialing", "accepted"} =>
            \/ pc'[d] = pc[d]
            \/ pc'[d] = "dialing" /\ d[1] \in OutAddrs
            \/ pc'[d] = "accepted" /\ d[1] \in InAddrs
    BY <1>0, <1>24 DEF Add
  <2>. QED  BY <2>1, <2>2, <2>3, DirectionsKept
<1>25. CASE Start
  <2>1. torrent'.known \cup Failed' \subseteq OutAddrs
    <3>1. torrent'.known = torrent.known /\ torrent'.failed = torrent.failed
      BY <1>25 DEF Start, SpawnLoop, TypeOK, Torrents
    <3>. QED  BY <1>0, <3>1 DEF Failed
  <2>2. UNCHANGED <<targets, loopPc>> \/
            \E m \in Loops, ts \in SUBSET OutAddrs :
                /\ targets' = [targets EXCEPT ![m] = ts]
                /\ loopPc' \in [Loops -> {"none", "top", "slots", "dial", "round"}]
                /\ \A o \in Loops \ {m} : loopPc'[o] = loopPc[o]
                /\ loopPc'[m] \notin {"slots", "dial"} => ts = {}
    <3>1. CASE present /\ ~torrent.looping
      <4>1. PICK m \in Loops \ Running : loopPc' = [loopPc EXCEPT ![m] = "top"]
        BY <1>25, <3>1 DEF Start, SpawnLoop
      <4>2. targets[m] = {} /\ targets' = targets
        BY <1>25, <4>1 DEF Start, Directions, Running
      <4>. QED  BY <4>1, <4>2 DEF TypeOK
    <3>2. CASE ~(present /\ ~torrent.looping)
      BY <1>25, <3>2 DEF Start, SpawnLoop
    <3>. QED  BY <3>1, <3>2
  <2>3. \A d \in Conns : pc'[d] \in {"dialing", "accepted"} =>
            \/ pc'[d] = pc[d]
            \/ pc'[d] = "dialing" /\ d[1] \in OutAddrs
            \/ pc'[d] = "accepted" /\ d[1] \in InAddrs
    BY <1>0, <1>25 DEF Start, SpawnLoop
  <2>. QED  BY <2>1, <2>2, <2>3, DirectionsKept
<1>26. CASE MoveBegins
  <2>1. torrent'.known \cup Failed' \subseteq OutAddrs
    <3>1. torrent'.known = torrent.known /\ torrent'.failed = torrent.failed
      BY <1>26 DEF MoveBegins, Cleared, TypeOK, Torrents
    <3>. QED  BY <1>0, <3>1 DEF Failed
  <2>2. UNCHANGED <<targets, loopPc>>
    BY <1>26 DEF MoveBegins
  <2>3. \A d \in Conns : pc'[d] \in {"dialing", "accepted"} =>
            \/ pc'[d] = pc[d]
            \/ pc'[d] = "dialing" /\ d[1] \in OutAddrs
            \/ pc'[d] = "accepted" /\ d[1] \in InAddrs
    BY <1>0, <1>26 DEF MoveBegins
  <2>. QED  BY <2>1, <2>2, <2>3, DirectionsKept
<1>27. CASE MoveEnds
  <2>1. torrent'.known \cup Failed' \subseteq OutAddrs
    <3>1. torrent'.known = torrent.known /\ torrent'.failed = torrent.failed
      BY <1>27 DEF MoveEnds, TypeOK, Torrents
    <3>. QED  BY <1>0, <3>1 DEF Failed
  <2>2. UNCHANGED <<targets, loopPc>>
    BY <1>27 DEF MoveEnds
  <2>3. \A d \in Conns : pc'[d] \in {"dialing", "accepted"} =>
            \/ pc'[d] = pc[d]
            \/ pc'[d] = "dialing" /\ d[1] \in OutAddrs
            \/ pc'[d] = "accepted" /\ d[1] \in InAddrs
    BY <1>0, <1>27 DEF MoveEnds
  <2>. QED  BY <2>1, <2>2, <2>3, DirectionsKept
<1>28. ASSUME NEW whole \in BOOLEAN, FinishCheck(whole) PROVE Directions'
  <2>1. torrent'.known \cup Failed' \subseteq OutAddrs
    <3>1. torrent'.known = torrent.known /\ torrent'.failed = torrent.failed
      BY <1>28 DEF FinishCheck, TypeOK, Torrents
    <3>. QED  BY <1>0, <3>1 DEF Failed
  <2>2. UNCHANGED <<targets, loopPc>>
    BY <1>28 DEF FinishCheck
  <2>3. \A d \in Conns : pc'[d] \in {"dialing", "accepted"} =>
            \/ pc'[d] = pc[d]
            \/ pc'[d] = "dialing" /\ d[1] \in OutAddrs
            \/ pc'[d] = "accepted" /\ d[1] \in InAddrs
    BY <1>0, <1>28 DEF FinishCheck
  <2>. QED  BY <2>1, <2>2, <2>3, DirectionsKept
<1>29. CASE UNCHANGED vars
  <2>1. torrent'.known \cup Failed' \subseteq OutAddrs
    <3>1. torrent'.known = torrent.known /\ torrent'.failed = torrent.failed
      BY <1>29 DEF vars, TypeOK, Torrents
    <3>. QED  BY <1>0, <3>1 DEF Failed
  <2>2. UNCHANGED <<targets, loopPc>>
    BY <1>29 DEF vars
  <2>3. \A d \in Conns : pc'[d] \in {"dialing", "accepted"} =>
            \/ pc'[d] = pc[d]
            \/ pc'[d] = "dialing" /\ d[1] \in OutAddrs
            \/ pc'[d] = "accepted" /\ d[1] \in InAddrs
    BY <1>0, <1>29 DEF vars
  <2>. QED  BY <2>1, <2>2, <2>3, DirectionsKept
<1>. QED
  BY <1>1, <1>2, <1>3, <1>4, <1>5, <1>6, <1>7, <1>8, <1>9, <1>10, <1>11,
     <1>12, <1>13, <1>14, <1>15, <1>16, <1>17, <1>18, <1>19, <1>20, <1>21,
     <1>22, <1>23, <1>24, <1>25, <1>26, <1>27, <1>28, <1>29
     DEF Next, RunLoop, Connection, Establish, Process, User, Task

-----------------------------------------------------------------------------
(* The run loop.  A torrent marked as looping has one; one that is not, and *)
(* has not been added again, has none.                                     *)
LoopsCounted ==
    /\ present /\ torrent.looping => Running # {}
    /\ ~readded /\ present /\ ~torrent.looping => Running = {}
    /\ ~readded => \A l, m \in Running : l = m

(* A step that neither starts nor ends a loop, nor unmarks the torrent.    *)
LEMMA LoopsSame ==
  ASSUME LoopsCounted, UNCHANGED readded,
         present' => present /\ torrent'.looping = torrent.looping, Running' = Running
  PROVE  LoopsCounted'
BY DEF LoopsCounted

(* Every step counts the loops right. *)
LEMMA LoopsStep == TypeOK /\ LoopsCounted /\ [Next]_vars => LoopsCounted'
<1>. SUFFICES ASSUME TypeOK, LoopsCounted, [Next]_vars PROVE LoopsCounted'
  OBVIOUS
<1>1. ASSUME NEW a \in OutAddrs, Discover(a) PROVE LoopsCounted'
  <2>1. present' => present /\ torrent'.looping = torrent.looping
    BY <1>1 DEF Discover, Announces, Reannounces, FindsLocal, QueriesDht, Exchanges,
         Learn, TypeOK, Torrents
  <2>2. UNCHANGED readded /\ Running' = Running
    BY <1>1 DEF Discover, Announces, Reannounces, FindsLocal, QueriesDht, Exchanges,
         Learn, Running, TypeOK
  <2>. QED  BY <2>1, <2>2, LoopsSame
<1>2. ASSUME NEW l \in Loops, NEW ready \in SUBSET Addrs, LoopTop(l, ready) PROVE LoopsCounted'
  <2>1. present' => present /\ torrent'.looping = torrent.looping
    BY <1>2 DEF LoopTop, Plan, TypeOK, Torrents
  <2>2. UNCHANGED readded /\ Running' = Running
    BY <1>2 DEF LoopTop, Plan, Running, TypeOK
  <2>. QED  BY <2>1, <2>2, LoopsSame
<1>3. ASSUME NEW l \in Loops, NEW recent \in 0 .. ConnectionSpeed, FindSlots(l, recent)
       PROVE  LoopsCounted'
  <2>1. present' => present /\ torrent'.looping = torrent.looping
    BY <1>3 DEF FindSlots, Plan, TypeOK, Torrents
  <2>2. UNCHANGED readded /\ Running' = Running
    BY <1>3 DEF FindSlots, Plan, Running, TypeOK
  <2>. QED  BY <2>1, <2>2, LoopsSame
<1>4. ASSUME NEW l \in Loops, NEW as \in SUBSET Addrs, Dial(l, as) PROVE LoopsCounted'
  <2>1. present' => present /\ torrent'.looping = torrent.looping
    BY <1>4 DEF Dial, Plan, TypeOK, Torrents
  <2>2. UNCHANGED readded /\ Running' = Running
    BY <1>4 DEF Dial, Plan, Running, TypeOK
  <2>. QED  BY <2>1, <2>2, LoopsSame
<1>5. ASSUME NEW l \in Loops, NEW choke \in BOOLEAN, NEW rotate \in BOOLEAN, Round(l, choke, rotate)
       PROVE  LoopsCounted'
  <2>1. present' => present /\ torrent'.looping = torrent.looping
    <3>1. Serve(Finish(torrent)).looping = torrent.looping /\ Serve(Finish(torrent)) \in Torrents
      BY ServedRecord DEF TypeOK
    <3>2. \A t, best, lucky : t \in Torrents => Choking(t, best, lucky, rotate).looping = t.looping
      BY DEF Choking, Torrents
    <3>. QED  BY <1>5, <3>1, <3>2 DEF Round
  <2>2. UNCHANGED readded /\ Running' = Running
    BY <1>5 DEF Round, Running, TypeOK
  <2>. QED  BY <2>1, <2>2, LoopsSame
<1>6. ASSUME NEW l \in Loops, LoopEnds(l) PROVE LoopsCounted'
  <2>1. ~present /\ UNCHANGED <<present, readded>> /\ Running' \subseteq Running
    BY <1>6 DEF LoopEnds, Running, TypeOK
  <2>. QED  BY <2>1 DEF LoopsCounted
<1>7. ASSUME NEW c \in Conns, Accept(c) PROVE LoopsCounted'
  <2>1. present' => present /\ torrent'.looping = torrent.looping
    BY <1>7 DEF Accept, TypeOK, Torrents
  <2>2. UNCHANGED readded /\ Running' = Running
    BY <1>7 DEF Accept, Running, TypeOK
  <2>. QED  BY <2>1, <2>2, LoopsSame
<1>8. ASSUME NEW c \in Conns, DialSucceeds(c) PROVE LoopsCounted'
  <2>1. present' => present /\ torrent'.looping = torrent.looping
    BY <1>8 DEF DialSucceeds, TypeOK, Torrents
  <2>2. UNCHANGED readded /\ Running' = Running
    BY <1>8 DEF DialSucceeds, Running, TypeOK
  <2>. QED  BY <2>1, <2>2, LoopsSame
<1>9. ASSUME NEW c \in Conns, DialFails(c) PROVE LoopsCounted'
  <2>1. present' => present /\ torrent'.looping = torrent.looping
    BY <1>9 DEF DialFails, TypeOK, Torrents
  <2>2. UNCHANGED readded /\ Running' = Running
    BY <1>9 DEF DialFails, Running, TypeOK
  <2>. QED  BY <2>1, <2>2, LoopsSame
<1>10. ASSUME NEW c \in Conns, Admit(c) PROVE LoopsCounted'
  <2>1. present' => present /\ torrent'.looping = torrent.looping
    BY <1>10 DEF Admit, TypeOK, Torrents
  <2>2. UNCHANGED readded /\ Running' = Running
    BY <1>10 DEF Admit, Running, TypeOK
  <2>. QED  BY <2>1, <2>2, LoopsSame
<1>11. ASSUME NEW c \in Conns, Refuse(c) PROVE LoopsCounted'
  <2>1. present' => present /\ torrent'.looping = torrent.looping
    BY <1>11 DEF Refuse, TypeOK, Torrents
  <2>2. UNCHANGED readded /\ Running' = Running
    BY <1>11 DEF Refuse, Running, TypeOK
  <2>. QED  BY <2>1, <2>2, LoopsSame
<1>12. ASSUME NEW c \in Conns, Handshake(c) PROVE LoopsCounted'
  <2>1. present' => present /\ torrent'.looping = torrent.looping
    BY <1>12 DEF Handshake, TypeOK, Torrents
  <2>2. UNCHANGED readded /\ Running' = Running
    BY <1>12 DEF Handshake, Running, TypeOK
  <2>. QED  BY <2>1, <2>2, LoopsSame
<1>13. ASSUME NEW c \in Conns, Subscribe(c) PROVE LoopsCounted'
  <2>1. present' => present /\ torrent'.looping = torrent.looping
    BY <1>13 DEF Subscribe, TypeOK, Torrents
  <2>2. UNCHANGED readded /\ Running' = Running
    BY <1>13 DEF Subscribe, Running, TypeOK
  <2>. QED  BY <2>1, <2>2, LoopsSame
<1>14. ASSUME NEW c \in Conns, Close(c) PROVE LoopsCounted'
  <2>1. present' => present /\ torrent'.looping = torrent.looping
    BY <1>14 DEF Close, TypeOK, Torrents
  <2>2. UNCHANGED readded /\ Running' = Running
    BY <1>14 DEF Close, Running, TypeOK
  <2>. QED  BY <2>1, <2>2, LoopsSame
<1>15. ASSUME NEW c \in Conns, LastPiece(c) PROVE LoopsCounted'
  <2>1. present' => present /\ torrent'.looping = torrent.looping
    BY <1>15 DEF LastPiece, TypeOK, Torrents
  <2>2. UNCHANGED readded /\ Running' = Running
    BY <1>15 DEF LastPiece, Running, TypeOK
  <2>. QED  BY <2>1, <2>2, LoopsSame
<1>16. ASSUME NEW c \in Conns, NEW kind \in {"interested", "uninterested"}, Declare(c, kind)
       PROVE  LoopsCounted'
  <2>1. present' => present /\ torrent'.looping = torrent.looping
    BY <1>16 DEF Declare, TypeOK, Torrents
  <2>2. UNCHANGED readded /\ Running' = Running
    BY <1>16 DEF Declare, Running, TypeOK
  <2>. QED  BY <2>1, <2>2, LoopsSame
<1>17. ASSUME NEW a \in Addrs, OnConnected(a) PROVE LoopsCounted'
  <2>1. present' => present /\ torrent'.looping = torrent.looping
    BY <1>17 DEF OnConnected, TypeOK, Torrents
  <2>2. UNCHANGED readded /\ Running' = Running
    BY <1>17 DEF OnConnected, Running, TypeOK
  <2>. QED  BY <2>1, <2>2, LoopsSame
<1>18. ASSUME NEW a \in Addrs, OnDisconnected(a) PROVE LoopsCounted'
  <2>1. present' => present /\ torrent'.looping = torrent.looping
    BY <1>18 DEF OnDisconnected, TypeOK, Torrents
  <2>2. UNCHANGED readded /\ Running' = Running
    BY <1>18 DEF OnDisconnected, Running, TypeOK
  <2>. QED  BY <2>1, <2>2, LoopsSame
<1>19. ASSUME NEW a \in Addrs, OnPieceCompleted(a) PROVE LoopsCounted'
  <2>1. present' => present /\ torrent'.looping = torrent.looping
    BY <1>19 DEF OnPieceCompleted, Marked, Cleared, Finish, Finished, TypeOK, Torrents
  <2>2. UNCHANGED readded /\ Running' = Running
    BY <1>19 DEF OnPieceCompleted, Running, TypeOK
  <2>. QED  BY <2>1, <2>2, LoopsSame
<1>20. ASSUME NEW a \in Addrs, NEW kind \in {"interested", "uninterested"}, OnPeerState(a, kind)
       PROVE  LoopsCounted'
  <2>1. present' => present /\ torrent'.looping = torrent.looping
    BY <1>20 DEF OnPeerState, TypeOK, Torrents
  <2>2. UNCHANGED readded /\ Running' = Running
    BY <1>20 DEF OnPeerState, Running, TypeOK
  <2>. QED  BY <2>1, <2>2, LoopsSame
<1>21. CASE Pause
  <2>1. present' => present /\ torrent'.looping = torrent.looping
    BY <1>21 DEF Pause, Cleared, TypeOK, Torrents
  <2>2. UNCHANGED readded /\ Running' = Running
    BY <1>21 DEF Pause, Running, TypeOK
  <2>. QED  BY <2>1, <2>2, LoopsSame
<1>22. CASE Resume
  <2>1. present' => present /\ torrent'.looping = torrent.looping
    BY <1>22 DEF Resume, TypeOK, Torrents
  <2>2. UNCHANGED readded /\ Running' = Running
    BY <1>22 DEF Resume, Running, TypeOK
  <2>. QED  BY <2>1, <2>2, LoopsSame
<1>23. CASE Remove
  <2>1. present' => present /\ torrent'.looping = torrent.looping
    BY <1>23 DEF Remove, TypeOK, Torrents
  <2>2. UNCHANGED readded /\ Running' = Running
    BY <1>23 DEF Remove, Running, TypeOK
  <2>. QED  BY <2>1, <2>2, LoopsSame
<1>24. ASSUME NEW paused \in BOOLEAN, Add(paused) PROVE LoopsCounted'
  <2>1. /\ readded' /\ torrent'.looping = FALSE
    BY <1>24 DEF Add, NewTorrent
  <2>. QED  BY <2>1 DEF LoopsCounted
<1>25. CASE Start
  <2>1. CASE present /\ ~torrent.looping
    <3>1. /\ torrent' = [torrent EXCEPT !.looping = TRUE] /\ UNCHANGED <<present, readded>>
          /\ \E l \in Loops \ Running : loopPc' = [loopPc EXCEPT ![l] = "top"]
      BY <1>25, <2>1 DEF Start, SpawnLoop
    <3>2. PICK l \in Loops \ Running : loopPc' = [loopPc EXCEPT ![l] = "top"]
      BY <3>1
    <3>3. Running' = Running \cup {l}
      BY <3>2 DEF Running, TypeOK
    <3>4. torrent'.looping = TRUE
      BY <3>1 DEF TypeOK, Torrents
    <3>. QED  BY <2>1, <3>1, <3>3, <3>4 DEF LoopsCounted
  <2>2. CASE ~(present /\ ~torrent.looping)
    <3>1. UNCHANGED <<torrent, loopPc, present, readded>>
      BY <1>25, <2>2 DEF Start, SpawnLoop
    <3>. QED  BY <3>1 DEF LoopsCounted, Running
  <2>. QED  BY <2>1, <2>2
<1>26. CASE MoveBegins
  <2>1. present' => present /\ torrent'.looping = torrent.looping
    BY <1>26 DEF MoveBegins, Cleared, TypeOK, Torrents
  <2>2. UNCHANGED readded /\ Running' = Running
    BY <1>26 DEF MoveBegins, Running, TypeOK
  <2>. QED  BY <2>1, <2>2, LoopsSame
<1>27. CASE MoveEnds
  <2>1. present' => present /\ torrent'.looping = torrent.looping
    BY <1>27 DEF MoveEnds, TypeOK, Torrents
  <2>2. UNCHANGED readded /\ Running' = Running
    BY <1>27 DEF MoveEnds, Running, TypeOK
  <2>. QED  BY <2>1, <2>2, LoopsSame
<1>28. ASSUME NEW whole \in BOOLEAN, FinishCheck(whole) PROVE LoopsCounted'
  <2>1. present' => present /\ torrent'.looping = torrent.looping
    BY <1>28 DEF FinishCheck, TypeOK, Torrents
  <2>2. UNCHANGED readded /\ Running' = Running
    BY <1>28 DEF FinishCheck, Running, TypeOK
  <2>. QED  BY <2>1, <2>2, LoopsSame
<1>29. CASE UNCHANGED vars
  <2>1. present' => present /\ torrent'.looping = torrent.looping
    BY <1>29 DEF vars, TypeOK, Torrents
  <2>2. UNCHANGED readded /\ Running' = Running
    BY <1>29 DEF vars, Running, TypeOK
  <2>. QED  BY <2>1, <2>2, LoopsSame
<1>. QED
  BY <1>1, <1>2, <1>3, <1>4, <1>5, <1>6, <1>7, <1>8, <1>9, <1>10, <1>11,
     <1>12, <1>13, <1>14, <1>15, <1>16, <1>17, <1>18, <1>19, <1>20, <1>21,
     <1>22, <1>23, <1>24, <1>25, <1>26, <1>27, <1>28, <1>29
     DEF Next, RunLoop, Connection, Establish, Process, User, Task

(* One run loop per torrent, over every pause, resume, completion and move; *)
(* never none while the torrent counts on it.                              *)
THEOREM OneLoop == Spec => []OneRunLoop
<1>1. Init => LoopsCounted
  BY DEF Init, NewTorrent, LoopsCounted, Running
<1>2. LoopsCounted => OneRunLoop
  <2>. SUFFICES ASSUME LoopsCounted, ~readded PROVE Cardinality(Running) <= 1
    BY DEF LoopsCounted, OneRunLoop
  <2>1. CASE Running = {}
    BY <2>1, FS_EmptySet
  <2>2. CASE Running # {}
    <3>1. PICK l \in Running : Running = {l}
      BY <2>2 DEF LoopsCounted
    <3>. QED  BY <3>1, FS_Singleton
  <2>. QED  BY <2>1, <2>2
<1>. QED  BY <1>1, <1>2, TypeCorrect, LoopsStep, PTL DEF Spec

(* A step that moves no task, reports nothing of a connection and keeps    *)
(* the table.                                                              *)
LEMMA CalmQuiet ==
  ASSUME \A a \in Addrs : AddrInv(a) /\ SameWords(a), UNCHANGED pc,
         torrent'.peers = torrent.peers, torrent'.connecting = torrent.connecting,
         \A l \in Loops, a \in Addrs : a \in targets'[l] => Unused(a)
  PROVE  \A a \in Addrs : AddrInv(a)'
BY AddrFrame

(* The tables are cleared while no task lives and nothing waits.           *)
LEMMA CalmCleared ==
  ASSUME TypeOK, \A a \in Addrs : AddrInv(a), TellAll, ~cleared', UNCHANGED <<pc, events, targets>>,
         torrent'.peers = {}, torrent'.connecting = {}
  PROVE  \A a \in Addrs : AddrInv(a)'
<1>. SUFFICES ASSUME NEW a \in Addrs PROVE AddrInv(a)'
  OBVIOUS
<1>1. Live = {} /\ events = <<>>
  BY DEF TellAll
<1>2. \A k \in Slots : pc[<<a, k>>] = "free"
  BY <1>1, ConnAddrs DEF Live
<1>3. ~Busy(a)' /\ ~Reported(a)' /\ ~At(a, Alive)' /\ OneTask(a)' /\ Len(events') = 0
  <2>1. Len(events') = 0
    BY <1>1
  <2>2. ~Reported(a)'
    BY <2>1 DEF Reported
  <2>. QED  BY <1>2, <2>1, <2>2 DEF Busy, At, Alive, OneTask
<1>4. ReportsTrue(a)' /\ Held(a)' /\ Unused(a)'
  BY <1>1, <1>2, <1>3 DEF ReportsTrue, Held, Unused, At
<1>. QED  BY <1>3, <1>4 DEF AddrInv

(* A task has its address for itself. *)
LEMMA OnlyTask ==
  ASSUME NEW c \in Conns, pc[c] # "free", OneTask(c[1])
  PROVE  \A k \in Slots : pc[<<c[1], k>>] # "free" => <<c[1], k>> = c
BY ConnAddrs DEF OneTask

(* Where a task was says where its address was. *)
LEMMA TaskWas ==
  ASSUME NEW c \in Conns, \A k \in Slots : pc[<<c[1], k>>] # "free" => <<c[1], k>> = c
  PROVE  /\ \A S : At(c[1], S \ {"free"}) <=> pc[c] \in S \ {"free"}
         /\ Busy(c[1]) <=> pc[c] # "free"
<1>1. c = <<c[1], c[2]>> /\ c[2] \in Slots
  BY ConnAddrs
<1>. QED  BY <1>1 DEF At, Busy

(* The other addresses when a task moves. *)
LEMMA OthersStay ==
  ASSUME TypeOK, \A a \in Addrs : AddrInv(a), NEW c \in Conns, NEW step, Goto(c, step),
         \A k \in Slots : pc[<<c[1], k>>] # "free" => <<c[1], k>> = c,
         \A a \in Addrs \ {c[1]} :
             /\ SameWords(a)
             /\ a \in torrent'.peers <=> a \in torrent.peers
             /\ a \in torrent'.connecting <=> a \in torrent.connecting,
         UNCHANGED targets
  PROVE  \A a \in Addrs \ {c[1]} : AddrInv(a)'
<1>. SUFFICES ASSUME NEW a \in Addrs \ {c[1]} PROVE AddrInv(a)'
  OBVIOUS
<1>1. \A k \in Slots : pc'[<<a, k>>] = pc[<<a, k>>]
  BY TaskMoves
<1>2. \A l \in Loops : a \in targets'[l] => Unused(a)
  BY DEF AddrInv
<1>. QED  BY <1>1, <1>2, AddrFrame

(* A task goes on, without a word. *)
LEMMA CalmMove ==
  ASSUME TypeOK, Directions, \A a \in Addrs : AddrInv(a), NEW c \in Conns, NEW step,
         Goto(c, step), \A k \in Slots : pc[<<c[1], k>>] # "free" => <<c[1], k>> = c,
         UNCHANGED <<torrent, events, targets>>, pc[c] \in Alive <=> step \in Alive,
         c[1] \in OutAddrs => pc[c] # "free" /\ step \notin {"free", "dialing"}
  PROVE  \A a \in Addrs : AddrInv(a)'
<1>. DEFINE a == c[1]
<1>1. \A b \in Addrs : SameWords(b)
  BY WordsSame
<1>2. \A b \in Addrs \ {a} : AddrInv(b)'
  BY <1>1, OthersStay
<1>3. a \in Addrs /\ AddrInv(a) /\ SameWords(a)
  BY <1>1, ConnAddrs
<1>4. /\ OneTask(a)' /\ (Busy(a)' <=> step # "free")
      /\ (At(a, Alive)' <=> step \in Alive) /\ (At(a, {"dialing"})' <=> step = "dialing")
  BY TaskMoves, StepNames
<1>5. (At(a, Alive) <=> pc[c] \in Alive) /\ (Busy(a) <=> pc[c] # "free")
  BY TaskWas, StepNames
<1>6. ReportsTrue(a)'
  <2>1. ASSUME NEW i \in 1 .. Len(events'), events'[i].addr = a, events'[i].kind \in Word,
               LastWord(i)'
        PROVE  events'[i].kind = "connected" <=> At(a, Alive)'
    <3>1. PICK j \in 1 .. Len(events) : events[j] = events'[i] /\ (LastWord(i)' <=> LastWord(j))
      BY <1>3, <2>1 DEF SameWords, WordsKept
    <3>. QED  BY <1>3, <1>4, <1>5, <2>1, <3>1 DEF AddrInv, ReportsTrue
  <2>2. ~Reported(a)' => (a \in torrent'.peers <=> At(a, Alive)')
    BY <1>3, <1>4, <1>5 DEF AddrInv, ReportsTrue, SameWords
  <2>3. Alive' = Alive
    BY DEF Alive
  <2>. HIDE DEF a
  <2>. QED  BY <2>1, <2>2, <2>3 DEF ReportsTrue
<1>7. ASSUME a \in OutAddrs PROVE Held(a)'
  <2>1. Busy(a) /\ Held(a)
    BY <1>3, <1>5, <1>7 DEF AddrInv
  <2>2. ~At(a, {"dialing"})' /\ a \in torrent'.connecting \cup torrent'.peers
    BY <1>4, <1>7, <2>1 DEF Held
  <2>3. ASSUME NEW i \in 1 .. Len(events'), events'[i].addr = a,
               events'[i].kind = "disconnected"
        PROVE  FALSE
    BY <2>1, <2>3 DEF Held
  <2>. HIDE DEF a
  <2>. QED  BY <2>2, <2>3 DEF Held
<1>8. \A l \in Loops : a \notin targets'[l]
  BY <1>3, <1>5 DEF AddrInv, Unused, Directions
<1>9. AddrInv(a)'
  BY <1>4, <1>6, <1>7, <1>8 DEF AddrInv
<1>. QED  BY <1>2, <1>9

(* Only an addition makes a torrent present, and it is remembered; a       *)
(* clearing is remembered too.                                             *)
LEMMA CalmBack == TypeOK /\ [Next]_vars /\ Calm' => Calm
<1>. SUFFICES ASSUME TypeOK, [Next]_vars, Calm' PROVE Calm
  OBVIOUS
<1>1. ASSUME NEW a \in OutAddrs, Discover(a) PROVE Calm
  BY <1>1 DEF Discover, Announces, Reannounces, FindsLocal, QueriesDht, Exchanges,
         Learn, Calm
<1>2. ASSUME NEW l \in Loops, NEW ready \in SUBSET Addrs, LoopTop(l, ready) PROVE Calm
  BY <1>2 DEF LoopTop, Calm
<1>3. ASSUME NEW l \in Loops, NEW recent \in 0 .. ConnectionSpeed, FindSlots(l, recent) PROVE Calm
  BY <1>3 DEF FindSlots, Calm
<1>4. ASSUME NEW l \in Loops, NEW as \in SUBSET Addrs, Dial(l, as) PROVE Calm
  BY <1>4 DEF Dial, Calm
<1>5. ASSUME NEW l \in Loops, NEW choke \in BOOLEAN, NEW rotate \in BOOLEAN, Round(l, choke, rotate)
       PROVE  Calm
  BY <1>5 DEF Round, Calm
<1>6. ASSUME NEW l \in Loops, LoopEnds(l) PROVE Calm
  BY <1>6 DEF LoopEnds, Calm
<1>7. ASSUME NEW c \in Conns, Accept(c) PROVE Calm
  BY <1>7 DEF Accept, Calm
<1>8. ASSUME NEW c \in Conns, DialSucceeds(c) PROVE Calm
  BY <1>8 DEF DialSucceeds, Calm
<1>9. ASSUME NEW c \in Conns, DialFails(c) PROVE Calm
  BY <1>9 DEF DialFails, Calm
<1>10. ASSUME NEW c \in Conns, Admit(c) PROVE Calm
  BY <1>10 DEF Admit, Calm
<1>11. ASSUME NEW c \in Conns, Refuse(c) PROVE Calm
  BY <1>11 DEF Refuse, Calm
<1>12. ASSUME NEW c \in Conns, Handshake(c) PROVE Calm
  BY <1>12 DEF Handshake, Calm
<1>13. ASSUME NEW c \in Conns, Subscribe(c) PROVE Calm
  BY <1>13 DEF Subscribe, Calm
<1>14. ASSUME NEW c \in Conns, Close(c) PROVE Calm
  BY <1>14 DEF Close, Calm
<1>15. ASSUME NEW c \in Conns, LastPiece(c) PROVE Calm
  BY <1>15 DEF LastPiece, Calm
<1>16. ASSUME NEW c \in Conns, NEW kind \in {"interested", "uninterested"}, Declare(c, kind)
       PROVE  Calm
  BY <1>16 DEF Declare, Calm
<1>17. ASSUME NEW a \in Addrs, OnConnected(a) PROVE Calm
  BY <1>17 DEF OnConnected, Calm
<1>18. ASSUME NEW a \in Addrs, OnDisconnected(a) PROVE Calm
  BY <1>18 DEF OnDisconnected, Calm
<1>19. ASSUME NEW a \in Addrs, OnPieceCompleted(a) PROVE Calm
  BY <1>19 DEF OnPieceCompleted, TellAll, Calm
<1>20. ASSUME NEW a \in Addrs, NEW kind \in {"interested", "uninterested"}, OnPeerState(a, kind)
       PROVE  Calm
  BY <1>20 DEF OnPeerState, Calm
<1>21. CASE Pause
  BY <1>21 DEF Pause, TellAll, Calm
<1>22. CASE Resume
  BY <1>22 DEF Resume, Calm
<1>23. CASE Remove
  BY <1>23 DEF Remove, TellAll, Calm
<1>24. ASSUME NEW paused \in BOOLEAN, Add(paused) PROVE Calm
  BY <1>24 DEF Add, Calm
<1>25. CASE Start
  BY <1>25 DEF Start, Calm
<1>26. CASE MoveBegins
  BY <1>26 DEF MoveBegins, TellAll, Calm
<1>27. CASE MoveEnds
  BY <1>27 DEF MoveEnds, Calm
<1>28. ASSUME NEW whole \in BOOLEAN, FinishCheck(whole) PROVE Calm
  BY <1>28 DEF FinishCheck, Calm
<1>29. CASE UNCHANGED vars
  BY <1>29 DEF vars, Calm
<1>. QED
  BY <1>1, <1>2, <1>3, <1>4, <1>5, <1>6, <1>7, <1>8, <1>9, <1>10, <1>11,
     <1>12, <1>13, <1>14, <1>15, <1>16, <1>17, <1>18, <1>19, <1>20, <1>21,
     <1>22, <1>23, <1>24, <1>25, <1>26, <1>27, <1>28, <1>29
     DEF Next, RunLoop, Connection, Establish, Process, User, Task

(* Every step keeps each address in order, as long as nothing is cleared.  *)
LEMMA CalmStep ==
  TypeOK /\ LoopsCounted /\ Directions /\ CalmInv /\ [Next]_vars => CalmInv'
<1>. SUFFICES ASSUME TypeOK, LoopsCounted, Directions, CalmInv, [Next]_vars, Calm'
              PROVE  \A o \in Addrs : AddrInv(o)'
  BY DEF CalmInv
<1>0. Calm /\ \A o \in Addrs : AddrInv(o)
  BY CalmBack DEF CalmInv
<1>a. \A m \in Loops, o \in Addrs : o \in targets[m] => Unused(o)
  BY <1>0 DEF AddrInv
<1>b. ASSUME UNCHANGED events PROVE \A o \in Addrs : SameWords(o)
  BY <1>b, WordsSame
<1>c. ASSUME NEW c \in Conns, pc[c] # "free"
      PROVE  \A k \in Slots : pc[<<c[1], k>>] # "free" => <<c[1], k>> = c
  BY <1>0, <1>c, OnlyTask, ConnAddrs DEF AddrInv
<1>1. ASSUME NEW a \in OutAddrs, Discover(a) PROVE \A o \in Addrs : AddrInv(o)'
  <2>1. torrent'.peers = torrent.peers /\ torrent'.connecting = torrent.connecting
        /\ UNCHANGED <<pc, events, targets>>
    BY <1>1 DEF Discover, Announces, Reannounces, FindsLocal, QueriesDht, Exchanges,
         Learn, TypeOK, Torrents
  <2>. QED  BY <1>0, <1>a, <1>b, <2>1, CalmQuiet
<1>2. ASSUME NEW l \in Loops, NEW ready \in SUBSET Addrs, LoopTop(l, ready)
       PROVE  \A o \in Addrs : AddrInv(o)'
  <2>1. torrent'.peers = torrent.peers /\ torrent'.connecting = torrent.connecting
        /\ UNCHANGED <<pc, events>>
    BY <1>2 DEF LoopTop
  <2>2. ASSUME NEW o \in ToDial(ready) PROVE Unused(o)
    <3>1. o \in OutAddrs /\ o \in Addrs
      BY <1>2, <2>2 DEF LoopTop, ToDial, Directions, Addrs
    <3>2. o \notin torrent.connecting \cup torrent.peers
      BY <2>2 DEF ToDial
    <3>. QED  BY <1>0, <3>1, <3>2 DEF AddrInv, Held, Unused
  <2>3. ASSUME NEW m \in Loops, NEW o \in Addrs, o \in targets'[m] PROVE Unused(o)
    <3>1. targets'[m] \subseteq targets[m] \cup ToDial(ready)
      BY <1>2 DEF LoopTop, Plan, TypeOK
    <3>. QED  BY <1>a, <2>2, <2>3, <3>1
  <2>. QED  BY <1>0, <1>b, <2>1, <2>3, CalmQuiet
<1>3. ASSUME NEW l \in Loops, NEW recent \in 0 .. ConnectionSpeed, FindSlots(l, recent)
       PROVE  \A o \in Addrs : AddrInv(o)'
  <2>1. torrent'.peers = torrent.peers /\ torrent'.connecting = torrent.connecting
        /\ UNCHANGED <<pc, events>>
    BY <1>3 DEF FindSlots
  <2>2. \A m \in Loops : targets'[m] \subseteq targets[m]
    BY <1>3 DEF FindSlots, Plan, TypeOK
  <2>. QED  BY <1>0, <1>a, <1>b, <2>1, <2>2, CalmQuiet
<1>4. ASSUME NEW l \in Loops, NEW as \in SUBSET Addrs, Dial(l, as)
       PROVE  \A o \in Addrs : AddrInv(o)'
  <2>1. /\ loopPc[l] = "dial" /\ as \subseteq targets[l] /\ UNCHANGED events
        /\ pc' = [d \in Conns |-> IF d[1] \in as /\ d[2] = Slot(d[1]) THEN "dialing" ELSE pc[d]]
        /\ torrent'.peers = torrent.peers /\ torrent'.connecting = torrent.connecting \cup as
        /\ targets' = [targets EXCEPT ![l] = {}]
    BY <1>0, <1>4 DEF Dial, Plan, Calm, TypeOK, Torrents
  <2>2. \A m \in Loops : targets'[m] = {}
    <3>1. ~readded /\ l \in Running
      BY <1>0, <2>1 DEF Calm, Running
    <3>2. \A m \in Loops \ {l} : loopPc[m] \notin {"slots", "dial"}
      BY <3>1 DEF LoopsCounted, Running
    <3>. QED  BY <2>1, <3>2 DEF Directions, TypeOK
  <2>3. ASSUME NEW o \in Addrs, o \notin as PROVE AddrInv(o)'
    <3>1. \A k \in Slots : pc'[<<o, k>>] = pc[<<o, k>>]
      BY <2>1, <2>3, ConnAddrs
    <3>. QED  BY <1>0, <1>b, <2>1, <2>2, <2>3, <3>1, AddrFrame
  <2>4. ASSUME NEW o \in Addrs, o \in as PROVE AddrInv(o)'
    <3>1. Unused(o) /\ SameWords(o) /\ AddrInv(o)
      BY <1>0, <1>a, <1>b, <2>1, <2>4
    <3>2. \A k \in Slots : pc[<<o, k>>] = "free"
      BY <3>1 DEF Unused, Busy
    <3>3. \A k \in Slots : pc'[<<o, k>>] = IF k = Slot(o) THEN "dialing" ELSE "free"
      BY <2>1, <2>4, <3>2, ConnAddrs
    <3>4. OneTask(o)' /\ ~At(o, Alive)' /\ ~At(o, Alive)
      BY <3>2, <3>3 DEF OneTask, At, Alive
    <3>5. ~Reported(o)' /\ ~Reported(o) /\ o \in torrent'.connecting
      BY <2>1, <2>4, <3>1 DEF Unused, SameWords
    <3>6. o \notin torrent'.peers
      BY <2>1, <3>1 DEF Unused
    <3>7. ReportsTrue(o)' /\ Held(o)'
      BY <3>4, <3>5, <3>6 DEF ReportsTrue, Held, Reported, At, Alive, Word
    <3>. QED  BY <2>2, <3>4, <3>7 DEF AddrInv
  <2>. QED  BY <2>3, <2>4
<1>5. ASSUME NEW l \in Loops, NEW choke \in BOOLEAN, NEW rotate \in BOOLEAN, Round(l, choke, rotate)
       PROVE  \A o \in Addrs : AddrInv(o)'
  <2>1. torrent'.peers = torrent.peers /\ torrent'.connecting = torrent.connecting
    <3>1. /\ Serve(Finish(torrent)).peers = torrent.peers
          /\ Serve(Finish(torrent)).connecting = torrent.connecting
          /\ Serve(Finish(torrent)) \in Torrents
      BY ServedRecord DEF TypeOK
    <3>2. \A t, best, lucky : t \in Torrents =>
              /\ Choking(t, best, lucky, rotate).peers = t.peers
              /\ Choking(t, best, lucky, rotate).connecting = t.connecting
      BY DEF Choking, Torrents
    <3>. QED  BY <1>5, <3>1, <3>2 DEF Round
  <2>2. UNCHANGED <<pc, events, targets>>
    BY <1>5 DEF Round
  <2>. QED  BY <1>0, <1>a, <1>b, <2>1, <2>2, CalmQuiet
<1>6. ASSUME NEW l \in Loops, LoopEnds(l) PROVE \A o \in Addrs : AddrInv(o)'
  <2>1. torrent'.peers = torrent.peers /\ torrent'.connecting = torrent.connecting
        /\ UNCHANGED <<pc, events, targets>>
    BY <1>6 DEF LoopEnds, TypeOK, Torrents
  <2>. QED  BY <1>0, <1>a, <1>b, <2>1, CalmQuiet
<1>7. ASSUME NEW c \in Conns, Accept(c) PROVE \A o \in Addrs : AddrInv(o)'
  <2>1. /\ Goto(c, "accepted") /\ pc[c] = "free" /\ UNCHANGED <<torrent, events, targets>>
    BY <1>7, AcceptsFree DEF Accept
  <2>2. \A k \in Slots : pc[<<c[1], k>>] # "free" => <<c[1], k>> = c
    BY <1>7 DEF Accept, Idle
  <2>3. c[1] \notin OutAddrs
    BY <1>7, AddrsAssumption DEF Accept
  <2>4. /\ pc[c] \in Alive <=> "accepted" \in Alive
        /\ c[1] \in OutAddrs => pc[c] # "free" /\ "accepted" \notin {"free", "dialing"}
    BY <2>1, <2>3 DEF Alive
  <2>. QED  BY <1>0, <2>1, <2>2, <2>4, CalmMove
<1>8. ASSUME NEW c \in Conns, DialSucceeds(c) PROVE \A o \in Addrs : AddrInv(o)'
  <2>1. /\ Goto(c, "handshake") /\ pc[c] = "dialing" /\ UNCHANGED <<torrent, events, targets>>
    BY <1>8 DEF DialSucceeds
  <2>2. \A k \in Slots : pc[<<c[1], k>>] # "free" => <<c[1], k>> = c
    BY <1>c, <2>1
  <2>4. /\ pc[c] \in Alive <=> "handshake" \in Alive
        /\ c[1] \in OutAddrs => pc[c] # "free" /\ "handshake" \notin {"free", "dialing"}
    BY <2>1 DEF Alive
  <2>. QED  BY <1>0, <2>1, <2>2, <2>4, CalmMove
<1>9. ASSUME NEW c \in Conns, DialFails(c) PROVE \A o \in Addrs : AddrInv(o)'
  <2>1. /\ Goto(c, "free") /\ pc[c] = "dialing" /\ UNCHANGED <<events, targets>>
        /\ torrent'.peers = torrent.peers /\ torrent'.connecting = torrent.connecting \ {c[1]}
    BY <1>0, <1>9 DEF DialFails, Calm, TypeOK, Torrents
  <2>2. \A k \in Slots : pc[<<c[1], k>>] # "free" => <<c[1], k>> = c
    BY <1>c, <2>1
  <2>3. \A o \in Addrs \ {c[1]} : AddrInv(o)'
    BY <1>0, <1>b, <2>1, <2>2, OthersStay
  <2>4. /\ c[1] \in Addrs /\ c[1] \in OutAddrs /\ AddrInv(c[1]) /\ SameWords(c[1])
    BY <1>0, <1>b, <2>1, ConnAddrs DEF Directions
  <2>5. OneTask(c[1])' /\ ~Busy(c[1])' /\ ~At(c[1], Alive)' /\ ~At(c[1], {"dialing"})'
    BY <2>1, <2>2, TaskMoves, StepNames DEF Alive
  <2>6. ~At(c[1], Alive) /\ At(c[1], {"dialing"}) /\ Busy(c[1])
    <3>1. /\ \A S : At(c[1], S \ {"free"}) <=> pc[c] \in S \ {"free"}
          /\ Busy(c[1]) <=> pc[c] # "free"
      BY <2>2, TaskWas
    <3>2. (At(c[1], Alive) <=> pc[c] \in Alive) /\ (At(c[1], {"dialing"}) <=> pc[c] = "dialing")
      BY <3>1, StepNames
    <3>. QED  BY <2>1, <3>1, <3>2 DEF Alive
  <2>7. ~Reported(c[1])' /\ ~Reported(c[1])
    BY <2>4, <2>6 DEF AddrInv, Held, SameWords
  <2>8. c[1] \notin torrent'.peers
    BY <2>1, <2>4, <2>6, <2>7 DEF AddrInv, ReportsTrue
  <2>9. ReportsTrue(c[1])'
    BY <2>5, <2>7, <2>8 DEF ReportsTrue, Reported, At, Alive
  <2>10. Held(c[1])'
    BY <2>5, <2>7 DEF Held, Reported, Word
  <2>11. \A m \in Loops : c[1] \notin targets'[m]
    BY <2>1, <2>4, <2>6 DEF AddrInv, Unused
  <2>12. AddrInv(c[1])'
    BY <2>5, <2>9, <2>10, <2>11 DEF AddrInv
  <2>. QED  BY <2>3, <2>12
<1>10. ASSUME NEW c \in Conns, Admit(c) PROVE \A o \in Addrs : AddrInv(o)'
  <2>1. /\ Goto(c, "handshake") /\ pc[c] = "accepted" /\ UNCHANGED <<torrent, events, targets>>
    BY <1>10 DEF Admit
  <2>2. \A k \in Slots : pc[<<c[1], k>>] # "free" => <<c[1], k>> = c
    BY <1>c, <2>1
  <2>3. c[1] \notin OutAddrs
    BY <2>1, AddrsAssumption DEF Directions
  <2>4. /\ pc[c] \in Alive <=> "handshake" \in Alive
        /\ c[1] \in OutAddrs => pc[c] # "free" /\ "handshake" \notin {"free", "dialing"}
    BY <2>1, <2>3 DEF Alive
  <2>. QED  BY <1>0, <2>1, <2>2, <2>4, CalmMove
<1>11. ASSUME NEW c \in Conns, Refuse(c) PROVE \A o \in Addrs : AddrInv(o)'
  <2>1. /\ Goto(c, "free") /\ pc[c] = "accepted" /\ UNCHANGED <<torrent, events, targets>>
    BY <1>11 DEF Refuse
  <2>2. \A k \in Slots : pc[<<c[1], k>>] # "free" => <<c[1], k>> = c
    BY <1>c, <2>1
  <2>3. c[1] \notin OutAddrs
    BY <2>1, AddrsAssumption DEF Directions
  <2>4. /\ pc[c] \in Alive <=> "free" \in Alive
        /\ c[1] \in OutAddrs => pc[c] # "free" /\ "free" \notin {"free", "dialing"}
    BY <2>1, <2>3 DEF Alive
  <2>. QED  BY <1>0, <2>1, <2>2, <2>4, CalmMove
<1>12. ASSUME NEW c \in Conns, Handshake(c) PROVE \A o \in Addrs : AddrInv(o)'
  <2>1. /\ Goto(c, "setup") /\ pc[c] = "handshake" /\ Post("connected", c[1])
        /\ UNCHANGED <<torrent, targets>> /\ "connected" \in Word
    BY <1>12 DEF Handshake, Word
  <2>2. \A k \in Slots : pc[<<c[1], k>>] # "free" => <<c[1], k>> = c
    BY <1>c, <2>1
  <2>3. \A o \in Addrs \ {c[1]} : AddrInv(o)'
    <3>1. \A o \in Addrs \ {c[1]} : SameWords(o)
      BY <2>1, WordsPosted
    <3>. QED  BY <1>0, <2>1, <2>2, <3>1, OthersStay
  <2>4. c[1] \in Addrs /\ AddrInv(c[1])
    BY <1>0, ConnAddrs
  <2>5. /\ OneTask(c[1])' /\ At(c[1], Alive)' /\ ~At(c[1], {"dialing"})'
        /\ Busy(c[1])' <=> "setup" # "free"
    BY <2>1, <2>2, TaskMoves, StepNames DEF Alive
  <2>6. Busy(c[1])
    BY <2>1, <2>2, TaskWas
  <2>7. /\ Reported(c[1])'
        /\ \A i \in 1 .. Len(events') : events'[i].addr = c[1] =>
               \/ i \in 1 .. Len(events) /\ events'[i] = events[i] /\ ~LastWord(i)'
               \/ events'[i].kind = "connected" /\ LastWord(i)'
    <3>1. /\ \A i \in 1 .. Len(events') :
                 \/ /\ events'[i] = [kind |-> "connected", addr |-> c[1]]
                    /\ LastWord(i)'
                 \/ /\ i \in 1 .. Len(events) /\ events'[i] = events[i]
                    /\ LastWord(i)' <=> LastWord(i) /\ events[i].addr # c[1]
          /\ Reported(c[1])'
      BY <2>1, WordsPosted
    <3>2. [kind |-> "connected", addr |-> c[1]].kind = "connected"
      OBVIOUS
    <3>. QED  BY <3>1, <3>2
  <2>8. ReportsTrue(c[1])'
    BY <2>5, <2>7 DEF ReportsTrue, Alive, At
  <2>9. ASSUME c[1] \in OutAddrs PROVE Held(c[1])'
    <3>1. Held(c[1]) /\ c[1] \in torrent'.connecting \cup torrent'.peers
      BY <2>1, <2>4, <2>6, <2>9 DEF AddrInv, Held
    <3>2. ASSUME NEW i \in 1 .. Len(events'), events'[i].addr = c[1],
                 events'[i].kind = "disconnected"
          PROVE  ~Busy(c[1])' /\ LastWord(i)'
      BY <2>5, <2>6, <2>7, <3>1, <3>2 DEF Held
    <3>. QED  BY <2>5, <3>1, <3>2 DEF Held
  <2>10. \A m \in Loops : c[1] \notin targets'[m]
    BY <2>1, <2>4, <2>6 DEF AddrInv, Unused
  <2>11. AddrInv(c[1])'
    BY <2>5, <2>8, <2>9, <2>10 DEF AddrInv
  <2>. QED  BY <2>3, <2>11
<1>13. ASSUME NEW c \in Conns, Subscribe(c) PROVE \A o \in Addrs : AddrInv(o)'
  <2>1. /\ Goto(c, "loop") /\ pc[c] = "setup" /\ UNCHANGED <<torrent, events, targets>>
    BY <1>13 DEF Subscribe
  <2>2. \A k \in Slots : pc[<<c[1], k>>] # "free" => <<c[1], k>> = c
    BY <1>c, <2>1
  <2>4. /\ pc[c] \in Alive <=> "loop" \in Alive
        /\ c[1] \in OutAddrs => pc[c] # "free" /\ "loop" \notin {"free", "dialing"}
    BY <2>1 DEF Alive
  <2>. QED  BY <1>0, <2>1, <2>2, <2>4, CalmMove
<1>14. ASSUME NEW c \in Conns, Close(c) PROVE \A o \in Addrs : AddrInv(o)'
  <2>1. /\ Goto(c, "free") /\ pc[c] # "free" /\ Post("disconnected", c[1])
        /\ UNCHANGED <<torrent, targets>> /\ "disconnected" \in Word
    BY <1>14 DEF Close, Word
  <2>2. \A k \in Slots : pc[<<c[1], k>>] # "free" => <<c[1], k>> = c
    BY <1>c, <2>1
  <2>3. \A o \in Addrs \ {c[1]} : AddrInv(o)'
    <3>1. \A o \in Addrs \ {c[1]} : SameWords(o)
      BY <2>1, WordsPosted
    <3>. QED  BY <1>0, <2>1, <2>2, <3>1, OthersStay
  <2>4. c[1] \in Addrs /\ AddrInv(c[1])
    BY <1>0, ConnAddrs
  <2>5. /\ OneTask(c[1])' /\ ~At(c[1], Alive)' /\ ~At(c[1], {"dialing"})'
        /\ Busy(c[1])' <=> "free" # "free"
    BY <2>1, <2>2, TaskMoves, StepNames DEF Alive
  <2>6. Busy(c[1])
    BY <2>1, <2>2, TaskWas
  <2>7. /\ Reported(c[1])'
        /\ \A i \in 1 .. Len(events') : events'[i].addr = c[1] =>
               \/ i \in 1 .. Len(events) /\ events'[i] = events[i] /\ ~LastWord(i)'
               \/ events'[i].kind = "disconnected" /\ LastWord(i)'
    <3>1. /\ \A i \in 1 .. Len(events') :
                 \/ /\ events'[i] = [kind |-> "disconnected", addr |-> c[1]]
                    /\ LastWord(i)'
                 \/ /\ i \in 1 .. Len(events) /\ events'[i] = events[i]
                    /\ LastWord(i)' <=> LastWord(i) /\ events[i].addr # c[1]
          /\ Reported(c[1])'
      BY <2>1, WordsPosted
    <3>2. [kind |-> "disconnected", addr |-> c[1]].kind = "disconnected"
      OBVIOUS
    <3>. QED  BY <3>1, <3>2
  <2>8. ReportsTrue(c[1])'
    BY <2>5, <2>7 DEF ReportsTrue, Alive, At
  <2>9. ASSUME c[1] \in OutAddrs PROVE Held(c[1])'
    <3>1. Held(c[1]) /\ c[1] \in torrent'.connecting \cup torrent'.peers
      BY <2>1, <2>4, <2>6, <2>9 DEF AddrInv, Held
    <3>2. ASSUME NEW i \in 1 .. Len(events'), events'[i].addr = c[1],
                 events'[i].kind = "disconnected"
          PROVE  ~Busy(c[1])' /\ LastWord(i)'
      BY <2>5, <2>6, <2>7, <3>1, <3>2 DEF Held
    <3>. QED  BY <2>5, <3>1, <3>2 DEF Held
  <2>10. \A m \in Loops : c[1] \notin targets'[m]
    BY <2>1, <2>4, <2>6 DEF AddrInv, Unused
  <2>11. AddrInv(c[1])'
    BY <2>5, <2>8, <2>9, <2>10 DEF AddrInv
  <2>. QED  BY <2>3, <2>11
<1>15. ASSUME NEW c \in Conns, LastPiece(c) PROVE \A o \in Addrs : AddrInv(o)'
  <2>1. torrent'.peers = torrent.peers /\ torrent'.connecting = torrent.connecting
        /\ UNCHANGED <<pc, targets>> /\ Post("pieceCompleted", c[1]) /\ "pieceCompleted" \notin Word
    BY <1>15 DEF LastPiece, Word, TypeOK, Torrents
  <2>2. \A o \in Addrs : SameWords(o)
    BY <2>1, WordsPosted
  <2>. QED  BY <1>0, <1>a, <2>1, <2>2, CalmQuiet
<1>16. ASSUME NEW c \in Conns, NEW kind \in {"interested", "uninterested"}, Declare(c, kind)
       PROVE  \A o \in Addrs : AddrInv(o)'
  <2>1. torrent'.peers = torrent.peers /\ torrent'.connecting = torrent.connecting
        /\ UNCHANGED <<pc, targets>> /\ Post(kind, c[1]) /\ kind \notin Word
    BY <1>16 DEF Declare, Word, TypeOK, Torrents
  <2>2. \A o \in Addrs : SameWords(o)
    BY <2>1, WordsPosted
  <2>. QED  BY <1>0, <1>a, <2>1, <2>2, CalmQuiet
<1>17. ASSUME NEW a \in Addrs, OnConnected(a) PROVE \A o \in Addrs : AddrInv(o)'
  <2>1. /\ Take("connected", a) /\ "connected" \in Word /\ UNCHANGED <<pc, targets>>
        /\ torrent'.peers = torrent.peers \cup {a} /\ torrent'.connecting = torrent.connecting \ {a}
    BY <1>0, <1>17 DEF OnConnected, Calm, Word, TypeOK, Torrents
  <2>2. \A o \in Addrs \ {a} : AddrInv(o)'
    <3>1. \A o \in Addrs \ {a} : SameWords(o)
      BY <2>1, WordsTaken
    <3>. QED  BY <1>0, <1>a, <2>1, <3>1, AddrFrame
  <2>3. AddrInv(a)
    BY <1>0
  <2>4. /\ Reported(a) /\ WordsKept(a) /\ (LastWord(1) <=> ~Reported(a)')
        /\ 1 \in 1 .. Len(events) /\ events[1].kind = "connected" /\ events[1].addr = a
    <3>1. /\ Reported(a) /\ WordsKept(a) /\ (LastWord(1) <=> ~Reported(a)')
          /\ 1 \in 1 .. Len(events) /\ events[1] = [kind |-> "connected", addr |-> a]
      BY <2>1, WordsTaken
    <3>. QED  BY <3>1
  <2>5. (Busy(a)' <=> Busy(a)) /\ (\A S : At(a, S)' <=> At(a, S)) /\ (OneTask(a)' <=> OneTask(a))
    BY <2>1 DEF Busy, At, OneTask
  <2>6. ~Reported(a)' => (a \in torrent'.peers <=> At(a, Alive)')
    BY <2>1, <2>3, <2>4, <2>5 DEF AddrInv, ReportsTrue
  <2>7. ReportsTrue(a)'
    <3>1. ASSUME NEW i \in 1 .. Len(events'), events'[i].addr = a, events'[i].kind \in Word,
                 LastWord(i)'
          PROVE  events'[i].kind = "connected" <=> At(a, Alive)'
      <4>1. PICK j \in 1 .. Len(events) :
                events[j] = events'[i] /\ (LastWord(i)' <=> LastWord(j))
        BY <2>4, <3>1 DEF WordsKept
      <4>. QED  BY <2>3, <2>5, <3>1, <4>1 DEF AddrInv, ReportsTrue
    <3>2. Alive' = Alive
      BY DEF Alive
    <3>. QED  BY <2>6, <3>1, <3>2 DEF ReportsTrue
  <2>8. ASSUME a \in OutAddrs PROVE Held(a)'
    <3>1. Held(a)
      BY <2>3, <2>8 DEF AddrInv
    <3>2. ASSUME NEW i \in 1 .. Len(events'), events'[i].addr = a,
                 events'[i].kind = "disconnected"
          PROVE  ~Busy(a)' /\ LastWord(i)'
      <4>1. PICK j \in 1 .. Len(events) :
                events[j] = events'[i] /\ (LastWord(i)' <=> LastWord(j))
        BY <2>4, <3>2 DEF WordsKept, Word
      <4>. QED  BY <2>5, <3>1, <3>2, <4>1 DEF Held
    <3>. QED  BY <2>1, <2>4, <2>5, <3>1, <3>2 DEF Held
  <2>9. \A m \in Loops : a \notin targets'[m]
    BY <2>1, <2>3, <2>4 DEF AddrInv, Unused
  <2>10. AddrInv(a)'
    BY <2>3, <2>5, <2>7, <2>8, <2>9 DEF AddrInv
  <2>. QED  BY <2>2, <2>10
<1>18. ASSUME NEW a \in Addrs, OnDisconnected(a) PROVE \A o \in Addrs : AddrInv(o)'
  <2>1. /\ Take("disconnected", a) /\ "disconnected" \in Word /\ UNCHANGED <<pc, targets>>
        /\ torrent'.peers = torrent.peers \ {a} /\ torrent'.connecting = torrent.connecting \ {a}
    BY <1>0, <1>18 DEF OnDisconnected, Calm, Word, TypeOK, Torrents
  <2>2. \A o \in Addrs \ {a} : AddrInv(o)'
    <3>1. \A o \in Addrs \ {a} : SameWords(o)
      BY <2>1, WordsTaken
    <3>. QED  BY <1>0, <1>a, <2>1, <3>1, AddrFrame
  <2>3. AddrInv(a)
    BY <1>0
  <2>4. /\ Reported(a) /\ WordsKept(a) /\ (LastWord(1) <=> ~Reported(a)')
        /\ 1 \in 1 .. Len(events) /\ events[1].kind = "disconnected" /\ events[1].addr = a
    <3>1. /\ Reported(a) /\ WordsKept(a) /\ (LastWord(1) <=> ~Reported(a)')
          /\ 1 \in 1 .. Len(events) /\ events[1] = [kind |-> "disconnected", addr |-> a]
      BY <2>1, WordsTaken
    <3>. QED  BY <3>1
  <2>5. (Busy(a)' <=> Busy(a)) /\ (\A S : At(a, S)' <=> At(a, S)) /\ (OneTask(a)' <=> OneTask(a))
    BY <2>1 DEF Busy, At, OneTask
  <2>6. ~Reported(a)' => (a \in torrent'.peers <=> At(a, Alive)')
    BY <2>1, <2>3, <2>4, <2>5 DEF AddrInv, ReportsTrue
  <2>7. ReportsTrue(a)'
    <3>1. ASSUME NEW i \in 1 .. Len(events'), events'[i].addr = a, events'[i].kind \in Word,
                 LastWord(i)'
          PROVE  events'[i].kind = "connected" <=> At(a, Alive)'
      <4>1. PICK j \in 1 .. Len(events) :
                events[j] = events'[i] /\ (LastWord(i)' <=> LastWord(j))
        BY <2>4, <3>1 DEF WordsKept
      <4>. QED  BY <2>3, <2>5, <3>1, <4>1 DEF AddrInv, ReportsTrue
    <3>2. Alive' = Alive
      BY DEF Alive
    <3>. QED  BY <2>6, <3>1, <3>2 DEF ReportsTrue
  <2>8. ASSUME a \in OutAddrs PROVE Held(a)'
    <3>1. Held(a)
      BY <2>3, <2>8 DEF AddrInv
    <3>2. ASSUME NEW i \in 1 .. Len(events'), events'[i].addr = a,
                 events'[i].kind = "disconnected"
          PROVE  ~Busy(a)' /\ LastWord(i)'
      <4>1. PICK j \in 1 .. Len(events) :
                events[j] = events'[i] /\ (LastWord(i)' <=> LastWord(j))
        BY <2>4, <3>2 DEF WordsKept, Word
      <4>. QED  BY <2>5, <3>1, <3>2, <4>1 DEF Held
    <3>3. ~Busy(a) /\ LastWord(1)
      BY <2>4, <3>1 DEF Held
    <3>. QED  BY <2>1, <2>4, <2>5, <3>1, <3>2, <3>3 DEF Held
  <2>9. \A m \in Loops : a \notin targets'[m]
    BY <2>1, <2>3, <2>4 DEF AddrInv, Unused
  <2>10. AddrInv(a)'
    BY <2>3, <2>5, <2>7, <2>8, <2>9 DEF AddrInv
  <2>. QED  BY <2>2, <2>10
<1>19. ASSUME NEW a \in Addrs, OnPieceCompleted(a) PROVE \A o \in Addrs : AddrInv(o)'
  <2>0. ~TellAll
    BY <1>19 DEF OnPieceCompleted, Take, TellAll, Calm
  <2>1. torrent'.peers = torrent.peers /\ torrent'.connecting = torrent.connecting
        /\ UNCHANGED <<pc, targets>> /\ Take("pieceCompleted", a) /\ "pieceCompleted" \notin Word
    BY <2>0, <1>19 DEF OnPieceCompleted, Word, TypeOK, Torrents, Marked, Finish, Finished
  <2>2. \A o \in Addrs : SameWords(o)
    BY <2>1, WordsTaken
  <2>. QED  BY <1>0, <1>a, <2>1, <2>2, CalmQuiet
<1>20. ASSUME NEW a \in Addrs, NEW kind \in {"interested", "uninterested"}, OnPeerState(a, kind)
       PROVE  \A o \in Addrs : AddrInv(o)'
  <2>1. torrent'.peers = torrent.peers /\ torrent'.connecting = torrent.connecting
        /\ UNCHANGED <<pc, targets>> /\ Take(kind, a) /\ kind \notin Word
    BY <1>20 DEF OnPeerState, Word, TypeOK, Torrents
  <2>2. \A o \in Addrs : SameWords(o)
    BY <2>1, WordsTaken
  <2>. QED  BY <1>0, <1>a, <2>1, <2>2, CalmQuiet
<1>21. CASE Pause
  <2>1. /\ TellAll /\ UNCHANGED <<pc, events, targets>>
        /\ torrent'.peers = {} /\ torrent'.connecting = {}
    BY <1>0, <1>21 DEF Pause, Calm, Cleared, TypeOK, Torrents
  <2>. QED  BY <1>0, <2>1, CalmCleared DEF Calm
<1>22. CASE Resume
  <2>1. torrent'.peers = torrent.peers /\ torrent'.connecting = torrent.connecting
        /\ UNCHANGED <<pc, events, targets>>
    BY <1>22 DEF Resume, TypeOK, Torrents
  <2>. QED  BY <1>0, <1>a, <1>b, <2>1, CalmQuiet
<1>23. CASE Remove
  BY <1>23 DEF Remove, Calm
<1>24. ASSUME NEW paused \in BOOLEAN, Add(paused) PROVE \A o \in Addrs : AddrInv(o)'
  BY <1>24 DEF Add, Calm
<1>25. CASE Start
  <2>1. torrent'.peers = torrent.peers /\ torrent'.connecting = torrent.connecting
        /\ UNCHANGED <<pc, events, targets>>
    BY <1>25 DEF Start, SpawnLoop, TypeOK, Torrents
  <2>. QED  BY <1>0, <1>a, <1>b, <2>1, CalmQuiet
<1>26. CASE MoveBegins
  <2>1. /\ TellAll /\ UNCHANGED <<pc, events, targets>>
        /\ torrent'.peers = {} /\ torrent'.connecting = {}
    BY <1>0, <1>26 DEF MoveBegins, Calm, Cleared, TypeOK, Torrents
  <2>. QED  BY <1>0, <2>1, CalmCleared DEF Calm
<1>27. CASE MoveEnds
  <2>1. torrent'.peers = torrent.peers /\ torrent'.connecting = torrent.connecting
        /\ UNCHANGED <<pc, events, targets>>
    BY <1>27 DEF MoveEnds, TypeOK, Torrents
  <2>. QED  BY <1>0, <1>a, <1>b, <2>1, CalmQuiet
<1>28. ASSUME NEW whole \in BOOLEAN, FinishCheck(whole) PROVE \A o \in Addrs : AddrInv(o)'
  <2>1. torrent'.peers = torrent.peers /\ torrent'.connecting = torrent.connecting
        /\ UNCHANGED <<pc, events, targets>>
    BY <1>28 DEF FinishCheck, TypeOK, Torrents
  <2>. QED  BY <1>0, <1>a, <1>b, <2>1, CalmQuiet
<1>29. CASE UNCHANGED vars
  <2>1. torrent'.peers = torrent.peers /\ torrent'.connecting = torrent.connecting
        /\ UNCHANGED <<pc, events, targets>>
    BY <1>29 DEF vars, TypeOK, Torrents
  <2>. QED  BY <1>0, <1>a, <1>b, <2>1, CalmQuiet
<1>. QED
  BY <1>1, <1>2, <1>3, <1>4, <1>5, <1>6, <1>7, <1>8, <1>9, <1>10, <1>11,
     <1>12, <1>13, <1>14, <1>15, <1>16, <1>17, <1>18, <1>19, <1>20, <1>21,
     <1>22, <1>23, <1>24, <1>25, <1>26, <1>27, <1>28, <1>29
     DEF Next, RunLoop, Connection, Establish, Process, User, Task

(* As long as nothing has cleared the tables under live connections: no    *)
(* address is connected twice, and the table is exact once every event is  *)
(* handled, over any order of dials, handshakes, departures and reports.   *)
THEOREM TableIsExact == Spec => []TableExact
<1>1. Init => LoopsCounted /\ Directions /\ CalmInv
  <2>. SUFFICES ASSUME Init PROVE LoopsCounted /\ Directions /\ CalmInv
    OBVIOUS
  <2>1. LoopsCounted
    BY DEF Init, NewTorrent, LoopsCounted, Running
  <2>2. Directions
    BY DEF Init, NewTorrent, Directions, Failed
  <2>3. ASSUME NEW a \in Addrs PROVE AddrInv(a)
    <3>1. /\ Len(events) = 0 /\ a \notin torrent.peers \cup torrent.connecting
          /\ \A k \in Slots : pc[<<a, k>>] = "free"
          /\ \A l \in Loops : targets[l] = {}
      BY ConnAddrs DEF Init, NewTorrent
    <3>2. ~Reported(a)
      BY <3>1 DEF Reported
    <3>3. ~Busy(a) /\ ~At(a, Alive) /\ ~At(a, {"dialing"}) /\ OneTask(a)
      BY <3>1 DEF Busy, At, Alive, OneTask
    <3>. QED  BY <3>1, <3>2, <3>3 DEF AddrInv, ReportsTrue, Held
  <2>. QED  BY <2>1, <2>2, <2>3 DEF CalmInv
<1>2. TypeOK /\ CalmInv => TableExact
  <2>. SUFFICES ASSUME TypeOK, Calm, \A a \in Addrs : AddrInv(a) PROVE TableExact
    BY DEF CalmInv, TableExact, Calm
  <2>1. \A a \in Addrs, j, k \in Slots :
            pc[<<a, j>>] # "free" /\ pc[<<a, k>>] # "free" => j = k
    BY DEF AddrInv, OneTask
  <2>2. ASSUME events = <<>> PROVE torrent.peers = {c[1] : c \in Connected}
    <3>1. \A a \in Addrs : a \in torrent.peers <=> At(a, Alive)
      <4>1. Len(events) = 0
        BY <2>2
      <4>2. \A a \in Addrs : ~Reported(a)
        BY <4>1 DEF Reported
      <4>. QED  BY <4>2 DEF AddrInv, ReportsTrue
    <3>2. \A a \in Addrs : At(a, Alive) <=> a \in {c[1] : c \in Connected}
      <4>1. ASSUME NEW a \in Addrs, At(a, Alive) PROVE a \in {c[1] : c \in Connected}
        <5>1. PICK k \in Slots : pc[<<a, k>>] \in Alive
          BY <4>1 DEF At
        <5>2. <<a, k>> \in Connected /\ <<a, k>>[1] = a
          BY <5>1, ConnAddrs DEF Connected, Alive
        <5>. QED  BY <5>2
      <4>2. ASSUME NEW c \in Connected PROVE At(c[1], Alive)
        BY ConnAddrs DEF Connected, At, Alive
      <4>. QED  BY <4>1, <4>2
    <3>3. torrent.peers \subseteq Addrs /\ {c[1] : c \in Connected} \subseteq Addrs
      BY ConnAddrs DEF TypeOK, Torrents, Connected
    <3>. QED  BY <3>1, <3>2, <3>3
  <2>. QED  BY <2>1, <2>2 DEF TableExact
<1>3. TypeOK /\ LoopsCounted /\ Directions /\ CalmInv /\ [Next]_vars
          => (LoopsCounted /\ Directions /\ CalmInv)'
  BY LoopsStep, DirectionsStep, CalmStep
<1>. QED  BY <1>1, <1>2, <1>3, TypeCorrect, PTL DEF Spec
=============================================================================
