----------------------- MODULE PieceAvailabilityProofs -----------------------
(* What holds of the candidate index and of the counters of pieces for any  *)
(* torrent, any swarm and any interleaving of the peer tasks.               *)
EXTENDS PieceAvailability, CountingLemmas

LEMMA NoneYetIsPiece == NoneYet \in Pieces /\ AnAddr \in Addrs
BY PiecesAssumption, AddrsAssumption DEF NoneYet, AnAddr

(* The three operations of DownloadablePieces keep every indexed piece     *)
(* among the entries; only Remove takes a piece out of the index.          *)
LEMMA AddKeeps ==
  ASSUME NEW p \in Pieces, NEW a \in Nat, Add(p, a), IndexedHasEntry,
         candidates \subseteq Nat \X Pieces, inCandidates \subseteq Pieces
  PROVE  /\ IndexedHasEntry' /\ inCandidates \subseteq inCandidates'
         /\ (candidates \subseteq Nat \X Pieces)' /\ (inCandidates \subseteq Pieces)'
<1>1. <<a, p>>[2] = p
  OBVIOUS
<1>2. ASSUME NEW q \in inCandidates' PROVE HasEntry(q)'
  BY <1>1, <1>2 DEF Add, IndexedHasEntry, HasEntry
<1>. QED BY <1>2 DEF Add, IndexedHasEntry

(* A removal unmarks its piece only, so that the other marked pieces keep  *)
(* their entries.                                                          *)
LEMMA RemoveKeeps ==
  ASSUME NEW p \in Pieces, NEW a \in Nat, Remove(p, a), IndexedHasEntry,
         candidates \subseteq Nat \X Pieces, inCandidates \subseteq Pieces
  PROVE  /\ IndexedHasEntry' /\ inCandidates \ {p} = inCandidates'
         /\ (candidates \subseteq Nat \X Pieces)' /\ (inCandidates \subseteq Pieces)'
<1>1. ASSUME NEW q \in inCandidates' PROVE HasEntry(q)'
  <2>1. q \in inCandidates /\ q # p
    BY DEF Remove
  <2>2. PICK x \in candidates : x[2] = q
    BY <2>1 DEF IndexedHasEntry, HasEntry
  <2>3. x # <<a, p>>
    BY <2>1, <2>2
  <2>. QED BY <2>2, <2>3 DEF Remove, HasEntry
<1>. QED BY <1>1 DEF Remove, IndexedHasEntry

(* A move gives each piece that it finds an entry at its new availability. *)
LEMMA MoveKeeps ==
  ASSUME NEW ps \in SUBSET Pieces, NEW old, NEW new,
         \A p \in ps : old[p] \in Nat /\ new[p] \in Nat,
         Move(ps, old, new), IndexedHasEntry,
         candidates \subseteq Nat \X Pieces, inCandidates \subseteq Pieces
  PROVE  /\ IndexedHasEntry' /\ inCandidates = inCandidates'
         /\ (candidates \subseteq Nat \X Pieces)' /\ (inCandidates \subseteq Pieces)'
<1>1. ASSUME NEW q \in inCandidates' PROVE HasEntry(q)'
  <2>1. q \in inCandidates
    BY DEF Move
  <2>2. CASE q \in ps
    <3>1. <<new[q], q>> \in candidates' /\ <<new[q], q>>[2] = q
      BY <2>1, <2>2 DEF Move
    <3>. QED BY <3>1 DEF HasEntry
  <2>3. CASE q \notin ps
    <3>1. PICK x \in candidates : x[2] = q
      BY <2>1 DEF IndexedHasEntry, HasEntry
    <3>2. x \notin {<<old[p], p>> : p \in ps \cap inCandidates}
      BY <2>3, <3>1
    <3>. QED BY <3>1, <3>2 DEF Move, HasEntry
  <2>. QED BY <2>2, <2>3
<1>. QED BY <1>1 DEF Move, IndexedHasEntry

(* Appending a well-formed event to the channel, or taking one from it. *)
LEMMA SendKeeps ==
  ASSUME TypeOK, NEW e \in Events, Send(e)
  PROVE  (events \in Seq(Events))'
BY DEF TypeOK, Send

LEMMA TakeKeeps ==
  ASSUME TypeOK, NEW type, Take(type)
  PROVE  /\ Head(events) \in Events
         /\ (events \in Seq(Events))'
BY DEF TypeOK, Take

LEMMA InitInv == Init => IndexInv
<1>. SUFFICES ASSUME Init PROVE IndexInv
  OBVIOUS
<1>1. TypeOK
  <2>1. /\ avail \in [Pieces -> Nat] /\ candidates \subseteq Nat \X Pieces
        /\ inCandidates \subseteq Pieces /\ have \subseteq Pieces /\ active \subseteq Pieces
        /\ events \in Seq(Events) /\ drifted \in BOOLEAN
    <3>1. avail \in [Pieces -> Nat] /\ have \subseteq Pieces /\ active \subseteq Pieces
      BY DEF Init
    <3>2. candidates \subseteq Nat \X Pieces /\ inCandidates \subseteq Pieces
      BY DEF Init
    <3>3. events = <<>> /\ drifted = FALSE
      BY DEF Init
    <3>4. <<>> \in Seq(Events)
      OBVIOUS
    <3>. QED BY <3>1, <3>2, <3>3, <3>4
  <2>. QED BY <2>1, NoneYetIsPiece DEF Init, TypeOK, Steps
<1>2. ASSUME NEW p \in Pieces PROVE HasEntry(p)
  <2>1. <<0, p>> \in candidates /\ <<0, p>>[2] = p
    BY DEF Init
  <2>. QED BY <2>1 DEF HasEntry
<1>. QED BY <1>1, <1>2 DEF IndexInv, Init, MissingIsCandidate, IndexedHasEntry, MarkedIsOwned

(* MissingIsCandidate is what IndexedHasEntry says of the pieces we miss,   *)
(* so a step only has to keep those in the index.                          *)
LEMMA MissingFromIndex ==
  ASSUME IndexedHasEntry', (Pieces \ have \subseteq inCandidates)'
  PROVE  MissingIsCandidate'
BY DEF IndexedHasEntry, MissingIsCandidate

(* Every step keeps it. *)
LEMMA NextInv == IndexInv /\ [Next]_vars => IndexInv'
<1>. SUFFICES ASSUME IndexInv, [Next]_vars PROVE IndexInv'
  OBVIOUS
<1>. USE DEF IndexInv, link
<1>m. Pieces \ have \subseteq inCandidates
  BY DEF MissingIsCandidate
<1>1. ASSUME NEW c \in Conns, NEW p \in Pieces, ReceiveHave(c, p) PROVE IndexInv'
  <2>1. TypeOK'
    BY <1>1 DEF ReceiveHave, TypeOK, Goto, Incremented, Steps, pieces, table
  <2>. QED BY <1>1, <2>1 DEF ReceiveHave, Goto, pieces, TypeOK,
          MissingIsCandidate, IndexedHasEntry, HasEntry, MarkedIsOwned
<1>2. ASSUME NEW c \in Conns, MoveIncremented(c) PROVE IndexInv'
  <2>. DEFINE p == arg[c]
              old == [q \in {p} |-> seen[c]]
              new == [q \in {p} |-> seen[c] + 1]
  <2>1. p \in Pieces /\ seen[c] \in Nat /\ addr[c] \in Addrs
    BY DEF TypeOK
  <2>2. /\ IndexedHasEntry' /\ inCandidates = inCandidates'
        /\ (candidates \subseteq Nat \X Pieces)' /\ (inCandidates \subseteq Pieces)'
    <3>1. Move({p}, old, new) /\ \A q \in {p} : old[q] \in Nat /\ new[q] \in Nat
      BY <1>2, <2>1 DEF MoveIncremented
    <3>. HIDE DEF old, new
    <3>. QED BY <2>1, <3>1, MoveKeeps, {p} \in SUBSET Pieces DEF TypeOK
  <2>3. (events \in Seq(Events))'
    <3>. DEFINE e == [type |-> "Have", addr |-> addr[c], ps |-> {p}]
    <3>1. e \in Events /\ Send(e)
      BY <1>2, <2>1 DEF Events, MoveIncremented
    <3>. HIDE DEF e
    <3>. QED BY <3>1, SendKeeps
  <2>4. TypeOK'
    BY <1>2, <2>2, <2>3, NoneYetIsPiece
       DEF MoveIncremented, Leave, Goto, TypeOK, Steps, pieces, table
  <2>. QED BY <1>m, <1>2, <2>2, <2>4, MissingFromIndex
          DEF MoveIncremented, Leave, Goto, pieces, TypeOK, MarkedIsOwned
<1>3. ASSUME NEW c \in Conns, NEW p \in Pieces, MarkComplete(c, p) PROVE IndexInv'
  <2>1. TypeOK'
    BY <1>3 DEF MarkComplete, TypeOK, Goto, Steps, index, table
  <2>. QED BY <1>3, <2>1 DEF MarkComplete, Goto, index, TypeOK,
          MissingIsCandidate, IndexedHasEntry, HasEntry, MarkedIsOwned
<1>4. ASSUME NEW c \in Conns, RemoveMarked(c) PROVE IndexInv'
  <2>1. arg[c] \in Pieces /\ seen[c] \in Nat /\ addr[c] \in Addrs /\ arg[c] \in have
    BY <1>4 DEF TypeOK, MarkedIsOwned, RemoveMarked
  <2>2. /\ IndexedHasEntry' /\ inCandidates \ {arg[c]} = inCandidates'
        /\ (candidates \subseteq Nat \X Pieces)' /\ (inCandidates \subseteq Pieces)'
    BY <1>4, <2>1, RemoveKeeps DEF RemoveMarked, TypeOK
  <2>3. (events \in Seq(Events))'
    <3>. DEFINE e == [type |-> "PieceCompleted", addr |-> addr[c], ps |-> {arg[c]}]
    <3>1. e \in Events /\ Send(e)
      BY <1>4, <2>1 DEF Events, RemoveMarked
    <3>. HIDE DEF e
    <3>. QED BY <3>1, SendKeeps
  <2>4. TypeOK'
    BY <1>4, <2>2, <2>3, NoneYetIsPiece
       DEF RemoveMarked, Leave, Goto, TypeOK, Steps, pieces, table
  <2>. QED BY <1>m, <1>4, <2>1, <2>2, <2>4, MissingFromIndex
          DEF RemoveMarked, Leave, Goto, pieces, TypeOK, MarkedIsOwned
<1>5. ASSUME NEW c \in Conns, NEW p \in Pieces, MarkFailed(c, p) PROVE IndexInv'
  <2>1. TypeOK'
    BY <1>5 DEF MarkFailed, TypeOK, Goto, Steps, index, table
  <2>. QED BY <1>5, <2>1 DEF MarkFailed, Goto, index, TypeOK,
          MissingIsCandidate, IndexedHasEntry, HasEntry, MarkedIsOwned
<1>6. ASSUME NEW c \in Conns, AddFailed(c) PROVE IndexInv'
  <2>1. arg[c] \in Pieces /\ seen[c] \in Nat
    BY DEF TypeOK
  <2>2. /\ IndexedHasEntry' /\ inCandidates \subseteq inCandidates'
        /\ (candidates \subseteq Nat \X Pieces)' /\ (inCandidates \subseteq Pieces)'
    BY <1>6, <2>1, AddKeeps DEF AddFailed, TypeOK
  <2>3. TypeOK'
    BY <1>6, <2>2, NoneYetIsPiece DEF AddFailed, Leave, Goto, TypeOK, Steps, pieces, table
  <2>. QED BY <1>m, <1>6, <2>2, <2>3, MissingFromIndex
          DEF AddFailed, Leave, Goto, pieces, TypeOK, MarkedIsOwned
<1>7. ASSUME NEW c \in Conns, ChooseMode(c) \/ PickPiece(c) \/ StartPiece(c) PROVE IndexInv'
  <2>1. ASSUME PickPiece(c), NEW ps, NEW q \in Picks(pc[c], ps) PROVE q \in Pieces
    <3>1. PICK x \in candidates : q = x[2]
      BY ONLY <2>1 DEF Picks, Eligible
    <3>2. x \in Nat \X Pieces
      BY <3>1 DEF TypeOK
    <3>. QED BY ONLY <3>1, <3>2
  <2>2. TypeOK'
    <3>1. CASE ChooseMode(c)
      BY <3>1, NoneYetIsPiece DEF ChooseMode, Goto, TypeOK, Steps, index, pieces, table
    <3>2. CASE PickPiece(c)
      <4>1. PICK s \in Steps, q \in Pieces : Goto(c, s, q, 0)
        <5>1. PICK wanted \in SUBSET Pieces :
                 \/ \E q \in Picks(pc[c], Owned(c) \cap wanted) : Goto(c, "picked", q, 0)
                 \/ \E q \in Helped(Owned(c) \cap wanted) : Goto(c, "picked", q, 0)
                 \/ Leave(c)
          BY <3>2 DEF PickPiece
        <5>2. /\ Helped(Owned(c) \cap wanted) \subseteq Pieces
              /\ Picks(pc[c], Owned(c) \cap wanted) \subseteq Pieces
              /\ "picked" \in Steps /\ "idle" \in Steps
          BY <2>1, <3>2 DEF Helped, Steps, TypeOK
        <5>. QED BY <5>1, <5>2, NoneYetIsPiece DEF Leave
      <4>. QED BY <3>2, <4>1 DEF PickPiece, Goto, TypeOK, index, pieces, table
    <3>3. CASE StartPiece(c)
      BY <3>3, NoneYetIsPiece DEF StartPiece, Leave, Goto, TypeOK, Steps, index, table
    <3>. QED BY <1>7, <3>1, <3>2, <3>3
  <2>3. UNCHANGED <<index, have>> /\ \A d \in Conns : pc'[d] = "marked" =>
                                         pc[d] = "marked" /\ arg'[d] = arg[d]
    BY <1>7 DEF ChooseMode, PickPiece, StartPiece, Leave, Goto, pieces, TypeOK
  <2>. QED BY <2>2, <2>3 DEF index, MissingIsCandidate, IndexedHasEntry, HasEntry, MarkedIsOwned
<1>8. ASSUME NEW c \in Conns,
             \/ Disconnect(c)
             \/ \E a \in Addrs : Connect(c, a)
             \/ \E ps \in SUBSET Pieces : ReceiveBitfield(c, ps)
      PROVE  IndexInv'
  <2>1. addr[c] \in Addrs
    BY DEF TypeOK
  <2>2. (events \in Seq(Events))'
    <3>1. PICK e \in Events : Send(e)
      BY <1>8, <2>1 DEF Connect, Disconnect, ReceiveBitfield, Events
    <3>. QED BY <3>1, SendKeeps
  <2>3. TypeOK'
    <3>1. CASE \E a \in Addrs : Connect(c, a)
      BY <2>2, <3>1 DEF Connect, TypeOK, index, pieces, locals
    <3>2. CASE Disconnect(c)
      BY <2>2, <3>2 DEF Disconnect, TypeOK, index, pieces, locals, table
    <3>3. CASE \E ps \in SUBSET Pieces : ReceiveBitfield(c, ps)
      BY <2>2, <3>3 DEF ReceiveBitfield, TypeOK, index, pieces, locals, table
    <3>. QED BY <1>8, <3>1, <3>2, <3>3
  <2>. QED BY <1>8, <2>3 DEF Connect, Disconnect, ReceiveBitfield, index, pieces, locals,
          MissingIsCandidate, IndexedHasEntry, HasEntry, MarkedIsOwned
<1>9. ASSUME EventProcessor PROVE IndexInv'
  <2>. DEFINE e == Head(events)
  <2>1. /\ e.addr \in Addrs /\ e.ps \in SUBSET Pieces
        /\ (events \in Seq(Events))'
        /\ UNCHANGED <<locals, link, drifted>>
        /\ AllIdle
    <3>1. PICK type : Take(type)
      BY <1>9 DEF EventProcessor, OnConnected, OnPeerBitfield, OnPeerHave,
                  OnDisconnected, OnPieceCompleted
    <3>2. e \in Events /\ (events \in Seq(Events))'
      BY <3>1, TakeKeeps
    <3>. QED BY <3>1, <3>2 DEF Take, Events
  <2>2. MarkedIsOwned'
    BY <2>1 DEF locals, AllIdle, MarkedIsOwned
  <2>3. CASE OnConnected \/ OnPeerHave
    <3>1. TypeOK'
      <4>1. /\ connecting' \subseteq Addrs /\ registered' \subseteq Addrs
            /\ stored' \in [Addrs -> SUBSET Pieces]
        <5>. DEFINE a == e.addr
                    ps == e.ps
        <5>1. a \in Addrs /\ ps \in SUBSET Pieces
          BY <2>1
        <5>2. \/ /\ connecting' = connecting \ {a}
                 /\ registered' = registered \cup {a}
                 /\ stored' = [stored EXCEPT ![a] = {}]
              \/ /\ UNCHANGED <<connecting, registered>>
                 /\ \/ stored' = [stored EXCEPT ![a] = @ \cup ps]
                    \/ UNCHANGED stored
          BY <2>3 DEF OnConnected, OnPeerHave
        <5>. HIDE DEF a, ps
        <5>3. stored \in [Addrs -> SUBSET Pieces] /\ connecting \subseteq Addrs
              /\ registered \subseteq Addrs
          BY DEF TypeOK
        <5>. QED BY <5>1, <5>2, <5>3
      <4>2. UNCHANGED <<index, pieces>>
        BY <2>3 DEF OnConnected, OnPeerHave
      <4>. QED BY <2>1, <4>1, <4>2 DEF TypeOK, index, pieces, locals
    <3>. QED BY <2>2, <2>3, <3>1 DEF OnConnected, OnPeerHave, index, pieces,
            MissingIsCandidate, IndexedHasEntry, HasEntry
  <2>4. CASE OnPeerBitfield
    <3>1. avail' \in [Pieces -> Nat]
      BY <2>4 DEF OnPeerBitfield, Incremented, TypeOK
    <3>2. /\ IndexedHasEntry' /\ inCandidates = inCandidates'
          /\ (candidates \subseteq Nat \X Pieces)' /\ (inCandidates \subseteq Pieces)'
      <4>1. PICK ps \in SUBSET Pieces : Move(ps, avail, avail')
        BY <2>1, <2>4 DEF OnPeerBitfield
      <4>2. /\ \A p \in ps : avail[p] \in Nat /\ avail'[p] \in Nat
            /\ IndexedHasEntry
            /\ candidates \subseteq Nat \X Pieces /\ inCandidates \subseteq Pieces
        BY <3>1 DEF TypeOK
      <4>. QED BY <4>1, <4>2, MoveKeeps
    <3>3. TypeOK'
      BY <2>1, <2>4, <3>1, <3>2 DEF OnPeerBitfield, TypeOK, pieces, locals
    <3>. QED BY <1>m, <2>2, <2>4, <3>2, <3>3, MissingFromIndex DEF OnPeerBitfield, pieces
  <2>5. CASE OnDisconnected
    <3>1. /\ IndexedHasEntry' /\ inCandidates = inCandidates' /\ avail' \in [Pieces -> Nat]
          /\ (candidates \subseteq Nat \X Pieces)' /\ (inCandidates \subseteq Pieces)'
      <4>1. CASE e.addr \in registered
        <5>1. avail' \in [Pieces -> Nat]
          BY <2>5, <4>1 DEF OnDisconnected, Decremented, TypeOK
        <5>2. PICK ps \in SUBSET Pieces : Move(ps, avail, avail')
          BY <2>1, <2>5, <4>1 DEF OnDisconnected, TypeOK
        <5>3. \A p \in ps : avail[p] \in Nat /\ avail'[p] \in Nat
          BY <5>1 DEF TypeOK
        <5>. QED BY <5>1, <5>2, <5>3, MoveKeeps DEF TypeOK
      <4>2. CASE e.addr \notin registered
        BY <2>5, <4>2 DEF OnDisconnected, index, TypeOK, IndexedHasEntry, HasEntry
      <4>. QED BY <4>1, <4>2
    <3>2. TypeOK'
      BY <2>1, <2>5, <3>1 DEF OnDisconnected, TypeOK, pieces, locals
    <3>. QED BY <1>m, <2>2, <2>5, <3>1, <3>2, MissingFromIndex DEF OnDisconnected, pieces
  <2>6. CASE OnPieceCompleted
    <3>1. PICK p \in e.ps : Remove(p, avail[p])
      BY <2>6 DEF OnPieceCompleted
    <3>2. /\ IndexedHasEntry' /\ inCandidates \ {p} = inCandidates'
          /\ (candidates \subseteq Nat \X Pieces)' /\ (inCandidates \subseteq Pieces)'
      BY <2>1, <3>1, RemoveKeeps DEF TypeOK
    <3>3. TypeOK'
      BY <2>1, <2>6, <3>2 DEF OnPieceCompleted, TypeOK, table, locals
    <3>. QED BY <1>m, <2>2, <2>6, <3>2, <3>3, MissingFromIndex DEF OnPieceCompleted
  <2>. QED BY <1>9, <2>3, <2>4, <2>5, <2>6 DEF EventProcessor
<1>10. ASSUME ClearPeers \/ \E ps \in SUBSET Pieces : CleanupStale(ps) PROVE IndexInv'
  <2>1. TypeOK'
    BY <1>10 DEF ClearPeers, CleanupStale, TypeOK, index, pieces, locals, table
  <2>. QED BY <1>10, <2>1 DEF ClearPeers, CleanupStale, index, pieces, locals,
          MissingIsCandidate, IndexedHasEntry, HasEntry, MarkedIsOwned
<1>11. CASE UNCHANGED vars
  BY <1>11 DEF vars, index, pieces, locals, table, TypeOK,
               MissingIsCandidate, IndexedHasEntry, HasEntry, MarkedIsOwned
<1>. QED
  BY <1>1, <1>2, <1>3, <1>4, <1>5, <1>6, <1>7, <1>8, <1>9, <1>10, <1>11 DEF Next, PeerTask

(* The inductive invariant: an indexed piece has an entry, and a piece     *)
(* loses it only after its bit is set.                                     *)
THEOREM AvailabilityInvariant == Spec => []IndexInv
BY InitInv, NextInv, PTL DEF Spec

(* A piece we do not own is never lost from the picker's candidates.       *)
THEOREM NoPieceLost == Spec => []MissingIsCandidate
<1>1. IndexInv => MissingIsCandidate
  BY DEF IndexInv
<1>. QED BY <1>1, AvailabilityInvariant, PTL

(* Every variable of the index keeps its type. *)
THEOREM TypeCorrect == Spec => []TypeOK
<1>1. IndexInv => TypeOK
  BY DEF IndexInv
<1>. QED BY <1>1, AvailabilityInvariant, PTL

(* ------------------------- the counters of pieces ---------------------- *)

(* What counts for a piece: the registered peers that own it, the Haves in *)
(* the channel and those a task has counted and not yet sent.              *)
Haves(p) == {i \in DOMAIN events : events[i].type = "Have" /\ p \in events[i].ps}
Counted(p) == {c \in Conns : pc[c] = "incremented" /\ arg[c] = p}
Due(p) == Cardinality(Owners(p)) + Cardinality(Haves(p)) + Cardinality(Counted(p))

Live(c) == conn[c] # "closed"
(* The events that a connection to an address has sent about itself.       *)
Of(a) == {i \in DOMAIN events : events[i].addr = a /\ events[i].type # "PieceCompleted"}
Announced(a, n) ==
    a \in registered \/ \E i \in Of(a) : i < n /\ events[i].type = "Connected"

PlainEvents ==
    \A i \in DOMAIN events : events[i].type \in {"Connected", "Disconnected"} => events[i].ps = {}
StoredOfPeers == \A a \in Addrs \ registered : stored[a] = {}

(* Of one address: Connected comes first and Disconnected last, the        *)
(* bitfield before anything is owned, and nothing is told twice (else the  *)
(* counters have drifted).                                                 *)
InOrder ==
    \A a \in Addrs : \A i, j \in Of(a) : i < j =>
        /\ events[j].type # "Connected" /\ events[i].type # "Disconnected"
        /\ events[i].ps \cap events[j].ps = {}
        /\ events[j].type = "PeerBitfield" => events[i].ps = {}
EventsFit ==
    \A a \in Addrs : \A i \in Of(a) :
        /\ IF events[i].type = "Connected" THEN a \in connecting \ registered
           ELSE Announced(a, i)
        /\ events[i].ps \cap stored[a] = {}
        /\ events[i].type = "PeerBitfield" => stored[a] = {}
        /\ events[i].type = "Disconnected" => \A c \in Conns : Live(c) => addr[c] # a
TaskFits(c) ==
    /\ Announced(addr[c], Len(events) + 1)
    /\ stored[addr[c]] \subseteq remote[c]
    /\ \A i \in Of(addr[c]) : events[i].ps \subseteq remote[c]
    /\ conn[c] = "fresh" => remote[c] = {}
    /\ \A d \in Conns : Live(d) /\ addr[d] = addr[c] => d = c
TasksFit == \A c \in Conns : Live(c) => TaskFits(c)
HaveIsNew ==
    \A c \in Conns : pc[c] = "incremented" =>
        /\ conn[c] = "open" /\ arg[c] \in remote[c] /\ arg[c] \notin stored[addr[c]]
        /\ \A i \in Of(addr[c]) : arg[c] \notin events[i].ps
Orderly == InOrder /\ EventsFit /\ TasksFit /\ HaveIsNew

CountInv ==
    /\ PlainEvents /\ StoredOfPeers
    /\ \A p \in Pieces : avail[p] >= Due(p)
    /\ ~drifted => Orderly /\ \A p \in Pieces : avail[p] = Due(p)

(* The sizes of sets that gain or lose an element.                         *)
LEMMA Sized ==
  ASSUME NEW S, IsFiniteSet(S)
  PROVE  /\ Cardinality(S) \in Nat
         /\ \A x : /\ IsFiniteSet(S \cup {x}) /\ IsFiniteSet(S \ {x})
                   /\ Cardinality(S \cup {x}) =
                          IF x \in S THEN Cardinality(S) ELSE Cardinality(S) + 1
                   /\ Cardinality(S \ {x}) =
                          IF x \in S THEN Cardinality(S) - 1 ELSE Cardinality(S)
         /\ \A T \in SUBSET S : IsFiniteSet(T) /\ Cardinality(T) \in Nat
                                /\ Cardinality(T) <= Cardinality(S)
<1>1. Cardinality(S) \in Nat
  BY FS_CardinalityType
<1>2. ASSUME NEW x
      PROVE  /\ IsFiniteSet(S \cup {x}) /\ IsFiniteSet(S \ {x})
             /\ Cardinality(S \cup {x}) =
                    IF x \in S THEN Cardinality(S) ELSE Cardinality(S) + 1
             /\ Cardinality(S \ {x}) =
                    IF x \in S THEN Cardinality(S) - 1 ELSE Cardinality(S)
  BY FS_AddElement, FS_RemoveElement
<1>3. ASSUME NEW T \in SUBSET S
      PROVE  IsFiniteSet(T) /\ Cardinality(T) \in Nat /\ Cardinality(T) <= Cardinality(S)
  BY FS_Subset, FS_CardinalityType
<1>. QED BY <1>1, <1>2, <1>3

(* What is counted of a piece is finite; primed, below.                    *)
LEMMA DueTyped ==
  ASSUME TypeOK, NEW p \in Pieces
  PROVE  /\ IsFiniteSet(Owners(p)) /\ IsFiniteSet(Haves(p)) /\ IsFiniteSet(Counted(p))
         /\ Cardinality(Owners(p)) \in Nat /\ Cardinality(Haves(p)) \in Nat
         /\ Cardinality(Counted(p)) \in Nat
<1>1. Owners(p) \subseteq Addrs /\ Counted(p) \subseteq Conns
  BY DEF TypeOK, Owners, Counted
<1>2. Haves(p) \subseteq 1 .. Len(events) /\ IsFiniteSet(1 .. Len(events))
  <2>1. 1 \in Int /\ Len(events) \in Int /\ DOMAIN events = 1 .. Len(events)
    BY DEF TypeOK
  <2>. QED BY <2>1, FS_Interval DEF Haves
<1>3. IsFiniteSet(Owners(p)) /\ IsFiniteSet(Haves(p)) /\ IsFiniteSet(Counted(p))
  BY <1>1, <1>2, AddrsAssumption, ConnsAssumption, FS_Subset
<1>. QED BY <1>3, FS_CardinalityType

LEMMA DueTypedNext ==
  ASSUME TypeOK', NEW p \in Pieces
  PROVE  /\ IsFiniteSet(Owners(p)') /\ IsFiniteSet(Haves(p)') /\ IsFiniteSet(Counted(p)')
         /\ Cardinality(Owners(p)') \in Nat /\ Cardinality(Haves(p)') \in Nat
         /\ Cardinality(Counted(p)') \in Nat
<1>1. Owners(p)' \subseteq Addrs /\ Counted(p)' \subseteq Conns
  BY DEF TypeOK, Owners, Counted
<1>2. Haves(p)' \subseteq 1 .. Len(events') /\ IsFiniteSet(1 .. Len(events'))
  <2>1. 1 \in Int /\ Len(events') \in Int /\ DOMAIN events' = 1 .. Len(events')
    BY DEF TypeOK
  <2>. QED BY <2>1, FS_Interval DEF Haves
<1>3. IsFiniteSet(Owners(p)') /\ IsFiniteSet(Haves(p)') /\ IsFiniteSet(Counted(p)')
  BY <1>1, <1>2, AddrsAssumption, ConnsAssumption, FS_Subset
<1>. QED BY <1>3, FS_CardinalityType

(* The channel after an event was sent, and after one was taken.           *)
LEMMA AfterSend ==
  ASSUME TypeOK, NEW e \in Events, Send(e)
  PROVE  /\ Len(events) \in Nat /\ DOMAIN events = 1 .. Len(events)
         /\ Len(events') = Len(events) + 1 /\ DOMAIN events' = 1 .. Len(events) + 1
         /\ DOMAIN events' = DOMAIN events \cup {Len(events) + 1}
         /\ Len(events) + 1 \notin DOMAIN events
         /\ \A i \in DOMAIN events : events'[i] = events[i] /\ i < Len(events) + 1
         /\ events'[Len(events) + 1] = e
<1>1. events \in Seq(Events) /\ events' = Append(events, e)
  BY DEF TypeOK, Send
<1>2. /\ Len(events) \in Nat /\ DOMAIN events = 1 .. Len(events)
      /\ Len(events') = Len(events) + 1
  BY <1>1
<1>3. /\ DOMAIN events' = 1 .. Len(events) + 1
      /\ \A i \in 1 .. Len(events) : events'[i] = events[i]
      /\ events'[Len(events) + 1] = e
  BY <1>1, <1>2
<1>. QED BY <1>2, <1>3

(* What taking an event leaves of the channel: the rest, one place         *)
(* earlier.                                                                *)
LEMMA AfterTake ==
  ASSUME TypeOK, events # <<>>, events' = Tail(events)
  PROVE  /\ Len(events) \in Nat \ {0} /\ DOMAIN events = 1 .. Len(events)
         /\ 1 \in DOMAIN events /\ Head(events) = events[1]
         /\ Len(events') = Len(events) - 1 /\ DOMAIN events' = 1 .. Len(events) - 1
         /\ \A i \in DOMAIN events' : /\ i + 1 \in DOMAIN events /\ events'[i] = events[i + 1]
                                      /\ i \in Nat /\ i + 1 > 1
         /\ \A i \in DOMAIN events \ {1} : i - 1 \in DOMAIN events' /\ events'[i - 1] = events[i]
<1>1. events \in Seq(Events) /\ events # <<>>
  BY DEF TypeOK
<1>2. /\ Len(events) \in Nat \ {0} /\ DOMAIN events = 1 .. Len(events)
      /\ Len(events') = Len(events) - 1 /\ Head(events) = events[1]
  BY <1>1
<1>3. DOMAIN events' = 1 .. Len(events) - 1
      /\ \A i \in 1 .. Len(events) - 1 : events'[i] = events[i + 1]
  BY <1>1, <1>2
<1>4. \A i \in DOMAIN events \ {1} :
          i - 1 \in 1 .. Len(events) - 1 /\ events'[i - 1] = events[i]
  <2>1. SUFFICES ASSUME NEW i \in DOMAIN events \ {1}
                 PROVE  i - 1 \in 1 .. Len(events) - 1 /\ events'[i - 1] = events[i]
    OBVIOUS
  <2>2. i - 1 \in 1 .. Len(events) - 1 /\ (i - 1) + 1 = i
    BY <1>2
  <2>. QED BY <1>3, <2>2
<1>. QED BY <1>2, <1>3, <1>4

(* A Have that is sent is in the channel, and one that is taken no more.   *)
LEMMA HavesSent ==
  ASSUME TypeOK, NEW e \in Events, Send(e), NEW p \in Pieces
  PROVE  Cardinality(Haves(p)') = IF e.type = "Have" /\ p \in e.ps
                                  THEN Cardinality(Haves(p)) + 1 ELSE Cardinality(Haves(p))
<1>1. Haves(p)' = IF e.type = "Have" /\ p \in e.ps
                  THEN Haves(p) \cup {Len(events) + 1} ELSE Haves(p)
  BY AfterSend DEF Haves
<1>2. Len(events) + 1 \notin Haves(p)
  BY AfterSend DEF Haves
<1>3. IsFiniteSet(Haves(p))
  BY DueTyped
<1>. QED BY <1>1, <1>2, <1>3, Sized

(* A Have that is taken is one Have less in the channel, of its pieces.    *)
LEMMA HavesTaken ==
  ASSUME TypeOK, TypeOK', events # <<>>, events' = Tail(events), NEW p \in Pieces
  PROVE  Cardinality(Haves(p)') =
             IF Head(events).type = "Have" /\ p \in Head(events).ps
             THEN Cardinality(Haves(p)) - 1 ELSE Cardinality(Haves(p))
<1>. DEFINE S == Haves(p) \ {1}
            f == [i \in S |-> i - 1]
<1>1. \A i \in S : i \in DOMAIN events \ {1} /\ i \in Nat /\ i - 1 \in Haves(p)'
  BY AfterTake DEF Haves
<1>2. \A j \in Haves(p)' : j \in Nat /\ j + 1 \in S
  BY AfterTake DEF Haves
<1>3. f \in Injection(S, Haves(p)')
  BY <1>1 DEF Injection, IsInjective
<1>4. f \in Surjection(S, Haves(p)')
  <2>1. f \in [S -> Haves(p)']
    BY <1>1
  <2>2. ASSUME NEW j \in Haves(p)' PROVE \E i \in S : f[i] = j
    <3>1. j + 1 \in S /\ (j + 1) - 1 = j
      BY <1>2
    <3>. QED BY <3>1
  <2>. QED BY <2>1, <2>2 DEF Surjection
<1>5. IsFiniteSet(Haves(p)) /\ IsFiniteSet(Haves(p)')
  BY DueTyped, DueTypedNext
<1>6. IsFiniteSet(S)
  BY <1>5, Sized
<1>7. Cardinality(Haves(p)') = Cardinality(S)
  <2>. HIDE DEF S, f
  <2>1. ExistsBijection(S, Haves(p)')
    BY <1>3, <1>4 DEF ExistsBijection, Bijection
  <2>. QED BY <2>1, <1>5, <1>6, FS_Bijection
<1>8. 1 \in Haves(p) <=> Head(events).type = "Have" /\ p \in Head(events).ps
  BY AfterTake DEF Haves
<1>9. Cardinality(S) = IF 1 \in Haves(p) THEN Cardinality(Haves(p)) - 1
                       ELSE Cardinality(Haves(p))
  BY <1>5, Sized
<1>. QED BY <1>7, <1>8, <1>9

(* Only the peers, the channel and the tasks that count a Have matter.     *)
CalmStep ==
    /\ UNCHANGED <<avail, link, table, events, drifted>>
    /\ \A c \in Conns : /\ pc'[c] = "incremented" <=> pc[c] = "incremented"
                        /\ pc[c] = "incremented" => arg'[c] = arg[c]

(* A step that touches no counter, owner or Have leaves the counts alone.  *)
LEMMA CalmKeeps ==
  ASSUME CountInv, CalmStep
  PROVE  CountInv'
<1>. USE DEF link, table
<1>1. UNCHANGED <<avail, conn, addr, remote, connecting, registered, stored, events, drifted>>
  BY DEF CalmStep
<1>2. \A p \in Pieces : Due(p)' = Due(p)
  <2>1. SUFFICES ASSUME NEW p \in Pieces PROVE Due(p)' = Due(p)
    OBVIOUS
  <2>2. Owners(p)' = Owners(p) /\ Haves(p)' = Haves(p)
    BY <1>1 DEF Owners, Haves
  <2>3. Counted(p)' = Counted(p)
    BY DEF CalmStep, Counted
  <2>. QED BY <2>2, <2>3 DEF Due
<1>3. PlainEvents' /\ StoredOfPeers'
  BY <1>1 DEF CountInv, PlainEvents, StoredOfPeers
<1>4. \A a : Of(a)' = Of(a)
  BY <1>1 DEF Of
<1>5. \A a, n : Announced(a, n)' = Announced(a, n)
  BY <1>1, <1>4 DEF Announced
<1>6. InOrder => InOrder'
  BY <1>1, <1>4 DEF InOrder
<1>7. EventsFit => EventsFit'
  BY <1>1, <1>4, <1>5 DEF EventsFit, Live
<1>8. TasksFit => TasksFit'
  BY <1>1, <1>4, <1>5 DEF TasksFit, TaskFits, Live
<1>9. HaveIsNew => HaveIsNew'
  BY <1>1, <1>4 DEF CalmStep, HaveIsNew
<1>. QED BY <1>1, <1>2, <1>3, <1>6, <1>7, <1>8, <1>9 DEF CountInv, Orderly

(* What is counted follows what is due.                                    *)
LEMMA CountKeeps ==
  ASSUME TypeOK, TypeOK', CountInv, drifted => drifted',
         \A p \in Pieces : avail'[p] - avail[p] >= Due(p)' - Due(p),
         ~drifted' => \A p \in Pieces : avail'[p] - avail[p] = Due(p)' - Due(p)
  PROVE  /\ \A p \in Pieces : avail'[p] >= Due(p)'
         /\ ~drifted' => \A p \in Pieces : avail'[p] = Due(p)'
<1>1. \A p \in Pieces : /\ avail[p] \in Int /\ avail'[p] \in Int
                        /\ Due(p) \in Int /\ Due(p)' \in Int
  <2>1. SUFFICES ASSUME NEW p \in Pieces
                 PROVE  /\ avail[p] \in Int /\ avail'[p] \in Int
                        /\ Due(p) \in Int /\ Due(p)' \in Int
    OBVIOUS
  <2>2. avail[p] \in Int /\ avail'[p] \in Int
    BY DEF TypeOK
  <2>3. Due(p) \in Int
    BY DueTyped DEF Due
  <2>4. Due(p)' \in Int
    BY DueTypedNext DEF Due
  <2>. QED BY <2>2, <2>3, <2>4
<1>2. \A p \in Pieces : avail'[p] >= Due(p)'
  <2>1. \A p \in Pieces : avail[p] >= Due(p)
    BY DEF CountInv
  <2>. QED BY <1>1, <2>1
<1>3. ASSUME ~drifted' PROVE \A p \in Pieces : avail'[p] = Due(p)'
  <2>1. \A p \in Pieces : avail[p] = Due(p)
    BY <1>3 DEF CountInv
  <2>. QED BY <1>1, <1>3, <2>1
<1>. QED BY <1>2, <1>3

(* Events that are sent.                                                   *)
LEMMA OfSent ==
  ASSUME TypeOK, NEW e \in Events, Send(e)
  PROVE  /\ \A a : Of(a)' = IF e.addr = a /\ e.type # "PieceCompleted"
                            THEN Of(a) \cup {Len(events) + 1} ELSE Of(a)
         /\ \A a : \A i \in Of(a) : /\ i \in DOMAIN events /\ events'[i] = events[i]
                                    /\ i \in Nat /\ i < Len(events) + 1
         /\ \A a, n : Announced(a, n) /\ UNCHANGED registered => Announced(a, n)'
         /\ events'[Len(events) + 1] = e /\ Len(events) \in Nat
         /\ Len(events') = Len(events) + 1
<1>1. ASSUME NEW a
      PROVE  Of(a)' = IF e.addr = a /\ e.type # "PieceCompleted"
                      THEN Of(a) \cup {Len(events) + 1} ELSE Of(a)
  BY AfterSend DEF Of
<1>2. ASSUME NEW a, NEW i \in Of(a)
      PROVE  /\ i \in DOMAIN events /\ events'[i] = events[i]
             /\ i \in Nat /\ i < Len(events) + 1
  BY AfterSend DEF Of
<1>3. ASSUME NEW a, NEW n, Announced(a, n), UNCHANGED registered PROVE Announced(a, n)'
  <2>1. Of(a) \subseteq Of(a)'
    BY <1>1
  <2>. QED BY <1>2, <1>3, <2>1 DEF Announced
<1>. QED BY <1>1, <1>2, <1>3, AfterSend

(* An event may be sent after those of its address that it may follow.     *)
LEMMA OrderSent ==
  ASSUME TypeOK, InOrder, NEW e \in Events, Send(e),
         e.type # "PieceCompleted" => \A i \in Of(e.addr) :
             /\ e.type # "Connected" /\ events[i].type # "Disconnected"
             /\ events[i].ps \cap e.ps = {}
             /\ e.type = "PeerBitfield" => events[i].ps = {}
  PROVE  InOrder'
<1>1. SUFFICES ASSUME NEW a \in Addrs, NEW i \in Of(a)', NEW j \in Of(a)', i < j
               PROVE  /\ events'[j].type # "Connected" /\ events'[i].type # "Disconnected"
                      /\ events'[i].ps \cap events'[j].ps = {}
                      /\ events'[j].type = "PeerBitfield" => events'[i].ps = {}
  BY DEF InOrder
<1>2. i \in Of(a)
  BY <1>1, OfSent
<1>3. CASE j \in Of(a)
  BY <1>1, <1>2, <1>3, OfSent DEF InOrder
<1>4. CASE j \notin Of(a)
  <2>1. j = Len(events) + 1 /\ e.addr = a /\ e.type # "PieceCompleted"
    BY <1>4, OfSent
  <2>. QED BY <1>2, <2>1, OfSent
<1>. QED BY <1>3, <1>4

LEMMA FitSent ==
  ASSUME TypeOK, EventsFit, NEW e \in Events, Send(e),
         UNCHANGED <<registered, stored>>, connecting \subseteq connecting',
         \A c \in Conns : Live(c)' => (Live(c) /\ addr'[c] = addr[c]) \/ Of(addr'[c]) = {},
         e.type # "PieceCompleted" =>
             /\ IF e.type = "Connected" THEN e.addr \in connecting' \ registered
                ELSE Announced(e.addr, Len(events) + 1)
             /\ e.ps \cap stored[e.addr] = {}
             /\ e.type = "PeerBitfield" => stored[e.addr] = {}
             /\ e.type = "Disconnected" => \A c \in Conns : Live(c)' => addr'[c] # e.addr
  PROVE  EventsFit'
<1>1. SUFFICES ASSUME NEW a \in Addrs, NEW i \in Of(a)'
               PROVE  /\ IF events'[i].type = "Connected" THEN a \in connecting' \ registered'
                         ELSE Announced(a, i)'
                      /\ events'[i].ps \cap stored'[a] = {}
                      /\ events'[i].type = "PeerBitfield" => stored'[a] = {}
                      /\ events'[i].type = "Disconnected" =>
                             \A c \in Conns : Live(c)' => addr'[c] # a
  BY DEF EventsFit
<1>2. CASE i \in Of(a)
  <2>1. events'[i] = events[i]
    BY <1>2, OfSent
  <2>2. /\ IF events[i].type = "Connected" THEN a \in connecting \ registered
           ELSE Announced(a, i)
        /\ events[i].ps \cap stored[a] = {}
        /\ events[i].type = "PeerBitfield" => stored[a] = {}
        /\ events[i].type = "Disconnected" => \A c \in Conns : Live(c) => addr[c] # a
    BY <1>2 DEF EventsFit
  <2>3. Announced(a, i) => Announced(a, i)'
    BY OfSent
  <2>4. ASSUME events[i].type = "Disconnected", NEW c \in Conns, Live(c)' PROVE addr'[c] # a
    BY <1>2, <2>2, <2>4
  <2>. QED BY <2>1, <2>2, <2>3, <2>4
<1>3. CASE i \notin Of(a)
  <2>1. i = Len(events) + 1 /\ e.addr = a /\ e.type # "PieceCompleted" /\ events'[i] = e
    BY <1>3, OfSent
  <2>2. Announced(a, i) => Announced(a, i)'
    BY OfSent
  <2>. QED BY <2>1, <2>2
<1>. QED BY <1>2, <1>3

LEMMA PlainSent ==
  ASSUME TypeOK, PlainEvents, NEW e \in Events, Send(e),
         e.type \in {"Connected", "Disconnected"} => e.ps = {}
  PROVE  PlainEvents'
BY AfterSend DEF PlainEvents

(* An announcement before n is one before any later place.                 *)
LEMMA AnnouncedLater ==
  ASSUME NEW a, NEW m \in Nat, NEW n \in Nat, m <= n, TypeOK, Announced(a, m)
  PROVE  Announced(a, n)
<1>1. \A i \in Of(a) : i \in Nat
  BY DEF Of, TypeOK
<1>. QED BY <1>1 DEF Announced

(* What a task that lives knows of its address.                            *)
LEMMA LiveOrder ==
  ASSUME Orderly, NEW c \in Conns, Live(c), addr[c] \in Addrs
  PROVE  /\ TaskFits(c) /\ Announced(addr[c], Len(events) + 1)
         /\ \A i \in Of(addr[c]) : events[i].type # "Disconnected"
         /\ \A d \in Conns : Live(d) /\ addr[d] = addr[c] => d = c
BY DEF Orderly, EventsFit, TasksFit, TaskFits

LEMMA ReceiveHaveOrder ==
  ASSUME TypeOK, Orderly, NEW c \in Conns, NEW p \in Pieces, ReceiveHave(c, p), ~drifted'
  PROVE  Orderly'
<1>. USE DEF table
<1>1. /\ UNCHANGED <<events, addr, connecting, registered, stored>>
      /\ conn[c] # "closed" /\ p \notin remote[c] /\ pc[c] = "idle"
      /\ conn' = [conn EXCEPT ![c] = "open"]
      /\ remote' = [remote EXCEPT ![c] = @ \cup {p}]
      /\ pc' = [pc EXCEPT ![c] = "incremented"] /\ arg' = [arg EXCEPT ![c] = p]
  BY DEF ReceiveHave, Goto
<1>2. /\ \A d \in Conns : d # c => /\ conn'[d] = conn[d] /\ remote'[d] = remote[d]
                                   /\ pc'[d] = pc[d] /\ arg'[d] = arg[d]
      /\ conn'[c] = "open" /\ remote'[c] = remote[c] \cup {p}
      /\ pc'[c] = "incremented" /\ arg'[c] = p
      /\ addr[c] \in Addrs
  BY <1>1 DEF TypeOK
<1>3. \A d \in Conns : Live(d)' <=> Live(d)
  BY <1>1, <1>2 DEF Live
<1>4. (\A a : Of(a)' = Of(a)) /\ (\A a, n : Announced(a, n)' <=> Announced(a, n))
  BY <1>1 DEF Of, Announced
<1>5. InOrder'
  BY <1>1, <1>4 DEF InOrder, Orderly
<1>6. EventsFit'
  BY <1>1, <1>3, <1>4 DEF EventsFit, Orderly
<1>7. \A d \in Conns : remote[d] \subseteq remote'[d] /\ (conn'[d] = "fresh" => d # c)
  BY <1>2
<1>8. TasksFit'
  <2>1. SUFFICES ASSUME NEW d \in Conns, Live(d) PROVE TaskFits(d)'
    BY <1>3 DEF TasksFit
  <2>2. TaskFits(d)
    BY <2>1 DEF Orderly, TasksFit
  <2>. QED BY <1>1, <1>2, <1>3, <1>4, <1>7, <2>2 DEF TaskFits
<1>9. HaveIsNew'
  <2>1. SUFFICES ASSUME NEW d \in Conns, pc'[d] = "incremented"
                 PROVE  /\ conn'[d] = "open" /\ arg'[d] \in remote'[d]
                        /\ arg'[d] \notin stored'[addr'[d]]
                        /\ \A i \in Of(addr[d])' : arg'[d] \notin events'[i].ps
    BY DEF HaveIsNew
  <2>2. CASE d = c
    <3>1. TaskFits(c)
      BY <1>1 DEF Live, Orderly, TasksFit
    <3>. QED BY <1>1, <1>2, <1>4, <2>2, <3>1 DEF TaskFits
  <2>3. CASE d # c
    BY <1>1, <1>2, <1>4, <2>1, <2>3 DEF Orderly, HaveIsNew
  <2>. QED BY <2>2, <2>3
<1>. QED BY <1>5, <1>6, <1>8, <1>9 DEF Orderly

(* A task fits on when its address hears nothing new that it has not.      *)
LEMMA FitsOn ==
  ASSUME TypeOK, NEW e \in Events, Send(e), NEW d \in Conns, TaskFits(d), UNCHANGED table,
         addr'[d] = addr[d], remote'[d] = remote[d], conn'[d] = conn[d],
         e.addr = addr[d] => e.ps \subseteq remote[d],
         \A c \in Conns : Live(c)' /\ addr'[c] = addr[d] => Live(c) /\ addr[c] = addr[d]
  PROVE  TaskFits(d)'
<1>. USE DEF table
<1>1. Announced(addr[d], Len(events) + 1)'
  <2>. DEFINE n == Len(events) + 1
  <2>1. n \in Nat /\ Len(events') + 1 \in Nat /\ n <= Len(events') + 1
    BY AfterSend
  <2>2. \/ addr[d] \in registered
        \/ \E i \in Of(addr[d])' : i < n /\ events'[i].type = "Connected"
    <3>1. \A i \in Of(addr[d]) : i \in Of(addr[d])' /\ events'[i] = events[i]
      <4>1. \A a : Of(a) \subseteq Of(a)'
        BY OfSent
      <4>. QED BY <4>1, OfSent
    <3>2. Announced(addr[d], n)
      BY DEF TaskFits
    <3>. QED BY <3>1, <3>2 DEF Announced
  <2>3. \A i \in Of(addr[d])' : i \in Nat
    BY AfterSend DEF Of
  <2>. QED BY <2>1, <2>2, <2>3 DEF Announced
<1>2. stored'[addr'[d]] \subseteq remote'[d] /\ (conn'[d] = "fresh" => remote'[d] = {})
  BY DEF TaskFits
<1>3. \A i \in Of(addr[d])' : events'[i].ps \subseteq remote'[d]
  <2>1. SUFFICES ASSUME NEW i \in Of(addr[d])' PROVE events'[i].ps \subseteq remote[d]
    OBVIOUS
  <2>2. CASE i \in Of(addr[d])
    BY <2>2, OfSent DEF TaskFits
  <2>3. CASE i \notin Of(addr[d])
    BY <2>3, OfSent
  <2>. QED BY <2>2, <2>3
<1>4. \A c \in Conns : Live(c)' /\ addr'[c] = addr'[d] => c = d
  BY DEF TaskFits
<1>. QED BY <1>1, <1>2, <1>3, <1>4 DEF TaskFits

LEMMA MoveOrder ==
  ASSUME TypeOK, Orderly, NEW c \in Conns, MoveIncremented(c)
  PROVE  Orderly'
<1>. USE DEF link, table
<1>. DEFINE e == [type |-> "Have", addr |-> addr[c], ps |-> {arg[c]}]
<1>1. /\ UNCHANGED <<conn, addr, remote, connecting, registered, stored>>
      /\ pc[c] = "incremented" /\ Send(e) /\ e \in Events
      /\ pc' = [pc EXCEPT ![c] = "idle"] /\ arg' = [arg EXCEPT ![c] = NoneYet]
  BY DEF MoveIncremented, Leave, Goto, TypeOK, Events
<1>2. /\ conn[c] = "open" /\ arg[c] \in remote[c] /\ arg[c] \notin stored[addr[c]]
      /\ \A i \in Of(addr[c]) : arg[c] \notin events[i].ps
      /\ Live(c) /\ addr[c] \in Addrs
  BY <1>1 DEF Orderly, HaveIsNew, Live, TypeOK
<1>3. /\ TaskFits(c) /\ Announced(addr[c], Len(events) + 1)
      /\ \A i \in Of(addr[c]) : events[i].type # "Disconnected"
      /\ \A d \in Conns : Live(d) /\ addr[d] = addr[c] => d = c
  BY <1>2, LiveOrder
<1>4. e.type = "Have" /\ e.addr = addr[c] /\ e.ps = {arg[c]}
  OBVIOUS
<1>5. \A d \in Conns : Live(d)' <=> Live(d)
  BY <1>1 DEF Live
<1>. HIDE DEF e
<1>6. InOrder'
  BY <1>1, <1>2, <1>3, <1>4, OrderSent DEF Orderly
<1>7. EventsFit'
  BY <1>1, <1>2, <1>3, <1>4, <1>5, FitSent DEF Orderly
<1>8. TasksFit'
  <2>1. SUFFICES ASSUME NEW d \in Conns, Live(d) PROVE TaskFits(d)'
    BY <1>5 DEF TasksFit
  <2>2. TaskFits(d) /\ (addr[d] = addr[c] => d = c)
    BY <1>3, <2>1 DEF Orderly, TasksFit
  <2>. QED BY <1>1, <1>2, <1>4, <1>5, <2>2, FitsOn
<1>9. HaveIsNew'
  <2>1. SUFFICES ASSUME NEW d \in Conns, pc'[d] = "incremented"
                 PROVE  /\ conn'[d] = "open" /\ arg'[d] \in remote'[d]
                        /\ arg'[d] \notin stored'[addr'[d]]
                        /\ \A i \in Of(addr[d])' : arg'[d] \notin events'[i].ps
    BY DEF HaveIsNew
  <2>2. d # c /\ pc[d] = "incremented" /\ arg'[d] = arg[d]
    BY <1>1, <2>1 DEF TypeOK
  <2>3. addr[d] # addr[c]
    BY <1>3, <2>2 DEF Orderly, HaveIsNew, Live
  <2>4. \A i \in Of(addr[d])' : i \in Of(addr[d]) /\ events'[i] = events[i]
    <3>1. \A a : a # addr[c] => Of(a)' = Of(a)
      BY <1>1, <1>4, OfSent
    <3>2. ASSUME NEW a, a = addr[d] PROVE Of(a)' = Of(a)
      BY <2>3, <3>1, <3>2
    <3>. QED BY <1>1, <3>2, OfSent DEF Of
  <2>. QED BY <1>1, <2>2, <2>4 DEF Orderly, HaveIsNew
<1>. QED BY <1>6, <1>7, <1>8, <1>9 DEF Orderly

LEMMA RemoveOrder ==
  ASSUME TypeOK, Orderly, NEW c \in Conns, RemoveMarked(c)
  PROVE  Orderly'
<1>. USE DEF link, table
<1>. DEFINE e == [type |-> "PieceCompleted", addr |-> addr[c], ps |-> {arg[c]}]
<1>1. /\ UNCHANGED <<conn, addr, remote, connecting, registered, stored>>
      /\ pc[c] = "marked" /\ Send(e) /\ e \in Events
      /\ pc' = [pc EXCEPT ![c] = "idle"] /\ arg' = [arg EXCEPT ![c] = NoneYet]
  BY DEF RemoveMarked, Leave, Goto, TypeOK, Events
<1>2. e.type = "PieceCompleted"
  OBVIOUS
<1>3. \A d \in Conns : Live(d)' <=> Live(d)
  BY <1>1 DEF Live
<1>. HIDE DEF e
<1>4. \A a : /\ Of(a)' = Of(a) /\ \A i \in Of(a) : events'[i] = events[i]
  BY <1>1, <1>2, OfSent
<1>5. InOrder'
  BY <1>1, <1>2, OrderSent DEF Orderly
<1>6. EventsFit'
  BY <1>1, <1>2, <1>3, FitSent DEF Orderly
<1>7. TasksFit'
  <2>1. SUFFICES ASSUME NEW d \in Conns, Live(d) PROVE TaskFits(d)'
    BY <1>3 DEF TasksFit
  <2>2. TaskFits(d)
    BY <2>1 DEF Orderly, TasksFit
  <2>3. Announced(addr[d], Len(events) + 1)'
    <3>1. Of(addr[d])' = Of(addr[d])
      BY <1>1, <1>4 DEF Of
    <3>2. Len(events') = Len(events) + 1 /\ Len(events) \in Nat
      BY <1>1, OfSent
    <3>3. \A i \in Of(addr[d]) : i \in Nat /\ events'[i] = events[i]
      BY <1>1, OfSent
    <3>. QED BY <1>1, <2>2, <3>1, <3>2, <3>3 DEF TaskFits, Announced
  <2>4. \A i \in Of(addr[d])' : i \in Of(addr[d]) /\ events'[i] = events[i]
    BY <1>1, <1>4 DEF Of
  <2>. QED BY <1>1, <1>3, <2>2, <2>3, <2>4 DEF TaskFits
<1>8. HaveIsNew'
  <2>1. SUFFICES ASSUME NEW d \in Conns, pc'[d] = "incremented"
                 PROVE  /\ conn'[d] = "open" /\ arg'[d] \in remote'[d]
                        /\ arg'[d] \notin stored'[addr'[d]]
                        /\ \A i \in Of(addr[d])' : arg'[d] \notin events'[i].ps
    BY DEF HaveIsNew
  <2>2. pc[d] = "incremented" /\ arg'[d] = arg[d]
    BY <1>1, <2>1 DEF TypeOK
  <2>3. \A i \in Of(addr[d])' : i \in Of(addr[d]) /\ events'[i] = events[i]
    BY <1>1, <1>4 DEF Of
  <2>. QED BY <1>1, <2>2, <2>3 DEF Orderly, HaveIsNew
<1>. QED BY <1>5, <1>6, <1>7, <1>8 DEF Orderly

(* Nobody has to do with an address that the table does not have.          *)
LEMMA NobodyThere ==
  ASSUME TypeOK, Orderly, NEW a \in Addrs, a \notin registered \cup connecting
  PROVE  Of(a) = {} /\ \A d \in Conns : Live(d) => addr[d] # a
<1>1. ASSUME NEW i \in Of(a) PROVE FALSE
  <2>1. events[i].type # "Connected"
    BY DEF Orderly, EventsFit
  <2>2. PICK j \in Of(a) : events[j].type = "Connected"
    BY <2>1 DEF Orderly, EventsFit, Announced
  <2>. QED BY <2>2 DEF Orderly, EventsFit
<1>2. ASSUME NEW d \in Conns, Live(d), addr[d] = a PROVE FALSE
  BY <1>1, <1>2 DEF Orderly, TasksFit, TaskFits, Announced
<1>. QED BY <1>1, <1>2

LEMMA ConnectOrder ==
  ASSUME TypeOK, CountInv, Orderly, NEW c \in Conns, NEW a \in Addrs, Connect(c, a)
  PROVE  Orderly'
<1>. USE DEF locals
<1>. DEFINE e == [type |-> "Connected", addr |-> a, ps |-> {}]
<1>1. /\ UNCHANGED <<pc, arg, registered, stored>> /\ connecting' = connecting \cup {a}
      /\ conn[c] = "closed" /\ Send(e) /\ e \in Events /\ a \notin registered \cup connecting
      /\ conn' = [conn EXCEPT ![c] = "fresh"] /\ addr' = [addr EXCEPT ![c] = a]
      /\ remote' = [remote EXCEPT ![c] = {}]
      /\ \A d \in Conns : pc[d] = "idle"
  BY DEF Connect, TypeOK, Events, AllIdle
<1>2. /\ \A d \in Conns : d # c => /\ conn'[d] = conn[d] /\ remote'[d] = remote[d]
                                   /\ addr'[d] = addr[d]
      /\ conn'[c] = "fresh" /\ remote'[c] = {} /\ addr'[c] = a
      /\ stored[a] = {}
  BY <1>1 DEF TypeOK, CountInv, StoredOfPeers
<1>3. Of(a) = {} /\ \A d \in Conns : Live(d) => addr[d] # a
  BY <1>1, NobodyThere
<1>4. e.type = "Connected" /\ e.addr = a /\ e.ps = {}
  OBVIOUS
<1>5. \A d \in Conns : Live(d)' => d = c \/ Live(d)
  BY <1>2 DEF Live
<1>. HIDE DEF e
<1>6. InOrder'
  BY <1>1, <1>3, <1>4, OrderSent DEF Orderly
<1>7. EventsFit'
  <2>1. \A d \in Conns : Live(d)' => (Live(d) /\ addr'[d] = addr[d]) \/ Of(addr'[d]) = {}
    BY <1>2, <1>3, <1>5
  <2>2. connecting \subseteq connecting'
    BY <1>1
  <2>3. e.addr \in connecting' \ registered
    BY <1>1, <1>4
  <2>. QED BY <1>1, <1>4, <2>1, <2>2, <2>3, FitSent DEF Orderly
<1>8. TasksFit'
  <2>1. SUFFICES ASSUME NEW d \in Conns, Live(d)' PROVE TaskFits(d)'
    BY DEF TasksFit
  <2>2. CASE d # c
    <3>1. Live(d) /\ TaskFits(d) /\ addr[d] # a
      BY <1>3, <1>5, <2>1, <2>2 DEF Orderly, TasksFit
    <3>2. /\ Announced(addr[d], Len(events) + 1)'
          /\ Of(addr[d])' = Of(addr[d]) /\ \A i \in Of(addr[d]) : events'[i] = events[i]
      <4>0. addr'[d] = addr[d]
        BY <1>2, <2>2
      <4>1. ASSUME NEW b, b = addr[d] PROVE Of(b)' = Of(b)
        BY <1>1, <1>4, <3>1, <4>1, OfSent
      <4>2. Of(addr[d])' = Of(addr[d])
        BY <4>0, <4>1 DEF Of
      <4>3. Len(events') = Len(events) + 1 /\ Len(events) \in Nat
        BY <1>1, OfSent
      <4>4. \A i \in Of(addr[d]) : i \in Nat /\ events'[i] = events[i]
        BY <1>1, OfSent
      <4>. QED BY <1>1, <3>1, <4>0, <4>2, <4>3, <4>4 DEF TaskFits, Announced
    <3>3. \A x \in Conns : Live(x)' /\ addr'[x] = addr'[d] => x = d
      BY <1>2, <1>5, <2>2, <3>1 DEF TaskFits
    <3>4. addr'[d] = addr[d] /\ remote'[d] = remote[d] /\ conn'[d] = conn[d]
      BY <1>2, <2>2
    <3>5. \A i \in Of(addr[d])' : events'[i].ps \subseteq remote'[d]
      BY <3>1, <3>2, <3>4 DEF TaskFits
    <3>. QED BY <1>1, <3>1, <3>2, <3>3, <3>4, <3>5 DEF TaskFits
  <2>3. CASE d = c
    <3>1. /\ \A x : x = a => Of(x)' = {Len(events) + 1}
          /\ events'[Len(events) + 1] = e /\ Len(events) \in Nat
          /\ Len(events') = Len(events) + 1
      BY <1>1, <1>3, <1>4, OfSent
    <3>2. Of(addr[d])' = {Len(events) + 1}
      BY <1>2, <2>3, <3>1 DEF Of
    <3>3. Announced(addr[d], Len(events) + 1)'
      BY <1>4, <3>1, <3>2 DEF Announced
    <3>4. \A x \in Conns : Live(x)' /\ addr'[x] = addr'[d] => x = d
      BY <1>2, <1>3, <1>5, <2>3
    <3>5. stored'[addr'[d]] = {}
      BY <1>1, <1>2, <2>3
    <3>. QED BY <1>2, <1>4, <2>3, <3>1, <3>2, <3>3, <3>4, <3>5 DEF TaskFits
  <2>. QED BY <2>2, <2>3
<1>9. HaveIsNew'
  BY <1>1 DEF HaveIsNew
<1>. QED BY <1>6, <1>7, <1>8, <1>9 DEF Orderly

LEMMA BitfieldOrder ==
  ASSUME TypeOK, Orderly, NEW c \in Conns, NEW ps \in SUBSET Pieces,
         ReceiveBitfield(c, ps), remote[c] = {}
  PROVE  Orderly'
<1>. USE DEF locals, table
<1>. DEFINE e == [type |-> "PeerBitfield", addr |-> addr[c], ps |-> ps]
<1>1. /\ UNCHANGED <<pc, arg, addr, connecting, registered, stored>>
      /\ conn[c] # "closed" /\ pc[c] = "idle" /\ Send(e) /\ e \in Events
      /\ conn' = [conn EXCEPT ![c] = "open"] /\ remote' = [remote EXCEPT ![c] = ps]
  BY DEF ReceiveBitfield, TypeOK, Events
<1>2. /\ \A d \in Conns : d # c => conn'[d] = conn[d] /\ remote'[d] = remote[d]
      /\ conn'[c] = "open" /\ remote'[c] = ps
      /\ Live(c) /\ addr[c] \in Addrs
  BY <1>1 DEF TypeOK, Live
<1>3. /\ TaskFits(c) /\ Announced(addr[c], Len(events) + 1)
      /\ \A i \in Of(addr[c]) : events[i].type # "Disconnected"
      /\ \A d \in Conns : Live(d) /\ addr[d] = addr[c] => d = c
  BY <1>2, LiveOrder
<1>4. e.type = "PeerBitfield" /\ e.addr = addr[c] /\ e.ps = ps
  OBVIOUS
<1>5. \A d \in Conns : Live(d)' <=> Live(d)
  BY <1>1, <1>2 DEF Live
<1>6. stored[addr[c]] = {} /\ \A i \in Of(addr[c]) : events[i].ps = {}
  BY <1>1, <1>3 DEF TaskFits
<1>. HIDE DEF e
<1>7. InOrder'
  BY <1>1, <1>3, <1>4, <1>6, OrderSent DEF Orderly
<1>8. EventsFit'
  BY <1>1, <1>3, <1>4, <1>5, <1>6, FitSent DEF Orderly
<1>9. TasksFit'
  <2>1. SUFFICES ASSUME NEW d \in Conns, Live(d) PROVE TaskFits(d)'
    BY <1>5 DEF TasksFit
  <2>2. CASE d # c
    <3>1. TaskFits(d) /\ addr[d] # addr[c]
      BY <1>3, <2>1, <2>2 DEF Orderly, TasksFit
    <3>. QED BY <1>1, <1>2, <1>4, <1>5, <2>2, <3>1, FitsOn
  <2>3. CASE d = c
    <3>1. \A i \in Of(addr[c])' : events'[i].ps \subseteq ps
      <4>0. addr'[c] = addr[c]
        BY <1>1
      <4>1. ASSUME NEW b, b = addr[c], NEW i \in Of(b)' PROVE events'[i].ps \subseteq ps
        <5>1. CASE i \in Of(b)
          BY <1>1, <1>6, <4>1, <5>1, OfSent
        <5>2. CASE i \notin Of(b)
          BY <1>1, <1>4, <4>1, <5>2, OfSent
        <5>. QED BY <5>1, <5>2
      <4>. QED BY <4>0, <4>1 DEF Of
    <3>2. Announced(addr[c], Len(events) + 1)'
      <4>1. Len(events') = Len(events) + 1 /\ Len(events) \in Nat
        BY <1>1, OfSent
      <4>2. \A i \in Of(addr[c]) : i \in Of(addr[c])' /\ events'[i] = events[i] /\ i \in Nat
        BY <1>1, OfSent, AfterSend DEF Of
      <4>. QED BY <1>1, <1>3, <4>1, <4>2 DEF Announced
    <3>. QED BY <1>1, <1>2, <1>3, <1>5, <1>6, <2>3, <3>1, <3>2 DEF TaskFits
  <2>. QED BY <2>2, <2>3
<1>10. HaveIsNew'
  <2>1. SUFFICES ASSUME NEW d \in Conns, pc[d] = "incremented"
                 PROVE  /\ conn'[d] = "open" /\ arg'[d] \in remote'[d]
                        /\ arg'[d] \notin stored'[addr'[d]]
                        /\ \A i \in Of(addr[d])' : arg'[d] \notin events'[i].ps
    BY <1>1 DEF HaveIsNew
  <2>2. d # c
    BY <1>1, <2>1
  <2>3. addr[d] # addr[c]
    BY <1>3, <2>1, <2>2 DEF Orderly, HaveIsNew, Live
  <2>4. \A i \in Of(addr[d])' : i \in Of(addr[d]) /\ events'[i] = events[i]
    <3>1. ASSUME NEW b, b = addr[d] PROVE Of(b)' = Of(b)
      BY <1>1, <1>4, <2>3, <3>1, OfSent
    <3>. QED BY <1>1, <3>1, OfSent DEF Of
  <2>. QED BY <1>1, <1>2, <2>1, <2>2, <2>4 DEF Orderly, HaveIsNew
<1>. QED BY <1>7, <1>8, <1>9, <1>10 DEF Orderly

LEMMA DisconnectOrder ==
  ASSUME TypeOK, Orderly, NEW c \in Conns, Disconnect(c)
  PROVE  Orderly'
<1>. USE DEF locals, table
<1>. DEFINE e == [type |-> "Disconnected", addr |-> addr[c], ps |-> {}]
<1>1. /\ UNCHANGED <<pc, arg, addr, connecting, registered, stored>>
      /\ conn[c] # "closed" /\ pc[c] = "idle" /\ Send(e) /\ e \in Events
      /\ conn' = [conn EXCEPT ![c] = "closed"] /\ remote' = [remote EXCEPT ![c] = {}]
  BY DEF Disconnect, TypeOK, Events
<1>2. /\ \A d \in Conns : d # c => conn'[d] = conn[d] /\ remote'[d] = remote[d]
      /\ conn'[c] = "closed"
      /\ Live(c) /\ addr[c] \in Addrs
  BY <1>1 DEF TypeOK, Live
<1>3. /\ TaskFits(c) /\ Announced(addr[c], Len(events) + 1)
      /\ \A i \in Of(addr[c]) : events[i].type # "Disconnected"
      /\ \A d \in Conns : Live(d) /\ addr[d] = addr[c] => d = c
  BY <1>2, LiveOrder
<1>4. e.type = "Disconnected" /\ e.addr = addr[c] /\ e.ps = {}
  OBVIOUS
<1>5. \A d \in Conns : Live(d)' <=> Live(d) /\ d # c
  BY <1>1, <1>2 DEF Live
<1>. HIDE DEF e
<1>6. InOrder'
  BY <1>1, <1>3, <1>4, OrderSent DEF Orderly
<1>7. EventsFit'
  BY <1>1, <1>3, <1>4, <1>5, FitSent DEF Orderly
<1>8. TasksFit'
  <2>1. SUFFICES ASSUME NEW d \in Conns, Live(d), d # c PROVE TaskFits(d)'
    BY <1>5 DEF TasksFit
  <2>2. TaskFits(d)
    BY <2>1 DEF Orderly, TasksFit
  <2>. QED BY <1>1, <1>2, <1>4, <1>5, <2>1, <2>2, FitsOn
<1>9. HaveIsNew'
  <2>1. SUFFICES ASSUME NEW d \in Conns, pc[d] = "incremented"
                 PROVE  /\ conn'[d] = "open" /\ arg'[d] \in remote'[d]
                        /\ arg'[d] \notin stored'[addr'[d]]
                        /\ \A i \in Of(addr[d])' : arg'[d] \notin events'[i].ps
    BY <1>1 DEF HaveIsNew
  <2>2. d # c
    BY <1>1, <2>1
  <2>3. addr[d] # addr[c]
    BY <1>3, <2>1, <2>2 DEF Orderly, HaveIsNew, Live
  <2>4. \A i \in Of(addr[d])' : i \in Of(addr[d]) /\ events'[i] = events[i]
    <3>1. ASSUME NEW b, b = addr[d] PROVE Of(b)' = Of(b)
      BY <1>1, <1>4, <2>3, <3>1, OfSent
    <3>. QED BY <1>1, <3>1, OfSent DEF Of
  <2>. QED BY <1>1, <1>2, <2>1, <2>2, <2>4 DEF Orderly, HaveIsNew
<1>. QED BY <1>6, <1>7, <1>8, <1>9 DEF Orderly

(* An event that is taken: what it says goes into the table, so what is    *)
(* still in the channel fits as before.                                    *)
First(a) == 1 \in Of(a)
(* The order of the events is kept when the first is handled.              *)
LEMMA TakenOrder ==
  ASSUME TypeOK, Orderly, events # <<>>, events' = Tail(events), UNCHANGED <<locals, link>>,
         \A c \in Conns : pc[c] = "idle",
         \A a \in Addrs : stored'[a] \subseteq
                              stored[a] \cup (IF First(a) THEN events[1].ps ELSE {}),
         \A a \in Addrs : a \in registered /\ ~(First(a) /\ events[1].type = "Disconnected")
                          => a \in registered',
         \A a \in Addrs : First(a) /\ events[1].type = "Connected" => a \in registered',
         \A a \in Addrs : /\ a \in connecting \ registered
                          /\ ~(First(a) /\ events[1].type \in {"Connected", "Disconnected"})
                          => a \in connecting' \ registered'
  PROVE  Orderly'
<1>. USE DEF locals, link
<1>1. /\ \A a : \A i \in Of(a)' : /\ i + 1 \in Of(a) /\ events'[i] = events[i + 1]
                                  /\ i \in Nat /\ i + 1 > 1
      /\ \A a : \A i \in Of(a) \ {1} : i - 1 \in Of(a)' /\ events'[i - 1] = events[i]
      /\ Len(events) \in Nat /\ Len(events') + 1 = Len(events)
      /\ \A a : \A i \in Of(a) : i \in Nat /\ i > 0
  BY AfterTake DEF Of
<1>2. InOrder'
  <2>1. SUFFICES ASSUME NEW a \in Addrs, NEW i \in Of(a)', NEW j \in Of(a)', i < j
                 PROVE  /\ events'[j].type # "Connected" /\ events'[i].type # "Disconnected"
                        /\ events'[i].ps \cap events'[j].ps = {}
                        /\ events'[j].type = "PeerBitfield" => events'[i].ps = {}
    BY DEF InOrder
  <2>2. /\ i + 1 \in Of(a) /\ j + 1 \in Of(a) /\ i + 1 < j + 1
        /\ events'[i] = events[i + 1] /\ events'[j] = events[j + 1]
    <3>1. i + 1 \in Of(a) /\ events'[i] = events[i + 1] /\ i \in Nat
      BY <1>1
    <3>2. j + 1 \in Of(a) /\ events'[j] = events[j + 1] /\ j \in Nat
      BY <1>1
    <3>3. i + 1 < j + 1
      <4>1. \A m, n \in Nat : m < n => m + 1 < n + 1
        OBVIOUS
      <4>. QED BY ONLY i < j, <3>1, <3>2, <4>1
    <3>. QED BY <3>1, <3>2, <3>3
  <2>3. InOrder
    BY ONLY Orderly DEF Orderly
  <2>4. /\ events[j + 1].type # "Connected" /\ events[i + 1].type # "Disconnected"
        /\ events[i + 1].ps \cap events[j + 1].ps = {}
        /\ events[j + 1].type = "PeerBitfield" => events[i + 1].ps = {}
    BY ONLY a \in Addrs, <2>2, <2>3 DEF InOrder
  <2>. QED BY ONLY <2>2, <2>4
(* What is told of an address after the first is not its beginning, and    *)
(* there is nothing after its end.                                         *)
<1>3. ASSUME NEW a \in Addrs, First(a), NEW j \in Of(a), j > 1
      PROVE  /\ events[j].type # "Connected" /\ events[1].type # "Disconnected"
             /\ events[1].ps \cap events[j].ps = {}
             /\ events[j].type = "PeerBitfield" => events[1].ps = {}
  BY <1>3 DEF First, Orderly, InOrder
<1>4. ASSUME NEW a \in Addrs, NEW n \in Nat, Announced(a, n + 1),
             ~(First(a) /\ events[1].type = "Disconnected")
      PROVE  \/ a \in registered'
             \/ \E i \in Of(a)' : i < n /\ events'[i].type = "Connected"
  <2>1. CASE a \in registered
    BY <1>4, <2>1
  <2>2. CASE \E i \in Of(a) : i < n + 1 /\ events[i].type = "Connected"
    <3>1. PICK i \in Of(a) : i < n + 1 /\ events[i].type = "Connected"
      BY <2>2
    <3>2. CASE i = 1
      BY <3>1, <3>2 DEF First
    <3>3. CASE i # 1
      <4>1. i - 1 \in Of(a)' /\ events'[i - 1] = events[i]
        BY <1>1, <3>3
      <4>2. i \in Nat /\ i - 1 < n
        <5>1. i \in Nat
          BY <1>1
        <5>. QED BY <3>1, <5>1
      <4>. QED BY <3>1, <4>1, <4>2
    <3>. QED BY <3>2, <3>3
  <2>. QED BY <1>4, <2>1, <2>2 DEF Announced
<1>5. EventsFit'
  <2>1. SUFFICES ASSUME NEW a \in Addrs, NEW i \in Of(a)'
                 PROVE  /\ IF events'[i].type = "Connected" THEN a \in connecting' \ registered'
                           ELSE Announced(a, i)'
                        /\ events'[i].ps \cap stored'[a] = {}
                        /\ events'[i].type = "PeerBitfield" => stored'[a] = {}
                        /\ events'[i].type = "Disconnected" =>
                               \A c \in Conns : Live(c)' => addr'[c] # a
    BY DEF EventsFit
  <2>2. /\ i + 1 \in Of(a) /\ events'[i] = events[i + 1] /\ i \in Nat /\ i + 1 > 1
    BY <1>1
  <2>3. /\ IF events[i + 1].type = "Connected" THEN a \in connecting \ registered
           ELSE Announced(a, i + 1)
        /\ events[i + 1].ps \cap stored[a] = {}
        /\ events[i + 1].type = "PeerBitfield" => stored[a] = {}
        /\ events[i + 1].type = "Disconnected" => \A c \in Conns : Live(c) => addr[c] # a
    BY <2>2 DEF Orderly, EventsFit
  <2>4. First(a) => /\ events[i + 1].type # "Connected" /\ events[1].type # "Disconnected"
                    /\ events[1].ps \cap events[i + 1].ps = {}
                    /\ events[i + 1].type = "PeerBitfield" => events[1].ps = {}
    BY <1>3, <2>2
  <2>5. CASE events[i + 1].type = "Connected"
    BY <2>2, <2>3, <2>4, <2>5
  <2>6. CASE events[i + 1].type # "Connected"
    <3>1. \/ a \in registered'
          \/ \E k \in Of(a)' : k < i /\ events'[k].type = "Connected"
      BY <1>4, <2>2, <2>3, <2>4, <2>6
    <3>2. Announced(a, i)'
      BY <3>1 DEF Announced
    <3>3. stored'[a] \subseteq stored[a] \cup (IF First(a) THEN events[1].ps ELSE {})
      OBVIOUS
    <3>4. events'[i].ps \cap stored'[a] = {}
      BY <2>2, <2>3, <2>4, <3>3
    <3>5. events'[i].type = "PeerBitfield" => stored'[a] = {}
      BY <2>2, <2>3, <2>4, <3>3
    <3>. QED BY <2>2, <2>3, <2>6, <3>2, <3>4, <3>5 DEF Live
  <2>7. CASE events[i + 1].type = "Connected"
    <3>1. stored'[a] \subseteq stored[a]
      BY <2>4, <2>7
    <3>. QED BY <2>2, <2>3, <2>5, <2>7, <3>1
  <2>. QED BY <2>6, <2>7
<1>6. TasksFit'
  <2>1. SUFFICES ASSUME NEW d \in Conns, Live(d) PROVE TaskFits(d)'
    BY DEF TasksFit, Live
  <2>2. TaskFits(d) /\ addr[d] \in Addrs
    BY <2>1 DEF Orderly, TasksFit, TypeOK
  <2>3. \A i \in Of(addr[d]) : events[i].type # "Disconnected"
    BY <2>1, <2>2 DEF Orderly, EventsFit
  <2>4. Announced(addr[d], Len(events) + 1)'
    <3>1. Announced(addr[d], Len(events) + 1)
      BY <2>2 DEF TaskFits
    <3>2. \/ addr[d] \in registered'
          \/ \E k \in Of(addr[d])' : k < Len(events) /\ events'[k].type = "Connected"
      <4>1. ASSUME NEW b \in Addrs, b = addr[d]
            PROVE  \/ b \in registered'
                   \/ \E k \in Of(b)' : k < Len(events) /\ events'[k].type = "Connected"
        BY <1>1, <1>4, <2>3, <3>1, <4>1 DEF First
      <4>. QED BY <2>2, <4>1 DEF Of
    <3>. QED BY <1>1, <3>2 DEF Announced
  <2>5. stored'[addr'[d]] \subseteq remote'[d]
    <3>1. First(addr[d]) => events[1].ps \subseteq remote[d]
      BY <2>2 DEF First, TaskFits
    <3>2. stored[addr[d]] \subseteq remote[d]
      BY <2>2 DEF TaskFits
    <3>. QED BY <2>2, <3>1, <3>2
  <2>6. \A i \in Of(addr[d])' : events'[i].ps \subseteq remote'[d]
    <3>1. ASSUME NEW b, b = addr[d], NEW i \in Of(b)' PROVE events'[i].ps \subseteq remote[d]
      <4>1. i + 1 \in Of(b) /\ events'[i] = events[i + 1]
        BY <1>1
      <4>. QED BY <2>2, <3>1, <4>1 DEF TaskFits
    <3>. QED BY <3>1 DEF Of
  <2>7. /\ conn'[d] = "fresh" => remote'[d] = {}
        /\ \A x \in Conns : Live(x)' /\ addr'[x] = addr'[d] => x = d
    BY <2>2 DEF TaskFits, Live
  <2>. QED BY <2>4, <2>5, <2>6, <2>7 DEF TaskFits
<1>7. HaveIsNew'
  BY DEF HaveIsNew
<1>. QED BY <1>2, <1>5, <1>6, <1>7 DEF Orderly

(* What is due of a piece, from what becomes of its three parts.           *)
LEMMA DueChange ==
  ASSUME TypeOK, TypeOK', NEW p \in Pieces, NEW x \in Int, NEW y \in Int, NEW z \in Int,
         Cardinality(Owners(p)') = Cardinality(Owners(p)) + x,
         Cardinality(Haves(p)') = Cardinality(Haves(p)) + y,
         Cardinality(Counted(p)') = Cardinality(Counted(p)) + z
  PROVE  Due(p)' - Due(p) = x + y + z
<1>1. /\ Cardinality(Owners(p)) \in Nat /\ Cardinality(Haves(p)) \in Nat
      /\ Cardinality(Counted(p)) \in Nat
  BY DueTyped
<1>2. Due(p)' = Cardinality(Owners(p)') + Cardinality(Haves(p)') + Cardinality(Counted(p)')
  BY DEF Due
<1>3. Due(p) = Cardinality(Owners(p)) + Cardinality(Haves(p)) + Cardinality(Counted(p))
  BY DEF Due
<1>. HIDE DEF Due
<1>. QED BY <1>1, <1>2, <1>3

(* The counter is raised before the Have is sent: until then it is counted *)
(* and not yet sent.                                                       *)
LEMMA ReceiveHaveCounts ==
  ASSUME TypeOK, TypeOK', CountInv, NEW c \in Conns, NEW q \in Pieces, ReceiveHave(c, q)
  PROVE  CountInv'
<1>. USE DEF table
<1>1. /\ UNCHANGED <<events, addr, connecting, registered, stored>>
      /\ conn[c] # "closed" /\ pc[c] = "idle"
      /\ drifted' = (drifted \/ q \in remote[c])
      /\ avail' = Incremented({q})
      /\ pc' = [pc EXCEPT ![c] = "incremented"] /\ arg' = [arg EXCEPT ![c] = q]
  BY DEF ReceiveHave, Goto
<1>2. PlainEvents' /\ StoredOfPeers'
  BY <1>1 DEF CountInv, PlainEvents, StoredOfPeers
<1>3. ASSUME NEW p \in Pieces PROVE avail'[p] - avail[p] = Due(p)' - Due(p)
  <2>. DEFINE n == IF p = q THEN 1 ELSE 0
  <2>1. Owners(p)' = Owners(p) /\ Haves(p)' = Haves(p)
    BY <1>1 DEF Owners, Haves
  <2>2. /\ Counted(p)' = IF p = q THEN Counted(p) \cup {c} ELSE Counted(p)
        /\ c \notin Counted(p)
    BY <1>1 DEF Counted, TypeOK
  <2>3. /\ IsFiniteSet(Counted(p)) /\ Cardinality(Counted(p)) \in Nat
        /\ Cardinality(Owners(p)) \in Nat /\ Cardinality(Haves(p)) \in Nat
    BY DueTyped
  <2>4. Cardinality(Counted(p)') = Cardinality(Counted(p)) + n
    BY <2>2, <2>3, Sized
  <2>5. Due(p)' - Due(p) = 0 + 0 + n
    BY <2>1, <2>3, <2>4, DueChange
  <2>6. avail'[p] = avail[p] + n /\ avail[p] \in Nat
    BY <1>1 DEF Incremented, TypeOK
  <2>. QED BY <2>5, <2>6
<1>4. \A p \in Pieces : avail'[p] - avail[p] >= Due(p)' - Due(p)
  <2>1. \A p \in Pieces : avail[p] \in Int /\ avail'[p] \in Int
    BY DEF TypeOK
  <2>. QED BY <1>3, <2>1
<1>5. /\ \A p \in Pieces : avail'[p] >= Due(p)'
      /\ ~drifted' => \A p \in Pieces : avail'[p] = Due(p)'
  BY <1>1, <1>3, <1>4, CountKeeps
<1>6. ~drifted' => Orderly'
  BY <1>1, ReceiveHaveOrder DEF CountInv
<1>. QED BY <1>2, <1>5, <1>6 DEF CountInv

LEMMA MoveCounts ==
  ASSUME TypeOK, TypeOK', CountInv, NEW c \in Conns, MoveIncremented(c)
  PROVE  CountInv'
<1>. USE DEF table, link
<1>. DEFINE e == [type |-> "Have", addr |-> addr[c], ps |-> {arg[c]}]
<1>1. /\ UNCHANGED <<avail, drifted, connecting, registered, stored>>
      /\ pc[c] = "incremented" /\ Send(e) /\ e \in Events
      /\ pc' = [pc EXCEPT ![c] = "idle"]
      /\ \A d \in Conns : d # c => arg'[d] = arg[d]
  BY DEF MoveIncremented, Leave, Goto, TypeOK, Events
<1>2. e.type = "Have" /\ e.ps = {arg[c]}
  OBVIOUS
<1>. HIDE DEF e
<1>3. PlainEvents' /\ StoredOfPeers'
  BY <1>1, <1>2, PlainSent DEF CountInv, StoredOfPeers
<1>4. ASSUME NEW p \in Pieces PROVE avail'[p] - avail[p] = Due(p)' - Due(p)
  <2>. DEFINE n == IF p = arg[c] THEN 1 ELSE 0
  <2>1. Owners(p)' = Owners(p)
    BY <1>1 DEF Owners
  <2>2. Cardinality(Haves(p)') = IF p \in e.ps THEN Cardinality(Haves(p)) + 1
                                 ELSE Cardinality(Haves(p))
    BY <1>1, <1>2, HavesSent
  <2>3. /\ Counted(p)' = IF p = arg[c] THEN Counted(p) \ {c} ELSE Counted(p)
        /\ p = arg[c] => c \in Counted(p)
    BY <1>1 DEF Counted, TypeOK
  <2>4. /\ IsFiniteSet(Counted(p)) /\ Cardinality(Counted(p)) \in Nat
        /\ Cardinality(Owners(p)) \in Nat /\ Cardinality(Haves(p)) \in Nat
    BY DueTyped
  <2>5. Cardinality(Counted(p)') = Cardinality(Counted(p)) + (0 - n)
    BY <2>3, <2>4, Sized
  <2>6. Cardinality(Haves(p)') = Cardinality(Haves(p)) + n
    BY <1>2, <2>2, <2>4
  <2>7. Due(p)' - Due(p) = 0 + n + (0 - n)
    <3>1. Cardinality(Owners(p)') = Cardinality(Owners(p)) + 0 /\ n \in Int /\ (0 - n) \in Int
      BY <2>1, <2>4
    <3>. HIDE DEF n
    <3>. QED BY <2>5, <2>6, <3>1, DueChange
  <2>8. avail'[p] - avail[p] = 0
    BY <1>1 DEF TypeOK
  <2>. QED BY <2>7, <2>8
<1>5. \A p \in Pieces : avail'[p] - avail[p] >= Due(p)' - Due(p)
  <2>1. \A p \in Pieces : avail[p] \in Int /\ avail'[p] \in Int
    BY DEF TypeOK
  <2>. QED BY <1>4, <2>1
<1>6. /\ \A p \in Pieces : avail'[p] >= Due(p)'
      /\ ~drifted' => \A p \in Pieces : avail'[p] = Due(p)'
  BY <1>1, <1>4, <1>5, CountKeeps
<1>7. ~drifted' => Orderly'
  BY <1>1, MoveOrder DEF CountInv
<1>. QED BY <1>3, <1>6, <1>7 DEF CountInv

(* The other events that tasks send: the counters and what is due of them  *)
(* stay as they are.                                                       *)
LEMMA SentCounts ==
  ASSUME TypeOK, TypeOK', CountInv, NEW e \in Events, Send(e), e.type # "Have",
         e.type \in {"Connected", "Disconnected"} => e.ps = {},
         UNCHANGED <<avail, registered, stored>>, drifted => drifted',
         \A c \in Conns : /\ pc'[c] = "incremented" <=> pc[c] = "incremented"
                          /\ pc[c] = "incremented" => arg'[c] = arg[c],
         ~drifted' => Orderly'
  PROVE  CountInv'
<1>1. PlainEvents' /\ StoredOfPeers'
  BY PlainSent DEF CountInv, StoredOfPeers
<1>2. ASSUME NEW p \in Pieces PROVE Due(p)' = Due(p)
  <2>1. Owners(p)' = Owners(p) /\ Counted(p)' = Counted(p)
    BY DEF Owners, Counted
  <2>2. Cardinality(Haves(p)') = Cardinality(Haves(p))
    BY HavesSent
  <2>. QED BY <2>1, <2>2 DEF Due
<1>. QED BY <1>1, <1>2 DEF CountInv

(* Taking an event: the counters change by what the owners do, and a Have  *)
(* was counted when it was sent.                                           *)
HeadHas(p) == IF Head(events).type = "Have" /\ p \in Head(events).ps THEN 1 ELSE 0
Gained(p) == Cardinality(Owners(p)') - Cardinality(Owners(p)) - HeadHas(p)

(* A handler may change a counter by what its event brings to the owners   *)
(* or takes from them.                                                     *)
LEMMA TakeCounts ==
  ASSUME TypeOK, TypeOK', CountInv, NEW type, Take(type), StoredOfPeers',
         \A p \in Pieces : avail'[p] - avail[p] >= Gained(p),
         ~drifted => \A p \in Pieces : avail'[p] - avail[p] = Gained(p),
         ~drifted => Orderly'
  PROVE  CountInv'
<1>. USE DEF locals
<1>1. events # <<>> /\ events' = Tail(events) /\ UNCHANGED <<pc, arg, drifted>>
  BY DEF Take
<1>2. PlainEvents'
  BY <1>1, AfterTake DEF CountInv, PlainEvents
<1>3. ASSUME NEW p \in Pieces PROVE Due(p)' - Due(p) = Gained(p)
  <2>1. Counted(p)' = Counted(p)
    BY <1>1 DEF Counted
  <2>2. Cardinality(Haves(p)') = IF Head(events).type = "Have" /\ p \in Head(events).ps
                                 THEN Cardinality(Haves(p)) - 1 ELSE Cardinality(Haves(p))
    BY <1>1, HavesTaken
  <2>3. /\ Cardinality(Owners(p)) \in Nat /\ Cardinality(Haves(p)) \in Nat
        /\ Cardinality(Counted(p)) \in Nat
    BY DueTyped
  <2>4. Cardinality(Owners(p)') \in Nat
    BY DueTypedNext
  <2>5. Cardinality(Haves(p)') = Cardinality(Haves(p)) + (0 - HeadHas(p))
    BY <2>2, <2>3 DEF HeadHas
  <2>. DEFINE x == Cardinality(Owners(p)') - Cardinality(Owners(p))
  <2>6. /\ x \in Int /\ HeadHas(p) \in Int /\ (0 - HeadHas(p)) \in Int
        /\ Cardinality(Owners(p)') = Cardinality(Owners(p)) + x
        /\ Cardinality(Counted(p)') = Cardinality(Counted(p)) + 0
    BY <2>1, <2>3, <2>4 DEF HeadHas
  <2>7. Gained(p) = x - HeadHas(p)
    BY DEF Gained
  <2>. HIDE DEF x
  <2>8. Due(p)' - Due(p) = x + (0 - HeadHas(p)) + 0
    BY <2>5, <2>6, DueChange
  <2>. QED BY <2>6, <2>7, <2>8
<1>4. /\ \A p \in Pieces : avail'[p] - avail[p] >= Due(p)' - Due(p)
      /\ ~drifted' => \A p \in Pieces : avail'[p] - avail[p] = Due(p)' - Due(p)
  BY <1>1, <1>3
<1>5. /\ \A p \in Pieces : avail'[p] >= Due(p)'
      /\ ~drifted' => \A p \in Pieces : avail'[p] = Due(p)'
  BY <1>1, <1>4, CountKeeps
<1>. QED BY <1>1, <1>2, <1>5 DEF CountInv

(* The event at the head of the channel, and what Orderly says of it.      *)
LEMMA HeadFits ==
  ASSUME TypeOK, NEW type, Take(type), NEW a, a = Head(events).addr
  PROVE  /\ events # <<>> /\ events' = Tail(events) /\ Head(events) = events[1]
         /\ UNCHANGED <<locals, link, drifted>> /\ \A c \in Conns : pc[c] = "idle"
         /\ Head(events) \in Events /\ a \in Addrs /\ events[1].type = type
         /\ \A b : First(b) <=> b = a /\ type # "PieceCompleted"
         /\ Orderly /\ type # "PieceCompleted" =>
                /\ type = "Connected" => a \in connecting \ registered
                /\ type # "Connected" => a \in registered
                /\ events[1].ps \cap stored[a] = {}
                /\ type = "PeerBitfield" => stored[a] = {}
<1>1. /\ events # <<>> /\ events' = Tail(events) /\ Head(events) = events[1]
      /\ Head(events).type = type /\ events[1] \in Events /\ 1 \in DOMAIN events
      /\ events \in Seq(Events)
  BY DEF Take, TypeOK
<1>2. UNCHANGED <<locals, link, drifted>> /\ \A c \in Conns : pc[c] = "idle"
  BY DEF Take, AllIdle
<1>3. a \in Addrs
  BY <1>1 DEF Events
<1>4. \A b : First(b) <=> b = a /\ type # "PieceCompleted"
  BY <1>1 DEF First, Of
<1>5. ASSUME Orderly, type # "PieceCompleted"
      PROVE  /\ type = "Connected" => a \in connecting \ registered
             /\ type # "Connected" => a \in registered
             /\ events[1].ps \cap stored[a] = {}
             /\ type = "PeerBitfield" => stored[a] = {}
  <2>1. 1 \in Of(a)
    BY <1>4, <1>5 DEF First
  <2>2. ~ \E i \in Of(a) : i < 1
    BY DEF Of, TypeOK
  <2>. QED BY <1>1, <1>3, <1>5, <2>1, <2>2 DEF Orderly, EventsFit, Announced
<1>. QED BY <1>1, <1>2, <1>3, <1>4, <1>5

(* An owner more or less.                                                  *)
LEMMA OwnersChange ==
  ASSUME TypeOK, TypeOK', NEW p \in Pieces, NEW a \in Addrs,
         \A b \in Addrs \ {a} : /\ b \in registered' <=> b \in registered
                                /\ stored'[b] = stored[b]
  PROVE  /\ Cardinality(Owners(p)) \in Nat /\ Cardinality(Owners(p)') \in Nat
         /\ Cardinality(Owners(p)') =
                IF a \in Owners(p)' /\ a \notin Owners(p) THEN Cardinality(Owners(p)) + 1
                ELSE IF a \in Owners(p) /\ a \notin Owners(p)' THEN Cardinality(Owners(p)) - 1
                ELSE Cardinality(Owners(p))
<1>1. IsFiniteSet(Owners(p)) /\ Cardinality(Owners(p)) \in Nat /\ Cardinality(Owners(p)') \in Nat
  BY DueTyped, DueTypedNext
<1>2. \A b : b # a => (b \in Owners(p)' <=> b \in Owners(p))
  BY DEF Owners, TypeOK
<1>3. Owners(p)' = IF a \in Owners(p)' THEN Owners(p) \cup {a} ELSE Owners(p) \ {a}
  BY <1>2
<1>. QED BY <1>1, <1>3, Sized

LEMMA ConnectedCounts ==
  ASSUME TypeOK, TypeOK', CountInv, OnConnected
  PROVE  CountInv'
<1>. DEFINE a == Head(events).addr
<1>1. /\ Take("Connected") /\ avail' = avail
      /\ connecting' = connecting \ {a} /\ registered' = registered \cup {a}
      /\ stored' = [stored EXCEPT ![a] = {}]
  BY DEF OnConnected, index
<1>2. /\ events # <<>> /\ events' = Tail(events) /\ Head(events) = events[1]
      /\ UNCHANGED <<locals, link, drifted>> /\ \A c \in Conns : pc[c] = "idle"
      /\ a \in Addrs /\ events[1].type = "Connected" /\ \A b : First(b) <=> b = a
      /\ Orderly => a \in connecting \ registered
  BY <1>1, HeadFits
<1>. HIDE DEF a
<1>3. \A b \in Addrs : /\ stored'[b] = IF b = a THEN {} ELSE stored[b]
                       /\ b \in registered' <=> b \in registered \/ b = a
  BY <1>1, <1>2 DEF TypeOK
<1>4. StoredOfPeers'
  BY <1>3 DEF CountInv, StoredOfPeers
<1>5. ASSUME NEW p \in Pieces
      PROVE  /\ avail'[p] - avail[p] >= Gained(p)
             /\ ~drifted => avail'[p] - avail[p] = Gained(p)
  <2>1. a \notin Owners(p)'
    BY <1>2, <1>3 DEF Owners
  <2>2. ~drifted => a \notin Owners(p)
    BY <1>2 DEF CountInv, Owners
  <2>3. /\ Cardinality(Owners(p)) \in Nat
        /\ Cardinality(Owners(p)') = IF a \in Owners(p) THEN Cardinality(Owners(p)) - 1
                                     ELSE Cardinality(Owners(p))
    BY <1>2, <1>3, <2>1, OwnersChange
  <2>4. Gained(p) = IF a \in Owners(p) THEN -1 ELSE 0
    BY <1>2, <2>3 DEF Gained, HeadHas
  <2>5. avail'[p] - avail[p] = 0
    BY <1>1 DEF TypeOK
  <2>. QED BY <2>2, <2>4, <2>5
<1>6. ~drifted => Orderly'
  BY <1>1, <1>2, <1>3, TakenOrder DEF CountInv
<1>. QED BY <1>1, <1>4, <1>5, <1>6, TakeCounts

(* A bitfield makes its sender an owner of what is in it.                  *)
LEMMA BitfieldCounts ==
  ASSUME TypeOK, TypeOK', CountInv, OnPeerBitfield
  PROVE  CountInv'
<1>. DEFINE a == Head(events).addr
            ps == Head(events).ps
<1>1. /\ Take("PeerBitfield") /\ avail' = Incremented(ps)
      /\ connecting' = connecting /\ registered' = registered
      /\ stored' = IF a \in registered THEN [stored EXCEPT ![a] = ps] ELSE stored
  BY DEF OnPeerBitfield
<1>2. /\ events # <<>> /\ events' = Tail(events) /\ Head(events) = events[1]
      /\ UNCHANGED <<locals, link, drifted>> /\ \A c \in Conns : pc[c] = "idle"
      /\ a \in Addrs /\ events[1].type = "PeerBitfield" /\ \A b : First(b) <=> b = a
      /\ Orderly => a \in registered /\ stored[a] = {}
      /\ events[1].ps = ps
  BY <1>1, HeadFits
<1>. HIDE DEF a, ps
<1>3. \A b \in Addrs : stored'[b] = IF b = a /\ a \in registered THEN ps ELSE stored[b]
  BY <1>1, <1>2 DEF TypeOK
<1>4. StoredOfPeers'
  BY <1>1, <1>3 DEF CountInv, StoredOfPeers
<1>5. ASSUME NEW p \in Pieces
      PROVE  /\ avail'[p] - avail[p] >= Gained(p)
             /\ ~drifted => avail'[p] - avail[p] = Gained(p)
  <2>1. a \in Owners(p)' => p \in ps \/ a \in Owners(p)
    BY <1>1, <1>2, <1>3 DEF Owners
  <2>2. ~drifted => /\ a \notin Owners(p)
                    /\ a \in Owners(p)' <=> p \in ps
    BY <1>1, <1>2, <1>3 DEF CountInv, Owners
  <2>3. /\ Cardinality(Owners(p)) \in Nat
        /\ Cardinality(Owners(p)') =
               IF a \in Owners(p)' /\ a \notin Owners(p) THEN Cardinality(Owners(p)) + 1
               ELSE IF a \in Owners(p) /\ a \notin Owners(p)' THEN Cardinality(Owners(p)) - 1
               ELSE Cardinality(Owners(p))
    BY <1>1, <1>2, <1>3, OwnersChange
  <2>4. Gained(p) = IF a \in Owners(p)' /\ a \notin Owners(p) THEN 1
                    ELSE IF a \in Owners(p) /\ a \notin Owners(p)' THEN -1 ELSE 0
    BY <1>2, <2>3 DEF Gained, HeadHas
  <2>5. avail'[p] - avail[p] = IF p \in ps THEN 1 ELSE 0
    BY <1>1 DEF Incremented, TypeOK
  <2>6. a \in Owners(p)' /\ a \notin Owners(p) => p \in ps
    <3>1. a \in Owners(p)' /\ p \notin ps => a \in Owners(p)
      BY <2>1
    <3>. QED BY <3>1
  <2>. QED BY <2>2, <2>4, <2>5, <2>6
<1>6. ~drifted => Orderly'
  BY <1>1, <1>2, <1>3, TakenOrder DEF CountInv
<1>. QED BY <1>1, <1>4, <1>5, <1>6, TakeCounts

(* A Have that was counted when it came makes its sender an owner.         *)
LEMMA HaveCounts ==
  ASSUME TypeOK, TypeOK', CountInv, OnPeerHave
  PROVE  CountInv'
<1>. DEFINE a == Head(events).addr
            ps == Head(events).ps
<1>1. /\ Take("Have") /\ avail' = avail
      /\ connecting' = connecting /\ registered' = registered
      /\ stored' = IF a \in registered THEN [stored EXCEPT ![a] = @ \cup ps] ELSE stored
  BY DEF OnPeerHave, index
<1>2. /\ events # <<>> /\ events' = Tail(events) /\ Head(events) = events[1]
      /\ UNCHANGED <<locals, link, drifted>> /\ \A c \in Conns : pc[c] = "idle"
      /\ a \in Addrs /\ events[1].type = "Have" /\ \A b : First(b) <=> b = a
      /\ Orderly => a \in registered /\ events[1].ps \cap stored[a] = {}
      /\ events[1].ps = ps
  BY <1>1, HeadFits
<1>3. \A p : HeadHas(p) = IF p \in ps THEN 1 ELSE 0
  BY <1>2 DEF HeadHas
<1>. HIDE DEF a, ps
<1>4. \A b \in Addrs : stored'[b] = IF b = a /\ a \in registered THEN stored[b] \cup ps
                                    ELSE stored[b]
  BY <1>1, <1>2 DEF TypeOK
<1>5. StoredOfPeers'
  BY <1>1, <1>4 DEF CountInv, StoredOfPeers
<1>6. ASSUME NEW p \in Pieces
      PROVE  /\ avail'[p] - avail[p] >= Gained(p)
             /\ ~drifted => avail'[p] - avail[p] = Gained(p)
  <2>1. /\ a \in Owners(p) => a \in Owners(p)'
        /\ a \in Owners(p)' /\ a \notin Owners(p) => p \in ps
    BY <1>1, <1>2, <1>4 DEF Owners
  <2>2. ~drifted /\ p \in ps => a \notin Owners(p) /\ a \in Owners(p)'
    <3>1. ~drifted => a \in registered /\ ps \cap stored[a] = {}
      BY <1>2 DEF CountInv
    <3>2. stored'[a] = IF a \in registered THEN stored[a] \cup ps ELSE stored[a]
      BY <1>2, <1>4
    <3>. QED BY <1>1, <3>1, <3>2 DEF Owners
  <2>3. /\ Cardinality(Owners(p)) \in Nat
        /\ Cardinality(Owners(p)') =
               IF a \in Owners(p)' /\ a \notin Owners(p) THEN Cardinality(Owners(p)) + 1
               ELSE Cardinality(Owners(p))
    BY <1>1, <1>2, <1>4, <2>1, OwnersChange
  <2>4. Gained(p) = (IF a \in Owners(p)' /\ a \notin Owners(p) THEN 1 ELSE 0)
                    - (IF p \in ps THEN 1 ELSE 0)
    BY <1>3, <2>3 DEF Gained
  <2>5. avail'[p] - avail[p] = 0
    BY <1>1 DEF TypeOK
  <2>. QED BY <2>1, <2>2, <2>4, <2>5
<1>7. ~drifted => Orderly'
  BY <1>1, <1>2, <1>4, TakenOrder DEF CountInv
<1>. QED BY <1>1, <1>5, <1>6, <1>7, TakeCounts

(* The counters of what the peer owned go down with its entry.             *)
LEMMA DisconnectedCounts ==
  ASSUME TypeOK, TypeOK', CountInv, OnDisconnected
  PROVE  CountInv'
<1>. DEFINE a == Head(events).addr
<1>1. /\ Take("Disconnected")
      /\ avail' = IF a \in registered THEN Decremented(stored[a]) ELSE avail
      /\ connecting' = connecting \ {a} /\ registered' = registered \ {a}
      /\ stored' = [stored EXCEPT ![a] = {}]
  BY DEF OnDisconnected, index
<1>2. /\ events # <<>> /\ events' = Tail(events) /\ Head(events) = events[1]
      /\ UNCHANGED <<locals, link, drifted>> /\ \A c \in Conns : pc[c] = "idle"
      /\ a \in Addrs /\ events[1].type = "Disconnected" /\ \A b : First(b) <=> b = a
  BY <1>1, HeadFits
<1>. HIDE DEF a
<1>3. \A b \in Addrs : /\ stored'[b] = IF b = a THEN {} ELSE stored[b]
                       /\ b \in registered' <=> b \in registered /\ b # a
                       /\ b \in connecting' <=> b \in connecting /\ b # a
  BY <1>1, <1>2 DEF TypeOK
<1>4. StoredOfPeers'
  BY <1>3 DEF CountInv, StoredOfPeers
<1>5. ASSUME NEW p \in Pieces PROVE avail'[p] - avail[p] = Gained(p)
  <2>1. a \notin Owners(p)' /\ (a \in Owners(p) <=> a \in registered /\ p \in stored[a])
    BY <1>2, <1>3 DEF Owners
  <2>2. /\ Cardinality(Owners(p)) \in Nat
        /\ Cardinality(Owners(p)') = IF a \in Owners(p) THEN Cardinality(Owners(p)) - 1
                                     ELSE Cardinality(Owners(p))
        /\ Cardinality(Owners(p)') \in Nat
    BY <1>2, <1>3, <2>1, OwnersChange
  <2>3. Gained(p) = IF a \in Owners(p) THEN -1 ELSE 0
    BY <1>2, <2>2 DEF Gained, HeadHas
  <2>4. a \in Owners(p) => avail[p] > 0
    <3>1. avail[p] >= Due(p) /\ avail[p] \in Nat
      BY DEF CountInv, TypeOK
    <3>2. Due(p) >= Cardinality(Owners(p))
      BY DueTyped DEF Due
    <3>. QED BY <2>2, <3>1, <3>2, DueTyped DEF Due
  <2>5. avail'[p] - avail[p] = IF a \in Owners(p) THEN -1 ELSE 0
    BY <1>1, <2>1, <2>4 DEF Decremented, TypeOK
  <2>. QED BY <2>3, <2>5
<1>6. \A p \in Pieces : avail'[p] - avail[p] >= Gained(p)
  <2>1. \A p \in Pieces : avail[p] \in Int /\ avail'[p] \in Int
    BY DEF TypeOK
  <2>. QED BY <1>5, <2>1
<1>7. ~drifted => Orderly'
  BY <1>1, <1>2, <1>3, TakenOrder DEF CountInv
<1>. QED BY <1>1, <1>4, <1>5, <1>6, <1>7, TakeCounts

LEMMA CompletedCounts ==
  ASSUME TypeOK, TypeOK', CountInv, OnPieceCompleted
  PROVE  CountInv'
<1>. USE DEF table
<1>1. /\ Take("PieceCompleted") /\ avail' = avail
      /\ UNCHANGED <<connecting, registered, stored>>
  BY DEF OnPieceCompleted
<1>2. /\ events # <<>> /\ events' = Tail(events) /\ Head(events) = events[1]
      /\ UNCHANGED <<locals, link, drifted>> /\ \A c \in Conns : pc[c] = "idle"
      /\ events[1].type = "PieceCompleted" /\ \A b : ~First(b)
  BY <1>1, HeadFits
<1>3. StoredOfPeers'
  BY <1>1 DEF CountInv, StoredOfPeers
<1>4. ASSUME NEW p \in Pieces PROVE avail'[p] - avail[p] = Gained(p)
  <2>1. Owners(p)' = Owners(p) /\ Cardinality(Owners(p)) \in Nat
    BY <1>1, DueTyped DEF Owners
  <2>2. Gained(p) = 0
    BY <1>2, <2>1 DEF Gained, HeadHas
  <2>3. avail'[p] - avail[p] = 0
    BY <1>1 DEF TypeOK
  <2>. QED BY <2>2, <2>3
<1>5. \A p \in Pieces : avail'[p] - avail[p] >= Gained(p)
  <2>1. \A p \in Pieces : avail[p] \in Int /\ avail'[p] \in Int
    BY DEF TypeOK
  <2>. QED BY <1>4, <2>1
<1>6. ~drifted => Orderly'
  BY <1>1, <1>2, TakenOrder DEF CountInv
<1>. QED BY <1>1, <1>3, <1>4, <1>5, <1>6, TakeCounts

LEMMA ClearCounts ==
  ASSUME TypeOK, TypeOK', CountInv, ClearPeers
  PROVE  CountInv'
<1>. USE DEF index, locals
<1>1. /\ UNCHANGED <<avail, pc, arg, events>> /\ registered' = {} /\ drifted'
      /\ stored' = [a \in Addrs |-> {}]
  BY DEF ClearPeers
<1>2. PlainEvents' /\ StoredOfPeers'
  BY <1>1 DEF CountInv, PlainEvents, StoredOfPeers
<1>3. ASSUME NEW p \in Pieces PROVE avail'[p] - avail[p] >= Due(p)' - Due(p)
  <2>1. Haves(p)' = Haves(p) /\ Counted(p)' = Counted(p) /\ Owners(p)' = {}
    BY <1>1 DEF Haves, Counted, Owners
  <2>2. /\ Cardinality(Owners(p)) \in Nat /\ Cardinality(Haves(p)) \in Nat
        /\ Cardinality(Counted(p)) \in Nat
    BY DueTyped
  <2>3. Cardinality(Owners(p)') = 0
    BY <2>1, FS_EmptySet
  <2>. DEFINE x == 0 - Cardinality(Owners(p))
  <2>4. /\ x \in Int /\ x <= 0 /\ Cardinality(Owners(p)') = Cardinality(Owners(p)) + x
        /\ Cardinality(Haves(p)') = Cardinality(Haves(p)) + 0
        /\ Cardinality(Counted(p)') = Cardinality(Counted(p)) + 0
    BY <2>1, <2>2, <2>3
  <2>. HIDE DEF x
  <2>5. Due(p)' - Due(p) = x + 0 + 0
    BY <2>4, DueChange
  <2>6. avail'[p] - avail[p] = 0
    BY <1>1 DEF TypeOK
  <2>. QED BY <2>4, <2>5, <2>6
<1>4. /\ \A p \in Pieces : avail'[p] >= Due(p)'
      /\ ~drifted' => \A p \in Pieces : avail'[p] = Due(p)'
  BY <1>1, <1>3, CountKeeps
<1>. QED BY <1>1, <1>2, <1>4 DEF CountInv

LEMMA CountInit == Init => CountInv
<1>. SUFFICES ASSUME Init PROVE CountInv
  OBVIOUS
<1>1. /\ avail = [p \in Pieces |-> 0] /\ registered = {} /\ events = <<>>
      /\ stored = [a \in Addrs |-> {}] /\ \A c \in Conns : pc[c] = "idle" /\ conn[c] = "closed"
  BY DEF Init
<1>2. DOMAIN events = {} /\ \A a : Of(a) = {}
  BY <1>1 DEF Of
<1>3. PlainEvents /\ StoredOfPeers
  BY <1>1, <1>2 DEF PlainEvents, StoredOfPeers
<1>4. Orderly
  BY <1>1, <1>2 DEF Orderly, InOrder, EventsFit, TasksFit, HaveIsNew, Live
<1>5. ASSUME NEW p \in Pieces PROVE avail[p] = Due(p) /\ avail[p] >= Due(p)
  <2>1. Owners(p) = {} /\ Haves(p) = {} /\ Counted(p) = {}
    BY <1>1, <1>2 DEF Owners, Haves, Counted
  <2>2. Cardinality({}) = 0
    BY FS_EmptySet
  <2>3. Due(p) = 0
    BY <2>1, <2>2 DEF Due
  <2>4. avail[p] = 0
    BY <1>1
  <2>. HIDE DEF Due
  <2>. QED BY <2>3, <2>4
<1>. QED BY <1>3, <1>4, <1>5 DEF CountInv

(* A task that is not in the middle of a Have goes somewhere else.         *)
LEMMA CalmGoto ==
  ASSUME TypeOK, CountInv, NEW c \in Conns, NEW step, NEW p, NEW n, Goto(c, step, p, n),
         step # "incremented", pc[c] # "incremented",
         UNCHANGED <<avail, link, table, events, drifted>>
  PROVE  CountInv'
<1>1. CalmStep
  BY DEF CalmStep, Goto, TypeOK
<1>. QED BY <1>1, CalmKeeps

LEMMA CountNext == IndexInv /\ CountInv /\ [Next]_vars => CountInv'
<1>. SUFFICES ASSUME IndexInv, CountInv, [Next]_vars PROVE CountInv'
  OBVIOUS
<1>1. TypeOK /\ TypeOK'
  BY NextInv DEF IndexInv
<1>2. ASSUME NEW c \in Conns, NEW p \in Pieces, ReceiveHave(c, p) PROVE CountInv'
  BY <1>1, <1>2, ReceiveHaveCounts
<1>3. ASSUME NEW c \in Conns, MoveIncremented(c) PROVE CountInv'
  BY <1>1, <1>3, MoveCounts
<1>4. ASSUME NEW c \in Conns, NEW a \in Addrs, Connect(c, a) PROVE CountInv'
  <2>. DEFINE e == [type |-> "Connected", addr |-> a, ps |-> {}]
  <2>1. /\ Send(e) /\ e \in Events /\ UNCHANGED <<avail, registered, stored, drifted, pc, arg>>
    BY <1>4 DEF Connect, Events, index, locals
  <2>2. ~drifted' => Orderly'
    BY <1>1, <1>4, <2>1, ConnectOrder DEF CountInv
  <2>3. e.type = "Connected" /\ e.ps = {}
    OBVIOUS
  <2>. HIDE DEF e
  <2>. QED BY <1>1, <2>1, <2>2, <2>3, SentCounts
<1>5. ASSUME NEW c \in Conns, NEW ps \in SUBSET Pieces, ReceiveBitfield(c, ps) PROVE CountInv'
  <2>. DEFINE e == [type |-> "PeerBitfield", addr |-> addr[c], ps |-> ps]
  <2>1. /\ Send(e) /\ e \in Events /\ UNCHANGED <<avail, registered, stored, pc, arg>>
        /\ drifted => drifted'
    BY <1>1, <1>5 DEF ReceiveBitfield, Events, index, locals, table, TypeOK
  <2>2. ASSUME ~drifted' PROVE Orderly'
    <3>1. ~drifted /\ remote[c] = {}
      BY <1>5, <2>2 DEF ReceiveBitfield
    <3>2. Orderly
      BY <3>1 DEF CountInv
    <3>. QED BY <1>1, <1>5, <3>1, <3>2, BitfieldOrder
  <2>3. e.type = "PeerBitfield"
    OBVIOUS
  <2>. HIDE DEF e
  <2>. QED BY <1>1, <2>1, <2>2, <2>3, SentCounts
<1>6. ASSUME NEW c \in Conns, Disconnect(c) PROVE CountInv'
  <2>. DEFINE e == [type |-> "Disconnected", addr |-> addr[c], ps |-> {}]
  <2>1. /\ Send(e) /\ e \in Events /\ UNCHANGED <<avail, registered, stored, drifted, pc, arg>>
    BY <1>1, <1>6 DEF Disconnect, Events, index, locals, table, TypeOK
  <2>2. ~drifted' => Orderly'
    BY <1>1, <1>6, <2>1, DisconnectOrder DEF CountInv
  <2>3. e.type = "Disconnected" /\ e.ps = {}
    OBVIOUS
  <2>. HIDE DEF e
  <2>. QED BY <1>1, <2>1, <2>2, <2>3, SentCounts
<1>7. ASSUME NEW c \in Conns, RemoveMarked(c) PROVE CountInv'
  <2>. DEFINE e == [type |-> "PieceCompleted", addr |-> addr[c], ps |-> {arg[c]}]
  <2>1. /\ Send(e) /\ e \in Events /\ UNCHANGED <<avail, registered, stored, drifted>>
        /\ pc[c] = "marked" /\ pc' = [pc EXCEPT ![c] = "idle"]
        /\ \A d \in Conns : d # c => arg'[d] = arg[d]
    BY <1>1, <1>7 DEF RemoveMarked, Leave, Goto, Events, table, TypeOK
  <2>2. ~drifted' => Orderly'
    BY <1>1, <1>7, <2>1, RemoveOrder DEF CountInv
  <2>3. e.type = "PieceCompleted"
    OBVIOUS
  <2>4. \A d \in Conns : /\ pc'[d] = "incremented" <=> pc[d] = "incremented"
                         /\ pc[d] = "incremented" => arg'[d] = arg[d]
    BY <1>1, <2>1 DEF TypeOK
  <2>. HIDE DEF e
  <2>. QED BY <1>1, <2>1, <2>2, <2>3, <2>4, SentCounts
<1>8. ASSUME NEW c \in Conns, NEW p \in Pieces, MarkComplete(c, p) PROVE CountInv'
  BY <1>1, <1>8, CalmGoto DEF MarkComplete, index
<1>9. ASSUME NEW c \in Conns, NEW p \in Pieces, MarkFailed(c, p) PROVE CountInv'
  BY <1>1, <1>9, CalmGoto DEF MarkFailed, index
<1>10. ASSUME NEW c \in Conns, AddFailed(c) PROVE CountInv'
  BY <1>1, <1>10, CalmGoto DEF AddFailed, Leave
<1>11. ASSUME NEW c \in Conns, ChooseMode(c) PROVE CountInv'
  BY <1>1, <1>11, CalmGoto DEF ChooseMode, index
<1>12. ASSUME NEW c \in Conns, PickPiece(c) PROVE CountInv'
  <2>1. \E step, p, n : step # "incremented" /\ Goto(c, step, p, n)
    BY <1>12 DEF PickPiece, Leave
  <2>. QED BY <1>1, <1>12, <2>1, CalmGoto DEF PickPiece, index
<1>13. ASSUME NEW c \in Conns, StartPiece(c) PROVE CountInv'
  BY <1>1, <1>13, CalmGoto DEF StartPiece, Leave, index
<1>14. ASSUME NEW ps \in SUBSET Pieces, CleanupStale(ps) PROVE CountInv'
  BY <1>14, CalmKeeps DEF CleanupStale, CalmStep, index, locals
<1>15. CASE UNCHANGED vars
  BY <1>15, CalmKeeps DEF vars, CalmStep, index, locals
<1>16. ASSUME EventProcessor PROVE CountInv'
  BY <1>1, <1>16, ConnectedCounts, BitfieldCounts, HaveCounts, DisconnectedCounts,
     CompletedCounts DEF EventProcessor
<1>17. CASE ClearPeers
  BY <1>1, <1>17, ClearCounts
<1>. QED BY <1>2, <1>3, <1>4, <1>5, <1>6, <1>7, <1>8, <1>9, <1>10, <1>11, <1>12, <1>13,
            <1>14, <1>15, <1>16, <1>17 DEF Next, PeerTask

(* With the channel empty and every task idle nothing else is due.         *)
LEMMA CountExact == TypeOK /\ CountInv => AvailabilityExact
<1>. SUFFICES ASSUME TypeOK, CountInv, Quiet, NEW p \in Pieces
              PROVE  /\ avail[p] >= Cardinality(Owners(p))
                     /\ drifted \/ avail[p] = Cardinality(Owners(p))
  BY DEF AvailabilityExact
<1>1. Haves(p) = {} /\ Counted(p) = {}
  BY DEF Quiet, AllIdle, Haves, Counted
<1>2. Cardinality({}) = 0
  BY FS_EmptySet
<1>3. Due(p) = Cardinality(Owners(p))
  BY <1>1, <1>2, DueTyped DEF Due
<1>. HIDE DEF Due
<1>. QED BY <1>3 DEF CountInv

(* For any number of peers and pieces and any order of Haves, bitfields,   *)
(* completions and departures: once the channel is drained the counter of  *)
(* a piece is the number of registered peers that own it, and never less   *)
(* even after a repeated Have, a late or second bitfield or a cleared      *)
(* table (AvailabilityIndex::increment and decrement, handle_peer_event).  *)
THEOREM CountersExact == Spec => []AvailabilityExact
<1>1. Init => IndexInv /\ CountInv
  BY InitInv, CountInit
<1>2. IndexInv /\ CountInv /\ [Next]_vars => IndexInv' /\ CountInv'
  BY NextInv, CountNext
<1>3. IndexInv /\ CountInv => AvailabilityExact
  BY CountExact DEF IndexInv
<1>. QED BY <1>1, <1>2, <1>3, PTL DEF Spec
=============================================================================
