------------------------ MODULE PieceDownloadProofs ------------------------
(* What holds of the download of any torrent, with any number of peers,    *)
(* pieces and blocks and any schedule of the peer tasks.                   *)
EXTENDS PieceDownload, FiniteSetTheorems, TLAPS

USE DEF Goto, Fault, manager, handled, request, remote, channel, engine, Requests

LEMMA Sizes == /\ 0 \in Pieces /\ 0 \in Blocks
               /\ {BlocksPerPiece, PieceCount} \subseteq Nat
BY SizesAssumption DEF Pieces, Blocks

(* Dropping pieces from active_pieces keeps the types. *)
LEMMA DeactivateType ==
  ASSUME NEW ps \in SUBSET Pieces, TypeOK, Deactivate(ps)
  PROVE  /\ active' = active \ ps /\ active' \subseteq Pieces
         /\ blocks' \in [Pieces -> SUBSET Blocks] /\ pending' \in [Pieces -> SUBSET Blocks]
         /\ \A p \in Pieces : blocks'[p] \subseteq blocks[p]
BY DEF Deactivate, TypeOK

(* The type invariant is kept by every step. *)
LEMMA TypeStep == TypeOK /\ [Next]_vars => TypeOK'
<1>. SUFFICES ASSUME TypeOK, [Next]_vars PROVE TypeOK'
  OBVIOUS
<1>. USE Sizes
<1>1. ASSUME NEW q \in Peers, NEW ps \in SUBSET Pieces, Open(q, ps)
     PROVE  TypeOK'
  BY <1>1 DEF TypeOK, Open, Steps, InRead, Verification
<1>2. ASSUME NEW q \in Peers, Close(q)
     PROVE  TypeOK'
  BY <1>2 DEF TypeOK, Close, Steps, InRead, Verification, End
<1>3. ASSUME NEW q \in Peers, Unchoke(q)
     PROVE  TypeOK'
  BY <1>3 DEF TypeOK, Unchoke, Steps, InRead, Verification
<1>4. ASSUME NEW q \in Peers, NEW kept \in SUBSET asked[q], Choke(q, kept)
     PROVE  TypeOK'
  BY <1>4 DEF TypeOK, Choke, Steps, InRead, Verification
<1>5. ASSUME NEW q \in Peers, NEW r \in Requests, Reject(q, r)
     PROVE  TypeOK'
  BY <1>5 DEF TypeOK, Reject, Steps, InRead, Verification
<1>6. ASSUME NEW q \in Peers, NEW p \in Pieces, ReceiveHave(q, p)
     PROVE  TypeOK'
  BY <1>6 DEF TypeOK, ReceiveHave, Steps, InRead, Verification
<1>7. ASSUME NEW q \in Peers, NEW kept \in SUBSET asked[q], HandleCancel(q, kept)
     PROVE  TypeOK'
  BY <1>7 DEF TypeOK, HandleCancel, Steps, InRead, Verification, Unanswered
<1>8. ASSUME NEW q \in Peers, NEW r \in Requests, NEW d \in Data, ReceivePiece(q, r, d)
     PROVE  TypeOK'
  BY <1>8 DEF TypeOK, ReceivePiece, Steps, InRead, Verification
<1>9. ASSUME NEW q \in Peers, WriteBlock(q)
     PROVE  TypeOK'
  <2>1. piece[q] \in Pieces /\ block[q] \in Blocks /\ data[q] \in Data
    BY DEF TypeOK
  <2>2. disk' = [disk EXCEPT ![piece[q]][block[q]] = data[q]]
    BY <1>9 DEF WriteBlock
  <2>3. (disk \in [Pieces -> [Blocks -> Data \cup {"none"}]])'
    BY <2>1, <2>2 DEF TypeOK
  <2>. QED BY <1>9, <2>3 DEF TypeOK, WriteBlock, Steps, Data
<1>10. ASSUME NEW q \in Peers, WriteFails(q)
     PROVE  TypeOK'
  BY <1>10 DEF TypeOK, WriteFails, Steps, InRead, Verification, End
<1>11. ASSUME NEW q \in Peers, ReceiveBlock(q)
     PROVE  TypeOK'
  BY <1>11 DEF TypeOK, ReceiveBlock, Steps, InRead, Verification
<1>12. ASSUME NEW q \in Peers, StartVerifying(q)
     PROVE  TypeOK'
  BY <1>12 DEF TypeOK, StartVerifying, Steps, InRead, Verification
<1>13. ASSUME NEW q \in Peers, VerifyPiece(q)
     PROVE  TypeOK'
  BY <1>13 DEF TypeOK, VerifyPiece, Steps, InRead, Verification
<1>14. ASSUME NEW q \in Peers, VerifyFails(q)
     PROVE  TypeOK'
  BY <1>14 DEF TypeOK, VerifyFails, Steps, InRead, Verification, End
<1>15. ASSUME NEW q \in Peers, NEW left \in SUBSET {piece[q]}, MarkComplete(q, left)
     PROVE  TypeOK'
  <2>1. piece[q] \in Pieces
    BY DEF TypeOK
  <2>2. (cancels \in [Peers -> Seq(Pieces)])'
    <3>1. cancels' = [r \in Peers |->
            IF pc[r] = "closed" THEN cancels[r]
            ELSE IF Len(cancels[r]) < CancelCap THEN Append(cancels[r], piece[q])
            ELSE Append(Tail(cancels[r]), piece[q])]
      BY <1>15 DEF MarkComplete, Broadcast
    <3>2. ASSUME NEW r \in Peers
          PROVE  /\ cancels[r] \in Seq(Pieces)
                 /\ Append(cancels[r], piece[q]) \in Seq(Pieces)
                 /\ ~(Len(cancels[r]) < CancelCap) =>
                        Append(Tail(cancels[r]), piece[q]) \in Seq(Pieces)
      <4>1. cancels[r] \in Seq(Pieces) /\ CancelCap \in Nat \ {0}
        BY SizesAssumption DEF TypeOK
      <4>2. ~(Len(cancels[r]) < CancelCap) => cancels[r] # <<>>
        BY <4>1
      <4>. QED BY <2>1, <4>1, <4>2
    <3>. QED BY <3>1, <3>2
  <2>3. (events \in Seq(Pieces))' /\ (faults \in Nat)'
    BY <1>15, <2>1 DEF MarkComplete, TypeOK
  <2>4. Deactivate({piece[q]})
    BY <1>15 DEF MarkComplete
  <2>5. /\ (active \subseteq Pieces)'
        /\ (blocks \in [Pieces -> SUBSET Blocks])' /\ (pending \in [Pieces -> SUBSET Blocks])'
    BY <2>1, <2>4, DeactivateType
  <2>6. (indexed \subseteq Pieces /\ candidates \subseteq Pieces)'
    BY <1>15 DEF MarkComplete, Remove, TypeOK
  <2>7. (overrun \subseteq Peers)'
    BY <1>15 DEF MarkComplete, Broadcast, TypeOK
  <2>. QED BY <1>15, <2>1, <2>2, <2>3, <2>5, <2>6, <2>7 DEF MarkComplete, TypeOK, Steps
<1>16. ASSUME NEW q \in Peers, MarkFailed(q)
     PROVE  TypeOK'
  BY <1>16 DEF TypeOK, MarkFailed, Steps, InRead, Verification, Deactivate
<1>17. ASSUME NEW q \in Peers, BeginRequest(q)
     PROVE  TypeOK'
  BY <1>17 DEF TypeOK, BeginRequest, Steps, InRead, Verification
<1>18. ASSUME NEW q \in Peers, PickPiece(q)
     PROVE  TypeOK'
  <2>1. Picks(q) \subseteq Pieces
    BY DEF Picks, TypeOK
  <2>2. PICK p \in Picks(q) : piece' = [piece EXCEPT ![q] = p]
    BY <1>18 DEF PickPiece
  <2>3. (piece \in [Peers -> Pieces])'
    BY <2>1, <2>2 DEF TypeOK
  <2>. QED BY <1>18, <2>3 DEF PickPiece, TypeOK, Steps, InRead
<1>19. ASSUME NEW q \in Peers, StartPiece(q)
     PROVE  TypeOK'
  <2>1. \A bs \in SUBSET Blocks : FirstOf(bs, Budget(q)) \in SUBSET Blocks
    BY DEF FirstOf
  <2>2. Blocks \ (blocks[piece[q]] \cup pending[piece[q]]) \in SUBSET Blocks
    OBVIOUS
  <2>3. (wanted \in [Peers -> SUBSET Blocks])'
    BY <1>19, <2>1, <2>2 DEF StartPiece, TypeOK
  <2>4. (active \subseteq Pieces)' /\ (pc \in [Peers -> Steps])'
    BY <1>19 DEF StartPiece, TypeOK, Steps, InRead
  <2>. QED BY <1>19, <2>3, <2>4 DEF StartPiece, TypeOK
<1>20. ASSUME NEW q \in Peers, AddPending(q)
     PROVE  TypeOK'
  BY <1>20 DEF TypeOK, AddPending, Steps, InRead, Verification
<1>21. ASSUME NEW q \in Peers, SendRequests(q)
     PROVE  TypeOK'
  <2>1. Outstanding(q) \subseteq Requests
    BY DEF Outstanding, TypeOK
  <2>2. \A n : kSubset(n, Outstanding(q)) \subseteq SUBSET Requests
    BY <2>1 DEF kSubset
  <2>3. EndgameRequests(q) \subseteq SUBSET Requests
    BY <2>2 DEF EndgameRequests
  <2>4. PICK extra \in EndgameRequests(q) :
           asked' = [asked EXCEPT ![q] = @ \cup (batch[q] \cup extra)]
    BY <1>21 DEF SendRequests
  <2>5. (asked \in [Peers -> SUBSET Requests])'
    BY <2>3, <2>4 DEF TypeOK
  <2>. QED BY <1>21, <2>5 DEF SendRequests, TypeOK, Steps
<1>22. CASE OnPieceCompleted
  BY <1>22 DEF TypeOK, OnPieceCompleted, Steps, InRead, Verification, Deactivate, Remove
<1>23. ASSUME NEW ps \in SUBSET Pieces, CleanupStale(ps)
     PROVE  TypeOK'
  BY <1>23 DEF TypeOK, CleanupStale, Steps, InRead, Verification, Stale, Deactivate
<1>24. ASSUME NEW ps \in SUBSET Pieces, FindStale(ps)
     PROVE  TypeOK'
  BY <1>24 DEF TypeOK, FindStale, Steps, InRead, Verification, Stale
<1>25. CASE RemoveStale
  BY <1>25 DEF TypeOK, RemoveStale, Steps, InRead, Verification, Deactivate
<1>26. CASE UNCHANGED vars
  BY <1>26 DEF vars, TypeOK
<1>. QED
  BY <1>1, <1>2, <1>3, <1>4, <1>5, <1>6, <1>7, <1>8, <1>9, <1>10, <1>11, <1>12, <1>13, <1>14,
     <1>15, <1>16, <1>17, <1>18, <1>19, <1>20, <1>21, <1>22, <1>23, <1>24, <1>25, <1>26
     DEF Next, Task, Remote, Failure, Cleanup

(* A completed piece is in the bitfield before its event is sent, and the  *)
(* bitfield never loses a piece.                                           *)
LEMMA EventsStep == TypeOK /\ EventsOwned /\ [Next]_vars => EventsOwned'
<1>. SUFFICES ASSUME TypeOK, EventsOwned, [Next]_vars PROVE EventsOwned'
  OBVIOUS
<1>. USE Sizes
<1>1. ASSUME NEW q \in Peers, NEW ps \in SUBSET Pieces, Open(q, ps)
     PROVE  EventsOwned'
  BY <1>1 DEF Open, EventsOwned, TypeOK
<1>2. ASSUME NEW q \in Peers, Close(q)
     PROVE  EventsOwned'
  BY <1>2 DEF Close, EventsOwned, TypeOK, End
<1>3. ASSUME NEW q \in Peers, Unchoke(q)
     PROVE  EventsOwned'
  BY <1>3 DEF Unchoke, EventsOwned, TypeOK
<1>4. ASSUME NEW q \in Peers, NEW kept \in SUBSET asked[q], Choke(q, kept)
     PROVE  EventsOwned'
  BY <1>4 DEF Choke, EventsOwned, TypeOK
<1>5. ASSUME NEW q \in Peers, NEW r \in Requests, Reject(q, r)
     PROVE  EventsOwned'
  BY <1>5 DEF Reject, EventsOwned, TypeOK
<1>6. ASSUME NEW q \in Peers, NEW p \in Pieces, ReceiveHave(q, p)
     PROVE  EventsOwned'
  BY <1>6 DEF ReceiveHave, EventsOwned, TypeOK
<1>7. ASSUME NEW q \in Peers, NEW kept \in SUBSET asked[q], HandleCancel(q, kept)
     PROVE  EventsOwned'
  BY <1>7 DEF HandleCancel, EventsOwned, TypeOK
<1>8. ASSUME NEW q \in Peers, NEW r \in Requests, NEW d \in Data, ReceivePiece(q, r, d)
     PROVE  EventsOwned'
  BY <1>8 DEF ReceivePiece, EventsOwned, TypeOK
<1>9. ASSUME NEW q \in Peers, WriteBlock(q)
     PROVE  EventsOwned'
  BY <1>9 DEF WriteBlock, EventsOwned, TypeOK
<1>10. ASSUME NEW q \in Peers, WriteFails(q)
     PROVE  EventsOwned'
  BY <1>10 DEF WriteFails, EventsOwned, TypeOK, End
<1>11. ASSUME NEW q \in Peers, ReceiveBlock(q)
     PROVE  EventsOwned'
  BY <1>11 DEF ReceiveBlock, EventsOwned, TypeOK
<1>12. ASSUME NEW q \in Peers, StartVerifying(q)
     PROVE  EventsOwned'
  BY <1>12 DEF StartVerifying, EventsOwned, TypeOK
<1>13. ASSUME NEW q \in Peers, VerifyPiece(q)
     PROVE  EventsOwned'
  BY <1>13 DEF VerifyPiece, EventsOwned, TypeOK
<1>14. ASSUME NEW q \in Peers, VerifyFails(q)
     PROVE  EventsOwned'
  BY <1>14 DEF VerifyFails, EventsOwned, TypeOK, End
<1>15. ASSUME NEW q \in Peers, NEW left \in SUBSET {piece[q]}, MarkComplete(q, left)
     PROVE  EventsOwned'
  BY <1>15 DEF MarkComplete, EventsOwned, TypeOK
<1>16. ASSUME NEW q \in Peers, MarkFailed(q)
     PROVE  EventsOwned'
  BY <1>16 DEF MarkFailed, EventsOwned, TypeOK
<1>17. ASSUME NEW q \in Peers, BeginRequest(q)
     PROVE  EventsOwned'
  BY <1>17 DEF BeginRequest, EventsOwned, TypeOK
<1>18. ASSUME NEW q \in Peers, PickPiece(q)
     PROVE  EventsOwned'
  BY <1>18 DEF PickPiece, EventsOwned, TypeOK
<1>19. ASSUME NEW q \in Peers, StartPiece(q)
     PROVE  EventsOwned'
  BY <1>19 DEF StartPiece, EventsOwned, TypeOK
<1>20. ASSUME NEW q \in Peers, AddPending(q)
     PROVE  EventsOwned'
  BY <1>20 DEF AddPending, EventsOwned, TypeOK
<1>21. ASSUME NEW q \in Peers, SendRequests(q)
     PROVE  EventsOwned'
  BY <1>21 DEF SendRequests, EventsOwned, TypeOK
<1>22. CASE OnPieceCompleted
  BY <1>22 DEF OnPieceCompleted, EventsOwned, TypeOK
<1>23. ASSUME NEW ps \in SUBSET Pieces, CleanupStale(ps)
     PROVE  EventsOwned'
  BY <1>23 DEF CleanupStale, EventsOwned, TypeOK
<1>24. ASSUME NEW ps \in SUBSET Pieces, FindStale(ps)
     PROVE  EventsOwned'
  BY <1>24 DEF FindStale, EventsOwned, TypeOK
<1>25. CASE RemoveStale
  BY <1>25 DEF RemoveStale, EventsOwned, TypeOK
<1>26. CASE UNCHANGED vars
  BY <1>26 DEF vars, EventsOwned, TypeOK
<1>. QED
  BY <1>1, <1>2, <1>3, <1>4, <1>5, <1>6, <1>7, <1>8, <1>9, <1>10, <1>11, <1>12, <1>13, <1>14,
     <1>15, <1>16, <1>17, <1>18, <1>19, <1>20, <1>21, <1>22, <1>23, <1>24, <1>25, <1>26
     DEF Next, Task, Remote, Failure, Cleanup

(* A claim on a piece we miss is taken by one task and given back only by  *)
(* the task that holds it.                                                 *)
LEMMA VerifierStep == TypeOK /\ EventsOwned /\ OneVerifier /\ [Next]_vars => OneVerifier'
<1>. SUFFICES ASSUME TypeOK, EventsOwned, OneVerifier, [Next]_vars PROVE OneVerifier'
  OBVIOUS
<1>. USE Sizes
<1>1. ASSUME NEW q \in Peers, NEW ps \in SUBSET Pieces, Open(q, ps)
     PROVE  OneVerifier'
  BY <1>1 DEF Open, OneVerifier, EventsOwned, TypeOK, Verifying, Verification, InRead
<1>2. ASSUME NEW q \in Peers, Close(q)
     PROVE  OneVerifier'
  BY <1>2 DEF Close, OneVerifier, EventsOwned, TypeOK, Verifying, Verification, InRead, End
<1>3. ASSUME NEW q \in Peers, Unchoke(q)
     PROVE  OneVerifier'
  BY <1>3 DEF Unchoke, OneVerifier, EventsOwned, TypeOK, Verifying, Verification, InRead
<1>4. ASSUME NEW q \in Peers, NEW kept \in SUBSET asked[q], Choke(q, kept)
     PROVE  OneVerifier'
  BY <1>4 DEF Choke, OneVerifier, EventsOwned, TypeOK, Verifying, Verification, InRead
<1>5. ASSUME NEW q \in Peers, NEW r \in Requests, Reject(q, r)
     PROVE  OneVerifier'
  BY <1>5 DEF Reject, OneVerifier, EventsOwned, TypeOK, Verifying, Verification, InRead
<1>6. ASSUME NEW q \in Peers, NEW p \in Pieces, ReceiveHave(q, p)
     PROVE  OneVerifier'
  BY <1>6 DEF ReceiveHave, OneVerifier, EventsOwned, TypeOK, Verifying, Verification, InRead
<1>7. ASSUME NEW q \in Peers, NEW kept \in SUBSET asked[q], HandleCancel(q, kept)
     PROVE  OneVerifier'
  BY <1>7 DEF HandleCancel, OneVerifier, EventsOwned, TypeOK, Verifying, Verification, InRead
<1>8. ASSUME NEW q \in Peers, NEW r \in Requests, NEW d \in Data, ReceivePiece(q, r, d)
     PROVE  OneVerifier'
  BY <1>8 DEF ReceivePiece, OneVerifier, EventsOwned, TypeOK, Verifying, Verification, InRead
<1>9. ASSUME NEW q \in Peers, WriteBlock(q)
     PROVE  OneVerifier'
  BY <1>9 DEF WriteBlock, OneVerifier, EventsOwned, TypeOK, Verifying, Verification, InRead
<1>10. ASSUME NEW q \in Peers, WriteFails(q)
     PROVE  OneVerifier'
  BY <1>10 DEF WriteFails, OneVerifier, EventsOwned, TypeOK, Verifying, Verification, InRead, End
<1>11. ASSUME NEW q \in Peers, ReceiveBlock(q)
     PROVE  OneVerifier'
  BY <1>11 DEF ReceiveBlock, OneVerifier, EventsOwned, TypeOK, Verifying, Verification, InRead
<1>12. ASSUME NEW q \in Peers, StartVerifying(q)
     PROVE  OneVerifier'
  BY <1>12 DEF StartVerifying, OneVerifier, EventsOwned, TypeOK, Verifying, Verification, InRead
<1>13. ASSUME NEW q \in Peers, VerifyPiece(q)
     PROVE  OneVerifier'
  BY <1>13 DEF VerifyPiece, OneVerifier, EventsOwned, TypeOK, Verifying, Verification, InRead
<1>14. ASSUME NEW q \in Peers, VerifyFails(q)
     PROVE  OneVerifier'
  BY <1>14 DEF VerifyFails, OneVerifier, EventsOwned, TypeOK, Verifying, Verification, InRead, End
<1>15. ASSUME NEW q \in Peers, NEW left \in SUBSET {piece[q]}, MarkComplete(q, left)
     PROVE  OneVerifier'
  BY <1>15 DEF MarkComplete, OneVerifier, EventsOwned, TypeOK, Verifying, Verification, InRead
<1>16. ASSUME NEW q \in Peers, MarkFailed(q)
     PROVE  OneVerifier'
  BY <1>16 DEF MarkFailed, OneVerifier, EventsOwned, TypeOK, Verifying, Verification, InRead
<1>17. ASSUME NEW q \in Peers, BeginRequest(q)
     PROVE  OneVerifier'
  BY <1>17 DEF BeginRequest, OneVerifier, EventsOwned, TypeOK, Verifying, Verification, InRead
<1>18. ASSUME NEW q \in Peers, PickPiece(q)
     PROVE  OneVerifier'
  BY <1>18 DEF PickPiece, OneVerifier, EventsOwned, TypeOK, Verifying, Verification, InRead
<1>19. ASSUME NEW q \in Peers, StartPiece(q)
     PROVE  OneVerifier'
  BY <1>19 DEF StartPiece, OneVerifier, EventsOwned, TypeOK, Verifying, Verification, InRead
<1>20. ASSUME NEW q \in Peers, AddPending(q)
     PROVE  OneVerifier'
  BY <1>20 DEF AddPending, OneVerifier, EventsOwned, TypeOK, Verifying, Verification, InRead
<1>21. ASSUME NEW q \in Peers, SendRequests(q)
     PROVE  OneVerifier'
  BY <1>21 DEF SendRequests, OneVerifier, EventsOwned, TypeOK, Verifying, Verification, InRead
<1>22. CASE OnPieceCompleted
  BY <1>22 DEF OnPieceCompleted, OneVerifier, EventsOwned, TypeOK, Verifying, Verification, InRead
<1>23. ASSUME NEW ps \in SUBSET Pieces, CleanupStale(ps)
     PROVE  OneVerifier'
  BY <1>23 DEF CleanupStale, OneVerifier, EventsOwned, TypeOK, Verifying, Verification, InRead
<1>24. ASSUME NEW ps \in SUBSET Pieces, FindStale(ps)
     PROVE  OneVerifier'
  BY <1>24 DEF FindStale, OneVerifier, EventsOwned, TypeOK, Verifying, Verification, InRead
<1>25. CASE RemoveStale
  BY <1>25 DEF RemoveStale, OneVerifier, EventsOwned, TypeOK, Verifying, Verification, InRead
<1>26. CASE UNCHANGED vars
  BY <1>26 DEF vars, OneVerifier, EventsOwned, TypeOK, Verifying, Verification, InRead
<1>. QED
  BY <1>1, <1>2, <1>3, <1>4, <1>5, <1>6, <1>7, <1>8, <1>9, <1>10, <1>11, <1>12, <1>13, <1>14,
     <1>15, <1>16, <1>17, <1>18, <1>19, <1>20, <1>21, <1>22, <1>23, <1>24, <1>25, <1>26
     DEF Next, Task, Remote, Failure, Cleanup

(* A block counts as received only after it has been written, and what is  *)
(* written is never erased.                                                *)
LEMMA WrittenStep ==
  TypeOK /\ BlocksWritten /\ WrittenFirst /\ [Next]_vars => (BlocksWritten /\ WrittenFirst)'
<1>. SUFFICES ASSUME TypeOK, BlocksWritten, WrittenFirst, [Next]_vars
              PROVE  (BlocksWritten /\ WrittenFirst)'
  OBVIOUS
<1>. USE Sizes
<1>1. ASSUME NEW q \in Peers, NEW ps \in SUBSET Pieces, Open(q, ps)
     PROVE  (BlocksWritten /\ WrittenFirst)'
  BY <1>1 DEF Open, BlocksWritten, WrittenFirst, TypeOK, Data
<1>2. ASSUME NEW q \in Peers, Close(q)
     PROVE  (BlocksWritten /\ WrittenFirst)'
  BY <1>2 DEF Close, BlocksWritten, WrittenFirst, TypeOK, Data, End
<1>3. ASSUME NEW q \in Peers, Unchoke(q)
     PROVE  (BlocksWritten /\ WrittenFirst)'
  BY <1>3 DEF Unchoke, BlocksWritten, WrittenFirst, TypeOK, Data
<1>4. ASSUME NEW q \in Peers, NEW kept \in SUBSET asked[q], Choke(q, kept)
     PROVE  (BlocksWritten /\ WrittenFirst)'
  BY <1>4 DEF Choke, BlocksWritten, WrittenFirst, TypeOK, Data
<1>5. ASSUME NEW q \in Peers, NEW r \in Requests, Reject(q, r)
     PROVE  (BlocksWritten /\ WrittenFirst)'
  BY <1>5 DEF Reject, BlocksWritten, WrittenFirst, TypeOK, Data
<1>6. ASSUME NEW q \in Peers, NEW p \in Pieces, ReceiveHave(q, p)
     PROVE  (BlocksWritten /\ WrittenFirst)'
  BY <1>6 DEF ReceiveHave, BlocksWritten, WrittenFirst, TypeOK, Data
<1>7. ASSUME NEW q \in Peers, NEW kept \in SUBSET asked[q], HandleCancel(q, kept)
     PROVE  (BlocksWritten /\ WrittenFirst)'
  BY <1>7 DEF HandleCancel, BlocksWritten, WrittenFirst, TypeOK, Data
<1>8. ASSUME NEW q \in Peers, NEW r \in Requests, NEW d \in Data, ReceivePiece(q, r, d)
     PROVE  (BlocksWritten /\ WrittenFirst)'
  BY <1>8 DEF ReceivePiece, BlocksWritten, WrittenFirst, TypeOK, Data
<1>9. ASSUME NEW q \in Peers, WriteBlock(q)
     PROVE  (BlocksWritten /\ WrittenFirst)'
  <2>1. piece[q] \in Pieces /\ block[q] \in Blocks /\ data[q] # "none"
    BY DEF TypeOK, Data
  <2>2. disk' = [disk EXCEPT ![piece[q]][block[q]] = data[q]]
    BY <1>9 DEF WriteBlock
  <2>3. ASSUME NEW p \in Pieces, NEW b \in Blocks, disk[p][b] # "none"
        PROVE  disk'[p][b] # "none"
    <3>1. disk \in [Pieces -> [Blocks -> Data \cup {"none"}]]
      BY DEF TypeOK
    <3>2. disk'[p][b] \in {disk[p][b], data[q]}
      BY <2>1, <2>2, <3>1
    <3>. QED BY <2>1, <2>3, <3>2
  <2>4. disk'[piece[q]][block[q]] # "none"
    BY <2>1, <2>2 DEF TypeOK
  <2>5. piece' = piece /\ block' = block /\ blocks' = blocks
    BY <1>9 DEF WriteBlock
  <2>6. BlocksWritten'
    BY <2>3, <2>5 DEF BlocksWritten, TypeOK
  <2>7. WrittenFirst'
    BY <1>9, <2>3, <2>4, <2>5 DEF WriteBlock, WrittenFirst, TypeOK
  <2>. QED BY <2>6, <2>7
<1>10. ASSUME NEW q \in Peers, WriteFails(q)
     PROVE  (BlocksWritten /\ WrittenFirst)'
  BY <1>10 DEF WriteFails, BlocksWritten, WrittenFirst, TypeOK, Data, End
<1>11. ASSUME NEW q \in Peers, ReceiveBlock(q)
     PROVE  (BlocksWritten /\ WrittenFirst)'
  BY <1>11 DEF ReceiveBlock, BlocksWritten, WrittenFirst, TypeOK, Data
<1>12. ASSUME NEW q \in Peers, StartVerifying(q)
     PROVE  (BlocksWritten /\ WrittenFirst)'
  BY <1>12 DEF StartVerifying, BlocksWritten, WrittenFirst, TypeOK, Data
<1>13. ASSUME NEW q \in Peers, VerifyPiece(q)
     PROVE  (BlocksWritten /\ WrittenFirst)'
  BY <1>13 DEF VerifyPiece, BlocksWritten, WrittenFirst, TypeOK, Data
<1>14. ASSUME NEW q \in Peers, VerifyFails(q)
     PROVE  (BlocksWritten /\ WrittenFirst)'
  BY <1>14 DEF VerifyFails, BlocksWritten, WrittenFirst, TypeOK, Data, End
<1>15. ASSUME NEW q \in Peers, NEW left \in SUBSET {piece[q]}, MarkComplete(q, left)
     PROVE  (BlocksWritten /\ WrittenFirst)'
  BY <1>15 DEF MarkComplete, BlocksWritten, WrittenFirst, TypeOK, Data, Deactivate
<1>16. ASSUME NEW q \in Peers, MarkFailed(q)
     PROVE  (BlocksWritten /\ WrittenFirst)'
  BY <1>16 DEF MarkFailed, BlocksWritten, WrittenFirst, TypeOK, Data, Deactivate
<1>17. ASSUME NEW q \in Peers, BeginRequest(q)
     PROVE  (BlocksWritten /\ WrittenFirst)'
  BY <1>17 DEF BeginRequest, BlocksWritten, WrittenFirst, TypeOK, Data
<1>18. ASSUME NEW q \in Peers, PickPiece(q)
     PROVE  (BlocksWritten /\ WrittenFirst)'
  BY <1>18 DEF PickPiece, BlocksWritten, WrittenFirst, TypeOK, Data
<1>19. ASSUME NEW q \in Peers, StartPiece(q)
     PROVE  (BlocksWritten /\ WrittenFirst)'
  BY <1>19 DEF StartPiece, BlocksWritten, WrittenFirst, TypeOK, Data
<1>20. ASSUME NEW q \in Peers, AddPending(q)
     PROVE  (BlocksWritten /\ WrittenFirst)'
  BY <1>20 DEF AddPending, BlocksWritten, WrittenFirst, TypeOK, Data
<1>21. ASSUME NEW q \in Peers, SendRequests(q)
     PROVE  (BlocksWritten /\ WrittenFirst)'
  BY <1>21 DEF SendRequests, BlocksWritten, WrittenFirst, TypeOK, Data
<1>22. CASE OnPieceCompleted
  BY <1>22 DEF OnPieceCompleted, BlocksWritten, WrittenFirst, TypeOK, Data, Deactivate
<1>23. ASSUME NEW ps \in SUBSET Pieces, CleanupStale(ps)
     PROVE  (BlocksWritten /\ WrittenFirst)'
  BY <1>23 DEF CleanupStale, BlocksWritten, WrittenFirst, TypeOK, Data, Deactivate
<1>24. ASSUME NEW ps \in SUBSET Pieces, FindStale(ps)
     PROVE  (BlocksWritten /\ WrittenFirst)'
  BY <1>24 DEF FindStale, BlocksWritten, WrittenFirst, TypeOK, Data
<1>25. CASE RemoveStale
  BY <1>25 DEF RemoveStale, BlocksWritten, WrittenFirst, TypeOK, Data, Deactivate
<1>26. CASE UNCHANGED vars
  BY <1>26 DEF vars, BlocksWritten, WrittenFirst, TypeOK, Data
<1>. QED
  BY <1>1, <1>2, <1>3, <1>4, <1>5, <1>6, <1>7, <1>8, <1>9, <1>10, <1>11, <1>12, <1>13, <1>14,
     <1>15, <1>16, <1>17, <1>18, <1>19, <1>20, <1>21, <1>22, <1>23, <1>24, <1>25, <1>26
     DEF Next, Task, Remote, Failure, Cleanup

LEMMA InitInv == Init => DownloadInv
<1>. SUFFICES ASSUME Init PROVE DownloadInv
  OBVIOUS
<1>. USE Sizes DEF Init
<1>1. TypeOK
  BY DEF TypeOK, Steps, Data
<1>2. EventsOwned /\ OneVerifier /\ BlocksWritten /\ WrittenFirst
  BY DEF EventsOwned, OneVerifier, Verifying, Verification, BlocksWritten, WrittenFirst
<1>. QED BY <1>1, <1>2 DEF DownloadInv

(* The inductive invariant of the download: types, claims and writes. *)
THEOREM DownloadInvariant == Spec => []DownloadInv
<1>1. DownloadInv /\ [Next]_vars => DownloadInv'
  BY TypeStep, EventsStep, VerifierStep, WrittenStep DEF DownloadInv
<1>. QED BY InitInv, <1>1, PTL DEF Spec

(* Every variable keeps its type, whatever the sizes and the faults. *)
THEOREM TypeCorrect == Spec => []TypeOK
<1>1. DownloadInv => TypeOK
  BY DEF DownloadInv
<1>. QED BY DownloadInvariant, <1>1, PTL

(* Two tasks never verify the same missing piece at once, and the one that *)
(* does holds the claim start_verifying gave it.                           *)
THEOREM SingleVerification == Spec => []OneVerifier
<1>1. DownloadInv => OneVerifier
  BY DEF DownloadInv
<1>. QED BY DownloadInvariant, <1>1, PTL

(* What active_pieces counts as received is on the disk, across every      *)
(* cleanup, restart of a piece, endgame duplicate and failed write.        *)
THEOREM NothingUnwritten == Spec => []ReceivedIsWritten
<1>1. DownloadInv => ReceivedIsWritten
  BY DEF DownloadInv, TypeOK, BlocksWritten, ReceivedIsWritten
<1>. QED BY DownloadInvariant, <1>1, PTL

-----------------------------------------------------------------------------
(* No piece is stuck.                                                      *)

(* A piece we miss is in the index; one that is not active has no blocks;  *)
(* one that is complete in memory has a task that verifies it or is about  *)
(* to, or the claim of a task that is gone; and a claim is left behind by  *)
(* a failed read only.                                                     *)
MissingIndexed == \A p \in Pieces \ have : p \in indexed /\ p \in candidates
InactiveEmpty == \A p \in Pieces \ active : blocks[p] = {}
FullAttended == \A p \in Pieces \ have : blocks[p] = Blocks => Attended(p) \/ Abandoned(p)
ClaimKept == \A p \in verifying \ have : Abandoned(p) => "verifyError" \in FaultKinds
StuckInv == MissingIndexed /\ InactiveEmpty /\ FullAttended /\ ClaimKept

(* A task whose step is neither at the verification of a piece nor ends    *)
(* there, and that leaves the pieces alone, does not matter.               *)
VerifySteps == Verification \cup {"startVerify"}
Quiet ==
    /\ UNCHANGED <<have, blocks, verifying, indexed, candidates>> /\ active \subseteq active'
    /\ \A q \in Peers : pc[q] \in VerifySteps \/ pc'[q] \in VerifySteps
                         => pc'[q] = pc[q] /\ piece'[q] = piece[q]

(* Steps that touch neither claims nor blocks nor the index leave nothing  *)
(* stuck.                                                                  *)
LEMMA QuietStep == TypeOK /\ StuckInv /\ Quiet => StuckInv'
<1>. SUFFICES ASSUME TypeOK, StuckInv, Quiet PROVE StuckInv'
  OBVIOUS
<1>1. \A p \in Pieces : (Attended(p)' <=> Attended(p)) /\ (Abandoned(p)' <=> Abandoned(p))
  BY DEF Quiet, VerifySteps, Attended, Abandoned, Verifying
<1>2. MissingIndexed' /\ InactiveEmpty'
  BY DEF StuckInv, Quiet, MissingIndexed, InactiveEmpty
<1>3. FullAttended' /\ ClaimKept'
  BY <1>1 DEF StuckInv, Quiet, FullAttended, ClaimKept, TypeOK
<1>. QED  BY <1>2, <1>3 DEF StuckInv

(* Dropping pieces from active_pieces empties them and leaves the others.  *)
LEMMA DropStep ==
  ASSUME TypeOK, StuckInv, NEW ps \in SUBSET Pieces, Deactivate(ps),
         have \subseteq have', have' \subseteq Pieces, verifying' \subseteq verifying,
         \A p \in Pieces \ have' : p \in indexed' /\ p \in candidates',
         \A p \in Pieces \ (have' \cup ps) : Attended(p) \/ Abandoned(p)
                                            => Attended(p)' \/ Abandoned(p)',
         \A p \in verifying' \ have' : Abandoned(p)' => Abandoned(p)
  PROVE  StuckInv'
<1>1. MissingIndexed'
  BY DEF MissingIndexed
<1>2. InactiveEmpty'
  BY DEF InactiveEmpty, Deactivate, StuckInv
<1>3. FullAttended'
  <2>. SUFFICES ASSUME NEW p \in Pieces \ have', blocks'[p] = Blocks
                PROVE  Attended(p)' \/ Abandoned(p)'
    BY DEF FullAttended
  <2>1. p \notin ps
    BY Sizes DEF Deactivate
  <2>2. blocks[p] = Blocks
    BY <2>1 DEF Deactivate
  <2>. QED  BY <2>1, <2>2 DEF StuckInv, FullAttended
<1>4. ClaimKept'
  BY DEF StuckInv, ClaimKept
<1>. QED  BY <1>1, <1>2, <1>3, <1>4 DEF StuckInv

(* A piece whose blocks are all there keeps a task that attends to it.     *)
LEMMA StuckStep ==
    TypeOK /\ EventsOwned /\ OneVerifier /\ StuckInv /\ [Next]_vars => StuckInv'
<1>. SUFFICES ASSUME TypeOK, EventsOwned, OneVerifier, StuckInv, [Next]_vars PROVE StuckInv'
  OBVIOUS
<1>. USE DEF VerifySteps, Verification, InRead
<1>1. ASSUME NEW q \in Peers, NEW ps \in SUBSET Pieces, Open(q, ps)
     PROVE  StuckInv'
  <2>1. Quiet
    BY <1>1 DEF Quiet, TypeOK, Open
  <2>. QED  BY <2>1, QuietStep
<1>2. ASSUME NEW q \in Peers, Close(q)
     PROVE  StuckInv'
  <2>1. Quiet
    BY <1>2 DEF Quiet, TypeOK, Close, End
  <2>. QED  BY <2>1, QuietStep
<1>3. ASSUME NEW q \in Peers, Unchoke(q)
     PROVE  StuckInv'
  <2>1. Quiet
    BY <1>3 DEF Quiet, TypeOK, Unchoke
  <2>. QED  BY <2>1, QuietStep
<1>4. ASSUME NEW q \in Peers, NEW kept \in SUBSET asked[q], Choke(q, kept)
     PROVE  StuckInv'
  <2>1. Quiet
    BY <1>4 DEF Quiet, TypeOK, Choke
  <2>. QED  BY <2>1, QuietStep
<1>5. ASSUME NEW q \in Peers, NEW r \in Requests, Reject(q, r)
     PROVE  StuckInv'
  <2>1. Quiet
    BY <1>5 DEF Quiet, TypeOK, Reject
  <2>. QED  BY <2>1, QuietStep
<1>6. ASSUME NEW q \in Peers, NEW p \in Pieces, ReceiveHave(q, p)
     PROVE  StuckInv'
  <2>1. Quiet
    BY <1>6 DEF Quiet, TypeOK, ReceiveHave
  <2>. QED  BY <2>1, QuietStep
<1>7. ASSUME NEW q \in Peers, NEW kept \in SUBSET asked[q], HandleCancel(q, kept)
     PROVE  StuckInv'
  <2>1. Quiet
    BY <1>7 DEF Quiet, TypeOK, HandleCancel
  <2>. QED  BY <2>1, QuietStep
<1>8. ASSUME NEW q \in Peers, NEW r \in Requests, NEW d \in Data, ReceivePiece(q, r, d)
     PROVE  StuckInv'
  <2>1. Quiet
    BY <1>8 DEF Quiet, TypeOK, ReceivePiece
  <2>. QED  BY <2>1, QuietStep
<1>9. ASSUME NEW q \in Peers, WriteBlock(q)
     PROVE  StuckInv'
  <2>1. Quiet
    BY <1>9 DEF Quiet, TypeOK, WriteBlock
  <2>. QED  BY <2>1, QuietStep
<1>10. ASSUME NEW q \in Peers, WriteFails(q)
     PROVE  StuckInv'
  <2>1. Quiet
    BY <1>10 DEF Quiet, TypeOK, WriteFails, End
  <2>. QED  BY <2>1, QuietStep
<1>11. ASSUME NEW q \in Peers, BeginRequest(q)
     PROVE  StuckInv'
  <2>1. Quiet
    BY <1>11 DEF Quiet, TypeOK, BeginRequest
  <2>. QED  BY <2>1, QuietStep
<1>12. ASSUME NEW q \in Peers, PickPiece(q)
     PROVE  StuckInv'
  <2>1. Quiet
    BY <1>12 DEF Quiet, TypeOK, PickPiece
  <2>. QED  BY <2>1, QuietStep
<1>13. ASSUME NEW q \in Peers, StartPiece(q)
     PROVE  StuckInv'
  <2>1. Quiet
    BY <1>13 DEF Quiet, TypeOK, StartPiece
  <2>. QED  BY <2>1, QuietStep
<1>14. ASSUME NEW q \in Peers, AddPending(q)
     PROVE  StuckInv'
  <2>1. Quiet
    BY <1>14 DEF Quiet, TypeOK, AddPending
  <2>. QED  BY <2>1, QuietStep
<1>15. ASSUME NEW q \in Peers, SendRequests(q)
     PROVE  StuckInv'
  <2>1. Quiet
    BY <1>15 DEF Quiet, TypeOK, SendRequests
  <2>. QED  BY <2>1, QuietStep
<1>16. ASSUME NEW ps \in SUBSET Pieces, FindStale(ps)
     PROVE  StuckInv'
  <2>1. Quiet
    BY <1>16 DEF Quiet, TypeOK, FindStale
  <2>. QED  BY <2>1, QuietStep
<1>17. ASSUME NEW q \in Peers, ReceiveBlock(q)
     PROVE  StuckInv'
  <2>. DEFINE x == piece[q]
  <2>1. /\ UNCHANGED <<have, active, verifying, indexed, candidates, piece>> /\ x \in Pieces
        /\ \A p \in Pieces \ {x} : blocks'[p] = blocks[p]
        /\ x \notin active => blocks'[x] = blocks[x]
        /\ x \in active /\ blocks'[x] = Blocks => pc'[q] = "startVerify"
    BY <1>17 DEF ReceiveBlock, TypeOK
  <2>2. /\ pc[q] = "receive" /\ pc'[q] \in {"startVerify", "request"}
        /\ \A r \in Peers \ {q} : pc'[r] = pc[r]
    BY <1>17 DEF ReceiveBlock, TypeOK
  <2>3. \A p \in Pieces : (Attended(p) => Attended(p)') /\ (Abandoned(p)' <=> Abandoned(p))
    BY <2>1, <2>2 DEF Attended, Abandoned, Verifying
  <2>4. MissingIndexed' /\ InactiveEmpty' /\ ClaimKept'
    BY <2>1, <2>3 DEF StuckInv, MissingIndexed, InactiveEmpty, ClaimKept, TypeOK
  <2>5. ASSUME NEW p \in Pieces \ have', blocks'[p] = Blocks
        PROVE  Attended(p)' \/ Abandoned(p)'
    <3>1. CASE blocks[p] = Blocks
      BY <2>1, <2>3, <3>1 DEF StuckInv, FullAttended
    <3>2. CASE blocks[p] # Blocks
      <4>1. p = x /\ pc'[q] = "startVerify" /\ piece'[q] = p
        BY <2>1, <2>5, <3>2
      <4>. QED  BY <4>1 DEF Attended
    <3>. QED  BY <3>1, <3>2
  <2>. QED  BY <2>4, <2>5 DEF StuckInv, FullAttended
<1>18. ASSUME NEW q \in Peers, StartVerifying(q)
     PROVE  StuckInv'
  <2>. DEFINE x == piece[q]
  <2>1. /\ UNCHANGED <<have, active, blocks, indexed, candidates, piece>> /\ x \in Pieces
        /\ verifying' = verifying \cup {x}
        /\ \A r \in Peers \ {q} : pc'[r] = pc[r]
        /\ pc[q] = "startVerify"
        /\ pc'[q] = IF x \in verifying THEN "request" ELSE "verify"
    BY <1>18 DEF StartVerifying, TypeOK
  <2>2. \A p \in Pieces \ {x} : (Attended(p)' <=> Attended(p)) /\ (Abandoned(p)' <=> Abandoned(p))
    BY <2>1 DEF Attended, Abandoned, Verifying
  <2>3. Attended(x)' \/ Abandoned(x)'
    BY <2>1 DEF Attended, Abandoned, Verifying
  <2>4. x \notin have /\ Abandoned(x)' => Abandoned(x)
    BY <2>1 DEF Abandoned, Verifying
  <2>5. MissingIndexed' /\ InactiveEmpty'
    BY <2>1 DEF StuckInv, MissingIndexed, InactiveEmpty
  <2>6. FullAttended'
    BY <2>1, <2>2, <2>3 DEF StuckInv, FullAttended
  <2>7. ClaimKept'
    BY <2>1, <2>2, <2>4 DEF StuckInv, ClaimKept, Abandoned, TypeOK
  <2>. QED  BY <2>5, <2>6, <2>7 DEF StuckInv
<1>19. ASSUME NEW q \in Peers, VerifyPiece(q)
     PROVE  StuckInv'
  <2>1. /\ UNCHANGED <<have, active, blocks, verifying, indexed, candidates, piece>>
        /\ pc[q] = "verify" /\ pc'[q] \in {"valid", "invalid"}
        /\ \A r \in Peers \ {q} : pc'[r] = pc[r]
    BY <1>19 DEF VerifyPiece, TypeOK
  <2>2. \A p \in Pieces : (Attended(p)' <=> Attended(p)) /\ (Abandoned(p)' <=> Abandoned(p))
    BY <2>1 DEF Attended, Abandoned, Verifying
  <2>3. MissingIndexed' /\ InactiveEmpty'
    BY <2>1 DEF StuckInv, MissingIndexed, InactiveEmpty
  <2>. QED  BY <2>1, <2>2, <2>3 DEF StuckInv, FullAttended, ClaimKept, TypeOK
<1>20. ASSUME NEW q \in Peers, VerifyFails(q)
     PROVE  StuckInv'
  <2>. DEFINE x == piece[q]
  <2>1. /\ UNCHANGED <<have, active, blocks, verifying, indexed, candidates, piece>>
        /\ pc[q] = "verify" /\ pc'[q] = "closed" /\ "verifyError" \in FaultKinds
        /\ \A r \in Peers \ {q} : pc'[r] = pc[r]
    BY <1>20 DEF VerifyFails, End, TypeOK
  <2>2. \A p \in Pieces \ {x} : (Attended(p)' <=> Attended(p)) /\ (Abandoned(p)' <=> Abandoned(p))
    BY <2>1 DEF Attended, Abandoned, Verifying
  <2>3. x \in Pieces \ have => Abandoned(x)'
    <3>. SUFFICES ASSUME x \in Pieces \ have PROVE Abandoned(x)'
      OBVIOUS
    <3>1. Verifying(q, x) /\ x \in verifying
      BY <2>1 DEF Verifying, OneVerifier
    <3>2. \A r \in Peers : Verifying(r, x) => r = q
      BY <3>1 DEF OneVerifier
    <3>. QED  BY <2>1, <3>1, <3>2 DEF Abandoned, Verifying
  <2>4. MissingIndexed' /\ InactiveEmpty'
    BY <2>1 DEF StuckInv, MissingIndexed, InactiveEmpty
  <2>5. FullAttended'
    BY <2>1, <2>2, <2>3 DEF StuckInv, FullAttended
  <2>6. ClaimKept'
    BY <2>1 DEF ClaimKept
  <2>. QED  BY <2>4, <2>5, <2>6 DEF StuckInv
<1>21. ASSUME NEW q \in Peers, NEW left \in SUBSET {piece[q]}, MarkComplete(q, left)
     PROVE  StuckInv'
  <2>. DEFINE x == piece[q]
  <2>1. /\ have' = have \cup {x} /\ Deactivate({x}) /\ verifying' = verifying \ {x}
        /\ x \in Pieces /\ indexed' = indexed \ {x} /\ piece' = piece
        /\ \A p \in Pieces \ {x} : p \in candidates => p \in candidates'
        /\ pc[q] = "valid" /\ pc'[q] = "request" /\ \A r \in Peers \ {q} : pc'[r] = pc[r]
    BY <1>21 DEF MarkComplete, Remove, TypeOK
  <2>2. \A p \in Pieces \ {x} : (Attended(p)' <=> Attended(p)) /\ (Abandoned(p)' <=> Abandoned(p))
    BY <2>1 DEF Attended, Abandoned, Verifying
  <2>3. \A p \in Pieces \ have' : p \in indexed' /\ p \in candidates'
    BY <2>1 DEF StuckInv, MissingIndexed
  <2>4. have' \subseteq Pieces /\ verifying \subseteq Pieces
    BY <2>1 DEF TypeOK
  <2>. QED  BY <2>1, <2>2, <2>3, <2>4, DropStep
<1>22. ASSUME NEW q \in Peers, MarkFailed(q)
     PROVE  StuckInv'
  <2>. DEFINE x == piece[q]
  <2>1. /\ have' = have /\ Deactivate({x}) /\ verifying' = verifying \ {x}
        /\ x \in Pieces /\ indexed' = indexed \cup {x} /\ piece' = piece
        /\ candidates \subseteq candidates' /\ (x \in indexed \/ x \in candidates')
        /\ pc[q] = "invalid" /\ pc'[q] = "request" /\ \A r \in Peers \ {q} : pc'[r] = pc[r]
    BY <1>22 DEF MarkFailed, TypeOK
  <2>2. \A p \in Pieces \ {x} : (Attended(p)' <=> Attended(p)) /\ (Abandoned(p)' <=> Abandoned(p))
    BY <2>1 DEF Attended, Abandoned, Verifying
  <2>3. \A p \in Pieces \ have' : p \in indexed' /\ p \in candidates'
    BY <2>1 DEF StuckInv, MissingIndexed
  <2>4. have' \subseteq Pieces /\ verifying \subseteq Pieces
    BY <2>1 DEF TypeOK
  <2>. QED  BY <2>1, <2>2, <2>3, <2>4, DropStep
<1>23. CASE OnPieceCompleted
  <2>. DEFINE x == Head(events)
  <2>1. x \in have /\ x \in Pieces
    BY <1>23 DEF OnPieceCompleted, EventsOwned, TypeOK
  <2>2. /\ have' = have /\ Deactivate({x}) /\ verifying' = verifying \ {x}
        /\ indexed' = indexed \ {x} /\ piece' = piece /\ pc' = pc
        /\ \A p \in Pieces \ {x} : p \in candidates => p \in candidates'
    BY <1>23, <2>1 DEF OnPieceCompleted, Remove
  <2>3. \A p \in Pieces \ {x} : (Attended(p)' <=> Attended(p)) /\ (Abandoned(p)' <=> Abandoned(p))
    BY <2>2 DEF Attended, Abandoned, Verifying
  <2>4. \A p \in Pieces \ have' : p \in indexed' /\ p \in candidates'
    BY <2>1, <2>2 DEF StuckInv, MissingIndexed
  <2>5. have' \subseteq Pieces /\ verifying \subseteq Pieces
    BY <2>2 DEF TypeOK
  <2>. QED  BY <2>1, <2>2, <2>3, <2>4, <2>5, DropStep
<1>24. ASSUME NEW ps \in SUBSET Pieces, CleanupStale(ps) \/ (RemoveStale /\ ps = snapshot)
     PROVE  StuckInv'
  <2>1. /\ UNCHANGED <<have, verifying, indexed, candidates, piece, pc>> /\ Deactivate(ps)
    BY <1>24 DEF CleanupStale, RemoveStale
  <2>2. \A p \in Pieces : (Attended(p)' <=> Attended(p)) /\ (Abandoned(p)' <=> Abandoned(p))
    BY <2>1 DEF Attended, Abandoned, Verifying
  <2>3. \A p \in Pieces \ have' : p \in indexed' /\ p \in candidates'
    BY <2>1 DEF StuckInv, MissingIndexed
  <2>4. have' \subseteq Pieces /\ verifying \subseteq Pieces
    BY <2>1 DEF TypeOK
  <2>. QED  BY <2>1, <2>2, <2>3, <2>4, DropStep
<1>25. CASE UNCHANGED vars
  <2>1. Quiet
    BY <1>25 DEF Quiet, vars
  <2>. QED  BY <2>1, QuietStep
<1>. HIDE DEF VerifySteps, Verification, InRead
<1>26. snapshot \in SUBSET Pieces
  BY DEF TypeOK
<1>27. ASSUME NEW q \in Peers, Task(q) PROVE StuckInv'
  BY <1>27, <1>7, <1>9, <1>11, <1>12, <1>13, <1>14, <1>15, <1>17, <1>18, <1>19, <1>21, <1>22
     DEF Task
<1>28. ASSUME NEW q \in Peers, Remote(q) PROVE StuckInv'
  BY <1>28, <1>1, <1>3, <1>6, <1>8 DEF Remote
<1>29. ASSUME NEW q \in Peers, Failure(q) PROVE StuckInv'
  BY <1>29, <1>2, <1>4, <1>5, <1>10, <1>20 DEF Failure
<1>30. CASE Cleanup
  BY <1>30, <1>16, <1>24, <1>26 DEF Cleanup
<1>. QED  BY <1>23, <1>25, <1>27, <1>28, <1>29, <1>30 DEF Next

(* A piece we miss can be picked, is waited for, is about to be verified,  *)
(* or was left behind by a failed read, for any number of peers, pieces    *)
(* and blocks and any faults.                                              *)
THEOREM NoPieceLeftStuck == Spec => []NoPieceStuck
<1>1. Init => StuckInv
  BY Sizes DEF Init, StuckInv, MissingIndexed, InactiveEmpty, FullAttended, ClaimKept
<1>2. DownloadInv /\ StuckInv /\ [Next]_vars => StuckInv'
  BY StuckStep DEF DownloadInv
<1>3. DownloadInv /\ StuckInv => NoPieceStuck
  <2>. SUFFICES ASSUME DownloadInv, StuckInv, NEW p \in Pieces \ have,
                       ~Pickable(p), pending[p] = {}
                PROVE  Attended(p) \/ ("verifyError" \in FaultKinds /\ Abandoned(p))
    BY DEF NoPieceStuck
  <2>1. ~HasRoom(p)
    BY DEF StuckInv, MissingIndexed, Pickable
  <2>2. blocks[p] \subseteq Blocks /\ IsFiniteSet(Blocks) /\ Cardinality(Blocks) = BlocksPerPiece
    <3>1. BlocksPerPiece \in Nat \ {0}
      BY SizesAssumption
    <3>2. IsFiniteSet(0 .. BlocksPerPiece - 1)
          /\ Cardinality(0 .. BlocksPerPiece - 1) = BlocksPerPiece
      BY <3>1, FS_Interval
    <3>. QED  BY <3>2 DEF DownloadInv, TypeOK, Blocks
  <2>3. Cardinality(blocks[p]) = Cardinality(Blocks)
    <3>1. Cardinality(blocks[p]) <= Cardinality(Blocks) /\ Cardinality(blocks[p]) \in Nat
      BY <2>2, FS_Subset, FS_CardinalityType
    <3>2. Cardinality(pending[p]) = 0
      BY FS_EmptySet
    <3>. QED  BY <2>1, <2>2, <3>1, <3>2, SizesAssumption DEF HasRoom
  <2>4. blocks[p] = Blocks
    BY <2>2, <2>3, FS_Subset
  <2>5. Attended(p) \/ Abandoned(p)
    BY <2>4 DEF StuckInv, FullAttended
  <2>6. Abandoned(p) => "verifyError" \in FaultKinds
    BY DEF StuckInv, ClaimKept, Abandoned
  <2>. QED  BY <2>5, <2>6
<1>. QED  BY DownloadInvariant, <1>1, <1>2, <1>3, PTL DEF Spec

-----------------------------------------------------------------------------
(* The pipeline.                                                           *)

(* The requests of a task are a bag of blocks, of finite size, and what it *)
(* has sent, collected and been told to collect fits the pipeline.         *)
RequestBags == UNION {[D -> Nat \ {0}] : D \in SUBSET Requests}
RequestsTyped == requested \in [Peers -> RequestBags]
Collecting(q) == IF pc[q] = "addPending" THEN Cardinality(wanted[q]) ELSE 0
Fits(q) ==
    /\ IsFiniteSet(Entries(requested[q])) /\ IsFiniteSet(batch[q]) /\ IsFiniteSet(wanted[q])
    /\ Size(requested[q]) + Cardinality(batch[q]) + Collecting(q) <= MaxRequests
PipelineInv == RequestsTyped /\ \A q \in Peers : Fits(q)

(* A bag with some of its blocks taken out is no larger. *)
LEMMA BagShrinks ==
  ASSUME NEW b \in RequestBags, IsFiniteSet(Entries(b)), NEW D \in SUBSET DOMAIN b
  PROVE  /\ Restrict(b, D) \in RequestBags /\ DOMAIN Restrict(b, D) = D
         /\ IsFiniteSet(Entries(Restrict(b, D))) /\ Size(Restrict(b, D)) <= Size(b)
<1>. DEFINE c == Restrict(b, D)
<1>1. DOMAIN c = D /\ \A r \in D : c[r] = b[r]
  BY DEF Restrict
<1>2. c \in RequestBags
  BY <1>1 DEF RequestBags, Restrict
<1>3. Entries(c) \subseteq Entries(b)
  BY <1>1 DEF Entries
<1>. QED  BY <1>1, <1>2, <1>3, FS_Subset DEF Size

(* A bag to which a set of blocks is added grows by no more than those.    *)
LEMMA BagGrows ==
  ASSUME NEW b \in RequestBags, IsFiniteSet(Entries(b)),
         NEW reqs \in SUBSET Requests, IsFiniteSet(reqs)
  PROVE  /\ b (+) SetToBag(reqs) \in RequestBags
         /\ DOMAIN (b (+) SetToBag(reqs)) = DOMAIN b \cup reqs
         /\ IsFiniteSet(Entries(b (+) SetToBag(reqs)))
         /\ Size(b (+) SetToBag(reqs)) <= Size(b) + Cardinality(reqs)
<1>. DEFINE c == b (+) SetToBag(reqs)
            next == [r \in reqs |-> <<r, IF r \in DOMAIN b THEN b[r] + 1 ELSE 1>>]
            added == {next[r] : r \in reqs}
<1>0. /\ DOMAIN b \subseteq Requests /\ b \in [DOMAIN b -> Nat \ {0}]
  BY DEF RequestBags
<1>1. /\ DOMAIN c = DOMAIN b \cup reqs
      /\ \A r \in reqs : c[r] = IF r \in DOMAIN b THEN b[r] + 1 ELSE 1
      /\ \A r \in DOMAIN b \ reqs : c[r] = b[r] + 0
  BY DEF SetToBag, (+)
<1>2. c \in [DOMAIN b \cup reqs -> Nat \ {0}]
  <2>1. \A r \in DOMAIN b \cup reqs : c[r] \in Nat \ {0}
    BY <1>0, <1>1
  <2>2. c = [r \in DOMAIN b \cup reqs |-> c[r]]
    BY <1>1 DEF SetToBag, (+)
  <2>. HIDE DEF c
  <2>. QED  BY <2>1, <2>2
<1>3. c \in RequestBags
  BY <1>0, <1>2 DEF RequestBags
<1>4. Entries(c) \subseteq Entries(b) \cup added
  <2>. SUFFICES ASSUME NEW e \in Entries(c), e \notin Entries(b) PROVE e \in added
    OBVIOUS
  <2>. HIDE DEF c
  <2>0. PICK r \in DOMAIN c : e \in {r} \X (1 .. c[r])
    BY DEF Entries
  <2>1. PICK i \in 1 .. c[r] : e = <<r, i>>
    BY <2>0
  <2>2. ~(r \in DOMAIN b /\ i \in 1 .. b[r])
    BY <2>1 DEF Entries
  <2>3. r \in reqs /\ i = IF r \in DOMAIN b THEN b[r] + 1 ELSE 1
    <3>1. r \in reqs
      BY <1>0, <1>1, <2>1, <2>2
    <3>2. CASE r \in DOMAIN b
      BY <1>0, <1>1, <2>1, <2>2, <3>1, <3>2
    <3>3. CASE r \notin DOMAIN b
      BY <1>1, <2>1, <3>1, <3>3
    <3>. QED  BY <3>1, <3>2, <3>3
  <2>4. e = next[r]
    BY <2>1, <2>3
  <2>. QED  BY <2>3, <2>4
<1>5. IsFiniteSet(added) /\ Cardinality(added) <= Cardinality(reqs)
  <2>1. next \in Surjection(reqs, added)
    BY DEF Surjection
  <2>. QED  BY <2>1, FS_Surjection
<1>6. /\ IsFiniteSet(Entries(b) \cup added)
      /\ Cardinality(Entries(b) \cup added) <= Cardinality(Entries(b)) + Cardinality(added)
  <2>1. Cardinality(Entries(b) \cap added) \in Nat /\ Cardinality(Entries(b)) \in Nat
        /\ Cardinality(added) \in Nat
    BY <1>5, FS_Intersection, FS_CardinalityType
  <2>. HIDE DEF added
  <2>2. /\ IsFiniteSet(Entries(b) \cup added)
        /\ Cardinality(Entries(b) \cup added)
               = Cardinality(Entries(b)) + Cardinality(added) - Cardinality(Entries(b) \cap added)
    BY <1>5, FS_Union
  <2>. QED  BY <2>1, <2>2
<1>7. /\ IsFiniteSet(Entries(c))
      /\ Cardinality(Entries(c)) <= Cardinality(Entries(b) \cup added)
  BY <1>4, <1>6, FS_Subset
<1>8. /\ {Cardinality(Entries(c)), Cardinality(Entries(b) \cup added), Cardinality(Entries(b)),
          Cardinality(added), Cardinality(reqs)} \subseteq Nat
  BY <1>5, <1>6, <1>7, FS_CardinalityType
<1>. QED  BY <1>1, <1>3, <1>5, <1>6, <1>7, <1>8 DEF Size

(* The first n of a set of blocks are at most n: each has another number   *)
(* of blocks before it.                                                    *)
LEMMA FirstOfBounded ==
  ASSUME NEW bs \in SUBSET Blocks, NEW n \in Nat
  PROVE  IsFiniteSet(FirstOf(bs, n)) /\ Cardinality(FirstOf(bs, n)) <= n
<1>. DEFINE Before(b) == {o \in bs : o < b}
            firsts == FirstOf(bs, n)
            rank == [b \in firsts |-> Cardinality(Before(b)) + 1]
<1>1. IsFiniteSet(bs) /\ bs \subseteq Nat
  <2>1. 0 \in Int /\ BlocksPerPiece - 1 \in Int
    BY SizesAssumption
  <2>2. IsFiniteSet(Blocks) /\ Blocks \subseteq Nat
    BY <2>1, FS_Interval DEF Blocks
  <2>. QED  BY <2>2, FS_Subset
<1>2. \A b \in bs : IsFiniteSet(Before(b)) /\ Cardinality(Before(b)) \in Nat
  <2>1. \A b \in bs : Before(b) \in SUBSET bs
    OBVIOUS
  <2>. QED  BY <1>1, <2>1, FS_Subset, FS_CardinalityType
<1>3. firsts \subseteq bs /\ \A b \in firsts : Cardinality(Before(b)) < n
  BY DEF FirstOf
<1>4. rank \in [firsts -> 1 .. n]
  BY <1>2, <1>3
<1>5. ASSUME NEW b \in bs, NEW c \in bs, b < c
      PROVE  Cardinality(Before(b)) # Cardinality(Before(c))
  <2>1. b \in Before(c) /\ b \notin Before(b)
    BY <1>1, <1>5
  <2>2. Before(b) \in SUBSET Before(c)
    <3>1. \A o \in bs : o < b => o < c
      BY <1>1, <1>5
    <3>. QED  BY <3>1
  <2>. QED  BY <1>2, <2>1, <2>2, FS_Subset
<1>6. rank \in Injection(firsts, 1 .. n)
  <2>0. \A b \in firsts : rank[b] = Cardinality(Before(b)) + 1
    OBVIOUS
  <2>. HIDE DEF rank, firsts, Before
  <2>1. ASSUME NEW b \in firsts, NEW c \in firsts, b # c PROVE rank[b] # rank[c]
    <3>0. b \in bs /\ c \in bs
      BY <1>3
    <3>1. b \in Nat /\ c \in Nat /\ (b < c \/ c < b)
      BY <1>1, <2>1, <3>0
    <3>2. Cardinality(Before(b)) # Cardinality(Before(c))
      BY <1>5, <3>0, <3>1
    <3>3. Cardinality(Before(b)) \in Nat /\ Cardinality(Before(c)) \in Nat
      BY <1>2, <3>0
    <3>. QED  BY <2>0, <3>2, <3>3
  <2>. QED  BY <1>4, <2>1 DEF Injection, IsInjective
<1>7. IsFiniteSet(1 .. n) /\ Cardinality(1 .. n) = n
  BY FS_Interval
<1>. QED  BY <1>6, <1>7, FS_Injection

(* A step that touches the requests of at most one task.                   *)
LEMMA PipelineFrame ==
  ASSUME PipelineInv, NEW q \in Peers, NEW b \in RequestBags,
         requested' = [requested EXCEPT ![q] = b], Fits(q)',
         \A r \in Peers \ {q} : batch'[r] = batch[r] /\ wanted'[r] = wanted[r] /\ pc'[r] = pc[r]
  PROVE  PipelineInv'
<1>1. RequestsTyped'
  BY DEF PipelineInv, RequestsTyped
<1>2. \A r \in Peers \ {q} : requested'[r] = requested[r]
  BY DEF PipelineInv, RequestsTyped
<1>3. \A r \in Peers \ {q} : Fits(r)'
  BY <1>2 DEF PipelineInv, Fits, Collecting
<1>. QED  BY <1>1, <1>3 DEF PipelineInv

(* A step of a task that is not in request_pieces, which may take requests *)
(* out.                                                                    *)
LEMMA PipelineShrinks ==
  ASSUME TypeOK, PipelineInv, NEW q \in Peers, NEW D \in SUBSET DOMAIN requested[q],
         requested' = [requested EXCEPT ![q] = Restrict(@, D)],
         UNCHANGED <<batch, wanted>>, pc'[q] # "addPending",
         \A r \in Peers \ {q} : pc'[r] = pc[r]
  PROVE  PipelineInv'
<1>. DEFINE b == Restrict(requested[q], D)
<1>1. /\ requested[q] \in RequestBags /\ requested' = [requested EXCEPT ![q] = b]
      /\ requested'[q] = b
  BY DEF PipelineInv, RequestsTyped
<1>2. Fits(q) /\ IsFiniteSet(Entries(requested[q]))
  BY DEF PipelineInv, Fits
<1>3. b \in RequestBags /\ IsFiniteSet(Entries(b)) /\ Size(b) <= Size(requested[q])
  BY <1>1, <1>2, BagShrinks
<1>4. /\ Size(b) \in Nat /\ Size(requested[q]) \in Nat /\ Cardinality(batch[q]) \in Nat
      /\ Collecting(q) \in Nat /\ MaxRequests \in Nat
  BY <1>2, <1>3, SizesAssumption, FS_CardinalityType DEF Fits, Size, Collecting
<1>5. Fits(q)'
  BY <1>1, <1>2, <1>3, <1>4 DEF Fits, Collecting
<1>. QED  BY <1>1, <1>3, <1>5, PipelineFrame

(* A step that leaves the requests alone. *)
LEMMA PipelineSame ==
  ASSUME PipelineInv, UNCHANGED <<requested, batch, wanted>>,
         \A r \in Peers : pc'[r] = "addPending" <=> pc[r] = "addPending"
  PROVE  PipelineInv'
BY DEF PipelineInv, RequestsTyped, Fits, Collecting

LEMMA NoRequests == EmptyBag \in RequestBags /\ DOMAIN EmptyBag = {}
                    /\ \A b \in RequestBags : EmptyBag = Restrict(b, {})
<1>1. EmptyBag = [r \in {} |-> 1]
  BY DEF EmptyBag, SetToBag
<1>2. EmptyBag \in [{} -> Nat \ {0}]
  BY <1>1
<1>. QED  BY <1>1, <1>2 DEF RequestBags, Restrict

(* A request is collected only while the pipeline has room for it.         *)
LEMMA PipelineStep == TypeOK /\ PipelineInv /\ [Next]_vars => PipelineInv'
<1>. SUFFICES ASSUME TypeOK, PipelineInv, [Next]_vars PROVE PipelineInv'
  OBVIOUS
<1>0. \A q \in Peers : requested[q] \in RequestBags
  BY DEF PipelineInv, RequestsTyped
<1>1. ASSUME NEW q \in Peers, NEW ps \in SUBSET Pieces, Open(q, ps)
     PROVE  PipelineInv'
  <2>1. /\ UNCHANGED <<requested, batch, wanted>>
        /\ \A r \in Peers : pc'[r] = "addPending" <=> pc[r] = "addPending"
    BY <1>1 DEF Open, TypeOK
  <2>. QED  BY <2>1, PipelineSame
<1>2. ASSUME NEW q \in Peers, Unchoke(q)
     PROVE  PipelineInv'
  <2>1. /\ UNCHANGED <<requested, batch, wanted>>
        /\ \A r \in Peers : pc'[r] = "addPending" <=> pc[r] = "addPending"
    BY <1>2 DEF Unchoke, TypeOK
  <2>. QED  BY <2>1, PipelineSame
<1>3. ASSUME NEW q \in Peers, NEW kept \in SUBSET asked[q], Choke(q, kept)
     PROVE  PipelineInv'
  <2>1. /\ UNCHANGED <<requested, batch, wanted>>
        /\ \A r \in Peers : pc'[r] = "addPending" <=> pc[r] = "addPending"
    BY <1>3 DEF Choke, TypeOK
  <2>. QED  BY <2>1, PipelineSame
<1>4. ASSUME NEW q \in Peers, NEW o \in Requests, Reject(q, o)
     PROVE  PipelineInv'
  <2>1. /\ UNCHANGED <<requested, batch, wanted>>
        /\ \A r \in Peers : pc'[r] = "addPending" <=> pc[r] = "addPending"
    BY <1>4 DEF Reject, TypeOK
  <2>. QED  BY <2>1, PipelineSame
<1>5. ASSUME NEW q \in Peers, NEW p \in Pieces, ReceiveHave(q, p)
     PROVE  PipelineInv'
  <2>1. /\ UNCHANGED <<requested, batch, wanted>>
        /\ \A r \in Peers : pc'[r] = "addPending" <=> pc[r] = "addPending"
    BY <1>5 DEF ReceiveHave, TypeOK
  <2>. QED  BY <2>1, PipelineSame
<1>6. ASSUME NEW q \in Peers, WriteBlock(q)
     PROVE  PipelineInv'
  <2>1. /\ UNCHANGED <<requested, batch, wanted>>
        /\ \A r \in Peers : pc'[r] = "addPending" <=> pc[r] = "addPending"
    BY <1>6 DEF WriteBlock, TypeOK
  <2>. QED  BY <2>1, PipelineSame
<1>7. ASSUME NEW q \in Peers, ReceiveBlock(q)
     PROVE  PipelineInv'
  <2>1. /\ UNCHANGED <<requested, batch, wanted>>
        /\ \A r \in Peers : pc'[r] = "addPending" <=> pc[r] = "addPending"
    BY <1>7 DEF ReceiveBlock, TypeOK
  <2>. QED  BY <2>1, PipelineSame
<1>8. ASSUME NEW q \in Peers, StartVerifying(q)
     PROVE  PipelineInv'
  <2>1. /\ UNCHANGED <<requested, batch, wanted>>
        /\ \A r \in Peers : pc'[r] = "addPending" <=> pc[r] = "addPending"
    BY <1>8 DEF StartVerifying, TypeOK
  <2>. QED  BY <2>1, PipelineSame
<1>9. ASSUME NEW q \in Peers, VerifyPiece(q)
     PROVE  PipelineInv'
  <2>1. /\ UNCHANGED <<requested, batch, wanted>>
        /\ \A r \in Peers : pc'[r] = "addPending" <=> pc[r] = "addPending"
    BY <1>9 DEF VerifyPiece, TypeOK
  <2>. QED  BY <2>1, PipelineSame
<1>10. ASSUME NEW q \in Peers, PickPiece(q)
     PROVE  PipelineInv'
  <2>1. /\ UNCHANGED <<requested, batch, wanted>>
        /\ \A r \in Peers : pc'[r] = "addPending" <=> pc[r] = "addPending"
    BY <1>10 DEF PickPiece, TypeOK
  <2>. QED  BY <2>1, PipelineSame
<1>11. ASSUME OnPieceCompleted
     PROVE  PipelineInv'
  <2>1. /\ UNCHANGED <<requested, batch, wanted>>
        /\ \A r \in Peers : pc'[r] = "addPending" <=> pc[r] = "addPending"
    BY <1>11 DEF OnPieceCompleted, TypeOK
  <2>. QED  BY <2>1, PipelineSame
<1>12. ASSUME NEW ps \in SUBSET Pieces, CleanupStale(ps)
     PROVE  PipelineInv'
  <2>1. /\ UNCHANGED <<requested, batch, wanted>>
        /\ \A r \in Peers : pc'[r] = "addPending" <=> pc[r] = "addPending"
    BY <1>12 DEF CleanupStale, TypeOK
  <2>. QED  BY <2>1, PipelineSame
<1>13. ASSUME NEW ps \in SUBSET Pieces, FindStale(ps)
     PROVE  PipelineInv'
  <2>1. /\ UNCHANGED <<requested, batch, wanted>>
        /\ \A r \in Peers : pc'[r] = "addPending" <=> pc[r] = "addPending"
    BY <1>13 DEF FindStale, TypeOK
  <2>. QED  BY <2>1, PipelineSame
<1>14. ASSUME RemoveStale
     PROVE  PipelineInv'
  <2>1. /\ UNCHANGED <<requested, batch, wanted>>
        /\ \A r \in Peers : pc'[r] = "addPending" <=> pc[r] = "addPending"
    BY <1>14 DEF RemoveStale, TypeOK
  <2>. QED  BY <2>1, PipelineSame
<1>15. ASSUME UNCHANGED vars
     PROVE  PipelineInv'
  <2>1. /\ UNCHANGED <<requested, batch, wanted>>
        /\ \A r \in Peers : pc'[r] = "addPending" <=> pc[r] = "addPending"
    BY <1>15 DEF vars, TypeOK
  <2>. QED  BY <2>1, PipelineSame
<1>16. ASSUME NEW q \in Peers, Close(q)
     PROVE  PipelineInv'
  <2>1. /\ requested' = [requested EXCEPT ![q] = EmptyBag] /\ UNCHANGED <<batch, wanted>>
        /\ pc' = [pc EXCEPT ![q] = "closed"]
    BY <1>16 DEF Close, End
  <2>2. requested' = [requested EXCEPT ![q] = Restrict(@, {})]
    BY <1>0, <2>1, NoRequests
  <2>4. {} \in SUBSET DOMAIN requested[q]
    OBVIOUS
  <2>3. pc'[q] # "addPending" /\ \A r \in Peers \ {q} : pc'[r] = pc[r]
    BY <2>1 DEF TypeOK
  <2>. QED  BY <2>1, <2>2, <2>3, <2>4, PipelineShrinks
<1>17. ASSUME NEW q \in Peers, WriteFails(q)
     PROVE  PipelineInv'
  <2>1. /\ requested' = [requested EXCEPT ![q] = EmptyBag] /\ UNCHANGED <<batch, wanted>>
        /\ pc' = [pc EXCEPT ![q] = "closed"]
    BY <1>17 DEF WriteFails, End
  <2>2. requested' = [requested EXCEPT ![q] = Restrict(@, {})]
    BY <1>0, <2>1, NoRequests
  <2>4. {} \in SUBSET DOMAIN requested[q]
    OBVIOUS
  <2>3. pc'[q] # "addPending" /\ \A r \in Peers \ {q} : pc'[r] = pc[r]
    BY <2>1 DEF TypeOK
  <2>. QED  BY <2>1, <2>2, <2>3, <2>4, PipelineShrinks
<1>18. ASSUME NEW q \in Peers, VerifyFails(q)
     PROVE  PipelineInv'
  <2>1. /\ requested' = [requested EXCEPT ![q] = EmptyBag] /\ UNCHANGED <<batch, wanted>>
        /\ pc' = [pc EXCEPT ![q] = "closed"]
    BY <1>18 DEF VerifyFails, End
  <2>2. requested' = [requested EXCEPT ![q] = Restrict(@, {})]
    BY <1>0, <2>1, NoRequests
  <2>4. {} \in SUBSET DOMAIN requested[q]
    OBVIOUS
  <2>3. pc'[q] # "addPending" /\ \A r \in Peers \ {q} : pc'[r] = pc[r]
    BY <2>1 DEF TypeOK
  <2>. QED  BY <2>1, <2>2, <2>3, <2>4, PipelineShrinks
<1>19. ASSUME NEW q \in Peers, NEW kept \in SUBSET asked[q], HandleCancel(q, kept)
     PROVE  PipelineInv'
  <2>. DEFINE D == {r \in DOMAIN requested[q] : r[1] \notin {Head(cancels[q])}}
  <2>1. requested' = [requested EXCEPT ![q] = Restrict(@, D)]
    BY <1>19 DEF HandleCancel, Without
  <2>2. /\ UNCHANGED <<batch, wanted>> /\ pc'[q] # "addPending"
        /\ \A r \in Peers \ {q} : pc'[r] = pc[r]
    BY <1>19 DEF HandleCancel, Without, TypeOK
  <2>3. D \in SUBSET DOMAIN requested[q]
    OBVIOUS
  <2>. HIDE DEF D
  <2>. QED  BY <2>1, <2>2, <2>3, PipelineShrinks
<1>20. ASSUME NEW q \in Peers, NEW o \in Requests, NEW d \in Data, ReceivePiece(q, o, d)
     PROVE  PipelineInv'
  <2>. DEFINE D == DOMAIN requested[q] \ {o}
  <2>1. requested' = [requested EXCEPT ![q] = Restrict(@, D)]
    BY <1>20 DEF ReceivePiece
  <2>2. /\ UNCHANGED <<batch, wanted>> /\ pc'[q] # "addPending"
        /\ \A r \in Peers \ {q} : pc'[r] = pc[r]
    BY <1>20 DEF ReceivePiece, TypeOK
  <2>3. D \in SUBSET DOMAIN requested[q]
    OBVIOUS
  <2>. HIDE DEF D
  <2>. QED  BY <2>1, <2>2, <2>3, PipelineShrinks
<1>21. ASSUME NEW q \in Peers, NEW left \in SUBSET {piece[q]}, MarkComplete(q, left)
     PROVE  PipelineInv'
  <2>. DEFINE D == {r \in DOMAIN requested[q] : r[1] \notin {piece[q]}}
  <2>1. requested' = [requested EXCEPT ![q] = Restrict(@, D)]
    BY <1>21 DEF MarkComplete, Without
  <2>2. /\ UNCHANGED <<batch, wanted>> /\ pc'[q] # "addPending"
        /\ \A r \in Peers \ {q} : pc'[r] = pc[r]
    BY <1>21 DEF MarkComplete, Without, TypeOK
  <2>3. D \in SUBSET DOMAIN requested[q]
    OBVIOUS
  <2>. HIDE DEF D
  <2>. QED  BY <2>1, <2>2, <2>3, PipelineShrinks
<1>22. ASSUME NEW q \in Peers, MarkFailed(q)
     PROVE  PipelineInv'
  <2>. DEFINE D == {r \in DOMAIN requested[q] : r[1] \notin {piece[q]}}
  <2>1. requested' = [requested EXCEPT ![q] = Restrict(@, D)]
    BY <1>22 DEF MarkFailed, Without
  <2>2. /\ UNCHANGED <<batch, wanted>> /\ pc'[q] # "addPending"
        /\ \A r \in Peers \ {q} : pc'[r] = pc[r]
    BY <1>22 DEF MarkFailed, Without, TypeOK
  <2>3. D \in SUBSET DOMAIN requested[q]
    OBVIOUS
  <2>. HIDE DEF D
  <2>. QED  BY <2>1, <2>2, <2>3, PipelineShrinks
<1>40. ASSUME NEW q \in Peers
       PROVE  /\ Fits(q) /\ IsFiniteSet(Entries(requested[q])) /\ IsFiniteSet(batch[q])
              /\ IsFiniteSet(wanted[q])
              /\ {Size(requested[q]), Cardinality(batch[q]), Collecting(q),
                  Cardinality(wanted[q]), MaxRequests} \subseteq Nat
              /\ requested = [requested EXCEPT ![q] = requested[q]]
  <2>1. Fits(q)
    BY DEF PipelineInv
  <2>2. IsFiniteSet(Entries(requested[q])) /\ IsFiniteSet(batch[q]) /\ IsFiniteSet(wanted[q])
    BY <2>1 DEF Fits
  <2>3. /\ Size(requested[q]) \in Nat /\ Cardinality(batch[q]) \in Nat
        /\ Cardinality(wanted[q]) \in Nat /\ Collecting(q) \in Nat /\ MaxRequests \in Nat
    BY <2>2, FS_CardinalityType, SizesAssumption DEF Size, Collecting
  <2>4. requested = [requested EXCEPT ![q] = requested[q]]
    BY DEF PipelineInv, RequestsTyped
  <2>. QED  BY <2>1, <2>2, <2>3, <2>4
<1>41. ASSUME NEW q \in Peers, BeginRequest(q)
      PROVE  PipelineInv'
  <2>1. /\ requested' = requested /\ wanted' = wanted /\ batch' = [batch EXCEPT ![q] = {}]
        /\ pc'[q] # "addPending" /\ \A r \in Peers \ {q} : pc'[r] = pc[r]
        /\ pc[q] # "addPending"
    BY <1>41 DEF BeginRequest, TypeOK
  <2>2. batch'[q] = {} /\ \A r \in Peers \ {q} : batch'[r] = batch[r]
    BY <2>1 DEF TypeOK
  <2>3. Fits(q)'
    BY <1>40, <2>1, <2>2, FS_EmptySet DEF Fits, Collecting
  <2>. QED  BY <1>0, <1>40, <2>1, <2>2, <2>3, PipelineFrame
<1>42. ASSUME NEW q \in Peers, StartPiece(q)
      PROVE  PipelineInv'
  <2>. DEFINE free == Blocks \ (blocks[piece[q]] \cup pending[piece[q]])
  <2>1. /\ requested' = requested /\ batch' = batch /\ pc[q] = "start"
        /\ pc' = [pc EXCEPT ![q] = "addPending"]
        /\ wanted' = [wanted EXCEPT ![q] = FirstOf(free, Budget(q))]
    BY <1>42 DEF StartPiece
  <2>2. /\ wanted'[q] = FirstOf(free, Budget(q)) /\ pc'[q] = "addPending"
        /\ \A r \in Peers \ {q} : wanted'[r] = wanted[r] /\ pc'[r] = pc[r]
    BY <2>1 DEF TypeOK
  <2>3. Budget(q) \in Nat
        /\ Budget(q) = MaxRequests - Size(requested[q]) - Cardinality(batch[q])
    BY <1>40, <2>1 DEF Fits, Collecting, Budget
  <2>4. IsFiniteSet(wanted'[q]) /\ Cardinality(wanted'[q]) <= Budget(q)
    BY <2>2, <2>3, FirstOfBounded
  <2>5. Cardinality(wanted'[q]) \in Nat
    BY <2>4, FS_CardinalityType
  <2>6. Fits(q)'
    BY <1>40, <2>1, <2>2, <2>3, <2>4, <2>5 DEF Fits, Collecting
  <2>. QED  BY <1>0, <1>40, <2>1, <2>2, <2>6, PipelineFrame
<1>43. ASSUME NEW q \in Peers, AddPending(q)
      PROVE  PipelineInv'
  <2>. DEFINE more == {piece[q]} \X wanted[q]
  <2>1. /\ requested' = requested /\ pc[q] = "addPending" /\ pc' = [pc EXCEPT ![q] = "pick"]
        /\ wanted' = [wanted EXCEPT ![q] = {}]
        /\ batch' = [batch EXCEPT ![q] = @ \cup more]
    BY <1>43 DEF AddPending
  <2>2. /\ wanted'[q] = {} /\ pc'[q] = "pick" /\ batch'[q] = batch[q] \cup more
        /\ \A r \in Peers \ {q} :
               batch'[r] = batch[r] /\ wanted'[r] = wanted[r] /\ pc'[r] = pc[r]
    BY <2>1 DEF TypeOK
  <2>3. IsFiniteSet(more) /\ Cardinality(more) = Cardinality(wanted[q])
    <3>1. IsFiniteSet({piece[q]}) /\ Cardinality({piece[q]}) = 1
      BY FS_Singleton
    <3>. QED  BY <1>40, <3>1, FS_Product
  <2>4. /\ IsFiniteSet(batch'[q]) /\ Cardinality(batch'[q]) \in Nat
        /\ Cardinality(batch'[q]) <= Cardinality(batch[q]) + Cardinality(wanted[q])
    <3>1. Cardinality(batch[q] \cap more) \in Nat
      BY <1>40, FS_Intersection, FS_CardinalityType
    <3>2. /\ IsFiniteSet(batch[q] \cup more)
          /\ Cardinality(batch[q] \cup more)
                 = Cardinality(batch[q]) + Cardinality(more) - Cardinality(batch[q] \cap more)
      <4>. HIDE DEF more
      <4>. QED  BY <1>40, <2>3, FS_Union
    <3>3. Cardinality(batch[q] \cup more) \in Nat
      BY <3>2, FS_CardinalityType
    <3>. QED  BY <1>40, <2>2, <2>3, <3>1, <3>2, <3>3
  <2>5. Collecting(q) = Cardinality(wanted[q])
    BY <2>1 DEF Collecting
  <2>6. Fits(q)'
    BY <1>40, <2>1, <2>2, <2>4, <2>5, FS_EmptySet DEF Fits, Collecting
  <2>. QED  BY <1>0, <1>40, <2>1, <2>2, <2>6, PipelineFrame
<1>44. ASSUME NEW q \in Peers, SendRequests(q)
      PROVE  PipelineInv'
  <2>1. PICK extra \in EndgameRequests(q) :
              requested' = [requested EXCEPT ![q] = @ (+) SetToBag(batch[q] \cup extra)]
    BY <1>44 DEF SendRequests
  <2>. DEFINE reqs == batch[q] \cup extra
  <2>2. /\ wanted' = wanted /\ pc[q] = "pick" /\ pc'[q] = "loop" /\ batch'[q] = {}
        /\ \A r \in Peers \ {q} : batch'[r] = batch[r] /\ pc'[r] = pc[r]
    BY <1>44 DEF SendRequests, TypeOK
  <2>3. Budget(q) \in Nat
        /\ Budget(q) = MaxRequests - Size(requested[q]) - Cardinality(batch[q])
    BY <1>40, <2>2 DEF Fits, Collecting, Budget
  <2>4. /\ reqs \subseteq Requests /\ IsFiniteSet(reqs)
        /\ Cardinality(reqs) <= Cardinality(batch[q]) + Budget(q) /\ Cardinality(reqs) \in Nat
    <3>1. CASE extra = {}
      BY <1>40, <2>3, <3>1 DEF TypeOK
    <3>2. CASE extra # {}
      <4>1. /\ batch[q] = {} /\ reqs = extra
            /\ extra \in kSubset(Min({Budget(q), Cardinality(Outstanding(q))}), Outstanding(q))
        BY <3>2 DEF EndgameRequests
      <4>2. extra \subseteq Outstanding(q)
            /\ Cardinality(extra) = Min({Budget(q), Cardinality(Outstanding(q))})
        BY <4>1 DEF kSubset
      <4>3. Outstanding(q) \subseteq Requests
        BY DEF Outstanding, TypeOK
      <4>4. IsFiniteSet(Requests)
        <5>1. 0 \in Int /\ BlocksPerPiece - 1 \in Int /\ PieceCount - 1 \in Int
          BY SizesAssumption
        <5>2. IsFiniteSet(Pieces) /\ IsFiniteSet(Blocks)
          BY <5>1, FS_Interval DEF Pieces, Blocks
        <5>. QED  BY <5>2, FS_Product
      <4>5. /\ IsFiniteSet(Outstanding(q)) /\ Cardinality(Outstanding(q)) \in Nat
            /\ IsFiniteSet(extra) /\ Cardinality(extra) \in Nat
        BY <4>2, <4>3, <4>4, FS_Subset, FS_CardinalityType
      <4>6. Min({Budget(q), Cardinality(Outstanding(q))}) <= Budget(q)
        <5>. DEFINE B == Budget(q)
                    C == Cardinality(Outstanding(q))
        <5>1. B \in Nat /\ C \in Nat
          BY <2>3, <4>5
        <5>. HIDE DEF B, C
        <5>2. \E x \in {B, C} : \A y \in {B, C} : x <= y
          BY <5>1
        <5>3. Min({B, C}) <= B
          BY <5>2 DEF Min
        <5>. QED  BY <5>3 DEF B, C
      <4>7. Cardinality(batch[q]) = 0
        BY <4>1, FS_EmptySet
      <4>8. reqs \subseteq Requests /\ IsFiniteSet(reqs) /\ Cardinality(reqs) \in Nat
        BY <4>1, <4>2, <4>3, <4>5
      <4>9. Cardinality(reqs) <= Cardinality(batch[q]) + Budget(q)
        BY <2>3, <4>1, <4>2, <4>6, <4>7
      <4>. QED  BY <4>8, <4>9
    <3>. QED  BY <3>1, <3>2
  <2>. HIDE DEF reqs
  <2>. DEFINE b == requested[q] (+) SetToBag(reqs)
  <2>5. /\ b \in RequestBags /\ IsFiniteSet(Entries(b))
        /\ Size(b) <= Size(requested[q]) + Cardinality(reqs)
    BY <1>0, <1>40, <2>4, BagGrows
  <2>6. Size(b) \in Nat
    BY <2>5, FS_CardinalityType DEF Size
  <2>7. requested' = [requested EXCEPT ![q] = b] /\ requested'[q] = b
    BY <2>1 DEF PipelineInv, RequestsTyped, reqs
  <2>. HIDE DEF b
  <2>8. Fits(q)'
    BY <1>40, <2>2, <2>3, <2>4, <2>5, <2>6, <2>7, FS_EmptySet DEF Fits, Collecting
  <2>. QED  BY <2>2, <2>5, <2>7, <2>8, PipelineFrame
<1>45. ASSUME NEW q \in Peers, Task(q) PROVE PipelineInv'
  BY <1>45, <1>6, <1>7, <1>8, <1>9, <1>10, <1>19, <1>21, <1>22, <1>41, <1>42, <1>43, <1>44
     DEF Task
<1>46. ASSUME NEW q \in Peers, Remote(q) PROVE PipelineInv'
  BY <1>46, <1>1, <1>2, <1>5, <1>20 DEF Remote
<1>47. ASSUME NEW q \in Peers, Failure(q) PROVE PipelineInv'
  BY <1>47, <1>3, <1>4, <1>16, <1>17, <1>18 DEF Failure
<1>48. CASE Cleanup
  BY <1>48, <1>12, <1>13, <1>14 DEF Cleanup
<1>. QED  BY <1>11, <1>15, <1>45, <1>46, <1>47, <1>48 DEF Next

(* The strengthening holds throughout.                                     *)
LEMMA PipelineHolds == Spec => []PipelineInv
<1>1. Init => PipelineInv
  <2>. SUFFICES ASSUME Init PROVE PipelineInv
    OBVIOUS
  <2>1. RequestsTyped
    BY NoRequests DEF Init, RequestsTyped
  <2>2. Entries(EmptyBag) = {}
    BY NoRequests DEF Entries
  <2>3. ASSUME NEW q \in Peers PROVE Fits(q)
    <3>1. /\ requested[q] = EmptyBag /\ batch[q] = {} /\ wanted[q] = {}
          /\ pc[q] = "closed" /\ MaxRequests \in Nat
      BY SizesAssumption DEF Init
    <3>. QED  BY <2>2, <3>1, FS_EmptySet DEF Fits, Size, Collecting
  <2>. QED  BY <2>1, <2>3 DEF PipelineInv
<1>2. TypeOK /\ PipelineInv /\ [Next]_vars => PipelineInv'
  BY PipelineStep
<1>. QED  BY TypeCorrect, <1>1, <1>2, PTL DEF Spec

(* Whatever is requested, repeated in endgame, cancelled and requested     *)
(* again, the pipeline to a peer keeps within MAX_REQUESTS_PER_PEER.       *)
THEOREM PipelineKept == Spec => []PipelineBounded
<1>1. PipelineInv => PipelineBounded
  <2>. SUFFICES ASSUME PipelineInv, NEW q \in Peers
                PROVE  Size(requested[q]) + Cardinality(batch[q]) <= MaxRequests
    BY DEF PipelineBounded
  <2>1. Fits(q)
    BY DEF PipelineInv
  <2>2. /\ Size(requested[q]) \in Nat /\ Cardinality(batch[q]) \in Nat
        /\ Collecting(q) \in Nat /\ MaxRequests \in Nat
    BY <2>1, FS_CardinalityType, SizesAssumption DEF Fits, Size, Collecting
  <2>. QED  BY <2>1, <2>2 DEF Fits
<1>. QED  BY PipelineHolds, <1>1, PTL

-----------------------------------------------------------------------------
(* The cancels.                                                            *)

(* Outside request_pieces nothing is collected, a closed task has asked    *)
(* for nothing, and what is active although it is ours was started again.  *)
(* A task that asks for blocks of a piece that is ours finds the piece in  *)
(* its channel, whenever the piece became ours.                            *)
AsksFor(q, p) ==
    \/ \E r \in DOMAIN requested[q] \cup batch[q] : r[1] = p
    \/ pc[q] = "addPending" /\ piece[q] = p
CollectedInside == \A q \in Peers : batch[q] # {} => pc[q] \in InRead
ClosedIdle == \A q \in Peers : pc[q] = "closed" => requested[q] = EmptyBag
OwnedReopened == active \cap have \subseteq reopened
Told(q, p) == \E i \in 1 .. Len(cancels[q]) : cancels[q][i] = p
CancelsArrive == \A q \in Peers \ overrun : \A p \in have \ reopened : AsksFor(q, p) => Told(q, p)
CancelInv == CollectedInside /\ ClosedIdle /\ OwnedReopened /\ CancelsArrive

(* A step that makes nothing ours, loses no cancel and asks for nothing.   *)
LEMMA CancelFrame ==
  ASSUME CancelInv, UNCHANGED <<have, reopened, cancels, overrun>>, active' \subseteq active,
         \A q \in Peers, p \in have : AsksFor(q, p)' => AsksFor(q, p),
         CollectedInside', ClosedIdle'
  PROVE  CancelInv'
<1>1. OwnedReopened'
  BY DEF CancelInv, OwnedReopened
<1>2. CancelsArrive'
  BY DEF CancelInv, CancelsArrive, Told
<1>. QED  BY <1>1, <1>2 DEF CancelInv

(* Such a step of a task, which may take requests out or forget what it    *)
(* collected.                                                              *)
LEMMA CancelQuiet ==
  ASSUME TypeOK, RequestsTyped, CancelInv, NEW q \in Peers, NEW D \in SUBSET DOMAIN requested[q],
         UNCHANGED <<have, reopened, cancels, overrun>>, active' \subseteq active,
         requested' = [requested EXCEPT ![q] = Restrict(@, D)],
         batch'[q] \subseteq batch[q],
         pc'[q] \notin {"closed", "addPending"},
         pc'[q] \in InRead \/ pc[q] \notin InRead \/ batch'[q] = {},
         \A r \in Peers \ {q} :
             pc'[r] = pc[r] /\ piece'[r] = piece[r] /\ batch'[r] = batch[r]
  PROVE  CancelInv'
<1>1. DOMAIN Restrict(requested[q], D) = D
  BY DEF Restrict
<1>2. /\ DOMAIN requested'[q] = D
      /\ \A r \in Peers \ {q} : requested'[r] = requested[r]
  BY <1>1 DEF RequestsTyped
<1>3. \A r \in Peers, p \in have : AsksFor(r, p)' => AsksFor(r, p)
  BY <1>2 DEF AsksFor
<1>4. CollectedInside'
  BY DEF CancelInv, CollectedInside
<1>5. ClosedIdle'
  BY <1>2 DEF CancelInv, ClosedIdle
<1>. QED  BY <1>3, <1>4, <1>5, CancelFrame

(* A step that no task takes. *)
LEMMA CancelEngine ==
  ASSUME CancelInv, UNCHANGED <<have, reopened, cancels, overrun, requested, batch, pc, piece>>,
         active' \subseteq active
  PROVE  CancelInv'
<1>1. /\ \A q \in Peers, p \in have : AsksFor(q, p)' => AsksFor(q, p)
      /\ CollectedInside' /\ ClosedIdle'
  BY DEF CancelInv, CollectedInside, ClosedIdle, AsksFor
<1>. QED  BY <1>1, CancelFrame

(* The end of a task outside request_pieces: it has asked for nothing.     *)
LEMMA CancelEnds ==
  ASSUME TypeOK, RequestsTyped, CancelInv, NEW q \in Peers, pc[q] \notin InRead, End(q),
         UNCHANGED <<have, active, reopened, batch, piece>>
  PROVE  CancelInv'
<1>1. /\ pc'[q] = "closed" /\ requested'[q] = EmptyBag /\ overrun' = overrun \ {q}
      /\ \A r \in Peers \ {q} :
             pc'[r] = pc[r] /\ requested'[r] = requested[r] /\ cancels'[r] = cancels[r]
  BY DEF End, TypeOK, RequestsTyped
<1>2. batch'[q] = {}
  BY DEF CancelInv, CollectedInside
<1>3. CollectedInside' /\ ClosedIdle' /\ OwnedReopened'
  BY <1>1, <1>2 DEF CancelInv, CollectedInside, ClosedIdle, OwnedReopened
<1>4. \A p \in have : ~AsksFor(q, p)'
  BY <1>1, <1>2, NoRequests DEF AsksFor
<1>5. \A r \in Peers \ {q}, p \in have :
          (AsksFor(r, p)' <=> AsksFor(r, p)) /\ (Told(r, p)' <=> Told(r, p))
  BY <1>1 DEF AsksFor, Told
<1>6. CancelsArrive'
  BY <1>1, <1>4, <1>5 DEF CancelInv, CancelsArrive
<1>. QED  BY <1>3, <1>6 DEF CancelInv

(* The blocks of a bag after a set of blocks has been added. *)
LEMMA AddedDomain ==
  ASSUME NEW b, NEW reqs
  PROVE  DOMAIN (b (+) SetToBag(reqs)) = DOMAIN b \cup reqs
BY DEF SetToBag, (+)

(* What endgame asks for again is active. *)
LEMMA RepeatedActive ==
  ASSUME NEW q \in Peers, NEW extra \in EndgameRequests(q), NEW r \in extra
  PROVE  r[1] \in active
<1>1. extra \in kSubset(Min({Budget(q), Cardinality(Outstanding(q))}), Outstanding(q))
  BY DEF EndgameRequests
<1>2. r \in Outstanding(q)
  BY <1>1 DEF kSubset
<1>. QED  BY <1>2 DEF Outstanding

(* A bag is itself with all its blocks. *)
LEMMA WholeBag ==
  ASSUME RequestsTyped, NEW q \in Peers
  PROVE  requested = [requested EXCEPT ![q] = Restrict(@, DOMAIN requested[q])]
<1>1. PICK D \in SUBSET Requests : requested[q] \in [D -> Nat \ {0}]
  BY DEF RequestsTyped, RequestBags
<1>2. requested[q] = Restrict(requested[q], DOMAIN requested[q])
  BY <1>1 DEF Restrict
<1>. QED  BY <1>2 DEF RequestsTyped

(* Wherever a task is between its choice and its request when a piece      *)
(* becomes ours, the cancel is in its channel.                             *)
LEMMA CancelStep == DownloadInv /\ RequestsTyped /\ CancelInv /\ [Next]_vars => CancelInv'
<1>. SUFFICES ASSUME DownloadInv, RequestsTyped, CancelInv, [Next]_vars PROVE CancelInv'
  OBVIOUS
<1>0. TypeOK /\ EventsOwned
  BY DEF DownloadInv
<1>1. ASSUME NEW q \in Peers, NEW ps \in SUBSET Pieces, Open(q, ps)
       PROVE  CancelInv'
  <2>. DEFINE D == DOMAIN requested[q]
  <2>1. /\ UNCHANGED <<have, reopened, cancels, overrun>> /\ active' \subseteq active
        /\ requested' = requested
    BY <1>1 DEF Open
  <2>2. /\ batch'[q] \subseteq batch[q] /\ pc'[q] \notin {"closed", "addPending"}
        /\ pc'[q] \in InRead \/ pc[q] \notin InRead \/ batch'[q] = {}
        /\ \A r \in Peers \ {q} :
               pc'[r] = pc[r] /\ piece'[r] = piece[r] /\ batch'[r] = batch[r]
    BY <1>0, <1>1 DEF Open, TypeOK, InRead
  <2>3. requested' = [requested EXCEPT ![q] = Restrict(@, D)]
    BY <2>1, WholeBag
  <2>4. D \in SUBSET DOMAIN requested[q]
    OBVIOUS
  <2>. HIDE DEF D
  <2>. QED  BY <1>0, <2>1, <2>2, <2>3, <2>4, CancelQuiet
<1>2. ASSUME NEW q \in Peers, Unchoke(q)
       PROVE  CancelInv'
  <2>. DEFINE D == DOMAIN requested[q]
  <2>1. /\ UNCHANGED <<have, reopened, cancels, overrun>> /\ active' \subseteq active
        /\ requested' = requested
    BY <1>2 DEF Unchoke
  <2>2. /\ batch'[q] \subseteq batch[q] /\ pc'[q] \notin {"closed", "addPending"}
        /\ pc'[q] \in InRead \/ pc[q] \notin InRead \/ batch'[q] = {}
        /\ \A r \in Peers \ {q} :
               pc'[r] = pc[r] /\ piece'[r] = piece[r] /\ batch'[r] = batch[r]
    BY <1>0, <1>2 DEF Unchoke, TypeOK, InRead
  <2>3. requested' = [requested EXCEPT ![q] = Restrict(@, D)]
    BY <2>1, WholeBag
  <2>4. D \in SUBSET DOMAIN requested[q]
    OBVIOUS
  <2>. HIDE DEF D
  <2>. QED  BY <1>0, <2>1, <2>2, <2>3, <2>4, CancelQuiet
<1>3. ASSUME NEW q \in Peers, NEW kept \in SUBSET asked[q], Choke(q, kept)
       PROVE  CancelInv'
  <2>. DEFINE D == DOMAIN requested[q]
  <2>1. /\ UNCHANGED <<have, reopened, cancels, overrun>> /\ active' \subseteq active
        /\ requested' = requested
    BY <1>3 DEF Choke
  <2>2. /\ batch'[q] \subseteq batch[q] /\ pc'[q] \notin {"closed", "addPending"}
        /\ pc'[q] \in InRead \/ pc[q] \notin InRead \/ batch'[q] = {}
        /\ \A r \in Peers \ {q} :
               pc'[r] = pc[r] /\ piece'[r] = piece[r] /\ batch'[r] = batch[r]
    BY <1>0, <1>3 DEF Choke, TypeOK, InRead
  <2>3. requested' = [requested EXCEPT ![q] = Restrict(@, D)]
    BY <2>1, WholeBag
  <2>4. D \in SUBSET DOMAIN requested[q]
    OBVIOUS
  <2>. HIDE DEF D
  <2>. QED  BY <1>0, <2>1, <2>2, <2>3, <2>4, CancelQuiet
<1>4. ASSUME NEW q \in Peers, NEW o \in Requests, Reject(q, o)
       PROVE  CancelInv'
  <2>. DEFINE D == DOMAIN requested[q]
  <2>1. /\ UNCHANGED <<have, reopened, cancels, overrun>> /\ active' \subseteq active
        /\ requested' = requested
    BY <1>4 DEF Reject
  <2>2. /\ batch'[q] \subseteq batch[q] /\ pc'[q] \notin {"closed", "addPending"}
        /\ pc'[q] \in InRead \/ pc[q] \notin InRead \/ batch'[q] = {}
        /\ \A r \in Peers \ {q} :
               pc'[r] = pc[r] /\ piece'[r] = piece[r] /\ batch'[r] = batch[r]
    BY <1>0, <1>4 DEF Reject, TypeOK, InRead
  <2>3. requested' = [requested EXCEPT ![q] = Restrict(@, D)]
    BY <2>1, WholeBag
  <2>4. D \in SUBSET DOMAIN requested[q]
    OBVIOUS
  <2>. HIDE DEF D
  <2>. QED  BY <1>0, <2>1, <2>2, <2>3, <2>4, CancelQuiet
<1>5. ASSUME NEW q \in Peers, NEW p \in Pieces, ReceiveHave(q, p)
       PROVE  CancelInv'
  <2>. DEFINE D == DOMAIN requested[q]
  <2>1. /\ UNCHANGED <<have, reopened, cancels, overrun>> /\ active' \subseteq active
        /\ requested' = requested
    BY <1>5 DEF ReceiveHave
  <2>2. /\ batch'[q] \subseteq batch[q] /\ pc'[q] \notin {"closed", "addPending"}
        /\ pc'[q] \in InRead \/ pc[q] \notin InRead \/ batch'[q] = {}
        /\ \A r \in Peers \ {q} :
               pc'[r] = pc[r] /\ piece'[r] = piece[r] /\ batch'[r] = batch[r]
    BY <1>0, <1>5 DEF ReceiveHave, TypeOK, InRead
  <2>3. requested' = [requested EXCEPT ![q] = Restrict(@, D)]
    BY <2>1, WholeBag
  <2>4. D \in SUBSET DOMAIN requested[q]
    OBVIOUS
  <2>. HIDE DEF D
  <2>. QED  BY <1>0, <2>1, <2>2, <2>3, <2>4, CancelQuiet
<1>6. ASSUME NEW q \in Peers, WriteBlock(q)
       PROVE  CancelInv'
  <2>. DEFINE D == DOMAIN requested[q]
  <2>1. /\ UNCHANGED <<have, reopened, cancels, overrun>> /\ active' \subseteq active
        /\ requested' = requested
    BY <1>6 DEF WriteBlock
  <2>2. /\ batch'[q] \subseteq batch[q] /\ pc'[q] \notin {"closed", "addPending"}
        /\ pc'[q] \in InRead \/ pc[q] \notin InRead \/ batch'[q] = {}
        /\ \A r \in Peers \ {q} :
               pc'[r] = pc[r] /\ piece'[r] = piece[r] /\ batch'[r] = batch[r]
    BY <1>0, <1>6 DEF WriteBlock, TypeOK, InRead
  <2>3. requested' = [requested EXCEPT ![q] = Restrict(@, D)]
    BY <2>1, WholeBag
  <2>4. D \in SUBSET DOMAIN requested[q]
    OBVIOUS
  <2>. HIDE DEF D
  <2>. QED  BY <1>0, <2>1, <2>2, <2>3, <2>4, CancelQuiet
<1>7. ASSUME NEW q \in Peers, ReceiveBlock(q)
       PROVE  CancelInv'
  <2>. DEFINE D == DOMAIN requested[q]
  <2>1. /\ UNCHANGED <<have, reopened, cancels, overrun>> /\ active' \subseteq active
        /\ requested' = requested
    BY <1>7 DEF ReceiveBlock
  <2>2. /\ batch'[q] \subseteq batch[q] /\ pc'[q] \notin {"closed", "addPending"}
        /\ pc'[q] \in InRead \/ pc[q] \notin InRead \/ batch'[q] = {}
        /\ \A r \in Peers \ {q} :
               pc'[r] = pc[r] /\ piece'[r] = piece[r] /\ batch'[r] = batch[r]
    BY <1>0, <1>7 DEF ReceiveBlock, TypeOK, InRead
  <2>3. requested' = [requested EXCEPT ![q] = Restrict(@, D)]
    BY <2>1, WholeBag
  <2>4. D \in SUBSET DOMAIN requested[q]
    OBVIOUS
  <2>. HIDE DEF D
  <2>. QED  BY <1>0, <2>1, <2>2, <2>3, <2>4, CancelQuiet
<1>8. ASSUME NEW q \in Peers, StartVerifying(q)
       PROVE  CancelInv'
  <2>. DEFINE D == DOMAIN requested[q]
  <2>1. /\ UNCHANGED <<have, reopened, cancels, overrun>> /\ active' \subseteq active
        /\ requested' = requested
    BY <1>8 DEF StartVerifying
  <2>2. /\ batch'[q] \subseteq batch[q] /\ pc'[q] \notin {"closed", "addPending"}
        /\ pc'[q] \in InRead \/ pc[q] \notin InRead \/ batch'[q] = {}
        /\ \A r \in Peers \ {q} :
               pc'[r] = pc[r] /\ piece'[r] = piece[r] /\ batch'[r] = batch[r]
    BY <1>0, <1>8 DEF StartVerifying, TypeOK, InRead
  <2>3. requested' = [requested EXCEPT ![q] = Restrict(@, D)]
    BY <2>1, WholeBag
  <2>4. D \in SUBSET DOMAIN requested[q]
    OBVIOUS
  <2>. HIDE DEF D
  <2>. QED  BY <1>0, <2>1, <2>2, <2>3, <2>4, CancelQuiet
<1>9. ASSUME NEW q \in Peers, VerifyPiece(q)
       PROVE  CancelInv'
  <2>. DEFINE D == DOMAIN requested[q]
  <2>1. /\ UNCHANGED <<have, reopened, cancels, overrun>> /\ active' \subseteq active
        /\ requested' = requested
    BY <1>9 DEF VerifyPiece
  <2>2. /\ batch'[q] \subseteq batch[q] /\ pc'[q] \notin {"closed", "addPending"}
        /\ pc'[q] \in InRead \/ pc[q] \notin InRead \/ batch'[q] = {}
        /\ \A r \in Peers \ {q} :
               pc'[r] = pc[r] /\ piece'[r] = piece[r] /\ batch'[r] = batch[r]
    BY <1>0, <1>9 DEF VerifyPiece, TypeOK, InRead
  <2>3. requested' = [requested EXCEPT ![q] = Restrict(@, D)]
    BY <2>1, WholeBag
  <2>4. D \in SUBSET DOMAIN requested[q]
    OBVIOUS
  <2>. HIDE DEF D
  <2>. QED  BY <1>0, <2>1, <2>2, <2>3, <2>4, CancelQuiet
<1>10. ASSUME NEW q \in Peers, PickPiece(q)
       PROVE  CancelInv'
  <2>. DEFINE D == DOMAIN requested[q]
  <2>1. /\ UNCHANGED <<have, reopened, cancels, overrun>> /\ active' \subseteq active
        /\ requested' = requested
    BY <1>10 DEF PickPiece
  <2>2. /\ batch'[q] \subseteq batch[q] /\ pc'[q] \notin {"closed", "addPending"}
        /\ pc'[q] \in InRead \/ pc[q] \notin InRead \/ batch'[q] = {}
        /\ \A r \in Peers \ {q} :
               pc'[r] = pc[r] /\ piece'[r] = piece[r] /\ batch'[r] = batch[r]
    BY <1>0, <1>10 DEF PickPiece, TypeOK, InRead
  <2>3. requested' = [requested EXCEPT ![q] = Restrict(@, D)]
    BY <2>1, WholeBag
  <2>4. D \in SUBSET DOMAIN requested[q]
    OBVIOUS
  <2>. HIDE DEF D
  <2>. QED  BY <1>0, <2>1, <2>2, <2>3, <2>4, CancelQuiet
<1>11. ASSUME NEW q \in Peers, BeginRequest(q)
       PROVE  CancelInv'
  <2>. DEFINE D == DOMAIN requested[q]
  <2>1. /\ UNCHANGED <<have, reopened, cancels, overrun>> /\ active' \subseteq active
        /\ requested' = requested
    BY <1>11 DEF BeginRequest
  <2>2. /\ batch'[q] \subseteq batch[q] /\ pc'[q] \notin {"closed", "addPending"}
        /\ pc'[q] \in InRead \/ pc[q] \notin InRead \/ batch'[q] = {}
        /\ \A r \in Peers \ {q} :
               pc'[r] = pc[r] /\ piece'[r] = piece[r] /\ batch'[r] = batch[r]
    BY <1>0, <1>11 DEF BeginRequest, TypeOK, InRead
  <2>3. requested' = [requested EXCEPT ![q] = Restrict(@, D)]
    BY <2>1, WholeBag
  <2>4. D \in SUBSET DOMAIN requested[q]
    OBVIOUS
  <2>. HIDE DEF D
  <2>. QED  BY <1>0, <2>1, <2>2, <2>3, <2>4, CancelQuiet
<1>12. ASSUME NEW q \in Peers, NEW o \in Requests, NEW d \in Data, ReceivePiece(q, o, d)
       PROVE  CancelInv'
  <2>. DEFINE D == DOMAIN requested[q] \ {o}
  <2>1. /\ UNCHANGED <<have, reopened, cancels, overrun>> /\ active' \subseteq active
        /\ requested' = [requested EXCEPT ![q] = Restrict(@, D)]
    BY <1>12 DEF ReceivePiece
  <2>2. /\ batch'[q] \subseteq batch[q] /\ pc'[q] \notin {"closed", "addPending"}
        /\ pc'[q] \in InRead \/ pc[q] \notin InRead \/ batch'[q] = {}
        /\ \A r \in Peers \ {q} :
               pc'[r] = pc[r] /\ piece'[r] = piece[r] /\ batch'[r] = batch[r]
    BY <1>0, <1>12 DEF ReceivePiece, TypeOK, InRead
  <2>4. D \in SUBSET DOMAIN requested[q]
    OBVIOUS
  <2>. HIDE DEF D
  <2>. QED  BY <1>0, <2>1, <2>2, <2>4, CancelQuiet
<1>13. ASSUME NEW q \in Peers, MarkFailed(q)
       PROVE  CancelInv'
  <2>. DEFINE D == {r \in DOMAIN requested[q] : r[1] \notin {piece[q]}}
  <2>1. /\ UNCHANGED <<have, reopened, cancels, overrun>> /\ active' \subseteq active
        /\ requested' = [requested EXCEPT ![q] = Restrict(@, D)]
    BY <1>13 DEF MarkFailed, Deactivate, Without
  <2>2. /\ batch'[q] \subseteq batch[q] /\ pc'[q] \notin {"closed", "addPending"}
        /\ pc'[q] \in InRead \/ pc[q] \notin InRead \/ batch'[q] = {}
        /\ \A r \in Peers \ {q} :
               pc'[r] = pc[r] /\ piece'[r] = piece[r] /\ batch'[r] = batch[r]
    BY <1>0, <1>13 DEF MarkFailed, TypeOK, InRead
  <2>4. D \in SUBSET DOMAIN requested[q]
    OBVIOUS
  <2>. HIDE DEF D
  <2>. QED  BY <1>0, <2>1, <2>2, <2>4, CancelQuiet
<1>14. ASSUME NEW ps \in SUBSET Pieces, CleanupStale(ps) PROVE CancelInv'
  <2>1. /\ UNCHANGED <<have, reopened, cancels, overrun, requested, batch, pc, piece>>
        /\ active' \subseteq active
    BY <1>14 DEF CleanupStale, Deactivate
  <2>. QED  BY <2>1, CancelEngine
<1>15. ASSUME NEW ps \in SUBSET Pieces, FindStale(ps) PROVE CancelInv'
  <2>1. /\ UNCHANGED <<have, reopened, cancels, overrun, requested, batch, pc, piece>>
        /\ active' \subseteq active
    BY <1>15 DEF FindStale
  <2>. QED  BY <2>1, CancelEngine
<1>16. ASSUME RemoveStale PROVE CancelInv'
  <2>1. /\ UNCHANGED <<have, reopened, cancels, overrun, requested, batch, pc, piece>>
        /\ active' \subseteq active
    BY <1>16 DEF RemoveStale, Deactivate
  <2>. QED  BY <2>1, CancelEngine
<1>17. ASSUME UNCHANGED vars PROVE CancelInv'
  <2>1. /\ UNCHANGED <<have, reopened, cancels, overrun, requested, batch, pc, piece>>
        /\ active' \subseteq active
    BY <1>17 DEF vars
  <2>. QED  BY <2>1, CancelEngine
<1>18. ASSUME OnPieceCompleted PROVE CancelInv'
  <2>1. Head(events) \in have
    BY <1>0, <1>18 DEF OnPieceCompleted, EventsOwned, TypeOK
  <2>2. /\ UNCHANGED <<have, reopened, cancels, overrun, requested, batch, pc, piece>>
        /\ active' \subseteq active
    BY <1>18, <2>1 DEF OnPieceCompleted, Deactivate
  <2>. QED  BY <2>2, CancelEngine
<1>19. ASSUME NEW q \in Peers, Close(q) PROVE CancelInv'
  <2>1. pc[q] \notin InRead /\ End(q) /\ UNCHANGED <<have, active, reopened, batch, piece>>
    BY <1>19 DEF Close, InRead
  <2>. QED  BY <1>0, <2>1, CancelEnds
<1>20. ASSUME NEW q \in Peers, WriteFails(q) PROVE CancelInv'
  <2>1. pc[q] \notin InRead /\ End(q) /\ UNCHANGED <<have, active, reopened, batch, piece>>
    BY <1>20 DEF WriteFails, InRead
  <2>. QED  BY <1>0, <2>1, CancelEnds
<1>21. ASSUME NEW q \in Peers, VerifyFails(q) PROVE CancelInv'
  <2>1. pc[q] \notin InRead /\ End(q) /\ UNCHANGED <<have, active, reopened, batch, piece>>
    BY <1>21 DEF VerifyFails, InRead
  <2>. QED  BY <1>0, <2>1, CancelEnds
<1>22. ASSUME NEW q \in Peers, NEW kept \in SUBSET asked[q], HandleCancel(q, kept)
       PROVE  CancelInv'
  <2>. DEFINE h == Head(cancels[q])
              D == {r \in DOMAIN requested[q] : r[1] \notin {h}}
  <2>1. /\ pc[q] = "loop" /\ cancels[q] # <<>>
        /\ UNCHANGED <<have, active, reopened, overrun, batch, pc, piece>>
        /\ requested' = [requested EXCEPT ![q] = Restrict(@, D)]
        /\ cancels' = [cancels EXCEPT ![q] = Tail(@)]
    BY <1>22 DEF HandleCancel, Without
  <2>2. DOMAIN Restrict(requested[q], D) = D
    BY DEF Restrict
  <2>3. /\ DOMAIN requested'[q] = D /\ cancels'[q] = Tail(cancels[q])
        /\ \A r \in Peers \ {q} : requested'[r] = requested[r] /\ cancels'[r] = cancels[r]
    BY <1>0, <2>1, <2>2 DEF RequestsTyped, TypeOK
  <2>4. CollectedInside' /\ OwnedReopened' /\ batch[q] = {}
    BY <2>1 DEF CancelInv, CollectedInside, OwnedReopened, InRead
  <2>5. ClosedIdle'
    BY <2>1, <2>3 DEF CancelInv, ClosedIdle
  <2>6. ASSUME NEW p \in have \ reopened, q \notin overrun, AsksFor(q, p)' PROVE Told(q, p)'
    <3>1. AsksFor(q, p) /\ p # h
      BY <2>1, <2>3, <2>4, <2>6 DEF AsksFor
    <3>2. PICK i \in 1 .. Len(cancels[q]) : cancels[q][i] = p
      BY <2>6, <3>1 DEF CancelInv, CancelsArrive, Told
    <3>3. cancels[q] \in Seq(Pieces) /\ i # 1
      BY <1>0, <3>1, <3>2 DEF TypeOK
    <3>4. /\ Len(Tail(cancels[q])) = Len(cancels[q]) - 1 /\ i - 1 \in 1 .. Len(cancels[q]) - 1
          /\ Tail(cancels[q])[i - 1] = cancels[q][i]
      BY <2>1, <3>2, <3>3
    <3>. QED  BY <2>3, <3>2, <3>4 DEF Told
  <2>7. \A r \in Peers \ {q}, p \in have :
            (AsksFor(r, p)' <=> AsksFor(r, p)) /\ (Told(r, p)' <=> Told(r, p))
    BY <2>1, <2>3 DEF AsksFor, Told
  <2>8. CancelsArrive'
    BY <2>1, <2>6, <2>7 DEF CancelInv, CancelsArrive
  <2>. QED  BY <2>4, <2>5, <2>8 DEF CancelInv
<1>23. ASSUME NEW q \in Peers, NEW left \in SUBSET {piece[q]}, MarkComplete(q, left)
       PROVE  CancelInv'
  <2>. DEFINE c == piece[q]
              D == {r \in DOMAIN requested[q] : r[1] \notin {c}}
  <2>1. /\ pc[q] = "valid" /\ pc' = [pc EXCEPT ![q] = "request"]
        /\ have' = have \cup {c} /\ active' = active \ {c}
        /\ UNCHANGED <<reopened, batch, piece>>
        /\ requested' = [requested EXCEPT ![q] = Restrict(@, D)]
    BY <1>23 DEF MarkComplete, Deactivate, Without
  <2>2. DOMAIN Restrict(requested[q], D) = D
    BY DEF Restrict
  <2>3. /\ DOMAIN requested'[q] \subseteq DOMAIN requested[q] /\ pc'[q] = "request"
        /\ \A r \in Peers \ {q} : requested'[r] = requested[r] /\ pc'[r] = pc[r]
    BY <1>0, <2>1, <2>2 DEF RequestsTyped, TypeOK
  <2>4. OwnedReopened' /\ batch[q] = {}
    BY <2>1 DEF CancelInv, OwnedReopened, CollectedInside, InRead
  <2>5. CollectedInside' /\ ClosedIdle'
    BY <2>1, <2>3, <2>4 DEF CancelInv, CollectedInside, ClosedIdle
  <2>6. \A r \in Peers, p \in Pieces : AsksFor(r, p)' => AsksFor(r, p)
    BY <2>1, <2>3 DEF AsksFor
  <2>7. ASSUME NEW r \in Peers, r \notin overrun', NEW p \in have' \ reopened', AsksFor(r, p)'
        PROVE  Told(r, p)'
    <3>1. p \in Pieces /\ AsksFor(r, p)
      BY <1>0, <2>1, <2>6, <2>7 DEF TypeOK
    <3>2. pc[r] # "closed"
      BY <3>1, NoRequests DEF CancelInv, ClosedIdle, CollectedInside, AsksFor, InRead
    <3>3. cancels[r] \in Seq(Pieces) /\ c \in Pieces /\ Len(cancels[r]) \in Nat
      BY <1>0 DEF TypeOK
    <3>4. r \notin overrun /\ ~(Len(cancels[r]) >= CancelCap)
      BY <1>23, <2>7, <3>2 DEF MarkComplete, Broadcast
    <3>5. Len(cancels[r]) < CancelCap
      BY <3>3, <3>4, SizesAssumption
    <3>6. r \notin overrun /\ cancels'[r] = Append(cancels[r], c)
      BY <1>23, <3>2, <3>4, <3>5 DEF MarkComplete, Broadcast
    <3>7. /\ Len(cancels'[r]) = Len(cancels[r]) + 1 /\ cancels'[r][Len(cancels[r]) + 1] = c
          /\ \A i \in 1 .. Len(cancels[r]) : cancels'[r][i] = cancels[r][i]
          /\ Len(cancels[r]) \in Nat
      BY <3>6, <3>3
    <3>8. CASE p = c
      BY <3>7, <3>8 DEF Told
    <3>9. CASE p # c
      <4>1. p \in have \ reopened
        BY <2>1, <2>7, <3>9
      <4>2. PICK i \in 1 .. Len(cancels[r]) : cancels[r][i] = p
        BY <3>1, <3>6, <4>1 DEF CancelInv, CancelsArrive, Told
      <4>. QED  BY <3>7, <4>2 DEF Told
    <3>. QED  BY <3>8, <3>9
  <2>8. CancelsArrive'
    BY <2>7 DEF CancelsArrive
  <2>. QED  BY <2>4, <2>5, <2>8 DEF CancelInv
<1>24. ASSUME NEW q \in Peers, StartPiece(q) PROVE CancelInv'
  <2>1. /\ pc[q] = "start" /\ pc' = [pc EXCEPT ![q] = "addPending"]
        /\ active' = active \cup {piece[q]}
        /\ reopened' = IF piece[q] \in have THEN reopened \cup {piece[q]} ELSE reopened
        /\ UNCHANGED <<have, requested, batch, cancels, overrun, piece>>
    BY <1>24 DEF StartPiece
  <2>2. pc'[q] = "addPending" /\ \A r \in Peers \ {q} : pc'[r] = pc[r]
    BY <1>0, <2>1 DEF TypeOK
  <2>3. CollectedInside' /\ ClosedIdle' /\ OwnedReopened'
    BY <2>1, <2>2 DEF CancelInv, CollectedInside, ClosedIdle, OwnedReopened, InRead
  <2>4. \A r \in Peers, p \in have \ reopened' : AsksFor(r, p)' => AsksFor(r, p)
    BY <2>1, <2>2 DEF AsksFor
  <2>5. CancelsArrive'
    BY <2>1, <2>4 DEF CancelInv, CancelsArrive, Told
  <2>. QED  BY <2>3, <2>5 DEF CancelInv
<1>25. ASSUME NEW q \in Peers, AddPending(q) PROVE CancelInv'
  <2>1. /\ pc[q] = "addPending" /\ pc' = [pc EXCEPT ![q] = "pick"]
        /\ batch' = [batch EXCEPT ![q] = @ \cup ({piece[q]} \X wanted[q])]
        /\ piece' = [piece EXCEPT ![q] = 0]
        /\ UNCHANGED <<have, active, reopened, requested, cancels, overrun>>
    BY <1>25 DEF AddPending
  <2>2. /\ pc'[q] = "pick" /\ batch'[q] = batch[q] \cup ({piece[q]} \X wanted[q])
        /\ \A r \in Peers \ {q} :
               pc'[r] = pc[r] /\ batch'[r] = batch[r] /\ piece'[r] = piece[r]
    BY <1>0, <2>1 DEF TypeOK
  <2>3. CollectedInside' /\ ClosedIdle'
    BY <2>1, <2>2 DEF CancelInv, CollectedInside, ClosedIdle, InRead
  <2>4. \A r \in Peers, p \in have : AsksFor(r, p)' => AsksFor(r, p)
    BY <2>1, <2>2 DEF AsksFor
  <2>. QED  BY <2>1, <2>3, <2>4, CancelFrame
<1>26. ASSUME NEW q \in Peers, SendRequests(q) PROVE CancelInv'
  <2>1. PICK extra \in EndgameRequests(q) :
            requested' = [requested EXCEPT ![q] = @ (+) SetToBag(batch[q] \cup extra)]
    BY <1>26 DEF SendRequests
  <2>2. /\ pc' = [pc EXCEPT ![q] = "loop"] /\ batch' = [batch EXCEPT ![q] = {}]
        /\ UNCHANGED <<have, active, reopened, cancels, overrun, piece>>
    BY <1>26 DEF SendRequests
  <2>3. /\ DOMAIN requested'[q] = DOMAIN requested[q] \cup batch[q] \cup extra
        /\ \A r \in Peers \ {q} : requested'[r] = requested[r]
    <3>1. DOMAIN (requested[q] (+) SetToBag(batch[q] \cup extra))
              = DOMAIN requested[q] \cup (batch[q] \cup extra)
      BY AddedDomain
    <3>. QED  BY <2>1, <3>1 DEF RequestsTyped
  <2>4. /\ pc'[q] = "loop" /\ batch'[q] = {}
        /\ \A r \in Peers \ {q} : pc'[r] = pc[r] /\ batch'[r] = batch[r]
    BY <1>0, <2>2 DEF TypeOK
  <2>5. CollectedInside' /\ ClosedIdle' /\ OwnedReopened'
    BY <2>2, <2>3, <2>4 DEF CancelInv, CollectedInside, ClosedIdle, OwnedReopened
  <2>6. \A p \in have \ reopened : \A r \in extra : r[1] # p
    BY RepeatedActive DEF CancelInv, OwnedReopened
  <2>7. \A r \in Peers, p \in have \ reopened : AsksFor(r, p)' => AsksFor(r, p)
    BY <2>2, <2>3, <2>4, <2>6 DEF AsksFor
  <2>8. CancelsArrive'
    BY <2>2, <2>7 DEF CancelInv, CancelsArrive, Told
  <2>. QED  BY <2>5, <2>8 DEF CancelInv
<1>40. ASSUME NEW q \in Peers, Task(q) PROVE CancelInv'
  BY <1>40, <1>22, <1>6, <1>7, <1>8, <1>9, <1>23, <1>13, <1>11, <1>10, <1>24,
     <1>25, <1>26 DEF Task
<1>41. ASSUME NEW q \in Peers, Remote(q) PROVE CancelInv'
  BY <1>41, <1>1, <1>2, <1>5, <1>12 DEF Remote
<1>42. ASSUME NEW q \in Peers, Failure(q) PROVE CancelInv'
  BY <1>42, <1>19, <1>20, <1>21, <1>3, <1>4 DEF Failure
<1>43. CASE Cleanup
  BY <1>43, <1>14, <1>15, <1>16 DEF Cleanup
<1>. QED  BY <1>18, <1>17, <1>40, <1>41, <1>42, <1>43 DEF Next

(* However many tasks ask for the last blocks at once, a task that has     *)
(* seen every cancel waits for no block of a piece that is ours.           *)
THEOREM CancelsKept == Spec => []EndgameCancelled
<1>1. Init => CancelInv
  BY DEF Init, CancelInv, CollectedInside, ClosedIdle, OwnedReopened, CancelsArrive
<1>2. PipelineInv => RequestsTyped
  BY DEF PipelineInv
<1>3. DownloadInv /\ RequestsTyped /\ CancelInv /\ [Next]_vars => CancelInv'
  BY CancelStep
<1>4. CancelInv => EndgameCancelled
  <2>. SUFFICES ASSUME CancelInv, NEW q \in Peers \ overrun, pc[q] = "loop", cancels[q] = <<>>,
                       NEW r \in DOMAIN requested[q], r[1] \in have, r[1] \notin reopened
                PROVE  FALSE
    BY DEF EndgameCancelled
  <2>1. AsksFor(q, r[1])
    BY DEF AsksFor
  <2>2. Told(q, r[1])
    BY <2>1 DEF CancelInv, CancelsArrive
  <2>. QED  BY <2>2 DEF Told
<1>. QED  BY DownloadInvariant, PipelineHolds, <1>1, <1>2, <1>3, <1>4, PTL DEF Spec

-----------------------------------------------------------------------------
(* The refinement.                                                         *)

Passing(p) == \E q \in Peers : pc[q] = "valid" /\ piece[q] = p

(* The phase of a piece depends on nothing but its bit, its claim and      *)
(* whether a task has just found it correct.                               *)
LEMMA PhaseOf ==
  ASSUME NEW p \in Pieces
  PROVE  Phase[p] = IF p \in have THEN "ours" ELSE IF Passing(p) THEN "passed"
                    ELSE IF p \in verifying THEN "claimed" ELSE "missing"
BY DEF Phase, Passing

(* The phase after a step.                                                 *)
LEMMA PhaseNext ==
  ASSUME NEW p \in Pieces
  PROVE  Phase'[p] = IF p \in have' THEN "ours" ELSE IF Passing(p)' THEN "passed"
                     ELSE IF p \in verifying' THEN "claimed" ELSE "missing"
BY DEF Phase, Passing

(* A step that changes neither bits nor claims nor passes leaves the       *)
(* phases.                                                                 *)
LEMMA PhaseKept ==
  ASSUME \A p \in Pieces : /\ p \in have' <=> p \in have
                           /\ p \in have \/ (Passing(p)' <=> Passing(p))
                           /\ p \in have \/ (p \in verifying' <=> p \in verifying)
  PROVE  Phase' = Phase
<1>1. \A p \in Pieces : Phase'[p] = Phase[p]
  BY PhaseOf, PhaseNext
<1>2. Phase' = [p \in Pieces |-> Phase'[p]] /\ Phase = [p \in Pieces |-> Phase[p]]
  BY DEF Phase
<1>. QED BY <1>1, <1>2

(* A step that changes the phase of one piece only. *)
LEMMA PhaseChanged ==
  ASSUME NEW x \in Pieces, NEW to,
         \A p \in Pieces \ {x} : /\ p \in have' <=> p \in have
                                 /\ Passing(p)' <=> Passing(p)
                                 /\ p \in verifying' <=> p \in verifying,
         Phase'[x] = to
  PROVE  Phase' = [Phase EXCEPT ![x] = to]
<1>1. \A p \in Pieces \ {x} : Phase'[p] = Phase[p]
  BY PhaseOf, PhaseNext
<1>2. Phase' = [p \in Pieces |-> Phase'[p]] /\ Phase = [p \in Pieces |-> Phase[p]]
  BY DEF Phase
<1>. QED BY <1>1, <1>2

(* Every step of the download is a step of PieceLifecycle or leaves the    *)
(* phases and the disk alone.                                              *)
LEMMA LifecycleStep == DownloadInv /\ [Next]_vars => [Lifecycle!Next]_(Lifecycle!vars)
<1>. SUFFICES ASSUME DownloadInv, [Next]_vars
              PROVE  Lifecycle!Next \/ (Phase' = Phase /\ disk' = disk)
  BY DEF Lifecycle!vars
<1>. USE Sizes
<1>0. TypeOK /\ OneVerifier /\ EventsOwned
  BY DEF DownloadInv
<1>. DEFINE Goal == Lifecycle!Next \/ (Phase' = Phase /\ disk' = disk)
<1>1. ASSUME NEW q \in Peers, NEW ps \in SUBSET Pieces, Open(q, ps)
     PROVE  Goal
  <2>1. have' = have /\ verifying' = verifying /\ disk' = disk
    BY <1>1 DEF Open
  <2>2. \A o \in Pieces : Passing(o)' <=> Passing(o)
    BY <1>1, <1>0 DEF Open, Passing, TypeOK
  <2>. QED BY <2>1, <2>2, PhaseKept
<1>2. ASSUME NEW q \in Peers, Close(q)
     PROVE  Goal
  <2>1. have' = have /\ verifying' = verifying /\ disk' = disk
    BY <1>2 DEF Close, End
  <2>2. \A o \in Pieces : Passing(o)' <=> Passing(o)
    BY <1>2, <1>0 DEF Close, Passing, TypeOK, End
  <2>. QED BY <2>1, <2>2, PhaseKept
<1>3. ASSUME NEW q \in Peers, Unchoke(q)
     PROVE  Goal
  <2>1. have' = have /\ verifying' = verifying /\ disk' = disk
    BY <1>3 DEF Unchoke
  <2>2. \A o \in Pieces : Passing(o)' <=> Passing(o)
    BY <1>3, <1>0 DEF Unchoke, Passing, TypeOK
  <2>. QED BY <2>1, <2>2, PhaseKept
<1>4. ASSUME NEW q \in Peers, NEW kept \in SUBSET asked[q], Choke(q, kept)
     PROVE  Goal
  <2>1. have' = have /\ verifying' = verifying /\ disk' = disk
    BY <1>4 DEF Choke
  <2>2. \A o \in Pieces : Passing(o)' <=> Passing(o)
    BY <1>4, <1>0 DEF Choke, Passing, TypeOK
  <2>. QED BY <2>1, <2>2, PhaseKept
<1>5. ASSUME NEW q \in Peers, NEW r \in Requests, Reject(q, r)
     PROVE  Goal
  <2>1. have' = have /\ verifying' = verifying /\ disk' = disk
    BY <1>5 DEF Reject
  <2>2. \A o \in Pieces : Passing(o)' <=> Passing(o)
    BY <1>5, <1>0 DEF Reject, Passing, TypeOK
  <2>. QED BY <2>1, <2>2, PhaseKept
<1>6. ASSUME NEW q \in Peers, NEW p \in Pieces, ReceiveHave(q, p)
     PROVE  Goal
  <2>1. have' = have /\ verifying' = verifying /\ disk' = disk
    BY <1>6 DEF ReceiveHave
  <2>2. \A o \in Pieces : Passing(o)' <=> Passing(o)
    BY <1>6, <1>0 DEF ReceiveHave, Passing, TypeOK
  <2>. QED BY <2>1, <2>2, PhaseKept
<1>7. ASSUME NEW q \in Peers, NEW kept \in SUBSET asked[q], HandleCancel(q, kept)
     PROVE  Goal
  <2>1. have' = have /\ verifying' = verifying /\ disk' = disk
    BY <1>7 DEF HandleCancel
  <2>2. \A o \in Pieces : Passing(o)' <=> Passing(o)
    BY <1>7, <1>0 DEF HandleCancel, Passing, TypeOK
  <2>. QED BY <2>1, <2>2, PhaseKept
<1>8. ASSUME NEW q \in Peers, NEW r \in Requests, NEW d \in Data, ReceivePiece(q, r, d)
     PROVE  Goal
  <2>1. have' = have /\ verifying' = verifying /\ disk' = disk
    BY <1>8 DEF ReceivePiece
  <2>2. \A o \in Pieces : Passing(o)' <=> Passing(o)
    BY <1>8, <1>0 DEF ReceivePiece, Passing, TypeOK
  <2>. QED BY <2>1, <2>2, PhaseKept
<1>9. ASSUME NEW q \in Peers, WriteBlock(q)
     PROVE  Goal
  <2>1. /\ have' = have /\ verifying' = verifying
        /\ disk' = [disk EXCEPT ![piece[q]][block[q]] = data[q]]
    BY <1>9 DEF WriteBlock
  <2>2. \A o \in Pieces : Passing(o)' <=> Passing(o)
    BY <1>9, <1>0 DEF WriteBlock, Passing, TypeOK
  <2>3. Phase' = Phase
    BY <2>1, <2>2, PhaseKept
  <2>4. Lifecycle!Write(piece[q], block[q], data[q])
    BY <2>1, <2>3 DEF Lifecycle!Write
  <2>5. piece[q] \in Pieces /\ block[q] \in Blocks /\ data[q] \in Data
    BY <1>0 DEF TypeOK
  <2>. QED BY <2>4, <2>5 DEF Lifecycle!Next
<1>10. ASSUME NEW q \in Peers, WriteFails(q)
     PROVE  Goal
  <2>1. have' = have /\ verifying' = verifying /\ disk' = disk
    BY <1>10 DEF WriteFails, End
  <2>2. \A o \in Pieces : Passing(o)' <=> Passing(o)
    BY <1>10, <1>0 DEF WriteFails, Passing, TypeOK, End
  <2>. QED BY <2>1, <2>2, PhaseKept
<1>11. ASSUME NEW q \in Peers, ReceiveBlock(q)
     PROVE  Goal
  <2>1. have' = have /\ verifying' = verifying /\ disk' = disk
    BY <1>11 DEF ReceiveBlock
  <2>2. \A o \in Pieces : Passing(o)' <=> Passing(o)
    BY <1>11, <1>0 DEF ReceiveBlock, Passing, TypeOK
  <2>. QED BY <2>1, <2>2, PhaseKept
<1>12. ASSUME NEW q \in Peers, StartVerifying(q)
     PROVE  Goal
  <2>. DEFINE x == piece[q]
  <2>1. x \in Pieces
    BY <1>0 DEF TypeOK
  <2>2. have' = have /\ verifying' = verifying \cup {x} /\ disk' = disk
    BY <1>12 DEF StartVerifying
  <2>3. \A p \in Pieces : Passing(p)' <=> Passing(p)
    BY <1>12, <1>0 DEF StartVerifying, Passing, TypeOK
  <2>4. CASE x \in have \/ x \in verifying
    BY <2>2, <2>3, <2>4, PhaseKept
  <2>5. CASE x \notin have /\ x \notin verifying
    <3>1. ~Passing(x)
      BY <1>0, <2>1, <2>5 DEF OneVerifier, Verifying, Verification, Passing
    <3>2. Phase[x] = "missing" /\ Phase'[x] = "claimed"
      BY <2>1, <2>2, <2>3, <2>5, <3>1, PhaseOf, PhaseNext
    <3>3. Phase' = [Phase EXCEPT ![x] = "claimed"]
      BY <2>1, <2>2, <2>3, <3>2, PhaseChanged
    <3>. QED BY <2>1, <2>2, <3>2, <3>3 DEF Lifecycle!Next, Lifecycle!Claim, Lifecycle!Advance
  <2>. QED BY <2>4, <2>5
<1>13. ASSUME NEW q \in Peers, VerifyPiece(q)
     PROVE  Goal
  <2>. DEFINE x == piece[q]
               good == \A b \in Blocks : disk[x][b] = "good"
  <2>1. x \in Pieces
    BY <1>0 DEF TypeOK
  <2>2. have' = have /\ verifying' = verifying /\ disk' = disk
    BY <1>13 DEF VerifyPiece
  <2>3. \A p \in Pieces : Passing(p)' <=> (Passing(p) \/ (good /\ p = x))
    BY <1>13, <1>0 DEF VerifyPiece, Passing, TypeOK
  <2>4. CASE ~good \/ x \in have
    BY <2>2, <2>3, <2>4, PhaseKept
  <2>5. CASE good /\ x \notin have
    <3>1. Verifying(q, x)
      BY <1>13 DEF VerifyPiece, Verifying, Verification
    <3>2. x \in verifying
      BY <1>0, <2>1, <2>5, <3>1 DEF OneVerifier
    <3>3. ASSUME NEW r \in Peers, pc[r] = "valid", piece[r] = x PROVE FALSE
      <4>1. Verifying(r, x)
        BY <3>3 DEF Verifying, Verification
      <4>2. r = q
        BY <1>0, <2>1, <2>5, <3>1, <4>1 DEF OneVerifier
      <4>. QED BY <1>13, <3>3, <4>2 DEF VerifyPiece
    <3>4. ~Passing(x)
      BY <3>3 DEF Passing
    <3>5. Phase[x] = "claimed" /\ Phase'[x] = "passed"
      BY <2>1, <2>2, <2>3, <2>5, <3>2, <3>4, PhaseOf, PhaseNext
    <3>6. Phase' = [Phase EXCEPT ![x] = "passed"]
      BY <2>1, <2>2, <2>3, <3>5, PhaseChanged
    <3>7. Lifecycle!Pass(x)
      BY <2>2, <2>5, <3>5, <3>6 DEF Lifecycle!Pass, Lifecycle!Advance
    <3>. QED BY <2>1, <3>7 DEF Lifecycle!Next
  <2>. QED BY <2>4, <2>5
<1>14. ASSUME NEW q \in Peers, VerifyFails(q)
     PROVE  Goal
  <2>1. have' = have /\ verifying' = verifying /\ disk' = disk
    BY <1>14 DEF VerifyFails, End
  <2>2. \A o \in Pieces : Passing(o)' <=> Passing(o)
    BY <1>14, <1>0 DEF VerifyFails, Passing, TypeOK, End
  <2>. QED BY <2>1, <2>2, PhaseKept
<1>15. ASSUME NEW q \in Peers, NEW left \in SUBSET {piece[q]}, MarkComplete(q, left)
     PROVE  Goal
  <2>. DEFINE x == piece[q]
  <2>1. x \in Pieces
    BY <1>0 DEF TypeOK
  <2>2. have' = have \cup {x} /\ verifying' = verifying \ {x} /\ disk' = disk
    BY <1>15 DEF MarkComplete
  <2>3. \A p \in Pieces \ {x} : Passing(p)' <=> Passing(p)
    BY <1>15, <1>0 DEF MarkComplete, Passing, TypeOK
  <2>4. CASE x \in have
    BY <2>2, <2>3, <2>4, PhaseKept
  <2>5. CASE x \notin have
    <3>1. Passing(x)
      BY <1>15 DEF MarkComplete, Passing
    <3>2. Phase[x] = "passed" /\ Phase'[x] = "ours"
      BY <2>1, <2>2, <2>5, <3>1, PhaseOf, PhaseNext
    <3>3. Phase' = [Phase EXCEPT ![x] = "ours"]
      BY <2>1, <2>2, <2>3, <3>2, PhaseChanged
    <3>. QED BY <2>1, <2>2, <3>2, <3>3 DEF Lifecycle!Next, Lifecycle!Own, Lifecycle!Advance
  <2>. QED BY <2>4, <2>5
<1>16. ASSUME NEW q \in Peers, MarkFailed(q)
     PROVE  Goal
  <2>. DEFINE x == piece[q]
  <2>1. x \in Pieces
    BY <1>0 DEF TypeOK
  <2>2. have' = have /\ verifying' = verifying \ {x} /\ disk' = disk
    BY <1>16 DEF MarkFailed
  <2>3. \A p \in Pieces : Passing(p)' <=> Passing(p)
    BY <1>16, <1>0 DEF MarkFailed, Passing, TypeOK
  <2>4. CASE x \in have
    BY <2>2, <2>3, <2>4, PhaseKept
  <2>5. CASE x \notin have
    <3>1. Verifying(q, x)
      BY <1>16 DEF MarkFailed, Verifying, Verification
    <3>2. x \in verifying
      BY <1>0, <2>1, <2>5, <3>1 DEF OneVerifier
    <3>3. ASSUME NEW r \in Peers, pc[r] = "valid", piece[r] = x PROVE FALSE
      <4>1. Verifying(r, x)
        BY <3>3 DEF Verifying, Verification
      <4>2. r = q
        BY <1>0, <2>1, <2>5, <3>1, <4>1 DEF OneVerifier
      <4>. QED BY <1>16, <3>3, <4>2 DEF MarkFailed
    <3>4. ~Passing(x)
      BY <3>3 DEF Passing
    <3>5. Phase[x] = "claimed" /\ Phase'[x] = "missing"
      BY <2>1, <2>2, <2>3, <2>5, <3>2, <3>4, PhaseOf, PhaseNext
    <3>6. Phase' = [Phase EXCEPT ![x] = "missing"]
      BY <2>1, <2>2, <2>3, <3>5, PhaseChanged
    <3>. QED BY <2>1, <2>2, <3>5, <3>6 DEF Lifecycle!Next, Lifecycle!Fail, Lifecycle!Advance
  <2>. QED BY <2>4, <2>5
<1>17. ASSUME NEW q \in Peers, BeginRequest(q)
     PROVE  Goal
  <2>1. have' = have /\ verifying' = verifying /\ disk' = disk
    BY <1>17 DEF BeginRequest
  <2>2. \A o \in Pieces : Passing(o)' <=> Passing(o)
    BY <1>17, <1>0 DEF BeginRequest, Passing, TypeOK
  <2>. QED BY <2>1, <2>2, PhaseKept
<1>18. ASSUME NEW q \in Peers, PickPiece(q)
     PROVE  Goal
  <2>1. have' = have /\ verifying' = verifying /\ disk' = disk
    BY <1>18 DEF PickPiece
  <2>2. \A o \in Pieces : Passing(o)' <=> Passing(o)
    BY <1>18, <1>0 DEF PickPiece, Passing, TypeOK
  <2>. QED BY <2>1, <2>2, PhaseKept
<1>19. ASSUME NEW q \in Peers, StartPiece(q)
     PROVE  Goal
  <2>1. have' = have /\ verifying' = verifying /\ disk' = disk
    BY <1>19 DEF StartPiece
  <2>2. \A o \in Pieces : Passing(o)' <=> Passing(o)
    BY <1>19, <1>0 DEF StartPiece, Passing, TypeOK
  <2>. QED BY <2>1, <2>2, PhaseKept
<1>20. ASSUME NEW q \in Peers, AddPending(q)
     PROVE  Goal
  <2>1. have' = have /\ verifying' = verifying /\ disk' = disk
    BY <1>20 DEF AddPending
  <2>2. \A o \in Pieces : Passing(o)' <=> Passing(o)
    BY <1>20, <1>0 DEF AddPending, Passing, TypeOK
  <2>. QED BY <2>1, <2>2, PhaseKept
<1>21. ASSUME NEW q \in Peers, SendRequests(q)
     PROVE  Goal
  <2>1. have' = have /\ verifying' = verifying /\ disk' = disk
    BY <1>21 DEF SendRequests
  <2>2. \A o \in Pieces : Passing(o)' <=> Passing(o)
    BY <1>21, <1>0 DEF SendRequests, Passing, TypeOK
  <2>. QED BY <2>1, <2>2, PhaseKept
<1>22. CASE OnPieceCompleted
  <2>1. Head(events) \in have
    BY <1>22, <1>0 DEF OnPieceCompleted, EventsOwned, TypeOK
  <2>2. have' = have /\ verifying' = verifying \ {Head(events)} /\ disk' = disk
    BY <1>22, <2>1 DEF OnPieceCompleted
  <2>3. \A p \in Pieces : Passing(p)' <=> Passing(p)
    BY <1>22 DEF OnPieceCompleted, Passing
  <2>. QED BY <2>1, <2>2, <2>3, PhaseKept
<1>23. ASSUME NEW ps \in SUBSET Pieces, CleanupStale(ps)
     PROVE  Goal
  <2>1. have' = have /\ verifying' = verifying /\ disk' = disk
    BY <1>23 DEF CleanupStale, Deactivate
  <2>2. \A o \in Pieces : Passing(o)' <=> Passing(o)
    BY <1>23, <1>0 DEF CleanupStale, Passing, TypeOK, Deactivate
  <2>. QED BY <2>1, <2>2, PhaseKept
<1>24. ASSUME NEW ps \in SUBSET Pieces, FindStale(ps)
     PROVE  Goal
  <2>1. have' = have /\ verifying' = verifying /\ disk' = disk
    BY <1>24 DEF FindStale
  <2>2. \A o \in Pieces : Passing(o)' <=> Passing(o)
    BY <1>24, <1>0 DEF FindStale, Passing, TypeOK
  <2>. QED BY <2>1, <2>2, PhaseKept
<1>25. CASE RemoveStale
  <2>1. have' = have /\ verifying' = verifying /\ disk' = disk
    BY <1>25 DEF RemoveStale
  <2>2. \A o \in Pieces : Passing(o)' <=> Passing(o)
    BY <1>25, <1>0 DEF RemoveStale, Passing, TypeOK
  <2>. QED BY <2>1, <2>2, PhaseKept
<1>26. CASE UNCHANGED vars
  <2>1. have' = have /\ verifying' = verifying /\ disk' = disk /\ pc' = pc /\ piece' = piece
    BY <1>26 DEF vars
  <2>. QED BY <2>1 DEF Phase
<1>. QED
  BY <1>1, <1>2, <1>3, <1>4, <1>5, <1>6, <1>7, <1>8, <1>9, <1>10, <1>11, <1>12, <1>13, <1>14,
     <1>15, <1>16, <1>17, <1>18, <1>19, <1>20, <1>21, <1>22, <1>23, <1>24, <1>25, <1>26
     DEF Next, Task, Remote, Failure, Cleanup

(* The download implements PieceLifecycle: whatever the peers send, a      *)
(* piece becomes ours only through one verification of its whole content,  *)
(* and stays ours.                                                         *)
THEOREM DownloadImplementsLifecycle == Spec => ImplementsLifecycle
<1>1. Init => Lifecycle!Init
  BY DEF Init, Lifecycle!Init, Phase
<1>. QED BY <1>1, LifecycleStep, DownloadInvariant, PTL
     DEF Spec, ImplementsLifecycle, Lifecycle!Spec
=============================================================================
