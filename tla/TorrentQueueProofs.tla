------------------------- MODULE TorrentQueueProofs -------------------------
(* What holds of any number of torrents, under any limits and any schedule *)
(* of commands, checks, starts, the queue, the share limits and the moves. *)
EXTENDS TorrentQueue, CountingLemmas

USE DEF status, tasks, history, counts

(* Every start_next_queued answers a command, so there are no more of them *)
(* than commands, and no torrent is chosen more often than that.           *)
CommandsServed == freed <= commands /\ \A t \in Torrents : freed + picked[t] <= commands

(* What runs, or is to run when its check or its move ends, has a loop or  *)
(* is about to get one.                                                    *)
Starting(t) == \E at \in {"announcing", "decided"} : <<t, at>> \in starts
LoopInv ==
    \A t \in Torrents :
        state[t] \in {"Checking", "Downloading", "Seeding", "Completed", "Moving"}
        => looping[t] \/ Starting(t) \/ t \in revived

(* A verification that has ended, and a completion, leave nothing to       *)
(* decide.                                                                 *)
CheckedInv ==
    \A t \in Torrents :
        verified[t] \/ completion[t] # "none" => state[t] \notin {"new", "Checking"}

(* What is Completed or Seeding is complete, and a resume that saw a       *)
(* complete torrent will still see one.                                    *)
CompleteInv ==
    /\ \A t \in Torrents :
          /\ state[t] \in {"Completed", "Seeding", "Moving"} => complete[t]
          /\ completion[t] # "none" => handled[t] = 1 /\ complete[t]
    /\ \A c \in resumes : c.complete => complete[c.of]

(* The completion actions begin once; for data that was there before only  *)
(* when it was set to Downloading early; for a download always, unless it  *)
(* missed them.                                                            *)
HandledInv ==
    \A t \in Torrents :
        /\ handled[t] \in {0, 1} /\ (handled[t] = 1 => processed[t] /\ complete[t])
        /\ handled[t] = 1 => t \notin seeded \/ t \in early
        /\ t \in seeded =>
             /\ InMap(t) => verify[t] = "scanning" \/ complete[t]
             /\ state[t] = "Downloading" => t \in early
        /\ t \notin seeded =>
             /\ complete[t] => state[t] = "Downloading" \/ handled[t] = 1 \/ t \in missed
             /\ processed[t] => handled[t] = 1 \/ t \in missed

(* The torrents that count as active downloads.                            *)
Downloads == {t \in Torrents : state[t] \in {"Downloading", "Checking"} /\ ~complete[t]}

(* Torrents are added in their order, and each that downloads has fewer    *)
(* active ones before it than the limit allows.                            *)
OrderInv ==
    /\ \A t, u \in Torrents : u < t /\ state[t] # "new" => state[u] # "new"
    /\ limits.dl > 0 /\ mishaps \cap {"stale", "lowered"} = {} =>
         \A t \in Torrents : state[t] = "Downloading" /\ ~complete[t] =>
             Cardinality({u \in Downloads : u < t}) < limits.dl

(* Nothing complete, nothing raised, no write that came too late: then a   *)
(* torrent that waits has the limit reached before it, counting the slots  *)
(* that came free and the choices that are about to be acted on.           *)
Picks == {x \in Torrents \X (1 .. MaxCommands) : x[2] <= picked[x[1]]}
Undisturbed ==
    mishaps \cap {"finished", "raised", "again", "stale", "crossed", "undeleted"} = {}
WaitInv ==
    Undisturbed =>
      /\ \A t \in Torrents : ~complete[t] /\ completion[t] = "none"
                             /\ state[t] \notin {"Completed", "Seeding", "Moving"}
      /\ limits.dl = 0 => \A t \in Torrents : state[t] # "Queued"
      /\ (\E t \in Torrents : state[t] = "Queued") =>
           Cardinality(Downloads) + freed + Cardinality(Picks) >= limits.dl

-----------------------------------------------------------------------------
(* Types *)

LEMMA CheckType ==
  ASSUME NEW t \in Torrents
  PROVE  /\ AfterCheck(t) \in {"Queued", "Completed", "Downloading"}
         /\ AfterCheck(t) = "Completed" => complete[t]
         /\ AfterCheck(t) = "Downloading" => ~complete[t]
BY DEF AfterCheck

LEMMA StopType ==
  ASSUME TypeOK, CommandsServed, NEW t \in Torrents, NEW to \in {"Paused", "gone"},
         Command, Stop(t, to), due' \subseteq Torrents
  PROVE  TypeOK' /\ CommandsServed'
<1>1. mishaps' \subseteq Windows
  BY DEF TypeOK, Stop, Windows
<1>2. CommandsServed' /\ freed' \in 0 .. MaxCommands /\ commands' \in 0 .. MaxCommands
  BY QueueAssumption DEF TypeOK, CommandsServed, Command, Stop
<1>. QED BY <1>1, <1>2, QueueAssumption DEF TypeOK, Command, Stop, Misses, States

LEMMA MishapNames ==
    /\ \A w \in {"stale", "lowered", "raised", "finished", "again", "crossed", "undeleted"} :
          w \in Windows
    /\ TypeOK => mishaps \subseteq Windows
BY DEF TypeOK, Windows

LEMMA TypeStep == TypeOK /\ CommandsServed /\ [Next]_vars => TypeOK' /\ CommandsServed'
<1>. SUFFICES ASSUME TypeOK, CommandsServed, [Next]_vars PROVE TypeOK' /\ CommandsServed'
  OBVIOUS
<1>. USE QueueAssumption DEF TypeOK, CommandsServed, States
<1>1. ASSUME NEW t \in Torrents, Add(t) PROVE TypeOK' /\ CommandsServed'
  BY <1>1 DEF Add
<1>2. ASSUME NEW t \in Torrents, VerifyBatches(t) PROVE TypeOK' /\ CommandsServed'
  <2>1. mishaps' \subseteq Windows
    BY <1>2, MishapNames DEF VerifyBatches
  <2>2. complete' \in [Torrents -> BOOLEAN]
    BY <1>2 DEF VerifyBatches
  <2>3. verify' \in [Torrents -> {"none", "scanning", "ending"}]
    BY <1>2 DEF VerifyBatches
  <2>. QED  BY <1>2, <2>1, <2>2, <2>3 DEF VerifyBatches
<1>19. ASSUME NEW t \in Torrents, VerifyFails(t) PROVE TypeOK' /\ CommandsServed'
  BY <1>19 DEF VerifyFails
<1>3. ASSUME NEW t \in Torrents, VerifyEnds(t) PROVE TypeOK' /\ CommandsServed'
  <2>1. mishaps' \subseteq Windows
    BY <1>3, MishapNames DEF VerifyEnds
  <2>2. verified' \in [Torrents -> BOOLEAN]
    BY <1>3 DEF VerifyEnds, InMap
  <2>3. state' \in [Torrents -> States] /\ processed' \in [Torrents -> BOOLEAN]
    BY <1>3, CheckType DEF VerifyEnds
  <2>. QED  BY <1>3, <2>1, <2>2, <2>3 DEF VerifyEnds
<1>4. ASSUME NEW t \in Torrents, StartDecides(t) PROVE TypeOK' /\ CommandsServed'
  BY <1>4, CheckType DEF StartDecides
<1>5. ASSUME NEW t \in Torrents, StartSpawns(t) PROVE TypeOK' /\ CommandsServed'
  BY <1>5 DEF StartSpawns
<1>6. ASSUME NEW t \in Torrents, Pause(t) \/ Remove(t) PROVE TypeOK' /\ CommandsServed'
  BY <1>6, StopType DEF Pause, Remove
<1>7. ASSUME NEW t \in Torrents, ResumeChooses(t) PROVE TypeOK' /\ CommandsServed'
  <2>1. \A x \in BOOLEAN : Full(x) \in BOOLEAN
    BY DEF Full
  <2>. QED  BY <1>7, <2>1 DEF ResumeChooses, Command
<1>8. ASSUME NEW c \in resumes, ResumeActs(c) PROVE TypeOK' /\ CommandsServed'
  <2>1. mishaps' \subseteq Windows
    BY <1>8, MishapNames DEF ResumeActs
  <2>2. c.of \in Torrents /\ Misses(c.of) \subseteq Torrents
    BY DEF Misses
  <2>3. state' \in [Torrents -> States] /\ starts' \subseteq Torrents \X {"announcing", "decided"}
    BY <1>8, <2>2 DEF ResumeActs, Running
  <2>4. {asked', undone', early', missed'} \subseteq SUBSET Torrents
    BY <1>8, <2>2 DEF ResumeActs
  <2>. QED  BY <1>8, <2>1, <2>3, <2>4 DEF ResumeActs
<1>9. ASSUME NEW l \in Limits, SetQueueSettings(l) PROVE TypeOK' /\ CommandsServed'
  BY <1>9 DEF SetQueueSettings, Command, Windows
<1>10. CASE DequeueChooses
  BY <1>10 DEF DequeueChooses, Waiting
<1>11. ASSUME NEW t \in Torrents, DequeueStarts(t) PROVE TypeOK' /\ CommandsServed'
  <2>1. mishaps' \subseteq Windows
    BY <1>11, MishapNames DEF DequeueStarts
  <2>2. Misses(t) \subseteq Torrents /\ picked[t] \in Nat
    BY DEF Misses
  <2>3. state' \in [Torrents -> States] /\ starts' \subseteq Torrents \X {"announcing", "decided"}
    BY <1>11 DEF DequeueStarts, Running
  <2>4. {undone', early', missed'} \subseteq SUBSET Torrents
    BY <1>11, <2>2 DEF DequeueStarts
  <2>5. picked' \in [Torrents -> 0 .. MaxCommands] /\ \A u \in Torrents : freed' + picked'[u] <= commands'
    BY <1>11, <2>2 DEF DequeueStarts
  <2>. QED  BY <1>11, <2>1, <2>3, <2>4, <2>5 DEF DequeueStarts
<1>12. CASE SharesScan
  BY <1>12 DEF SharesScan
<1>13. ASSUME NEW t \in Torrents, SharesAct(t) PROVE TypeOK' /\ CommandsServed'
  <2>1. CASE InMap(t)
    <3>1. PICK to \in {"Paused", "gone"} : Stop(t, to)
      BY <1>13, <2>1 DEF SharesAct
    <3>2. due' \subseteq Torrents /\ Command
      BY <1>13 DEF SharesAct
    <3>. QED  BY <3>1, <3>2, StopType
  <2>2. CASE ~InMap(t)
    BY <1>13, <2>2 DEF SharesAct, Command
  <2>. QED  BY <2>1, <2>2
<1>14. ASSUME NEW t \in Torrents, PieceArrives(t) PROVE TypeOK' /\ CommandsServed'
  BY <1>14 DEF PieceArrives, Windows
<1>15. ASSUME NEW t \in Torrents, Completes(t) PROVE TypeOK' /\ CommandsServed'
  BY <1>15 DEF Completes
<1>16. ASSUME NEW t \in Torrents, Interest(t) \/ CompletionStays(t) PROVE TypeOK' /\ CommandsServed'
  BY <1>16 DEF Interest, CompletionStays
<1>17. ASSUME NEW t \in Torrents, MoveBegins(t) \/ MoveEnds(t) PROVE TypeOK' /\ CommandsServed'
  BY <1>17 DEF MoveBegins, MoveEnds
<1>18. CASE UNCHANGED vars
  BY <1>18 DEF vars
<1>. QED
  BY <1>1, <1>2, <1>3, <1>4, <1>5, <1>6, <1>7, <1>8, <1>9, <1>10, <1>11, <1>12, <1>13,
     <1>14, <1>15, <1>16, <1>17, <1>18, <1>19 DEF Next, Tasks

(* Each step is one of these: a pause, a removal and a share limit stop a  *)
(* torrent; a scan of the shares or the end of a completion without a move *)
(* changes nothing but its own task.                                       *)
Idles == /\ UNCHANGED <<status, limits, verify, starts, resumes, freed, picked, history>>
         /\ \A t \in Torrents : completion'[t] # "none" => completion'[t] = completion[t]
(* What a step is: of one torrent, of a command, or of the limits.         *)
LEMMA StepKinds ==
  ASSUME TypeOK, [Next]_vars
  PROVE  \/ \E t \in Torrents :
              \/ Add(t) \/ VerifyBatches(t) \/ VerifyFails(t) \/ VerifyEnds(t)
              \/ StartDecides(t) \/ StartSpawns(t)
              \/ InMap(t) /\ \E to \in {"Paused", "gone"} : Stop(t, to)
              \/ ResumeChooses(t) \/ DequeueStarts(t) \/ PieceArrives(t)
              \/ Completes(t) \/ Interest(t) \/ MoveBegins(t) \/ MoveEnds(t)
         \/ \E c \in resumes : ResumeActs(c)
         \/ \E l \in Limits : SetQueueSettings(l)
         \/ DequeueChooses
         \/ Idles
<1>1. ASSUME NEW t \in Torrents, SharesAct(t)
     PROVE  (InMap(t) /\ \E to \in {"Paused", "gone"} : Stop(t, to)) \/ Idles
  BY <1>1 DEF SharesAct, Idles
<1>2. ASSUME SharesScan \/ UNCHANGED vars PROVE Idles
  BY <1>2 DEF SharesScan, Idles, vars
<1>3. ASSUME NEW t \in Torrents, CompletionStays(t) PROVE Idles
  BY <1>3 DEF CompletionStays, Idles, TypeOK
<1>4. ASSUME NEW t \in Torrents, Pause(t) \/ Remove(t)
     PROVE  InMap(t) /\ \E to \in {"Paused", "gone"} : Stop(t, to)
  BY <1>4 DEF Pause, Remove
<1>. QED
  BY <1>1, <1>2, <1>3, <1>4 DEF Next, Tasks

-----------------------------------------------------------------------------
(* Pauses and run loops *)

LEMMA PauseStep == TypeOK /\ PauseHolds /\ [Next]_vars => PauseHolds'
<1>. SUFFICES ASSUME TypeOK, PauseHolds, [Next]_vars PROVE PauseHolds'
  OBVIOUS
<1>. USE DEF PauseHolds, TypeOK
<1>1. ASSUME NEW t \in Torrents,
            \/ Add(t) \/ VerifyBatches(t) \/ VerifyFails(t) \/ VerifyEnds(t)
            \/ StartDecides(t) \/ StartSpawns(t)
     PROVE  PauseHolds'
  BY <1>1 DEF Add, VerifyBatches, VerifyFails, VerifyEnds, StartDecides, StartSpawns
<1>2. ASSUME NEW t \in Torrents, InMap(t), NEW to \in {"Paused", "gone"}, Stop(t, to) PROVE PauseHolds'
  BY <1>2 DEF Stop
<1>3. ASSUME NEW t \in Torrents,
            PieceArrives(t) \/ Completes(t) \/ Interest(t) \/ MoveBegins(t) \/ MoveEnds(t)
     PROVE  PauseHolds'
  BY <1>3 DEF PieceArrives, Completes, Interest, MoveBegins, MoveEnds
<1>4. ASSUME NEW c \in resumes, ResumeActs(c) PROVE PauseHolds'
  BY <1>4 DEF ResumeActs
<1>5. ASSUME NEW t \in Torrents, DequeueStarts(t) PROVE PauseHolds'
  BY <1>5 DEF DequeueStarts
<1>6. ASSUME \/ \E t \in Torrents : ResumeChooses(t)
            \/ \E l \in Limits : SetQueueSettings(l)
            \/ DequeueChooses \/ Idles
     PROVE  PauseHolds'
  BY <1>6 DEF ResumeChooses, SetQueueSettings, DequeueChooses, Idles
<1>. QED
  BY <1>1, <1>2, <1>3, <1>4, <1>5, <1>6, StepKinds

LEMMA LoopStep == TypeOK /\ LoopInv /\ [Next]_vars => LoopInv'
<1>. SUFFICES ASSUME TypeOK, LoopInv, [Next]_vars PROVE LoopInv'
  OBVIOUS
<1>. USE DEF LoopInv, TypeOK, Starting
<1>1. ASSUME NEW t \in Torrents, Add(t) \/ VerifyBatches(t) \/ VerifyFails(t) PROVE LoopInv'
  BY <1>1 DEF Add, VerifyBatches, VerifyFails
<1>2. ASSUME NEW t \in Torrents, VerifyEnds(t) PROVE LoopInv'
  BY <1>2, CheckType DEF VerifyEnds
<1>3. ASSUME NEW t \in Torrents, StartDecides(t) PROVE LoopInv'
  BY <1>3, CheckType DEF StartDecides
<1>4. ASSUME NEW t \in Torrents, StartSpawns(t) PROVE LoopInv'
  BY <1>4 DEF StartSpawns
<1>5. ASSUME NEW t \in Torrents, InMap(t), NEW to \in {"Paused", "gone"}, Stop(t, to) PROVE LoopInv'
  BY <1>5 DEF Stop
<1>6. ASSUME NEW t \in Torrents, PieceArrives(t) \/ Completes(t) \/ Interest(t) PROVE LoopInv'
  BY <1>6 DEF PieceArrives, Completes, Interest
<1>7. ASSUME NEW t \in Torrents, MoveBegins(t) \/ MoveEnds(t) PROVE LoopInv'
  BY <1>7 DEF MoveBegins, MoveEnds, InMap, States
<1>8. ASSUME NEW c \in resumes, ResumeActs(c) PROVE LoopInv'
  BY <1>8 DEF ResumeActs
<1>9. ASSUME NEW t \in Torrents, DequeueStarts(t) PROVE LoopInv'
  BY <1>9 DEF DequeueStarts
<1>10. ASSUME \/ \E t \in Torrents : ResumeChooses(t)
             \/ \E l \in Limits : SetQueueSettings(l)
             \/ DequeueChooses \/ Idles
     PROVE  LoopInv'
  BY <1>10 DEF ResumeChooses, SetQueueSettings, DequeueChooses, Idles
<1>. QED
  BY <1>1, <1>2, <1>3, <1>4, <1>5, <1>6, <1>7, <1>8, <1>9, <1>10, StepKinds

-----------------------------------------------------------------------------
(* Completion *)

LEMMA CheckedStep == TypeOK /\ CheckedInv /\ [Next]_vars => CheckedInv'
<1>. SUFFICES ASSUME TypeOK, CheckedInv, [Next]_vars PROVE CheckedInv'
  OBVIOUS
<1>. USE DEF CheckedInv, TypeOK
<1>1. ASSUME NEW t \in Torrents, Add(t) \/ VerifyBatches(t) \/ StartSpawns(t) PROVE CheckedInv'
  BY <1>1 DEF Add, VerifyBatches, StartSpawns
<1>9. ASSUME NEW t \in Torrents, VerifyFails(t) PROVE CheckedInv'
  BY <1>9 DEF VerifyFails
<1>2. ASSUME NEW t \in Torrents, VerifyEnds(t) PROVE CheckedInv'
  BY <1>2, CheckType DEF VerifyEnds, InMap
<1>3. ASSUME NEW t \in Torrents, StartDecides(t) PROVE CheckedInv'
  BY <1>3, CheckType DEF StartDecides
<1>4. ASSUME NEW t \in Torrents, InMap(t), NEW to \in {"Paused", "gone"}, Stop(t, to) PROVE CheckedInv'
  BY <1>4 DEF Stop
<1>5. ASSUME NEW t \in Torrents,
            PieceArrives(t) \/ Completes(t) \/ Interest(t) \/ MoveBegins(t) \/ MoveEnds(t)
     PROVE  CheckedInv'
  BY <1>5 DEF PieceArrives, Completes, Interest, MoveBegins, MoveEnds
<1>6. ASSUME NEW c \in resumes, ResumeActs(c) PROVE CheckedInv'
  BY <1>6 DEF ResumeActs, Running
<1>7. ASSUME NEW t \in Torrents, DequeueStarts(t) PROVE CheckedInv'
  BY <1>7 DEF DequeueStarts, Running
<1>8. ASSUME \/ \E t \in Torrents : ResumeChooses(t)
            \/ \E l \in Limits : SetQueueSettings(l)
            \/ DequeueChooses \/ Idles
     PROVE  CheckedInv'
  BY <1>8 DEF ResumeChooses, SetQueueSettings, DequeueChooses, Idles
<1>. QED
  BY <1>1, <1>2, <1>3, <1>4, <1>5, <1>6, <1>7, <1>8, <1>9, StepKinds

LEMMA CompleteStep == TypeOK /\ CheckedInv /\ CompleteInv /\ HandledInv /\ [Next]_vars => CompleteInv'
<1>. SUFFICES ASSUME TypeOK, CheckedInv, CompleteInv, HandledInv, [Next]_vars PROVE CompleteInv'
  OBVIOUS
<1>. USE DEF CompleteInv, TypeOK
<1>1. ASSUME NEW t \in Torrents, Add(t) \/ VerifyBatches(t) \/ VerifyFails(t) \/ StartSpawns(t)
     PROVE  CompleteInv'
  BY <1>1 DEF Add, VerifyBatches, VerifyFails, StartSpawns
<1>2. ASSUME NEW t \in Torrents, VerifyEnds(t) PROVE CompleteInv'
  BY <1>2, CheckType DEF VerifyEnds
<1>3. ASSUME NEW t \in Torrents, StartDecides(t) PROVE CompleteInv'
  BY <1>3, CheckType DEF StartDecides
<1>4. ASSUME NEW t \in Torrents, InMap(t), NEW to \in {"Paused", "gone"}, Stop(t, to) PROVE CompleteInv'
  BY <1>4 DEF Stop
<1>5. ASSUME NEW t \in Torrents, PieceArrives(t) \/ Interest(t) PROVE CompleteInv'
  BY <1>5 DEF PieceArrives, Interest
<1>6. ASSUME NEW t \in Torrents, Completes(t) PROVE CompleteInv'
  BY <1>6 DEF Completes, HandledInv
<1>7. ASSUME NEW t \in Torrents, MoveBegins(t) \/ MoveEnds(t) PROVE CompleteInv'
  BY <1>7 DEF MoveBegins, MoveEnds
<1>8. ASSUME NEW c \in resumes, ResumeActs(c) PROVE CompleteInv'
  BY <1>8 DEF ResumeActs, Running
<1>9. ASSUME NEW t \in Torrents, DequeueStarts(t) PROVE CompleteInv'
  BY <1>9 DEF DequeueStarts, Running
<1>10. ASSUME NEW t \in Torrents, ResumeChooses(t) PROVE CompleteInv'
  BY <1>10 DEF ResumeChooses
<1>11. ASSUME (\E l \in Limits : SetQueueSettings(l)) \/ DequeueChooses \/ Idles
      PROVE  CompleteInv'
  BY <1>11 DEF SetQueueSettings, DequeueChooses, Idles
<1>. QED
  BY <1>1, <1>2, <1>3, <1>4, <1>5, <1>6, <1>7, <1>8, <1>9, <1>10, <1>11, StepKinds

LEMMA HandledStep == TypeOK /\ CheckedInv /\ CompleteInv /\ HandledInv /\ [Next]_vars => HandledInv'
<1>. SUFFICES ASSUME TypeOK, CheckedInv, CompleteInv, HandledInv, [Next]_vars PROVE HandledInv'
  OBVIOUS
<1>. USE DEF HandledInv, TypeOK
<1>1. ASSUME NEW t \in Torrents, Add(t) \/ StartSpawns(t) PROVE HandledInv'
  BY <1>1 DEF Add, StartSpawns, InMap
<1>2. ASSUME NEW t \in Torrents, VerifyBatches(t) PROVE HandledInv'
  <2>1. UNCHANGED <<state, processed, handled, seeded, early, missed>>
    BY <1>2 DEF VerifyBatches
  <2>2. \A u \in Torrents : u # t => complete'[u] = complete[u] /\ verify'[u] = verify[u]
    BY <1>2 DEF VerifyBatches
  <2>3. /\ InMap(t) => complete'[t] = (complete[t] \/ t \in seeded)
        /\ ~InMap(t) => complete'[t] = complete[t]
    BY <1>2 DEF VerifyBatches
  <2>4. CASE InMap(t)
    BY <2>1, <2>2, <2>3, <2>4 DEF InMap
  <2>5. CASE ~InMap(t)
    BY <2>1, <2>2, <2>3, <2>5 DEF InMap
  <2>. QED  BY <2>4, <2>5
<1>12. ASSUME NEW t \in Torrents, VerifyFails(t) PROVE HandledInv'
  BY <1>12 DEF VerifyFails, CompleteInv, InMap
<1>3. ASSUME NEW t \in Torrents, VerifyEnds(t) PROVE HandledInv'
  BY <1>3, CheckType DEF VerifyEnds, InMap
<1>4. ASSUME NEW t \in Torrents, StartDecides(t) PROVE HandledInv'
  BY <1>4, CheckType DEF StartDecides, CheckedInv, InMap
<1>5. ASSUME NEW t \in Torrents, InMap(t), NEW to \in {"Paused", "gone"}, Stop(t, to) PROVE HandledInv'
  <2>1. UNCHANGED <<complete, processed, handled, seeded, verify, early>> /\ missed \subseteq missed'
    BY <1>5 DEF Stop
  <2>2. \A u \in Torrents : u # t => state'[u] = state[u]
    BY <1>5 DEF Stop
  <2>3. state'[t] \in {"Paused", "gone"}
    BY <1>5 DEF Stop
  <2>4. complete[t] /\ state[t] = "Downloading" => t \in missed'
    BY <1>5 DEF Stop, Misses
  <2>. QED  BY <1>5, <2>1, <2>2, <2>3, <2>4 DEF InMap
<1>6. ASSUME NEW t \in Torrents, PieceArrives(t) \/ Interest(t) PROVE HandledInv'
  BY <1>6 DEF PieceArrives, Interest, InMap
<1>7. ASSUME NEW t \in Torrents, Completes(t) PROVE HandledInv'
  BY <1>7 DEF Completes, InMap
<1>8. ASSUME NEW t \in Torrents, MoveBegins(t) \/ MoveEnds(t) PROVE HandledInv'
  BY <1>8 DEF MoveBegins, MoveEnds, CompleteInv, InMap
<1>9. ASSUME NEW c \in resumes, ResumeActs(c) PROVE HandledInv'
  BY <1>9 DEF ResumeActs, Running, Misses, InMap
<1>10. ASSUME NEW t \in Torrents, DequeueStarts(t) PROVE HandledInv'
  BY <1>10 DEF DequeueStarts, Running, Misses, InMap
<1>11. ASSUME \/ \E t \in Torrents : ResumeChooses(t)
             \/ \E l \in Limits : SetQueueSettings(l)
             \/ DequeueChooses \/ Idles
      PROVE  HandledInv'
  BY <1>11 DEF ResumeChooses, SetQueueSettings, DequeueChooses, Idles, InMap
<1>. QED
  BY <1>1, <1>2, <1>3, <1>4, <1>5, <1>6, <1>7, <1>8, <1>9, <1>10, <1>11, <1>12, StepKinds
-----------------------------------------------------------------------------
(* Counting *)

(* Sets of torrents are finite; one more or one less counts one. *)
LEMMA Count ==
    \A ts \in SUBSET Torrents :
        /\ IsFiniteSet(ts) /\ Cardinality(ts) \in Nat
        /\ \A us \in SUBSET ts : Cardinality(us) <= Cardinality(ts)
        /\ \A t \in ts : Cardinality(ts \ {t}) = Cardinality(ts) - 1
        /\ \A t \in Torrents \ ts : Cardinality(ts \cup {t}) = Cardinality(ts) + 1
BY QueueAssumption, FS_Subset, FS_CardinalityType, FS_RemoveElement, FS_AddElement

LEMMA Numbers == /\ Torrents \subseteq Nat
                /\ \A t, u \in Torrents : t <= u /\ t # u => t < u
BY QueueAssumption

(* The choices of start_next_queued that wait, counted. *)
LEMMA CountPairs ==
    \A ps \in SUBSET (Torrents \X (1 .. MaxCommands)) : IsFiniteSet(ps) /\ Cardinality(ps) \in Nat
<1>1. IsFiniteSet(1 .. MaxCommands)
  BY QueueAssumption, FS_Interval
<1>2. IsFiniteSet(Torrents \X (1 .. MaxCommands))
  BY <1>1, QueueAssumption, FS_Product
<1>. QED  BY <1>2, FS_Subset, FS_CardinalityType

(* Choices are counted as pairs of a torrent and a number.                 *)
LEMMA CountPicks ==
  ASSUME TypeOK
  PROVE  /\ IsFiniteSet(Picks) /\ Cardinality(Picks) \in Nat
         /\ Cardinality(Picks) > 0 => \E t \in Torrents : picked[t] > 0
<1>1. Picks \in SUBSET (Torrents \X (1 .. MaxCommands))
  BY DEF Picks
<1>2. ASSUME \A t \in Torrents : ~(picked[t] > 0) PROVE Picks = {}
  BY <1>2 DEF Picks, TypeOK
<1>. QED  BY <1>1, <1>2, CountPairs, FS_EmptySet

(* One more choice is one pair more.                                       *)
LEMMA PickMore ==
  ASSUME TypeOK, NEW t \in Torrents, picked[t] < MaxCommands,
         picked' = [picked EXCEPT ![t] = @ + 1]
  PROVE  Cardinality(Picks') = Cardinality(Picks) + 1
<1>1. picked[t] + 1 \in 1 .. MaxCommands
  BY QueueAssumption DEF TypeOK
<1>2. Picks' = Picks \cup {<<t, picked[t] + 1>>} /\ <<t, picked[t] + 1>> \notin Picks
  BY <1>1, QueueAssumption DEF Picks, TypeOK
<1>. QED  BY <1>2, CountPicks, FS_AddElement

(* One choice less is one pair less.                                       *)
LEMMA PickFewer ==
  ASSUME TypeOK, NEW t \in Torrents, picked[t] > 0,
         picked' = [picked EXCEPT ![t] = @ - 1]
  PROVE  Cardinality(Picks') = Cardinality(Picks) - 1
<1>1. picked[t] \in 1 .. MaxCommands
  BY QueueAssumption DEF TypeOK
<1>2. Picks' = Picks \ {<<t, picked[t]>>} /\ <<t, picked[t]>> \in Picks
  BY <1>1, QueueAssumption DEF Picks, TypeOK
<1>. QED  BY <1>2, CountPicks, FS_RemoveElement

-----------------------------------------------------------------------------
(* The limit of downloads *)

Before(t) == {u \in Downloads : u < t}
Bounded == limits.dl > 0 /\ mishaps \cap {"stale", "lowered"} = {}

LEMMA LimitsType == TypeOK => limits.dl \in Nat /\ limits.ul \in Nat
BY QueueAssumption DEF TypeOK

(* Fewer than the limit before each one that downloads is at most the      *)
(* limit in all: the last of them has the others before it.                *)
LEMMA OrderBounds == TypeOK /\ OrderInv => DownloadsBounded
<1>. SUFFICES ASSUME TypeOK, OrderInv, Bounded
              PROVE  Cardinality({t \in Torrents : state[t] = "Downloading" /\ ~complete[t]}) <= limits.dl
  BY DEF DownloadsBounded, Bounded
<1>. DEFINE running == {t \in Torrents : state[t] = "Downloading" /\ ~complete[t]}
<1>1. CASE running = {}
  BY <1>1, FS_EmptySet, LimitsType
<1>2. CASE running # {}
  <2>1. PICK m \in running : \A t \in running : t <= m
    BY <1>2, Count, QueueAssumption, Greatest
  <2>2. running \ {m} \subseteq Before(m)
    BY <2>1, Numbers DEF Before, Downloads
  <2>3. Cardinality(Before(m)) < limits.dl
    BY <2>1 DEF OrderInv, Bounded, Before
  <2>4. Before(m) \in SUBSET Torrents
    BY DEF Before, Downloads
  <2>. HIDE DEF running
  <2>5. running \in SUBSET Torrents
    BY DEF running
  <2>6. Cardinality(running) - 1 <= Cardinality(Before(m))
    BY <2>1, <2>2, <2>4, <2>5, Count
  <2>. QED  BY <2>3, <2>4, <2>5, <2>6, Count, LimitsType DEF running
<1>. QED  BY <1>1, <1>2

(* No torrent begins to count, and what begins to download was below.      *)
LEMMA OrderShrinks ==
  ASSUME TypeOK, OrderInv, Bounded', limits' = limits, mishaps \subseteq mishaps',
         Downloads' \subseteq Downloads,
         \A t \in Torrents : state'[t] = "Downloading" /\ ~complete'[t] =>
             \/ state[t] = "Downloading" /\ ~complete[t]
             \/ Cardinality(Before(t)) < limits.dl
  PROVE  \A t \in Torrents : state'[t] = "Downloading" /\ ~complete'[t] =>
             Cardinality(Before(t)') < limits'.dl
<1>1. Bounded
  BY DEF Bounded
<1>2. \A t \in Torrents : Before(t)' \subseteq Before(t) /\ Before(t) \in SUBSET Torrents
  BY DEF Before, Downloads
<1>3. ASSUME NEW t \in Torrents, state'[t] = "Downloading", ~complete'[t]
     PROVE  Cardinality(Before(t)') < limits'.dl
  <2>1. Cardinality(Before(t)) < limits.dl
    BY <1>1, <1>3 DEF OrderInv, Bounded, Before
  <2>2. Before(t)' \in SUBSET Before(t) /\ Before(t) \in SUBSET Torrents /\ Before(t)' \in SUBSET Torrents
    BY <1>2
  <2>3. Cardinality(Before(t)') <= Cardinality(Before(t))
    BY <2>2, Count
  <2>. QED  BY <2>1, <2>2, <2>3, Count, LimitsType
<1>. QED  BY <1>3

(* One torrent joins while there is room. *)
LEMMA OrderJoins ==
  ASSUME TypeOK, OrderInv, Bounded', limits' = limits, NEW t \in Torrents,
         Cardinality(Downloads) < limits.dl, Downloads' \subseteq Downloads \cup {t},
         \A u \in Torrents : state'[u] = "Downloading" /\ ~complete'[u] => u \in Downloads \cup {t}
  PROVE  \A u \in Torrents : state'[u] = "Downloading" /\ ~complete'[u] =>
             Cardinality(Before(u)') < limits'.dl
<1>1. Downloads \in SUBSET Torrents
  BY DEF Downloads
<1>2. ASSUME NEW u \in Torrents, state'[u] = "Downloading", ~complete'[u]
     PROVE  Cardinality(Before(u)') < limits'.dl
  <2>1. Before(u)' \subseteq (Downloads \cup {t}) \ {u} /\ u \in Downloads \cup {t}
    BY <1>2, QueueAssumption DEF Before
  <2>2. Cardinality((Downloads \cup {t}) \ {u}) <= Cardinality(Downloads)
    <3>1. Downloads \cup {t} \in SUBSET Torrents
      BY <1>1
    <3>2. Cardinality(Downloads \cup {t}) <= Cardinality(Downloads) + 1
      <4>1. CASE t \in Downloads
        <5>1. Downloads \cup {t} = Downloads
          BY <4>1
        <5>. QED  BY <5>1, <1>1, Count
      <4>2. CASE t \notin Downloads
        BY <4>2, <1>1, Count
      <4>. QED  BY <4>1, <4>2
    <3>3. Cardinality((Downloads \cup {t}) \ {u}) = Cardinality(Downloads \cup {t}) - 1
      BY <2>1, <3>1, Count
    <3>. QED  BY <3>1, <3>2, <3>3, <1>1, Count
  <2>3. (Downloads \cup {t}) \ {u} \in SUBSET Torrents
    BY <1>1
  <2>4. Cardinality(Before(u)') <= Cardinality((Downloads \cup {t}) \ {u})
                /\ Cardinality(Before(u)') \in Nat
    BY <2>1, <2>3, Count
  <2>. QED  BY <2>2, <2>3, <2>4, <1>1, Count, LimitsType
<1>. QED  BY <1>2

(* A check that ends as a download has found the place free. *)
LEMMA CheckPlace ==
  ASSUME TypeOK, NEW t \in Torrents, limits.dl > 0, AfterCheck(t) = "Downloading"
  PROVE  Cardinality(Before(t)) < limits.dl
<1>. DEFINE ahead == {u \in Torrents :
        /\ u < t /\ complete[u] = complete[t]
        /\ \/ state[u] \in {"Checking", "Queued"}
           \/ state[u] = "Downloading" /\ ~complete[t]
           \/ state[u] \in {"Seeding", "Completed"} /\ complete[t]}
<1>1. ~complete[t] /\ ~(Cardinality(ahead) >= limits.dl)
  BY DEF AfterCheck, QueuePosition, Limit
<1>2. Before(t) \subseteq ahead /\ ahead \in SUBSET Torrents
  BY <1>1 DEF Before, Downloads, TypeOK
<1>. HIDE DEF ahead
<1>3. Cardinality(Before(t)) <= Cardinality(ahead) /\ Cardinality(Before(t)) \in Nat
  BY <1>2, Count
<1>. QED  BY <1>1, <1>2, <1>3, Count, LimitsType

LEMMA OrderStep == TypeOK /\ CompleteInv /\ OrderInv /\ TypeOK' /\ [Next]_vars => OrderInv'
<1>. SUFFICES ASSUME TypeOK, CompleteInv, OrderInv, TypeOK', [Next]_vars PROVE OrderInv'
  OBVIOUS
<1>. DEFINE Sorted == \A t, u \in Torrents : u < t /\ state[t] # "new" => state[u] # "new"
            Below == \A t \in Torrents : state[t] = "Downloading" /\ ~complete[t] =>
                         Cardinality(Before(t)) < limits.dl
<1>0. (Sorted /\ (Bounded => Below) => OrderInv) /\ Sorted
     /\ (Sorted' /\ (Bounded' => Below') => OrderInv')
  BY DEF OrderInv, Before, Bounded
<1>. HIDE DEF Sorted
<1>1. ASSUME NEW t \in Torrents, Add(t) PROVE OrderInv'
  <2>1. Sorted'
    BY <1>0, <1>1, QueueAssumption DEF Add, Sorted, TypeOK
  <2>2. ASSUME Bounded' PROVE Below'
    <3>1. Bounded /\ limits' = limits
      BY <1>1, <2>2 DEF Add, Bounded
    <3>2. ASSUME NEW u \in Torrents, state'[u] = "Downloading", ~complete'[u]
         PROVE  Cardinality(Before(u)') < limits'.dl
      <4>1. u # t /\ state[u] = "Downloading" /\ ~complete[u]
        BY <1>1, <3>2 DEF Add, TypeOK
      <4>2. u < t
        BY <1>0, <1>1, <4>1, QueueAssumption DEF Add, Sorted
      <4>3. Before(u)' = Before(u)
        BY <1>1, <4>2, QueueAssumption DEF Before, Downloads, Add, TypeOK
      <4>. QED  BY <3>1, <4>1, <4>3 DEF OrderInv, Bounded, Before
    <3>. QED  BY <3>2
  <2>. QED  BY <1>0, <2>1, <2>2
<1>2. ASSUME NEW t \in Torrents, VerifyEnds(t) \/ StartDecides(t) PROVE OrderInv'
  <2>1. Sorted'
    BY <1>0, <1>2, CheckType DEF VerifyEnds, StartDecides, Sorted, TypeOK
  <2>2. ASSUME Bounded' PROVE Below'
    <3>1. Downloads' \subseteq Downloads /\ limits' = limits /\ mishaps \subseteq mishaps'
      BY <1>2, CheckType DEF VerifyEnds, StartDecides, Downloads, TypeOK
    <3>2. limits.dl > 0
      BY <2>2, <3>1 DEF Bounded
    <3>3. \A u \in Torrents : state'[u] = "Downloading" /\ ~complete'[u] =>
             (state[u] = "Downloading" /\ ~complete[u]) \/ Cardinality(Before(u)) < limits.dl
      BY <1>2, <3>2, CheckPlace DEF VerifyEnds, StartDecides, TypeOK
    <3>. QED  BY <2>2, <3>1, <3>3, OrderShrinks
  <2>. QED  BY <1>0, <2>1, <2>2
<1>3. ASSUME NEW t \in Torrents,
            \/ VerifyBatches(t) \/ VerifyFails(t) \/ StartSpawns(t)
            \/ ResumeChooses(t) \/ PieceArrives(t)
            \/ Completes(t) \/ Interest(t) \/ MoveBegins(t) \/ MoveEnds(t)
            \/ InMap(t) /\ \E to \in {"Paused", "gone"} : Stop(t, to)
            \/ DequeueChooses \/ Idles
     PROVE  OrderInv'
  <2>1. \A u \in Torrents : state'[u] = "new" <=> state[u] = "new"
    BY <1>3 DEF VerifyBatches, VerifyFails, StartSpawns, ResumeChooses, PieceArrives, Completes, Interest,
        MoveBegins, MoveEnds, InMap, Stop, DequeueChooses, Idles, TypeOK
  <2>2. Sorted'
    BY <1>0, <2>1 DEF Sorted
  <2>3. limits' = limits /\ mishaps \subseteq mishaps'
    BY <1>3 DEF VerifyBatches, VerifyFails, StartSpawns, ResumeChooses, PieceArrives, Completes, Interest,
        MoveBegins, MoveEnds, Stop, DequeueChooses, Idles
  <2>4. \A u \in Torrents :
          (complete[u] => complete'[u])
          /\ (state'[u] \in {"Downloading", "Checking"} => state'[u] = state[u])
    BY <1>3 DEF VerifyBatches, VerifyFails, StartSpawns, ResumeChooses, PieceArrives, Completes, Interest,
        MoveBegins, MoveEnds, Stop, DequeueChooses, Idles, TypeOK
  <2>5. Downloads' \subseteq Downloads
    BY <2>4 DEF Downloads
  <2>6. ASSUME Bounded' PROVE Below'
    BY <2>3, <2>4, <2>5, <2>6, OrderShrinks
  <2>. QED  BY <1>0, <2>2, <2>6
<1>4. ASSUME NEW c \in resumes, ResumeActs(c) PROVE OrderInv'
  <2>. DEFINE t == c.of
  <2>1. t \in Torrents /\ limits' = limits /\ mishaps \subseteq mishaps' /\ complete' = complete
    BY <1>4 DEF ResumeActs, TypeOK
  <2>2. Sorted'
    BY <1>0, <1>4 DEF ResumeActs, Running, InMap, Sorted, TypeOK
  <2>3. ASSUME Bounded' PROVE Below'
    <3>1. CASE \/ state' = state
               \/ /\ \A u \in Torrents \ {t} : state'[u] = state[u]
                  /\ state'[t] = "Queued" \/ complete[t]
      <4>1. Downloads' \subseteq Downloads
        BY <2>1, <3>1 DEF Downloads
      <4>2. \A u \in Torrents : state'[u] = "Downloading" /\ ~complete'[u] =>
               state[u] = "Downloading" /\ ~complete[u]
        BY <2>1, <3>1
      <4>. QED  BY <2>1, <2>3, <4>1, <4>2, OrderShrinks
    <3>2. CASE /\ state' # state
               /\ \/ \E u \in Torrents \ {t} : state'[u] # state[u]
                  \/ ~(state'[t] = "Queued" \/ complete[t])
      <4>0. InMap(t)
        <5>1. ~InMap(t) => state' = state
          BY <1>4 DEF ResumeActs
        <5>. QED  BY <3>2, <5>1
      <4>1. state' = [state EXCEPT ![t] = IF c.queue THEN "Queued" ELSE Running(c.complete)]
        BY <1>4, <4>0 DEF ResumeActs
      <4>2. ~complete[t] /\ ~c.queue
        BY <2>1, <3>2, <4>1 DEF TypeOK
      <4>3. c.queue = Full(complete[t])
        <5>2. c.queue # Full(complete[t]) => "stale" \in mishaps'
          BY <1>4, <4>0 DEF ResumeActs
        <5>. QED  BY <2>3, <5>2 DEF Bounded
      <4>4. ~(Cardinality(Downloads) >= limits.dl)
        BY <2>1, <2>3, <4>2, <4>3, <2>1 DEF Full, Limit, ActiveDownloads, Downloads, Bounded, TypeOK
      <4>5. Downloads \in SUBSET Torrents
        BY DEF Downloads
      <4>6. Cardinality(Downloads) < limits.dl
        BY <4>4, <4>5, Count, LimitsType
      <4>7. Downloads' \subseteq Downloads \cup {t}
        BY <2>1, <4>1 DEF Downloads, TypeOK
      <4>8. \A u \in Torrents : state'[u] = "Downloading" /\ ~complete'[u] => u \in Downloads \cup {t}
        BY <2>1, <4>1 DEF Downloads, TypeOK
      <4>. QED  BY <2>1, <2>3, <4>6, <4>7, <4>8, OrderJoins
    <3>. QED  BY <3>1, <3>2
  <2>. QED  BY <1>0, <2>2, <2>3
<1>5. ASSUME NEW l \in Limits, SetQueueSettings(l) PROVE OrderInv'
  <2>1. Sorted' /\ ~Bounded'
    BY <1>0, <1>5 DEF SetQueueSettings, Sorted, Bounded
  <2>. QED  BY <1>0, <2>1
<1>6. ASSUME NEW t \in Torrents, DequeueStarts(t) PROVE OrderInv'
  <2>1. limits' = limits /\ mishaps \subseteq mishaps' /\ complete' = complete
    BY <1>6 DEF DequeueStarts
  <2>2. Sorted'
    BY <1>0, <1>6 DEF DequeueStarts, Running, InMap, Sorted, TypeOK
  <2>3. ASSUME Bounded' PROVE Below'
    <3>1. t \in Waiting /\ InMap(t)
      BY <1>6, <2>3 DEF DequeueStarts, Bounded
    <3>2. state' = [state EXCEPT ![t] = Running(complete[t])]
      BY <1>6, <3>1 DEF DequeueStarts
    <3>3. CASE complete[t]
      <4>1. Downloads' \subseteq Downloads
        BY <2>1, <3>2, <3>3 DEF Downloads, Running, TypeOK
      <4>2. \A u \in Torrents : state'[u] = "Downloading" /\ ~complete'[u] =>
               state[u] = "Downloading" /\ ~complete[u]
        BY <2>1, <3>2, <3>3 DEF Running, TypeOK
      <4>. QED  BY <2>1, <2>3, <4>1, <4>2, OrderShrinks
    <3>4. CASE ~complete[t]
      <4>1. ~(Cardinality(Downloads) >= limits.dl)
        BY <2>1, <2>3, <3>1, <3>4 DEF Waiting, Full, Limit, ActiveDownloads, Downloads, Bounded,
           TypeOK
      <4>2. Downloads \in SUBSET Torrents
        BY DEF Downloads
      <4>3. Cardinality(Downloads) < limits.dl
        BY <4>1, <4>2, Count, LimitsType
      <4>4. Downloads' \subseteq Downloads \cup {t}
        BY <2>1, <3>2 DEF Downloads, TypeOK
      <4>5. \A u \in Torrents : state'[u] = "Downloading" /\ ~complete'[u] => u \in Downloads \cup {t}
        BY <2>1, <3>2 DEF Downloads, TypeOK
      <4>. QED  BY <2>1, <2>3, <4>3, <4>4, <4>5, OrderJoins
    <3>. QED  BY <3>3, <3>4
  <2>. QED  BY <1>0, <2>2, <2>3
<1>7. Torrents # {} /\ (DequeueChooses \/ Idles) => OrderInv'
  BY <1>3
<1>8. Torrents = {} => OrderInv'
  BY DEF OrderInv
<1>. QED
  BY <1>1, <1>2, <1>3, <1>4, <1>5, <1>6, <1>7, <1>8, StepKinds
-----------------------------------------------------------------------------
(* The queue *)

Answered == Cardinality(Downloads) + freed + Cardinality(Picks)
Calm ==
    /\ \A t \in Torrents : ~complete[t] /\ completion[t] = "none"
                           /\ state[t] \notin {"Completed", "Seeding", "Moving"}
    /\ limits.dl = 0 => \A t \in Torrents : state[t] # "Queued"
Served == (\E t \in Torrents : state[t] = "Queued") => Answered >= limits.dl

LEMMA CountType ==
  ASSUME TypeOK
  PROVE  /\ Downloads \in SUBSET Torrents /\ Cardinality(Downloads) \in Nat
         /\ Cardinality(Picks) \in Nat /\ freed \in Nat /\ limits.dl \in Nat
<1>1. Downloads \in SUBSET Torrents /\ Picks \in SUBSET (Torrents \X (1 .. MaxCommands))
  BY DEF Downloads, Picks
<1>2. freed \in Nat /\ limits.dl \in Nat
  BY QueueAssumption, LimitsType DEF TypeOK
<1>. QED  BY <1>1, <1>2, Count, CountPairs

LEMMA CountTypeNext ==
  ASSUME TypeOK'
  PROVE  /\ Downloads' \in SUBSET Torrents /\ Cardinality(Downloads') \in Nat
         /\ Cardinality(Picks') \in Nat /\ freed' \in Nat /\ limits'.dl \in Nat
<1>1. Downloads' \in SUBSET Torrents /\ Picks' \in SUBSET (Torrents \X (1 .. MaxCommands))
  BY DEF Downloads, Picks
<1>2. freed' \in Nat /\ limits'.dl \in Nat
  BY QueueAssumption DEF TypeOK
<1>. QED  BY <1>1, <1>2, Count, CountPairs

(* With nothing complete only the limit of downloads matters. *)
LEMMA CalmFull ==
  ASSUME TypeOK, Calm, NEW t \in Torrents
  PROVE  Full(complete[t]) <=> limits.dl > 0 /\ Cardinality(Downloads) >= limits.dl
BY DEF Calm, Full, Limit, ActiveDownloads, Downloads, TypeOK

(* While the slots that are used or about to be used do not become fewer,  *)
(* a torrent that waited goes on waiting for good reason.                  *)
LEMMA ServedKept ==
  ASSUME TypeOK, TypeOK', Served, limits' = limits,
         \A u \in Torrents : state'[u] = "Queued" => state[u] = "Queued",
         Answered' >= Answered
  PROVE  Served'
BY CountType, CountTypeNext DEF Served, Answered

LEMMA WaitUsesSlots == TypeOK /\ WaitInv => SlotsUsed
<1>. SUFFICES ASSUME TypeOK, WaitInv, Waiting # {}, Undisturbed
              PROVE  freed > 0 \/ \E t \in Torrents : picked[t] > 0
  BY DEF SlotsUsed, Undisturbed
<1>1. Calm /\ Served
  BY DEF WaitInv, Calm, Served, Answered
<1>2. PICK t \in Torrents : state[t] = "Queued" /\ ~Full(complete[t])
  BY DEF Waiting
<1>3. limits.dl > 0 /\ Cardinality(Downloads) < limits.dl
  BY <1>1, <1>2, CalmFull, CountType DEF Calm
<1>4. freed + Cardinality(Picks) > 0
  BY <1>1, <1>2, <1>3, CountType DEF Served, Answered
<1>. QED  BY <1>4, CountType, CountPicks

LEMMA WaitStep ==
    TypeOK /\ CommandsServed /\ CheckedInv /\ WaitInv /\ TypeOK' /\ [Next]_vars => WaitInv'
<1>. SUFFICES ASSUME TypeOK, CommandsServed, CheckedInv, WaitInv, TypeOK', [Next]_vars, Undisturbed'
              PROVE  Calm' /\ Served'
  BY DEF WaitInv, Calm, Served, Answered
<1>1. mishaps \subseteq mishaps'
  BY StepKinds DEF Add, VerifyBatches, VerifyFails, VerifyEnds, StartDecides, StartSpawns, Stop, ResumeChooses,
     ResumeActs, SetQueueSettings, DequeueChooses, DequeueStarts, PieceArrives, Completes,
     Interest, MoveBegins, MoveEnds, Idles
<1>2. Undisturbed /\ Calm /\ Served
  BY <1>1 DEF WaitInv, Undisturbed, Calm, Served, Answered
<1>. USE DEF TypeOK
<1>3. ASSUME NEW t \in Torrents,
            \/ VerifyBatches(t) \/ VerifyFails(t) \/ StartDecides(t) \/ StartSpawns(t)
            \/ ResumeChooses(t) \/ Idles
     PROVE  Calm' /\ Served'
  <2>1. UNCHANGED <<complete, state, limits, freed, picked>>
    <3>1. VerifyBatches(t) => complete' = complete
      <4>1. VerifyBatches(t) /\ InMap(t) => t \notin seeded
        BY DEF VerifyBatches, Undisturbed
      <4>. QED  BY <4>1 DEF VerifyBatches
    <3>2. StartDecides(t) => state' = state
      BY DEF StartDecides, CheckedInv
    <3>. QED  BY <1>3, <3>1, <3>2 DEF VerifyBatches, VerifyFails, StartDecides, StartSpawns, ResumeChooses, Idles
  <2>2. \A u \in Torrents : completion'[u] # "none" => completion'[u] = completion[u]
    BY <1>3 DEF VerifyBatches, VerifyFails, StartDecides, StartSpawns, ResumeChooses, Idles
  <2>. QED  BY <1>2, <2>1, <2>2 DEF Calm, Served, Answered, Downloads, Picks
<1>4. ASSUME NEW t \in Torrents, Add(t) PROVE Calm' /\ Served'
  <2>1. Calm'
    BY <1>2, <1>4 DEF Add, Calm
  <2>2. Downloads \subseteq Downloads' /\ limits' = limits /\ freed' = freed /\ Picks' = Picks
    BY <1>4 DEF Add, Downloads, Picks
  <2>3. Answered' >= Answered
    BY <2>2, Count, CountType, CountTypeNext DEF Answered
  <2>. QED  BY <1>2, <1>4, <2>1, <2>2, <2>3, ServedKept DEF Add
<1>5. ASSUME NEW t \in Torrents, VerifyEnds(t) PROVE Calm' /\ Served'
  <2>1. UNCHANGED <<complete, completion, limits, freed, picked>>
    BY <1>5 DEF VerifyEnds
  <2>2. CASE state[t] = "Checking" /\ AfterCheck(t) = "Queued"
    <3>1. state' = [state EXCEPT ![t] = "Queued"]
      BY <1>5, <2>2 DEF VerifyEnds
    <3>2. FullOfOthers(t)
      BY <1>5, <2>2 DEF VerifyEnds, Undisturbed
    <3>3. limits.dl > 0
      BY <1>2, <3>2 DEF FullOfOthers, Limit, Calm
    <3>. DEFINE others == {u \in Torrents \ {t} :
           /\ complete[u] = complete[t]
           /\ state[u] \in {"Checking", "Downloading", "Seeding", "Completed"}}
    <3>4. Cardinality(others) >= limits.dl
      BY <1>2, <3>2 DEF FullOfOthers, Limit, Calm
    <3>5. others \subseteq Downloads'
      BY <1>2, <2>1, <3>1 DEF Downloads, Calm
    <3>. HIDE DEF others
    <3>6. Cardinality(others) <= Cardinality(Downloads') /\ Cardinality(others) \in Nat
      BY <3>5, Count, CountTypeNext
    <3>7. Answered' >= limits'.dl
      BY <2>1, <3>4, <3>6, CountTypeNext DEF Answered
    <3>. QED  BY <1>2, <2>1, <3>1, <3>3, <3>7 DEF Calm, Served
  <2>3. CASE ~(state[t] = "Checking" /\ AfterCheck(t) = "Queued")
    <3>1. \/ state' = state
          \/ state[t] = "Checking" /\ state' = [state EXCEPT ![t] = "Downloading"]
      BY <1>2, <1>5, <2>3, CheckType DEF VerifyEnds, Calm
    <3>2. Downloads' = Downloads /\ Picks' = Picks
      BY <1>2, <2>1, <3>1 DEF Downloads, Picks, Calm
    <3>. QED  BY <1>2, <2>1, <3>1, <3>2 DEF Calm, Served, Answered
  <2>. QED  BY <2>2, <2>3
<1>6. ASSUME NEW t \in Torrents, InMap(t), NEW to \in {"Paused", "gone"}, Stop(t, to)
     PROVE  Calm' /\ Served'
  <2>1. Calm'
    BY <1>2, <1>6 DEF Stop, Calm
  <2>5. freed' = freed + 1
    BY <1>6 DEF Stop, Undisturbed
  <2>2. Downloads \ {t} \subseteq Downloads' /\ limits' = limits /\ Picks' = Picks /\ freed' = freed + 1
    BY <1>6, <2>5 DEF Stop, Downloads, Picks
  <2>3. Cardinality(Downloads) - 1 <= Cardinality(Downloads')
    <3>1. Cardinality(Downloads \ {t}) <= Cardinality(Downloads')
      BY <2>2, Count, CountTypeNext
    <3>2. CASE t \in Downloads
      BY <3>1, <3>2, Count, CountType
    <3>3. CASE t \notin Downloads
      <4>1. Downloads \subseteq Downloads'
        BY <2>2, <3>3
      <4>. QED  BY <4>1, Count, CountType, CountTypeNext
    <3>. QED  BY <3>2, <3>3
  <2>4. Answered' >= Answered
    BY <2>2, <2>3, CountType, CountTypeNext DEF Answered
  <2>. QED  BY <1>2, <1>6, <2>1, <2>2, <2>4, ServedKept DEF Stop
<1>7. ASSUME NEW c \in resumes, ResumeActs(c) PROVE Calm' /\ Served'
  <2>. DEFINE t == c.of
  <2>1. t \in Torrents /\ UNCHANGED <<complete, completion, limits, freed, picked>>
    BY <1>7 DEF ResumeActs
  <2>2. CASE ~InMap(t)
    <3>1. state' = state
      BY <1>7, <2>2 DEF ResumeActs
    <3>. QED  BY <1>2, <2>1, <3>1 DEF Calm, Served, Answered, Downloads, Picks
  <2>3. CASE InMap(t)
    <3>1. state' = [state EXCEPT ![t] = IF c.queue THEN "Queued" ELSE Running(c.complete)]
      BY <1>7, <2>3 DEF ResumeActs
    <3>2. state[t] # "Paused" => "again" \in mishaps'
      BY <1>7, <2>3 DEF ResumeActs
    <3>3. c.complete # complete[t] => "stale" \in mishaps'
      BY <1>7, <2>3 DEF ResumeActs
    <3>4. c.queue # Full(complete[t]) => "stale" \in mishaps'
      BY <1>7, <2>3 DEF ResumeActs
    <3>5. state[t] = "Paused" /\ ~c.complete
          /\ (c.queue <=> limits.dl > 0 /\ Cardinality(Downloads) >= limits.dl)
      BY <1>2, <2>1, <3>2, <3>3, <3>4, CalmFull DEF Undisturbed, Calm
    <3>6. Picks' = Picks
      BY <2>1 DEF Picks
    <3>7. CASE c.queue
      <4>1. Downloads' = Downloads
        BY <2>1, <3>1, <3>5, <3>7 DEF Downloads
      <4>2. Answered' >= limits'.dl
        BY <2>1, <3>5, <3>7, <4>1, CountType, CountTypeNext DEF Answered
      <4>. QED  BY <1>2, <2>1, <3>1, <3>5, <3>7, <4>2 DEF Calm, Served
    <3>8. CASE ~c.queue
      <4>1. state' = [state EXCEPT ![t] = "Downloading"]
        BY <3>1, <3>5, <3>8 DEF Running
      <4>2. Downloads \subseteq Downloads'
        BY <2>1, <4>1 DEF Downloads
      <4>3. Answered' >= Answered
        BY <2>1, <3>6, <4>2, Count, CountType, CountTypeNext DEF Answered
      <4>4. Calm'
        BY <1>2, <2>1, <4>1 DEF Calm
      <4>. QED  BY <1>2, <2>1, <4>1, <4>3, <4>4, ServedKept
    <3>. QED  BY <3>7, <3>8
  <2>. QED  BY <2>2, <2>3
<1>8. ASSUME NEW l \in Limits, SetQueueSettings(l) PROVE FALSE
  BY <1>8 DEF SetQueueSettings, Undisturbed
<1>9. ASSUME DequeueChooses PROVE Calm' /\ Served'
  <2>1. UNCHANGED <<complete, completion, state, limits>> /\ freed' = freed - 1 /\ freed > 0
    BY <1>9 DEF DequeueChooses
  <2>2. Calm' /\ Downloads' = Downloads
    BY <1>2, <2>1 DEF Calm, Downloads
  <2>3. ASSUME NEW q \in Torrents, state[q] = "Queued" PROVE Answered' >= limits'.dl
    <3>1. limits.dl # 0
      BY <1>2, <2>3 DEF Calm
    <3>2. CASE Waiting = {}
      <4>1. Cardinality(Downloads) >= limits.dl
        BY <1>2, <2>3, <3>2, CalmFull DEF Waiting
      <4>. QED  BY <2>1, <2>2, <4>1, CountType, CountTypeNext DEF Answered
    <3>3. CASE Waiting # {}
      <4>1. PICK t \in Waiting : picked' = [picked EXCEPT ![t] = @ + 1]
        BY <1>9, <3>1, <3>3 DEF DequeueChooses
      <4>2. t \in Torrents /\ picked[t] < MaxCommands
        BY <2>1, QueueAssumption DEF Waiting, CommandsServed
      <4>3. Cardinality(Picks') = Cardinality(Picks) + 1
        BY <4>1, <4>2, PickMore
      <4>4. Answered >= limits.dl
        BY <1>2, <2>3 DEF Served
      <4>. QED  BY <2>1, <2>2, <4>3, <4>4, CountType, CountTypeNext DEF Answered
    <3>. QED  BY <3>2, <3>3
  <2>. QED  BY <2>1, <2>2, <2>3 DEF Served
<1>10. ASSUME NEW t \in Torrents, DequeueStarts(t) PROVE Calm' /\ Served'
  <2>1. UNCHANGED <<complete, completion, limits, freed>> /\ picked[t] > 0
        /\ picked' = [picked EXCEPT ![t] = @ - 1]
    BY <1>10 DEF DequeueStarts
  <2>2. t \in Waiting
    <3>1. InMap(t) /\ t \notin Waiting => "stale" \in mishaps'
      BY <1>10 DEF DequeueStarts
    <3>2. ~InMap(t) => "stale" \in mishaps'
      BY <1>10 DEF DequeueStarts
    <3>. QED  BY <3>1, <3>2 DEF Undisturbed
  <2>3. state[t] = "Queued" /\ InMap(t) /\ ~complete[t]
    BY <1>2, <2>2 DEF Waiting, InMap, Calm
  <2>4. state' = [state EXCEPT ![t] = "Downloading"]
    BY <1>10, <2>3 DEF DequeueStarts, Running
  <2>5. Calm' /\ \A u \in Torrents : state'[u] = "Queued" => state[u] = "Queued"
    BY <1>2, <2>1, <2>4 DEF Calm
  <2>6. Downloads' = Downloads \cup {t} /\ t \notin Downloads
    BY <2>1, <2>3, <2>4 DEF Downloads
  <2>7. Cardinality(Downloads') = Cardinality(Downloads) + 1
    BY <2>6, Count, CountType
  <2>8. Cardinality(Picks') = Cardinality(Picks) - 1
    BY <2>1, PickFewer
  <2>9. Answered' >= Answered
    BY <2>1, <2>7, <2>8, CountType, CountTypeNext DEF Answered
  <2>. QED  BY <1>2, <2>1, <2>5, <2>9, ServedKept
<1>11. ASSUME NEW t \in Torrents,
             PieceArrives(t) \/ Completes(t) \/ Interest(t) \/ MoveBegins(t) \/ MoveEnds(t)
      PROVE  FALSE
  BY <1>2, <1>11 DEF PieceArrives, Completes, Interest, MoveBegins, MoveEnds, Undisturbed, Calm
<1>12. Idles => Calm' /\ Served'
  BY <1>2 DEF Idles, Calm, Served, Answered, Downloads, Picks
<1>. QED
  BY <1>3, <1>4, <1>5, <1>6, <1>7, <1>8, <1>9, <1>10, <1>11, <1>12, StepKinds

-----------------------------------------------------------------------------
(* The invariant *)

QueueInv ==
    /\ TypeOK /\ CommandsServed /\ PauseHolds /\ LoopInv
    /\ CheckedInv /\ CompleteInv /\ HandledInv /\ OrderInv /\ WaitInv

LEMMA InitInv == Init => QueueInv
<1>. SUFFICES ASSUME Init PROVE QueueInv
  OBVIOUS
<1>1. TypeOK /\ CommandsServed
  BY QueueAssumption DEF Init, TypeOK, CommandsServed, States
<1>2. PauseHolds /\ LoopInv /\ CheckedInv /\ CompleteInv
  BY DEF Init, PauseHolds, LoopInv, CheckedInv, CompleteInv
<1>3. HandledInv
  BY DEF Init, HandledInv, InMap
<1>4. OrderInv /\ WaitInv
  BY DEF Init, OrderInv, WaitInv
<1>. QED  BY <1>1, <1>2, <1>3, <1>4 DEF QueueInv

LEMMA InvStep == QueueInv /\ [Next]_vars => QueueInv'
BY TypeStep, PauseStep, LoopStep, CheckedStep, CompleteStep, HandledStep, OrderStep, WaitStep
   DEF QueueInv

LEMMA InvHolds == Spec => []QueueInv
BY InitInv, InvStep, PTL DEF Spec

(* The queue keeps its types: there are never more slots to hand out and   *)
(* choices to act on than there were commands.                             *)
THEOREM QueueTyped == Spec => []TypeOK
<1>1. QueueInv => TypeOK
  BY DEF QueueInv
<1>. QED  BY <1>1, InvHolds, PTL

(* max_active_downloads is kept, for any number of torrents and any limit, *)
(* by every check, resume and dequeue that acts on what still holds.       *)
THEOREM DownloadsKeptBounded == Spec => []DownloadsBounded
<1>1. QueueInv => DownloadsBounded
  BY OrderBounds DEF QueueInv
<1>. QED  BY <1>1, InvHolds, PTL

(* No slot stays empty while a torrent waits for one, but for the six      *)
(* windows that SlotsUsed names, the removal that could not delete its     *)
(* files among them.                                                       *)
THEOREM SlotsKeptUsed == Spec => []SlotsUsed
<1>1. QueueInv => SlotsUsed
  BY WaitUsesSlots DEF QueueInv
<1>. QED  BY <1>1, InvHolds, PTL

(* A pause holds against checks, starts, completions and ends of moves.    *)
THEOREM PauseKeptHeld == Spec => []PauseHolds
<1>1. QueueInv => PauseHolds
  BY DEF QueueInv
<1>. QED  BY <1>1, InvHolds, PTL

(* What runs has its run loop. *)
THEOREM LoopsKeptRunning == Spec => []LoopRuns
<1>1. QueueInv => LoopRuns
  BY DEF QueueInv, LoopInv, LoopRuns, Active, Starting
<1>. QED  BY <1>1, InvHolds, PTL

(* The completion actions begin at most once and fit what was downloaded.  *)
THEOREM CompletionKeptFitting == Spec => []CompletionFitting
<1>1. QueueInv => CompletionFitting
  BY DEF QueueInv, CompleteInv, HandledInv, CompletionFitting
<1>. QED  BY <1>1, InvHolds, PTL
=============================================================================
