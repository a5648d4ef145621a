------------------------- MODULE SessionStoreProofs -------------------------
(* What holds of the session file and the blobs for any set of torrents,   *)
(* any number of commands and of ends of the process, wherever it ends.    *)
EXTENDS SessionStore, TLAPS

USE DEF store, memory, tasks, saves, marks, counts

(* A process that does not run has nothing in memory and no task. *)
DownInv ==
    ~up => /\ torrents = {} /\ pending = {} /\ loaded = Nothing
           /\ adding = {} /\ saving = {} /\ removing = {} /\ fetching = {}
           /\ ~requested /\ writer = "idle" /\ exit = "no"

(* What a session has paused it has in its list. *)
PausedInv == \A s \in {session, written, leaving} : s.paused \subseteq s.torrents

(* No change is unanswered: a request is due, or a task that will ask, or  *)
(* the file (the one being written, if one is) already says what the list  *)
(* says.  While entries are still to be restored nothing is claimed.       *)
File == IF writer = "writing" THEN written ELSE session
SettledInv ==
    /\ up /\ exit = "no" /\ ~requested /\ ~unsaved /\ saving = {} /\ removing = {}
    /\ loaded.torrents = {} /\ loaded.magnets = {}
    => Content(File) = Content(Snapshot)

(* What was stored is in the list or still to be restored, and its blob is *)
(* on the disk; a snapshot of a whole list has all of it, and so has the   *)
(* file whenever the process does not run.                                 *)
KeptInv ==
    mishaps \cap Losing = {} =>
      /\ up => kept \subseteq torrents \cup loaded.torrents
      /\ ~up => session.whole
      /\ kept \subseteq blobs
      /\ session.whole => kept \subseteq session.torrents
      /\ writer = "writing" /\ written.whole => kept \subseteq written.torrents
      /\ exit = "writing" /\ leaving.whole => kept \subseteq leaving.torrents
      /\ removing \cap (torrents \cup kept) = {}

(* What was removed has neither an entry nor a blob nor a task that could  *)
(* bring either back.                                                      *)
RemovedInv ==
    mishaps \cap Reviving = {} =>
      /\ removed \cap (torrents \cup blobs) = {}
      /\ removing \cap torrents = {}
      /\ \A a \in adding : /\ a[1] \notin torrents \cup removing
                           /\ a[2] = "restore" => a[1] \notin removed
                           /\ \A b \in adding : a[1] = b[1] => a = b
      /\ \A a \in saving : a[1] \in torrents
-----------------------------------------------------------------------------
(* Types *)

LEMMA NothingType == Nothing \in Sessions
BY DEF Nothing, Sessions

LEMMA SnapshotType == TypeOK => Snapshot \in Sessions /\ Snapshot.paused \subseteq Snapshot.torrents
BY DEF TypeOK, Snapshot, Sessions, Restored

LEMMA PassedType ==
  ASSUME TypeOK, NEW h \in Hashes, Passed(h)
  PROVE  loaded' \in Sessions /\ loaded'.magnets = loaded.magnets /\ loaded'.paused = loaded.paused
         /\ loaded'.torrents = loaded.torrents \ {h} /\ loaded'.whole = loaded.whole
BY DEF TypeOK, Passed, Sessions

LEMMA InHandType ==
  ASSUME TypeOK, NEW h, NEW windows \in SUBSET {"readded", "twice", "lateBlob"}, InHand(h, windows)
  PROVE  mishaps' \subseteq {"partial", "raced", "readded", "twice", "lateBlob", "undeleted", "dropped"}
         /\ mishaps \subseteq mishaps'
BY DEF TypeOK, InHand

LEMMA InsertType ==
  ASSUME TypeOK, NEW h \in Hashes, NEW source \in Sources, NEW inPause \in BOOLEAN,
         Insert(h, source, inPause)
  PROVE  /\ torrents' \subseteq Hashes /\ paused' \subseteq torrents'
         /\ adding' \subseteq Hashes \X Sources /\ saving' \subseteq Hashes \X Sources
         /\ mishaps' \subseteq {"partial", "raced", "readded", "twice", "lateBlob", "undeleted", "dropped"}
<1>1. InHand(h, {"readded"})
  BY DEF Insert
<1>. QED  BY <1>1, InHandType DEF Insert, TypeOK

LEMMA BeginType ==
  ASSUME TypeOK, NEW h \in Hashes, NEW source \in Sources, BeginAdd(h, source)
  PROVE  /\ adding' \subseteq Hashes \X Sources
         /\ mishaps' \subseteq {"partial", "raced", "readded", "twice", "lateBlob", "undeleted", "dropped"}
<1>1. InHand(h, {"readded", "twice"})
  BY DEF BeginAdd
<1>. QED  BY <1>1, InHandType DEF BeginAdd, TypeOK

LEMMA TypeStep == TypeOK /\ [Next]_vars => TypeOK'
<1>. SUFFICES ASSUME TypeOK, [Next]_vars PROVE TypeOK'
  OBVIOUS
<1>. USE DEF TypeOK
<1>1. ASSUME WriterSnapshots \/ ExitRequested PROVE TypeOK'
  BY <1>1, SnapshotType DEF WriterSnapshots, ExitRequested
<1>2. ASSUME WriterSaves \/ ExitSaves PROVE TypeOK'
  BY <1>2, NothingType DEF WriterSaves, ExitSaves, Replace
<1>3. ASSUME WriterFails \/ Flush PROVE TypeOK'
  <2>1. CASE WriterFails
    BY <2>1, NothingType DEF WriterFails
  <2>2. CASE Flush
    BY <2>2 DEF Flush
  <2>. QED  BY <1>3, <2>1, <2>2
<1>4. ASSUME End \/ Boot PROVE TypeOK'
  <2>1. CASE End
    <3>1. mishaps' \subseteq {"partial", "raced", "readded", "twice", "lateBlob", "undeleted", "dropped"}
      BY <2>1 DEF End
    <3>2. {session, written, leaving, loaded}' \subseteq Sessions /\ {commands, ends}' \subseteq Nat
      BY <2>1, NothingType DEF End
    <3>3. {up, requested, unsaved}' \subseteq BOOLEAN
      BY <2>1 DEF End
    <3>. QED  BY <2>1, <3>1, <3>2, <3>3 DEF End
  <2>2. CASE Boot
    BY <2>2 DEF Boot
  <2>. QED  BY <1>4, <2>1, <2>2
<1>5. ASSUME RestoreMagnets PROVE TypeOK'
  <2>1. pending' \subseteq Hashes /\ pending \subseteq pending' /\ fetching' \subseteq Hashes
    BY <1>5 DEF RestoreMagnets, Sessions
  <2>2. requested' \in BOOLEAN /\ unsaved' \in BOOLEAN
    BY <1>5 DEF RestoreMagnets
  <2>. QED  BY <1>5, <2>1, <2>2, NothingType DEF RestoreMagnets
<1>6. ASSUME NEW h \in Hashes, UserAdds(h) \/ RestoreBegins(h) \/ Fetched(h) PROVE TypeOK'
  <2>1. adding' \subseteq Hashes \X Sources
        /\ mishaps' \subseteq {"partial", "raced", "readded", "twice", "lateBlob", "undeleted", "dropped"}
    BY <1>6, BeginType DEF UserAdds, RestoreBegins, Fetched, Sources
  <2>. QED  BY <1>6, <2>1 DEF UserAdds, RestoreBegins, Fetched, Command
<1>7. ASSUME NEW h \in Hashes, UserAdded(h) \/ RestoreAdded(h) \/ MagnetAdded(h) PROVE TypeOK'
  <2>1. \E source \in Sources, inPause \in BOOLEAN : Insert(h, source, inPause)
    <3>1. UserAdded(h) => \E inPause \in BOOLEAN : Insert(h, "user", inPause)
      BY DEF UserAdded
    <3>2. RestoreAdded(h) => Insert(h, "restore", h \in loaded.paused) /\ (h \in loaded.paused) \in BOOLEAN
      BY DEF RestoreAdded
    <3>3. MagnetAdded(h) => Insert(h, "magnet", FALSE)
      BY DEF MagnetAdded
    <3>4. "user" \in Sources /\ "restore" \in Sources /\ "magnet" \in Sources /\ FALSE \in BOOLEAN
      BY DEF Sources
    <3>. QED  BY <1>7, <3>1, <3>2, <3>3, <3>4
  <2>2. /\ torrents' \subseteq Hashes /\ paused' \subseteq torrents'
        /\ adding' \subseteq Hashes \X Sources /\ saving' \subseteq Hashes \X Sources
        /\ mishaps' \subseteq {"partial", "raced", "readded", "twice", "lateBlob", "undeleted", "dropped"}
    BY <2>1, InsertType
  <2>3. loaded' \in Sessions
    BY <1>7, PassedType DEF UserAdded, RestoreAdded, MagnetAdded
  <2>. QED  BY <1>7, <2>2, <2>3 DEF UserAdded, RestoreAdded, MagnetAdded
<1>8. ASSUME NEW h \in Hashes, AddFails(h) \/ FetchedInVain(h) \/ FetchFails(h) PROVE TypeOK'
  BY <1>8 DEF AddFails, FetchedInVain, FetchFails, Failing
<1>9. ASSUME NEW h \in Hashes, RestoreSkips(h) \/ RestoreFails(h) PROVE TypeOK'
  BY <1>9, PassedType DEF RestoreSkips, RestoreFails
<1>10. ASSUME NEW h \in Hashes, AddMagnet(h) \/ RemoveMagnet(h) PROVE TypeOK'
  <2>1. CASE AddMagnet(h)
    BY <2>1 DEF AddMagnet, Command
  <2>2. CASE RemoveMagnet(h)
    BY <2>2 DEF RemoveMagnet, Command
  <2>. QED  BY <1>10, <2>1, <2>2
<1>11. ASSUME NEW h \in Hashes, Pause(h) \/ Resume(h) \/ Overwrite(h) PROVE TypeOK'
  <2>1. CASE Pause(h)
    BY <2>1 DEF Pause, Command
  <2>2. CASE Resume(h)
    <3>1. requested' \in BOOLEAN /\ unsaved' \in BOOLEAN /\ up' \in BOOLEAN
      BY <2>2 DEF Resume
    <3>. QED  BY <2>2, <3>1 DEF Resume, Command
  <2>3. CASE Overwrite(h)
    BY <2>3 DEF Overwrite
  <2>. QED  BY <1>11, <2>1, <2>2, <2>3
<1>12. ASSUME NEW h \in Hashes, RemoveBegins(h) PROVE TypeOK'
  BY <1>12, InHandType DEF RemoveBegins, Command
<1>13. ASSUME NEW h \in Hashes, RemoveFails(h) \/ RemoveEnds(h) PROVE TypeOK'
  BY <1>13 DEF RemoveFails, RemoveEnds, DeleteBlob
<1>14. ASSUME NEW h \in Hashes, NEW source \in Sources, SaveBlob(h, source) PROVE TypeOK'
  BY <1>14 DEF SaveBlob
<1>15. CASE UNCHANGED vars
  BY <1>15 DEF vars
<1>. QED
  BY <1>1, <1>2, <1>3, <1>4, <1>5, <1>6, <1>7, <1>8, <1>9, <1>10, <1>11, <1>12, <1>13,
     <1>14, <1>15 DEF Next, Writing, Restoring
-----------------------------------------------------------------------------
(* The session file *)

(* The actions in groups: those of the torrents that are added, of the     *)
(* tasks that give up, of the user's other commands.                       *)
Begins(h) == UserAdds(h) \/ RestoreBegins(h) \/ Fetched(h)
Inserts(h) == UserAdded(h) \/ RestoreAdded(h) \/ MagnetAdded(h)
GivesUp(h) == AddFails(h) \/ FetchedInVain(h) \/ FetchFails(h)
Passes(h) == RestoreSkips(h) \/ RestoreFails(h)
Magnet(h) == AddMagnet(h) \/ RemoveMagnet(h)
States(h) == Pause(h) \/ Resume(h) \/ Overwrite(h)
(* What a step is: of the writer, of the exit, of the boot, or of one      *)
(* torrent.                                                                *)
LEMMA Kinds ==
  ASSUME [Next]_vars
  PROVE  \/ WriterSnapshots \/ WriterSaves \/ WriterFails \/ Flush \/ ExitRequested \/ ExitSaves
         \/ End \/ Boot \/ RestoreMagnets
         \/ \E h \in Hashes :
              \/ Begins(h) \/ Inserts(h) \/ GivesUp(h) \/ Passes(h) \/ Magnet(h) \/ States(h)
              \/ RemoveBegins(h) \/ RemoveFails(h) \/ RemoveEnds(h)
              \/ \E source \in Sources : SaveBlob(h, source)
         \/ UNCHANGED vars
BY DEF Next, Writing, Restoring, Begins, Inserts, GivesUp, Passes, Magnet, States

(* A process that is down has no tasks.                                    *)
LEMMA DownStep == TypeOK /\ DownInv /\ [Next]_vars => DownInv'
<1>. SUFFICES ASSUME TypeOK, DownInv, [Next]_vars PROVE DownInv'
  OBVIOUS
<1>. USE DEF DownInv
<1>1. ASSUME WriterSnapshots \/ WriterSaves \/ WriterFails \/ Flush \/ ExitRequested \/ ExitSaves
     PROVE  DownInv'
  BY <1>1 DEF WriterSnapshots, WriterSaves, WriterFails, Flush, ExitRequested, ExitSaves
<1>2. ASSUME End \/ Boot \/ RestoreMagnets PROVE DownInv'
  BY <1>2 DEF End, Boot, RestoreMagnets
<1>3. ASSUME NEW h \in Hashes, Begins(h) \/ Inserts(h) PROVE DownInv'
  <2>1. Inserts(h) => up
    BY DEF Inserts, UserAdded, RestoreAdded, MagnetAdded, Insert
  <2>2. Begins(h) => up
    BY DEF Begins, UserAdds, RestoreBegins, Fetched, Command, NextEntry
  <2>3. up' = up
    BY <1>3 DEF Begins, UserAdds, RestoreBegins, Fetched, Inserts, UserAdded, RestoreAdded,
       MagnetAdded
  <2>. QED  BY <1>3, <2>1, <2>2, <2>3
<1>4. ASSUME NEW h \in Hashes, GivesUp(h) \/ Passes(h) PROVE DownInv'
  <2>1. up /\ up' = up
    BY <1>4 DEF GivesUp, AddFails, FetchedInVain, FetchFails, Passes, RestoreSkips, RestoreFails,
       NextEntry
  <2>. QED  BY <2>1
<1>5. ASSUME NEW h \in Hashes, Magnet(h) \/ States(h) PROVE DownInv'
  <2>1. up /\ up' = up
    BY <1>5 DEF Magnet, States, AddMagnet, RemoveMagnet, Pause, Resume, Overwrite, Command, TypeOK
  <2>. QED  BY <2>1
<1>6. ASSUME NEW h \in Hashes, RemoveBegins(h) \/ RemoveFails(h) \/ RemoveEnds(h) PROVE DownInv'
  <2>1. up /\ up' = up
    BY <1>6 DEF RemoveBegins, RemoveFails, RemoveEnds, Command
  <2>. QED  BY <2>1
<1>7. ASSUME NEW h \in Hashes, NEW source \in Sources, SaveBlob(h, source) PROVE DownInv'
  BY <1>7 DEF SaveBlob
<1>8. CASE UNCHANGED vars
  BY <1>8 DEF vars
<1>. QED  BY <1>1, <1>2, <1>3, <1>4, <1>5, <1>6, <1>7, <1>8, Kinds

(* A step that leaves the four sessions alone or sets one to a snapshot or *)
(* to another of them.                                                     *)
LEMMA PausedStep == TypeOK /\ PausedInv /\ [Next]_vars => PausedInv'
<1>. SUFFICES ASSUME TypeOK, PausedInv, [Next]_vars PROVE PausedInv'
  OBVIOUS
<1>1. /\ session' \in {session, written, leaving, Snapshot, Nothing}
      /\ written' \in {session, written, leaving, Snapshot, Nothing}
      /\ leaving' \in {session, written, leaving, Snapshot, Nothing}
  BY Kinds DEF Begins, Inserts, GivesUp, Passes, Magnet, States, WriterSnapshots, WriterSaves,
     WriterFails, Flush, ExitRequested, ExitSaves, Replace, End, Boot, RestoreMagnets, UserAdds,
     UserAdded, AddFails, RestoreBegins, RestoreSkips, RestoreAdded, RestoreFails, AddMagnet,
     FetchFails, Fetched, FetchedInVain, MagnetAdded, RemoveMagnet, Pause, Resume, Overwrite,
     RemoveBegins, RemoveFails, RemoveEnds, SaveBlob, vars
<1>2. Nothing.paused \subseteq Nothing.torrents
  BY DEF Nothing
<1>. QED  BY <1>1, <1>2, SnapshotType DEF PausedInv

Clean == /\ up /\ exit = "no" /\ ~requested /\ ~unsaved /\ saving = {} /\ removing = {}
         /\ loaded.torrents = {} /\ loaded.magnets = {}
Agrees == File.torrents = torrents /\ File.paused = paused /\ File.magnets = pending \ failed

(* The condition and what it implies, taken apart.                         *)
LEMMA SettledMeans == (SettledInv <=> (Clean => Agrees)) /\ (SettledInv' <=> (Clean' => Agrees'))
BY DEF SettledInv, Clean, Agrees, Content, Snapshot

(* Whoever changes the list asks for a save, at once or by a task that is  *)
(* counted.                                                                *)
LEMMA SettledStep ==
    TypeOK /\ DownInv /\ PausedInv /\ SettledInv /\ [Next]_vars => SettledInv'
<1>. SUFFICES ASSUME TypeOK, DownInv, PausedInv, Clean => Agrees, [Next]_vars, Clean' PROVE Agrees'
  BY SettledMeans
<1>1. CASE WriterSnapshots
  BY <1>1 DEF WriterSnapshots, Agrees, File, Snapshot
<1>2. CASE WriterSaves
  <2>1. Clean /\ File' = File
    BY <1>2 DEF WriterSaves, Replace, Clean, File
  <2>. QED  BY <1>2, <2>1 DEF WriterSaves, Agrees
<1>3. ASSUME WriterFails \/ Flush \/ ExitRequested \/ ExitSaves \/ End PROVE FALSE
  BY <1>3 DEF WriterFails, Flush, ExitRequested, ExitSaves, End, Clean
<1>4. CASE Boot
  <2>1. torrents' = {} /\ paused' = {} /\ pending' = {} /\ File' = session
    BY <1>4 DEF Boot, DownInv, File, TypeOK
  <2>2. session.torrents = {} /\ session.magnets = {} /\ session.paused = {}
    BY <1>4 DEF Boot, Clean, PausedInv
  <2>. QED  BY <2>1, <2>2 DEF Agrees
<1>5. CASE RestoreMagnets
  <2>1. loaded.torrents = {} /\ loaded.magnets = {}
    BY <1>5 DEF RestoreMagnets, Clean
  <2>2. Clean
    BY <1>5, <2>1 DEF RestoreMagnets, Clean, TypeOK
  <2>3. pending' = pending
    BY <1>5, <2>1 DEF RestoreMagnets
  <2>. QED  BY <1>5, <2>2, <2>3 DEF RestoreMagnets, Agrees, File
<1>6. ASSUME NEW h \in Hashes, Begins(h) \/ AddFails(h) \/ FetchedInVain(h) PROVE Agrees'
  <2>1. UNCHANGED <<store, memory, loaded, saving, removing, saves, unsaved>>
    BY <1>6 DEF Begins, UserAdds, RestoreBegins, Fetched, AddFails, FetchedInVain
  <2>. QED  BY <2>1 DEF Clean, Agrees, File
<1>7. ASSUME NEW h \in Hashes, Inserts(h) PROVE FALSE
  BY <1>7 DEF Inserts, UserAdded, RestoreAdded, MagnetAdded, Insert, Clean
<1>8. ASSUME NEW h \in Hashes, FetchFails(h) \/ Passes(h) PROVE FALSE
  BY <1>8 DEF FetchFails, Passes, RestoreSkips, RestoreFails, Clean
<1>9. ASSUME NEW h \in Hashes, Magnet(h) PROVE FALSE
  BY <1>9 DEF Magnet, AddMagnet, RemoveMagnet, Clean
<1>10. ASSUME NEW h \in Hashes, States(h) PROVE FALSE
  BY <1>10 DEF States, Pause, Resume, Overwrite, Clean
<1>11. ASSUME NEW h \in Hashes, RemoveBegins(h) \/ RemoveFails(h) \/ RemoveEnds(h) PROVE FALSE
  BY <1>11 DEF RemoveBegins, RemoveFails, RemoveEnds, Clean
<1>12. ASSUME NEW h \in Hashes, NEW source \in Sources, SaveBlob(h, source) PROVE FALSE
  BY <1>12 DEF SaveBlob, Clean
<1>13. CASE UNCHANGED vars
  BY <1>13 DEF vars, Clean, Agrees, File
<1>. QED
  BY <1>1, <1>2, <1>3, <1>4, <1>5, <1>6, <1>7, <1>8, <1>9, <1>10, <1>11, <1>12, <1>13, Kinds
     DEF GivesUp

-----------------------------------------------------------------------------
(* What is kept *)

(* The conjuncts of KeptInv, for a step without a loss. *)
Calm == mishaps \cap Losing = {}
Kept ==
    /\ up => kept \subseteq torrents \cup loaded.torrents
    /\ ~up => session.whole
    /\ kept \subseteq blobs
    /\ session.whole => kept \subseteq session.torrents
    /\ writer = "writing" /\ written.whole => kept \subseteq written.torrents
    /\ exit = "writing" /\ leaving.whole => kept \subseteq leaving.torrents
    /\ removing \cap (torrents \cup kept) = {}
(* The condition and what it implies, taken apart.                         *)
LEMMA KeptMeans == (KeptInv <=> (Calm => Kept)) /\ (KeptInv' <=> (Calm' => Kept'))
BY DEF KeptInv, Calm, Kept

(* A window that was hit is remembered.                                    *)
LEMMA MishapsGrow == TypeOK /\ [Next]_vars => mishaps \subseteq mishaps'
<1>. SUFFICES ASSUME TypeOK, [Next]_vars PROVE mishaps \subseteq mishaps'
  OBVIOUS
<1>1. ASSUME WriterSnapshots \/ WriterSaves \/ WriterFails \/ Flush \/ ExitRequested \/ ExitSaves
            \/ End \/ Boot \/ RestoreMagnets \/ UNCHANGED vars
     PROVE  mishaps \subseteq mishaps'
  BY <1>1 DEF WriterSnapshots, WriterSaves, WriterFails, Flush, ExitRequested, ExitSaves, Replace,
     End, Boot, RestoreMagnets, vars
<1>2. ASSUME NEW h \in Hashes, Begins(h) \/ Inserts(h) PROVE mishaps \subseteq mishaps'
  BY <1>2 DEF Begins, Inserts, UserAdds, RestoreBegins, Fetched, UserAdded, RestoreAdded,
     MagnetAdded, Insert, BeginAdd, InHand
<1>3. ASSUME NEW h \in Hashes,
            \/ GivesUp(h) \/ Passes(h) \/ Magnet(h) \/ States(h)
            \/ RemoveBegins(h) \/ RemoveFails(h) \/ RemoveEnds(h)
            \/ \E source \in Sources : SaveBlob(h, source)
     PROVE  mishaps \subseteq mishaps'
  BY <1>3 DEF GivesUp, Passes, Magnet, States, AddFails, FetchedInVain, FetchFails, RestoreSkips,
     RestoreFails, AddMagnet, RemoveMagnet, Pause, Resume, Overwrite, RemoveBegins, RemoveFails,
     RemoveEnds, DeleteBlob, SaveBlob, InHand
<1>. QED  BY <1>1, <1>2, <1>3, Kinds

(* A stored torrent leaves the list only by being removed.                 *)
LEMMA KeptStep == TypeOK /\ DownInv /\ KeptInv /\ [Next]_vars => KeptInv'
<1>. SUFFICES ASSUME TypeOK, DownInv, Calm', Calm => Kept, [Next]_vars PROVE Kept'
  BY KeptMeans
<1>0. Calm /\ Kept
  BY MishapsGrow DEF Calm
<1>. USE DEF Kept
<1>1. ASSUME WriterSnapshots \/ ExitRequested PROVE Kept'
  <2>1. up /\ (Restored => kept \subseteq torrents)
    BY <1>0, <1>1 DEF WriterSnapshots, ExitRequested, Restored, Nothing
  <2>2. Snapshot.torrents = torrents /\ Snapshot.whole = Restored
    BY DEF Snapshot
  <2>3. /\ UNCHANGED <<session, blobs, up, torrents, kept, removing, loaded>>
        /\ \/ written' = Snapshot /\ UNCHANGED <<exit, leaving>>
           \/ leaving' = Snapshot /\ UNCHANGED <<writer, written>>
    BY <1>1 DEF WriterSnapshots, ExitRequested
  <2>. QED  BY <1>0, <2>1, <2>2, <2>3
<1>2. ASSUME WriterSaves PROVE Kept'
  <2>1. exit # "writing"
    BY <1>2 DEF WriterSaves, Replace, Calm, Losing
  <2>2. up
    BY <1>2 DEF WriterSaves, DownInv
  <2>3. session' = written /\ kept' = kept \cup (written.torrents \cap blobs \cap torrents)
    BY <1>2 DEF WriterSaves, Replace
  <2>4. writer' # "writing" /\ UNCHANGED <<up, torrents, loaded, blobs, removing, exit>>
    BY <1>2 DEF WriterSaves, Replace
  <2>. QED  BY <1>0, <1>2, <2>1, <2>2, <2>3, <2>4 DEF WriterSaves
<1>3. ASSUME ExitSaves PROVE Kept'
  <2>1. writer # "writing"
    BY <1>3 DEF ExitSaves, Replace, Calm, Losing
  <2>2. up
    BY <1>3 DEF ExitSaves, DownInv
  <2>3. session' = leaving /\ kept' = kept \cup (leaving.torrents \cap blobs \cap torrents)
    BY <1>3 DEF ExitSaves, Replace
  <2>4. exit' # "writing" /\ UNCHANGED <<up, torrents, loaded, blobs, removing, writer>>
    BY <1>3 DEF ExitSaves, Replace
  <2>. QED  BY <1>0, <1>3, <2>1, <2>2, <2>3, <2>4 DEF ExitSaves
<1>4. CASE WriterFails \/ Flush
  BY <1>0, <1>4 DEF WriterFails, Flush
<1>5. CASE End
  <2>1. session.whole
    BY <1>5 DEF End, Calm, Losing
  <2>. QED  BY <1>0, <1>5, <2>1 DEF End
<1>6. CASE Boot
  BY <1>0, <1>6 DEF Boot
<1>7. CASE RestoreMagnets
  BY <1>0, <1>7 DEF RestoreMagnets
<1>8. ASSUME NEW h \in Hashes, Begins(h) \/ GivesUp(h) PROVE Kept'
  <2>1. UNCHANGED <<session, blobs, up, torrents, kept, removing, writer, written, exit, leaving, loaded>>
    BY <1>8 DEF Begins, UserAdds, RestoreBegins, Fetched, GivesUp, AddFails, FetchedInVain,
       FetchFails
  <2>. QED  BY <1>0, <2>1
<1>9. ASSUME NEW h \in Hashes, Inserts(h) PROVE Kept'
  <2>1. /\ UNCHANGED <<session, blobs, up, kept, removing, writer, written, exit, leaving>>
        /\ torrents' = torrents \cup {h} /\ InHand(h, {"readded"})
    BY <1>9 DEF Inserts, UserAdded, RestoreAdded, MagnetAdded, Insert
  <2>2. h \notin removing
    BY <2>1 DEF InHand, Calm, Losing
  <2>3. torrents \cup loaded.torrents \subseteq torrents' \cup loaded'.torrents
    BY <1>9, <2>1, PassedType DEF Inserts, UserAdded, RestoreAdded, MagnetAdded
  <2>. QED  BY <1>0, <2>1, <2>2, <2>3
<1>10. ASSUME NEW h \in Hashes, Passes(h) PROVE Kept'
  <2>1. /\ UNCHANGED <<session, blobs, up, torrents, kept, removing, writer, written, exit, leaving>>
        /\ loaded'.torrents = loaded.torrents \ {h}
    BY <1>10, PassedType DEF Passes, RestoreSkips, RestoreFails
  <2>2. h \notin blobs \/ h \in torrents
    BY <1>10 DEF Passes, RestoreSkips, RestoreFails, Calm, Losing
  <2>. QED  BY <1>0, <2>1, <2>2
<1>11. ASSUME NEW h \in Hashes, Magnet(h) \/ States(h) PROVE Kept'
  <2>1. UNCHANGED <<session, blobs, up, torrents, kept, removing, writer, written, exit, leaving, loaded>>
    BY <1>11 DEF Magnet, States, AddMagnet, RemoveMagnet, Pause, Resume, Overwrite
  <2>. QED  BY <1>0, <2>1
<1>12. ASSUME NEW h \in Hashes, RemoveBegins(h) PROVE Kept'
  <2>1. /\ UNCHANGED <<session, blobs, up, loaded, writer, written, exit, leaving>>
        /\ torrents' = torrents \ {h} /\ kept' = kept \ {h} /\ removing' = removing \cup {h}
    BY <1>12 DEF RemoveBegins
  <2>. QED  BY <1>0, <2>1
<1>13. ASSUME NEW h \in Hashes, RemoveFails(h) \/ RemoveEnds(h) PROVE Kept'
  <2>1. /\ UNCHANGED <<session, up, torrents, kept, loaded, writer, written, exit, leaving>>
        /\ removing' = removing \ {h} /\ blobs \ {h} \subseteq blobs' /\ h \in removing
    BY <1>13 DEF RemoveFails, RemoveEnds, DeleteBlob
  <2>. QED  BY <1>0, <2>1
<1>14. ASSUME NEW h \in Hashes, NEW source \in Sources, SaveBlob(h, source) PROVE Kept'
  <2>1. /\ UNCHANGED <<session, up, torrents, kept, loaded, removing, writer, written, exit, leaving>>
        /\ blobs \subseteq blobs'
    BY <1>14 DEF SaveBlob
  <2>. QED  BY <1>0, <2>1
<1>15. CASE UNCHANGED vars
  BY <1>0, <1>15 DEF vars
<1>. QED
  BY <1>1, <1>2, <1>3, <1>4, <1>5, <1>6, <1>7, <1>8, <1>9, <1>10, <1>11, <1>12, <1>13,
     <1>14, <1>15, Kinds

-----------------------------------------------------------------------------
(* What is removed *)

Firm == mishaps \cap Reviving = {}
Gone ==
    /\ removed \cap (torrents \cup blobs) = {}
    /\ removing \cap torrents = {}
    /\ \A a \in adding : /\ a[1] \notin torrents \cup removing
                         /\ a[2] = "restore" => a[1] \notin removed
                         /\ \A b \in adding : a[1] = b[1] => a = b
    /\ \A a \in saving : a[1] \in torrents
(* The condition and what it implies, taken apart.                         *)
LEMMA RemovedMeans == (RemovedInv <=> (Firm => Gone)) /\ (RemovedInv' <=> (Firm' => Gone'))
BY DEF RemovedInv, Firm, Gone

(* No task that is left behind brings a removed torrent back.              *)
LEMMA RemovedStep == TypeOK /\ RemovedInv /\ [Next]_vars => RemovedInv'
<1>. SUFFICES ASSUME TypeOK, Firm', Firm => Gone, [Next]_vars PROVE Gone'
  BY RemovedMeans
<1>0. Firm /\ Gone
  BY MishapsGrow DEF Firm
<1>. USE DEF Gone
<1>1. ASSUME \/ WriterSnapshots \/ WriterSaves \/ WriterFails \/ Flush \/ ExitRequested \/ ExitSaves
            \/ Boot \/ RestoreMagnets \/ UNCHANGED vars
     PROVE  Gone'
  <2>1. UNCHANGED <<removed, torrents, blobs, removing, adding, saving>>
    BY <1>1 DEF WriterSnapshots, WriterSaves, WriterFails, Flush, ExitRequested, ExitSaves, Replace,
       Boot, RestoreMagnets, vars
  <2>. QED  BY <1>0, <2>1
<1>2. CASE End
  BY <1>0, <1>2 DEF End
<1>3. ASSUME NEW h \in Hashes, Begins(h) PROVE Gone'
  <2>1. PICK source \in Sources : BeginAdd(h, source) /\ (source = "restore" => h \in blobs)
    BY <1>3 DEF Begins, UserAdds, RestoreBegins, Fetched, Sources
  <2>2. /\ UNCHANGED <<removed, torrents, blobs, removing, saving>>
        /\ adding' = adding \cup {<<h, source>>} /\ h \notin torrents
    BY <1>3, <2>1 DEF Begins, UserAdds, RestoreBegins, Fetched, BeginAdd
  <2>3. h \notin removing /\ \A a \in adding : a[1] # h
    BY <2>1 DEF BeginAdd, InHand, Firm, Reviving
  <2>. QED  BY <1>0, <2>1, <2>2, <2>3
<1>4. ASSUME NEW h \in Hashes, Inserts(h) PROVE Gone'
  <2>1. PICK source \in Sources, inPause \in BOOLEAN : Insert(h, source, inPause)
          /\ removed' = IF source = "restore" THEN removed ELSE removed \ {h}
    <3>1. UserAdded(h) => \E inPause \in BOOLEAN :
                             Insert(h, "user", inPause) /\ removed' = removed \ {h}
      BY DEF UserAdded
    <3>2. RestoreAdded(h) => /\ Insert(h, "restore", h \in loaded.paused) /\ removed' = removed
                             /\ (h \in loaded.paused) \in BOOLEAN
      BY DEF RestoreAdded
    <3>3. MagnetAdded(h) => Insert(h, "magnet", FALSE) /\ removed' = removed \ {h}
      BY DEF MagnetAdded
    <3>4. {"user", "restore", "magnet"} \subseteq Sources /\ FALSE \in BOOLEAN
          /\ "user" # "restore" /\ "magnet" # "restore"
      BY DEF Sources
    <3>5. CASE UserAdded(h)
      BY <3>1, <3>4, <3>5
    <3>6. CASE RestoreAdded(h)
      BY <3>2, <3>4, <3>6
    <3>7. CASE MagnetAdded(h)
      BY <3>3, <3>4, <3>7
    <3>. QED  BY <1>4, <3>5, <3>6, <3>7 DEF Inserts
  <2>2. /\ UNCHANGED <<blobs, removing>> /\ <<h, source>> \in adding
        /\ adding' = adding \ {<<h, source>>} /\ torrents' = torrents \cup {h}
        /\ saving' = saving \cup {<<h, source>>}
    BY <1>4, <2>1 DEF Inserts, UserAdded, RestoreAdded, MagnetAdded, Insert
  <2>3. h \notin removed'
    BY <1>0, <2>1, <2>2
  <2>. QED  BY <1>0, <2>1, <2>2, <2>3
<1>5. ASSUME NEW h \in Hashes, GivesUp(h) \/ Passes(h) PROVE Gone'
  <2>1. UNCHANGED <<removed, torrents, blobs, removing, saving>> /\ adding' \subseteq adding
    BY <1>5 DEF GivesUp, AddFails, FetchedInVain, FetchFails, Passes, RestoreSkips, RestoreFails
  <2>. QED  BY <1>0, <2>1
<1>6. ASSUME NEW h \in Hashes, Magnet(h) \/ States(h) PROVE Gone'
  <2>1. UNCHANGED <<removed, torrents, blobs, removing, saving, adding>>
    BY <1>6 DEF Magnet, States, AddMagnet, RemoveMagnet, Pause, Resume, Overwrite
  <2>. QED  BY <1>0, <2>1
<1>7. ASSUME NEW h \in Hashes, RemoveBegins(h) PROVE Gone'
  <2>1. /\ UNCHANGED <<removed, blobs, saving, adding>> /\ h \in torrents
        /\ torrents' = torrents \ {h} /\ removing' = removing \cup {h}
    BY <1>7 DEF RemoveBegins
  <2>2. \A a \in saving : a[1] # h
    BY <1>7 DEF RemoveBegins, InHand, Firm, Reviving
  <2>. QED  BY <1>0, <2>1, <2>2
<1>8. ASSUME NEW h \in Hashes, RemoveFails(h) \/ RemoveEnds(h) PROVE Gone'
  <2>1. UNCHANGED <<torrents, saving, adding>> /\ h \in removing /\ removing' = removing \ {h}
    BY <1>8 DEF RemoveFails, RemoveEnds
  <2>2. \/ removed' = removed /\ blobs' = blobs
        \/ removed' = removed \cup {h} /\ blobs' = blobs \ {h}
    BY <1>8 DEF RemoveFails, RemoveEnds, DeleteBlob, Firm, Reviving
  <2>. QED  BY <1>0, <2>1, <2>2
<1>9. ASSUME NEW h \in Hashes, NEW source \in Sources, SaveBlob(h, source) PROVE Gone'
  <2>1. /\ UNCHANGED <<removed, torrents, removing, adding>>
        /\ saving' \subseteq saving /\ blobs' \subseteq blobs \cup {h} /\ <<h, source>> \in saving
    BY <1>9 DEF SaveBlob
  <2>. QED  BY <1>0, <2>1
<1>. QED
  BY <1>1, <1>2, <1>3, <1>4, <1>5, <1>6, <1>7, <1>8, <1>9, Kinds

-----------------------------------------------------------------------------
(* The invariant *)

SessionInv == TypeOK /\ DownInv /\ PausedInv /\ SettledInv /\ KeptInv /\ RemovedInv

LEMMA InitInv == Init => SessionInv
<1>. SUFFICES ASSUME Init PROVE SessionInv
  OBVIOUS
<1>1. PICK ts \in SUBSET Hashes : session = [Nothing EXCEPT !.torrents = ts]
  BY DEF Init
<1>2. session \in Sessions /\ session.torrents = ts /\ session.paused = {} /\ session.whole
  BY <1>1 DEF Nothing, Sessions
<1>3. TypeOK
  <2>1. {session, written, leaving, loaded} \subseteq Sessions
    BY <1>2, NothingType DEF Init
  <2>2. up = FALSE /\ requested = FALSE /\ unsaved = FALSE /\ commands = 0 /\ ends = 0
    BY DEF Init
  <2>3. kept \subseteq Hashes /\ blobs \subseteq Hashes
    BY <1>2 DEF Init, Stored
  <2>4. up \in BOOLEAN /\ requested \in BOOLEAN /\ unsaved \in BOOLEAN
    BY <2>2
  <2>5. {up, requested, unsaved} \subseteq BOOLEAN
    BY <2>4
  <2>6. {commands, ends} \subseteq Nat
    BY <2>2
  <2>. QED  BY <2>1, <2>3, <2>5, <2>6 DEF Init, TypeOK
<1>4. DownInv /\ SettledInv /\ RemovedInv
  BY DEF Init, DownInv, SettledInv, RemovedInv
<1>5. PausedInv
  BY <1>2 DEF Init, PausedInv, Nothing
<1>6. KeptInv
  BY <1>2 DEF Init, KeptInv, Stored
<1>. QED  BY <1>3, <1>4, <1>5, <1>6 DEF SessionInv

LEMMA InvStep == SessionInv /\ [Next]_vars => SessionInv'
BY TypeStep, DownStep, PausedStep, SettledStep, KeptStep, RemovedStep DEF SessionInv

LEMMA InvHolds == Spec => []SessionInv
BY InitInv, InvStep, PTL DEF Spec

(* The memory, the files and the tasks of the session keep their types.    *)
THEOREM SessionTyped == Spec => []TypeOK
<1>1. SessionInv => TypeOK
  BY DEF SessionInv
<1>. QED  BY <1>1, InvHolds, PTL

(* No request to save is lost between a change and the next snapshot.      *)
THEOREM SessionSettles == Spec => []Settled
<1>1. SessionInv => Settled
  <2>. SUFFICES ASSUME SessionInv, up, Restored, exit = "no", writer = "idle", ~requested, ~unsaved,
                       adding \cup saving = {}, removing = {}
                PROVE  Content(session) = Content(Snapshot)
    BY DEF Settled
  <2>1. loaded.torrents = {} /\ loaded.magnets = {} /\ saving = {} /\ File = session
    BY DEF Restored, Nothing, File
  <2>. QED  BY <2>1 DEF SessionInv, SettledInv
<1>. QED  BY <1>1, InvHolds, PTL

(* A stored torrent outlives every end of the process outside four windows. *)
THEOREM StoredRemembered == Spec => []Remembered
<1>1. SessionInv => Remembered
  BY DEF SessionInv, KeptInv, Remembered, Safe, Stored
<1>. QED  BY <1>1, InvHolds, PTL

(* A removed torrent does not come back outside its four windows.          *)
THEOREM RemovedForGood == Spec => []RemovedStaysRemoved
<1>1. SessionInv => RemovedStaysRemoved
  BY DEF SessionInv, RemovedInv, RemovedStaysRemoved, Stored
<1>. QED  BY <1>1, InvHolds, PTL
=============================================================================
