---------------------------- MODULE SessionStore ----------------------------
(***************************************************************************)
(* What survives a restart: session.json, the info dictionaries (blobs),   *)
(* and the tasks that write and read them: add and its blob task, remove,  *)
(* magnet fetches, the debounced writer, the save at exit, and the         *)
(* restore, between which the process may end at any point.                *)
(*                                                                         *)
(* A step ends at an await: preallocation, a blob or session file written  *)
(* or deleted, the writer's sleep.  A file is replaced by one rename, so   *)
(* it is old or new (write_atomic).  Of a torrent the session keeps that   *)
(* it is there and whether it is paused; the rest of its entry is data.    *)
(* The boot is one step up to the read of session.json: what it has        *)
(* started by then saves no earlier than 500 ms later.                     *)
(***************************************************************************)
EXTENDS Naturals, FiniteSets

CONSTANTS
    Hashes,        \* info hashes
    Scenarios,     \* what may happen together in a behaviour of this instance
    MaxCommands,   \* bound on the user's commands
    MaxEnds        \* bound on the ends of the process

ASSUME BoundsAssumption ==
    /\ {MaxCommands, MaxEnds} \subseteq Nat
    /\ Scenarios \subseteq SUBSET {"exit", "magnets"}

VARIABLES
    (* on the disk *)
    session,   \* session.json
    blobs,     \* torrents/<info_hash>.info
    (* in memory *)
    up,        \* whether the process runs
    torrents,  \* keys of `torrents`
    paused,    \* those whose state is Paused
    pending,   \* keys of pending_magnets
    failed,    \* those with an error
    (* tasks *)
    loaded,    \* what restore_session has read and not yet restored
    adding,    \* add_torrent calls in preallocation, with where they come from
    saving,    \* spawned blob tasks, likewise
    removing,  \* remove_torrent calls that have not deleted the blob
    fetching,  \* fetch_magnet_metadata tasks
    (* saves *)
    requested, \* a PersistKind::Session waits in the channel
    writer,    \* the persistence writer: idle (or asleep), writing
    written,   \* the snapshot it writes
    exit,      \* save_all_now at exit: no, writing, saved
    leaving,   \* the snapshot it writes
    (* history *)
    kept,      \* torrents that a save has stored and that are not removed since
    removed,   \* torrents whose removal has ended, and not added since
    unsaved,   \* something changed that nobody has asked to save
    mishaps,   \* which of the known windows have been hit
    scenario, commands, ends

store == <<session, blobs>>
memory == <<up, torrents, paused, pending, failed>>
tasks == <<loaded, adding, saving, removing, fetching>>
saves == <<requested, writer, written, exit, leaving>>
marks == <<kept, removed, unsaved, mishaps>>
counts == <<scenario, commands, ends>>
vars == <<store, memory, tasks, saves, marks, counts>>

Sources == {"user", "magnet", "restore"}
Nothing == [torrents |-> {}, paused |-> {}, magnets |-> {}, whole |-> TRUE]

(* An entry is restored only with its blob. *)
Stored == session.torrents \cap blobs
Restored == loaded = Nothing

(* A session as an earlier life may have left it, with or without blobs.   *)
Init ==
    /\ up = FALSE /\ torrents = {} /\ paused = {} /\ pending = {} /\ failed = {}
    /\ loaded = Nothing /\ adding = {} /\ saving = {} /\ removing = {} /\ fetching = {}
    /\ requested = FALSE /\ writer = "idle" /\ written = Nothing
    /\ exit = "no" /\ leaving = Nothing
    /\ \E ts \in SUBSET Hashes : session = [Nothing EXCEPT !.torrents = ts]
    /\ blobs \in SUBSET session.torrents
    /\ kept = Stored /\ removed = {} /\ unsaved = FALSE /\ mishaps = {}
    /\ scenario \in Scenarios /\ commands = 0 /\ ends = 0

-----------------------------------------------------------------------------
(* Saving *)

(* snapshot_session; whole is not in the file: it says whether the restore *)
(* was over.  Magnets with an error are not saved.                         *)
Snapshot ==
    [torrents |-> torrents, paused |-> paused, magnets |-> pending \ failed,
     whole |-> Restored]

(* write_atomic of session.json, while the other writer writes or not.     *)
Replace(snapshot, other) ==
    /\ session' = snapshot
    /\ kept' = kept \cup (snapshot.torrents \cap blobs \cap torrents)
    /\ mishaps' = mishaps \cup (IF other = "writing" THEN {"raced"} ELSE {})
    /\ UNCHANGED <<blobs, removed>>

(* It takes a request, sleeps for 500 ms, empties the channel and takes    *)
(* the snapshot; nothing before that shows.                                *)
WriterSnapshots ==
    /\ up /\ writer = "idle" /\ requested
    /\ writer' = "writing" /\ written' = Snapshot
    /\ requested' = FALSE /\ unsaved' = FALSE
    /\ UNCHANGED <<store, memory, tasks, exit, leaving, kept, removed, mishaps, counts>>

(* Mutant: the channel is emptied once the file is written. *)
WriterSavesDraining ==
    /\ writer = "writing"
    /\ Replace(written, exit)
    /\ writer' = "idle" /\ written' = Nothing /\ requested' = FALSE
    /\ UNCHANGED <<memory, tasks, exit, leaving, unsaved, counts>>

WriterSaves ==
    /\ writer = "writing"
    /\ Replace(written, exit)
    /\ writer' = "idle" /\ written' = Nothing
    /\ UNCHANGED <<memory, tasks, requested, exit, leaving, unsaved, counts>>

(* A failed save is logged; it counts as a command against the bound.      *)
WriterFails ==
    /\ writer = "writing" /\ commands < MaxCommands /\ commands' = commands + 1
    /\ writer' = "idle" /\ written' = Nothing /\ unsaved' = TRUE
    /\ UNCHANGED <<store, memory, tasks, requested, exit, leaving, kept, removed, mishaps,
                   scenario, ends>>

(* The periodic flush. *)
Flush ==
    /\ up /\ requested' = TRUE
    /\ UNCHANGED <<store, memory, tasks, writer, written, exit, leaving, marks, counts>>

ExitRequested ==
    /\ "exit" \in scenario /\ up /\ exit = "no" /\ ends < MaxEnds
    /\ exit' = "writing" /\ leaving' = Snapshot
    /\ UNCHANGED <<store, memory, tasks, requested, writer, written, marks, counts>>

ExitSaves ==
    /\ exit = "writing"
    /\ Replace(leaving, writer)
    /\ exit' = "saved" /\ leaving' = Nothing
    /\ UNCHANGED <<memory, tasks, requested, writer, written, unsaved, counts>>

-----------------------------------------------------------------------------
(* The process *)

(* It ends by a crash at any time, or once the exit has saved.             *)
End ==
    /\ up /\ ends < MaxEnds
    /\ up' = FALSE /\ torrents' = {} /\ paused' = {} /\ pending' = {} /\ failed' = {}
    /\ loaded' = Nothing /\ adding' = {} /\ saving' = {} /\ removing' = {} /\ fetching' = {}
    /\ requested' = FALSE /\ writer' = "idle" /\ written' = Nothing
    /\ exit' = "no" /\ leaving' = Nothing
    /\ mishaps' = mishaps \cup (IF session.whole THEN {} ELSE {"partial"})
    /\ ends' = ends + 1 /\ unsaved' = FALSE
    /\ UNCHANGED <<store, kept, removed, scenario, commands>>

Boot ==
    /\ ~up /\ up' = TRUE
    /\ loaded' = session
    /\ UNCHANGED <<store, torrents, paused, pending, failed, adding, saving, removing,
                   fetching, saves, marks, counts>>

-----------------------------------------------------------------------------
(* A command of the user: while the application exits its main loop waits  *)
(* for the save and takes no more of them.                                 *)
Command ==
    /\ up /\ exit = "no"
    /\ commands < MaxCommands /\ commands' = commands + 1
    /\ ends < MaxEnds   \* bound: none in the last life

(* Adding.  The look for a duplicate and the insertion are two steps.      *)

(* Whether what is in hand for h makes this step one of those windows.     *)
InHand(h, windows) == mishaps' = mishaps \cup
    {w \in windows : \/ w = "readded" /\ h \in removing
                     \/ w = "twice" /\ \E t \in adding : t[1] = h
                     \/ w = "lateBlob" /\ \E t \in saving : t[1] = h}

BeginAdd(h, source) ==
    /\ h \notin torrents
    /\ adding' = adding \cup {<<h, source>>}
    /\ InHand(h, {"readded", "twice"})

Insert(h, source, inPause) ==
    /\ <<h, source>> \in adding
    /\ adding' = adding \ {<<h, source>>}
    /\ torrents' = torrents \cup {h}
    /\ paused' = IF inPause THEN paused \cup {h} ELSE paused \ {h}
    /\ saving' = saving \cup {<<h, source>>}
    /\ InHand(h, {"readded"})

(* The spawned task: the blob, unless that fails, then the request to save *)
(* the session.                                                            *)
SaveBlob(h, source) ==
    /\ <<h, source>> \in saving
    /\ saving' = saving \ {<<h, source>>}
    /\ blobs' \in {blobs, blobs \cup {h}}
    /\ requested' = TRUE
    /\ UNCHANGED <<session, memory, loaded, adding, removing, fetching, writer, written,
                   exit, leaving, marks, counts>>

UserAdds(h) ==
    /\ Command
    /\ <<h, "user">> \notin adding /\ BeginAdd(h, "user")
    /\ UNCHANGED <<store, memory, loaded, saving, removing, fetching, saves,
                   kept, removed, unsaved, scenario, ends>>

UserAdded(h) ==
    /\ \E inPause \in BOOLEAN : Insert(h, "user", inPause)
    /\ removed' = removed \ {h}
    /\ UNCHANGED <<store, up, pending, failed, loaded, removing, fetching, saves,
                   kept, unsaved, counts>>

AddFails(h) ==
    /\ <<h, "user">> \in adding /\ adding' = adding \ {<<h, "user">>}
    /\ UNCHANGED <<store, memory, loaded, saving, removing, fetching, saves, marks, counts>>

-----------------------------------------------------------------------------
(* Restoring *)

NextEntry(h) ==
    /\ up /\ h \in loaded.torrents
    /\ ~\E t \in adding : t[2] = "restore"
(* Mutant: the restore returns at an entry without blob. *)
PassedUntilMissing(h) ==
    loaded' = IF h \in blobs THEN [loaded EXCEPT !.torrents = @ \ {h}] ELSE Nothing
Passed(h) == loaded' = [loaded EXCEPT !.torrents = @ \ {h}]

RestoreBegins(h) ==
    /\ NextEntry(h) /\ h \in blobs
    /\ BeginAdd(h, "restore")
    /\ UNCHANGED <<store, memory, loaded, saving, removing, fetching, saves,
                   kept, removed, unsaved, counts>>

(* No blob, or a duplicate: the entry is skipped. *)
RestoreSkips(h) ==
    /\ NextEntry(h) /\ (h \notin blobs \/ h \in torrents)
    /\ Passed(h) /\ unsaved' = TRUE
    /\ UNCHANGED <<store, memory, adding, saving, removing, fetching, saves,
                   kept, removed, mishaps, counts>>

RestoreAdded(h) ==
    /\ Insert(h, "restore", h \in loaded.paused)
    /\ Passed(h)
    /\ UNCHANGED <<store, up, pending, failed, removing, fetching, saves,
                   kept, removed, unsaved, counts>>

(* Preallocation fails (the target is not mounted, say): skipped as well.  *)
RestoreFails(h) ==
    /\ <<h, "restore">> \in adding /\ adding' = adding \ {<<h, "restore">>}
    /\ Passed(h) /\ unsaved' = TRUE
    /\ mishaps' = mishaps \cup {"dropped"}
    /\ UNCHANGED <<store, memory, saving, removing, fetching, saves, kept, removed, counts>>

(* Then the magnets, without an await in between. *)
RestoreMagnets ==
    /\ up /\ ~Restored /\ loaded.torrents = {}
    /\ loaded' = Nothing
    /\ LET again == loaded.magnets \ (torrents \cup pending)
       IN /\ pending' = pending \cup again
          /\ fetching' = fetching \cup again
          /\ requested' = (requested \/ again # {})
          /\ unsaved' = (unsaved \/ again # loaded.magnets)
    /\ UNCHANGED <<store, up, torrents, paused, failed, adding, saving, removing,
                   writer, written, exit, leaving, kept, removed, mishaps, counts>>

-----------------------------------------------------------------------------
(* Magnets *)

AddMagnet(h) ==
    /\ "magnets" \in scenario /\ Command
    /\ h \notin torrents \cup pending \cup fetching   \* bound: one fetch of a hash at a time
    /\ pending' = pending \cup {h} /\ fetching' = fetching \cup {h}
    /\ requested' = TRUE
    /\ UNCHANGED <<store, up, torrents, paused, failed, loaded, adding, saving, removing,
                   writer, written, exit, leaving, marks, scenario, ends>>

(* The entry that gets the error.  Mutant: without looking for it. *)
FailingAny(h) == {h}
Failing(h) == {h} \cap pending

(* No peers, no metadata, a torrent of that hash by now, no space.         *)
FetchFails(h) ==
    /\ h \in fetching
    /\ fetching' = fetching \ {h} /\ adding' = adding \ {<<h, "magnet">>}
    /\ failed' = failed \cup Failing(h) /\ unsaved' = TRUE
    /\ UNCHANGED <<store, up, torrents, paused, pending, loaded, saving, removing,
                   saves, kept, removed, mishaps, counts>>

Fetched(h) ==
    /\ h \in fetching \cap pending /\ <<h, "magnet">> \notin adding
    /\ BeginAdd(h, "magnet")
    /\ UNCHANGED <<store, memory, loaded, saving, removing, fetching, saves,
                   kept, removed, unsaved, counts>>

(* The user has removed the magnet while it was fetched. *)
FetchedInVain(h) ==
    /\ h \in fetching \ pending /\ <<h, "magnet">> \notin adding
    /\ fetching' = fetching \ {h}
    /\ UNCHANGED <<store, memory, loaded, adding, saving, removing, saves, marks, counts>>

MagnetAdded(h) ==
    /\ Insert(h, "magnet", FALSE)
    /\ pending' = pending \ {h} /\ failed' = failed \ {h} /\ fetching' = fetching \ {h}
    /\ removed' = removed \ {h}
    /\ UNCHANGED <<store, up, loaded, removing, saves, kept, unsaved, counts>>

RemoveMagnet(h) ==
    /\ Command
    /\ h \in pending
    /\ pending' = pending \ {h} /\ failed' = failed \ {h} /\ unsaved' = TRUE
    /\ UNCHANGED <<store, up, torrents, paused, tasks, saves, kept, removed, mishaps,
                   scenario, ends>>

-----------------------------------------------------------------------------
(* Pausing, resuming, removing *)

Pause(h) ==
    /\ Command
    /\ h \in torrents /\ paused' = paused \cup {h}
    /\ requested' = TRUE
    /\ UNCHANGED <<store, up, torrents, pending, failed, tasks, writer, written, exit,
                   leaving, marks, scenario, ends>>

(* A torrent that is queued instead of started is not saved.               *)
Resume(h) ==
    /\ Command
    /\ h \in torrents /\ paused' = paused \ {h}
    /\ \/ requested' = TRUE /\ UNCHANGED unsaved
       \/ unsaved' = TRUE /\ UNCHANGED requested
    /\ UNCHANGED <<store, up, torrents, pending, failed, tasks, writer, written, exit,
                   leaving, kept, removed, mishaps, scenario, ends>>

(* A move or a dequeue that has chosen the torrent overwrites the state    *)
(* without looking, and asks for nothing.                                  *)
Overwrite(h) ==
    /\ h \in paused /\ paused' = paused \ {h}
    /\ unsaved' = TRUE
    /\ UNCHANGED <<store, up, torrents, pending, failed, tasks, saves,
                   kept, removed, mishaps, counts>>

RemoveBegins(h) ==
    /\ Command
    /\ h \in torrents \ (pending \cup removing)   \* bound: one removal of a hash at a time
    /\ torrents' = torrents \ {h} /\ paused' = paused \ {h}
    /\ removing' = removing \cup {h}
    /\ kept' = kept \ {h}
    /\ InHand(h, {"lateBlob"})
    /\ UNCHANGED <<store, up, pending, failed, loaded, adding, saving, fetching, saves,
                   removed, unsaved, scenario, ends>>

(* The files cannot be deleted: the call ends there. *)
RemoveFails(h) ==
    /\ h \in removing /\ removing' = removing \ {h}
    /\ unsaved' = TRUE
    /\ UNCHANGED <<store, memory, loaded, adding, saving, fetching, saves,
                   kept, removed, mishaps, counts>>

(* delete_torrent_blob, whose failure is ignored.  Mutant: no deletion.    *)
KeepBlob(h) == UNCHANGED <<blobs, mishaps>>
DeleteBlob(h) ==
    \/ blobs' = blobs \ {h} /\ UNCHANGED mishaps
    \/ h \in blobs /\ mishaps' = mishaps \cup {"undeleted"} /\ UNCHANGED blobs

RemoveEnds(h) ==
    /\ h \in removing /\ removing' = removing \ {h}
    /\ DeleteBlob(h)
    /\ requested' = TRUE
    /\ removed' = removed \cup {h}
    /\ UNCHANGED <<session, memory, loaded, adding, saving, fetching, writer, written, exit,
                   leaving, kept, unsaved, counts>>

-----------------------------------------------------------------------------
Writing == WriterSnapshots \/ WriterSaves
Restoring(h) == RestoreBegins(h) \/ RestoreSkips(h) \/ RestoreAdded(h) \/ RestoreFails(h)

Next ==
    \/ Writing \/ WriterFails \/ Flush
    \/ ExitRequested \/ ExitSaves \/ End \/ Boot
    \/ RestoreMagnets
    \/ \E h \in Hashes :
          \/ UserAdds(h) \/ UserAdded(h) \/ AddFails(h)
          \/ Restoring(h)
          \/ AddMagnet(h) \/ FetchFails(h) \/ Fetched(h) \/ FetchedInVain(h) \/ MagnetAdded(h)
          \/ RemoveMagnet(h) \/ Pause(h) \/ Resume(h) \/ Overwrite(h)
          \/ RemoveBegins(h) \/ RemoveFails(h) \/ RemoveEnds(h)
          \/ \E source \in Sources : SaveBlob(h, source)

Spec == Init /\ [][Next]_vars

-----------------------------------------------------------------------------
(* Properties *)

(* The type invariant. *)
Sessions == [torrents : SUBSET Hashes, paused : SUBSET Hashes, magnets : SUBSET Hashes,
             whole : BOOLEAN]
TypeOK ==
    /\ {session, written, leaving, loaded} \subseteq Sessions
    /\ {up, requested, unsaved} \subseteq BOOLEAN
    /\ blobs \subseteq Hashes /\ torrents \subseteq Hashes /\ paused \subseteq torrents
    /\ failed \subseteq pending /\ pending \subseteq Hashes
    /\ adding \subseteq Hashes \X Sources /\ saving \subseteq Hashes \X Sources
    /\ removing \subseteq Hashes /\ fetching \subseteq Hashes
    /\ writer \in {"idle", "writing"} /\ exit \in {"no", "writing", "saved"}
    /\ kept \subseteq Hashes /\ removed \subseteq Hashes
    /\ mishaps \subseteq {"partial", "raced", "readded", "twice", "lateBlob", "undeleted",
                      "dropped"}
    /\ scenario \in Scenarios /\ {commands, ends} \subseteq Nat

(* What the session file says of the list.                                 *)
Content(s) == <<s.torrents, s.paused, s.magnets>>

(* Once every request has been served and every task has come to its end,  *)
(* the file says what the list says: no request is lost between the        *)
(* writer's snapshot and the change that asked for the next one.           *)
Settled ==
    up /\ Restored /\ exit = "no" /\ writer = "idle" /\ ~requested /\ ~unsaved
       /\ adding \cup saving = {} /\ removing = {}
    => Content(session) = Content(Snapshot)

(* A torrent that has been stored is never lost, however the process ends, *)
(* unless the user removes it: it is in the file with its blob, or in the  *)
(* list, or the restore has still to come to it.  There are four windows   *)
(* in which it is lost: the file was written while the restore was under   *)
(* way and the process ends before it is written again; the writer and the *)
(* exit write at once; a torrent is added while its removal deletes files; *)
(* a restore fails.                                                        *)
Losing == {"partial", "raced", "readded", "dropped"}
Safe(h) == h \in Stored \/ (up /\ h \in torrents \cup loaded.torrents)
Remembered == mishaps \cap Losing = {} => \A h \in kept : Safe(h)

(* A torrent that was removed stays removed, whatever older session file   *)
(* is found after a crash, because its blob is gone.  Four exceptions: its *)
(* blob was still being saved, or could not be deleted, the torrent was    *)
(* added while it was removed, or two adds of it overlapped.               *)
Reviving == {"lateBlob", "undeleted", "readded", "twice"}
RemovedStaysRemoved ==
    mishaps \cap Reviving = {} => removed \cap (torrents \cup Stored) = {}

(* README.md:88 ("Settings, the torrent session, and per-torrent metadata  *)
(* are stored in the platform-specific config directory and restored on    *)
(* startup"): a stored torrent that nobody has removed, with no overlapping *)
(* saves and no failing disk, is still there.                              *)
SessionSurvives ==
    mishaps \subseteq {"partial"} => \A h \in kept : Safe(h)
=============================================================================
