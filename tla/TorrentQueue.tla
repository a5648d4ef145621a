---------------------------- MODULE TorrentQueue ----------------------------
(***************************************************************************)
(* Which torrents run: the states of the torrents under the limits of      *)
(* active downloads and uploads, the commands that stop and start them,    *)
(* the verification of what is on the disk, start_torrent, the queue, the  *)
(* share-limit checker and the move of a completed torrent.                *)
(*                                                                         *)
(* A step ends where a lock is released.  Counting and choosing on the     *)
(* counts is one step, acting on the choice another: what was counted may  *)
(* be stale by then.  A torrent is known by its place in the order of      *)
(* added_at; one that is removed does not come back here (PeerTable and    *)
(* SessionStore have that case), so nothing takes the storage of a torrent *)
(* in the map from the disk manager but a move.                            *)
(***************************************************************************)
EXTENDS Naturals, FiniteSets

CONSTANTS
    Torrents,      \* the torrents, numbered in the order of added_at
    Limits,        \* values of (max_active_downloads, max_active_uploads)
    InitialLimits, \* those that settings.json may have
    Scenarios,     \* what may happen together in a behaviour of this instance
    MaxCommands    \* bound on the commands of user and share-limit checker

ASSUME QueueAssumption ==
    /\ Torrents \subseteq Nat /\ IsFiniteSet(Torrents)
    /\ InitialLimits \subseteq Limits /\ Limits \subseteq [dl : Nat, ul : Nat]
    /\ Scenarios \subseteq SUBSET {"seeded", "removal", "moves", "settings", "shares"}
    /\ MaxCommands \in Nat

VARIABLES
    state,      \* TorrentState; "new" before the torrent is added, "gone" after
    complete,   \* piece_manager.is_complete()
    verified,   \* piece_manager.is_verification_complete()
    looping,    \* run_loop_active
    processed,  \* completion_processed
    limits,     \* max_active_downloads, max_active_uploads
    (* tasks *)
    verify,     \* verify_existing_pieces: "none", "scanning", "ending"
    starts,     \* start_torrent calls, with how far they are
    resumes,    \* resume_torrent calls that have chosen and not yet acted
    freed,      \* pauses and removals that have not yet looked at the queue
    picked,     \* how often start_next_queued has chosen it and not yet acted
    due,        \* what the share-limit checker has found and not yet acted on
    completion, \* handle_torrent_completed: "none", "choosing", "moving"
    (* history *)
    seeded,     \* those that were on the disk when they were added
    asked,      \* those whose last command is a pause
    undone,     \* pauses that a task has overwritten since
    handled,    \* how often the completion actions have begun
    early,      \* those set to Downloading on what was known before their check ended
    missed,     \* those that were complete and neither Downloading nor Completed yet
    revived,    \* those that a move took from Queued or Paused
    mishaps,    \* which of the other known windows have been hit
    scenario, commands

status == <<state, complete, verified, looping, processed>>
tasks == <<verify, starts, resumes, freed, picked, due, completion>>
history == <<seeded, asked, undone, handled, early, missed, revived, mishaps>>
counts == <<scenario, commands>>
vars == <<status, limits, tasks, history, counts>>

States == {"new", "Checking", "Queued", "Downloading", "Seeding", "Completed",
           "Paused", "Moving", "gone"}
Windows == {"stale", "lowered", "raised", "finished", "again", "crossed", "undeleted"}

InMap(t) == state[t] \notin {"new", "gone"}
Active(t) == state[t] \in {"Downloading", "Seeding", "Completed"}

(* Torrents added here, and torrents of an earlier life on the disk.       *)
Init ==
    /\ scenario \in Scenarios
    /\ state = [t \in Torrents |-> "new"]
    /\ complete = [t \in Torrents |-> FALSE]
    /\ verified = [t \in Torrents |-> FALSE]
    /\ looping = [t \in Torrents |-> FALSE]
    /\ processed = [t \in Torrents |-> FALSE]
    /\ limits \in InitialLimits
    /\ verify = [t \in Torrents |-> "none"]
    /\ starts = {} /\ resumes = {} /\ freed = 0 /\ due = {}
    /\ picked = [t \in Torrents |-> 0]
    /\ completion = [t \in Torrents |-> "none"]
    /\ seeded \in SUBSET Torrents /\ ("seeded" \notin scenario => seeded = {})
    /\ asked = {} /\ undone = {} /\ early = {} /\ missed = {} /\ revived = {}
    /\ mishaps = {}
    /\ handled = [t \in Torrents |-> 0]
    /\ commands = 0

Command == commands < MaxCommands /\ commands' = commands + 1 /\ UNCHANGED scenario

-----------------------------------------------------------------------------
(* Counting *)

ActiveDownloads ==
    Cardinality({t \in Torrents : state[t] \in {"Downloading", "Checking"} /\ ~complete[t]})

ActiveUploads ==
    Cardinality({t \in Torrents :
        state[t] \in {"Seeding", "Completed", "Checking"} /\ complete[t]})

(* Mutant: torrents that wait are not counted. *)
QueuePositionOfActive(t) ==
    Cardinality({u \in Torrents : u < t /\ complete[u] = complete[t]
                                  /\ state[u] \in {"Downloading", "Seeding", "Completed"}})

(* queue_position_download_from_map and queue_position_upload_from_map: a  *)
(* complete torrent is never in Downloading when it is looked at for the   *)
(* one, an incomplete one never in Seeding or Completed for the other.     *)
QueuePosition(t) ==
    Cardinality({u \in Torrents :
        /\ u < t /\ complete[u] = complete[t]
        /\ \/ state[u] \in {"Checking", "Queued"}
           \/ state[u] = "Downloading" /\ ~complete[t]
           \/ state[u] \in {"Seeding", "Completed"} /\ complete[t]})

(* A limit of 0 is no limit. *)
Limit(isComplete) == IF isComplete THEN limits.ul ELSE limits.dl
Full(isComplete) ==
    LET limit == Limit(isComplete)
        active == IF isComplete THEN ActiveUploads ELSE ActiveDownloads
    IN limit > 0 /\ active >= limit
AfterCheck(t) ==
    LET limit == Limit(complete[t])
    IN IF limit > 0 /\ QueuePosition(t) >= limit THEN "Queued"
       ELSE IF complete[t] THEN "Completed" ELSE "Downloading"

FullOfOthers(t) ==
    /\ Limit(complete[t]) > 0
    /\ Cardinality({u \in Torrents \ {t} :
           /\ complete[u] = complete[t]
           /\ state[u] \in {"Checking", "Downloading", "Seeding", "Completed"}})
       >= Limit(complete[t])

Running(isComplete) == IF isComplete THEN "Completed" ELSE "Downloading"

-----------------------------------------------------------------------------
(* Adding and checking *)

(* From here on the torrent is in the map, with its verification running.  *)
Add(t) ==
    /\ state[t] = "new" /\ \A u \in Torrents : u < t => state[u] # "new"
    /\ \E addPaused \in BOOLEAN :
         /\ state' = [state EXCEPT ![t] = IF addPaused THEN "Paused" ELSE "Checking"]
         /\ starts' = IF addPaused THEN starts ELSE starts \cup {<<t, "announcing">>}
         /\ asked' = IF addPaused THEN asked \cup {t} ELSE asked
    /\ verify' = [verify EXCEPT ![t] = "scanning"]
    /\ UNCHANGED <<complete, verified, looping, processed, limits, resumes, freed, picked,
                   due, completion, seeded, revived, undone, handled, early, missed, mishaps,
                   counts>>

(* The batches: each piece found is marked complete under the read lock.   *)
VerifyBatches(t) ==
    /\ verify[t] = "scanning"
    /\ IF InMap(t)
       THEN /\ complete' = [complete EXCEPT ![t] = @ \/ t \in seeded]
            /\ verify' = [verify EXCEPT ![t] = "ending"]
            /\ mishaps' = IF t \in seeded THEN mishaps \cup {"finished"} ELSE mishaps
       ELSE /\ verify' = [verify EXCEPT ![t] = "none"]
            /\ UNCHANGED <<complete, mishaps>>
    /\ UNCHANGED <<state, verified, looping, processed, limits, starts, resumes, freed,
                   picked, due, completion, seeded, revived, asked, undone, handled, early, missed,
                   counts>>

(* piece_count fails: a move has taken the storage from the disk manager.  *)
(* Nothing is looked at, and the verification counts as complete.          *)
VerifyFails(t) ==
    /\ verify[t] = "scanning" /\ InMap(t) /\ completion[t] = "moving"
    /\ verify' = [verify EXCEPT ![t] = "none"]
    /\ verified' = [verified EXCEPT ![t] = TRUE]
    /\ UNCHANGED <<state, complete, looping, processed, limits, starts, resumes, freed,
                   picked, due, completion, history, counts>>

(* Mutant: the end of the verification decides whatever the state. *)
VerifyEndsAnyState(t) ==
    /\ verify[t] = "ending"
    /\ verify' = [verify EXCEPT ![t] = "none"]
    /\ IF InMap(t)
       THEN /\ verified' = [verified EXCEPT ![t] = TRUE]
            /\ state' = [state EXCEPT ![t] = AfterCheck(t)]
            /\ processed' = [processed EXCEPT ![t] = @ \/ complete[t]]
       ELSE UNCHANGED status
    /\ UNCHANGED <<complete, looping, limits, starts, resumes, freed, picked, due,
                   completion, history, counts>>

(* It may be queued behind one that itself waits, with the slot free.      *)
VerifyEnds(t) ==
    /\ verify[t] = "ending"
    /\ verify' = [verify EXCEPT ![t] = "none"]
    /\ verified' = [verified EXCEPT ![t] = InMap(t)]
    /\ IF state[t] = "Checking"
       THEN /\ state' = [state EXCEPT ![t] = AfterCheck(t)]
            /\ processed' = [processed EXCEPT ![t] = @ \/ complete[t]]
            /\ mishaps' = IF AfterCheck(t) = "Queued" /\ ~FullOfOthers(t)
                          THEN mishaps \cup {"crossed"} ELSE mishaps
       ELSE UNCHANGED <<state, processed, mishaps>>
    /\ UNCHANGED <<complete, looping, limits, starts, resumes, freed, picked, due,
                   completion, seeded, revived, asked, undone, handled, early, missed, counts>>

-----------------------------------------------------------------------------
(* start_torrent *)

(* The announces are over; it decides only what the verification left.     *)
StartDecides(t) ==
    /\ <<t, "announcing">> \in starts
    /\ starts' = (starts \ {<<t, "announcing">>}) \cup {<<t, "decided">>}
    /\ state' = IF state[t] = "Checking" /\ verified[t]
                THEN [state EXCEPT ![t] = AfterCheck(t)] ELSE state
    /\ UNCHANGED <<complete, verified, looping, processed, limits, verify, resumes, freed,
                   picked, due, completion, history, counts>>

(* Mutant: a torrent still being checked gets no run loop either. *)
StartSpawnsChecked(t) ==
    /\ <<t, "decided">> \in starts
    /\ starts' = starts \ {<<t, "decided">>}
    /\ looping' = IF state[t] \in {"Queued", "Checking", "gone"} THEN looping
                  ELSE [looping EXCEPT ![t] = TRUE]
    /\ UNCHANGED <<state, complete, verified, processed, limits, verify, resumes, freed,
                   picked, due, completion, history, counts>>

(* One run loop, unless it is queued; a loop spawned for a torrent that is *)
(* queued or paused just then idles.                                       *)
StartSpawns(t) ==
    /\ <<t, "decided">> \in starts
    /\ starts' = starts \ {<<t, "decided">>}
    /\ looping' = IF state[t] \in {"Queued", "gone"} THEN looping
                  ELSE [looping EXCEPT ![t] = TRUE]
    /\ UNCHANGED <<state, complete, verified, processed, limits, verify, resumes, freed,
                   picked, due, completion, history, counts>>

-----------------------------------------------------------------------------
(* Commands *)

Misses(t) == IF state[t] = "Downloading" /\ complete[t] THEN {t} ELSE {}

(* Mutant: start_next_queued is forgotten. *)
StopOnly(t, to) ==
    /\ state' = [state EXCEPT ![t] = to]
    /\ missed' = missed \cup Misses(t)
    /\ asked' = IF to = "Paused" THEN asked \cup {t} ELSE asked \ {t}
    /\ undone' = undone \ {t}
    /\ UNCHANGED <<complete, verified, looping, processed, limits, verify, starts, resumes,
                   freed, picked, completion, seeded, revived, handled, early, mishaps>>

(* The write; start_next_queued follows, but for a removal that fails to   *)
(* delete the content: `?` leaves with the torrent out of the map.         *)
Stop(t, to) ==
    /\ state' = [state EXCEPT ![t] = to]
    /\ missed' = missed \cup Misses(t)
    /\ asked' = IF to = "Paused" THEN asked \cup {t} ELSE asked \ {t}
    /\ undone' = undone \ {t}
    /\ \/ freed' = freed + 1 /\ UNCHANGED mishaps
       \/ to = "gone" /\ mishaps' = mishaps \cup {"undeleted"} /\ UNCHANGED freed
    /\ UNCHANGED <<complete, verified, looping, processed, limits, verify, starts, resumes,
                   picked, completion, seeded, revived, handled, early>>

Pause(t) == Command /\ InMap(t) /\ Stop(t, "Paused") /\ UNCHANGED due
Remove(t) ==
    /\ "removal" \in scenario /\ Command /\ InMap(t) /\ Stop(t, "gone") /\ UNCHANGED due

(* resume_torrent up to its write: the torrent itself is counted, too.     *)
ResumeChooses(t) ==
    /\ Command /\ InMap(t)
    /\ resumes' = resumes \cup {[of |-> t, complete |-> complete[t],
                                 queue |-> Full(complete[t])]}
    /\ UNCHANGED <<status, limits, verify, starts, freed, picked, due, completion, history>>

(* The write.  A torrent that runs already may be put into the queue.      *)
ResumeActs(choice) ==
    LET t == choice.of
        to == IF choice.queue THEN "Queued" ELSE Running(choice.complete)
        windows ==
            (IF choice.complete # complete[t] \/ choice.queue # Full(complete[t])
             THEN {"stale"} ELSE {})
            \cup (IF state[t] # "Paused" THEN {"again"} ELSE {})
    IN
    /\ choice \in resumes /\ resumes' = resumes \ {choice}
    /\ IF InMap(t)
       THEN /\ state' = [state EXCEPT ![t] = to]
            /\ starts' = IF choice.queue THEN starts ELSE starts \cup {<<t, "announcing">>}
            /\ asked' = asked \ {t} /\ undone' = undone \ {t}
            /\ early' = IF to = "Downloading" /\ (verify[t] # "none" \/ complete[t])
                        THEN early \cup {t} ELSE early
            /\ missed' = missed \cup Misses(t)
            /\ mishaps' = mishaps \cup windows
       ELSE UNCHANGED <<state, starts, asked, undone, early, missed, mishaps>>
    /\ UNCHANGED <<complete, verified, looping, processed, limits, verify, freed, picked,
                   due, completion, seeded, revived, handled, counts>>

(* Nothing is started or stopped. *)
SetQueueSettings(l) ==
    /\ "settings" \in scenario /\ Command /\ l # limits
    /\ limits' = l
    /\ mishaps' = mishaps \cup {"lowered", "raised"}
    /\ UNCHANGED <<status, tasks, seeded, revived, asked, undone, handled, early, missed>>

-----------------------------------------------------------------------------
(* start_next_queued, after a pause or a removal *)

Waiting == {t \in Torrents : state[t] = "Queued" /\ ~Full(complete[t])}

(* Mutant: the queue is served again without a slot that came free. *)
DequeueChoosesFreely ==
    /\ freed' = freed - 1
    /\ \E t \in Waiting : picked' = [picked EXCEPT ![t] = @ + 1]
    /\ UNCHANGED <<status, limits, verify, starts, resumes, due, completion, history, counts>>

(* The oldest that fits, unless there are no limits at all.                *)
DequeueChooses ==
    /\ freed > 0 /\ freed' = freed - 1
    /\ IF Waiting # {} /\ limits # [dl |-> 0, ul |-> 0]
       THEN \E t \in Waiting :
              /\ \A u \in Waiting : t <= u
              /\ picked' = [picked EXCEPT ![t] = @ + 1]
       ELSE UNCHANGED picked
    /\ UNCHANGED <<status, limits, verify, starts, resumes, due, completion, history, counts>>

(* The write looks neither at the state nor at the limits again.           *)
DequeueStarts(t) ==
    /\ picked[t] > 0 /\ picked' = [picked EXCEPT ![t] = @ - 1]
    /\ IF InMap(t)
       THEN /\ state' = [state EXCEPT ![t] = Running(complete[t])]
            /\ starts' = starts \cup {<<t, "announcing">>}
            /\ undone' = IF t \in asked THEN undone \cup {t} ELSE undone
            /\ early' = IF ~complete[t] /\ verify[t] # "none" THEN early \cup {t} ELSE early
            /\ missed' = missed \cup Misses(t)
            /\ mishaps' = mishaps \cup (IF t \in Waiting THEN {} ELSE {"stale"})
       ELSE /\ mishaps' = mishaps \cup {"stale"}
            /\ UNCHANGED <<state, starts, undone, early, missed>>
    /\ UNCHANGED <<complete, verified, looping, processed, limits, verify, resumes, freed,
                   due, completion, seeded, revived, asked, handled, counts>>

-----------------------------------------------------------------------------
(* Share limits: which torrents reach theirs is data *)

SharesScan ==
    /\ "shares" \in scenario /\ due = {}
    /\ \E ts \in SUBSET {t \in Torrents : state[t] \in {"Seeding", "Completed"}} :
         ts # {} /\ due' = ts
    /\ UNCHANGED <<status, limits, verify, starts, resumes, freed, picked, completion,
                   history, counts>>

(* pause_torrent or remove_torrent, whatever has become of the torrent.    *)
SharesAct(t) ==
    /\ t \in due /\ due' = due \ {t}
    /\ IF InMap(t)
       THEN \E to \in {"Paused", "gone"} : Stop(t, to)
       ELSE UNCHANGED <<status, limits, verify, starts, resumes, freed, picked, completion,
                        history>>
    /\ Command

-----------------------------------------------------------------------------
(* Completion *)

(* The last piece is written and marked by a connection.  A peer that      *)
(* connects to us is accepted whatever the state and before the run loop,  *)
(* and is asked for pieces like any other.                                 *)
PieceArrives(t) ==
    /\ InMap(t) /\ ~complete[t]
    /\ complete' = [complete EXCEPT ![t] = TRUE]
    /\ mishaps' = mishaps \cup {"finished"}
    /\ missed' = IF state[t] = "Downloading" THEN missed ELSE missed \cup {t}
    /\ UNCHANGED <<state, verified, looping, processed, limits, tasks, seeded, revived, asked,
                   undone, handled, early, counts>>

(* Mutant: completion_processed is not looked at. *)
CompletesAgain(t) ==
    /\ state[t] = "Downloading" /\ complete[t]
    /\ state' = [state EXCEPT ![t] = "Completed"]
    /\ processed' = [processed EXCEPT ![t] = TRUE]
    /\ completion' = [completion EXCEPT ![t] = "choosing"]
    /\ handled' = [handled EXCEPT ![t] = @ + 1]
    /\ UNCHANGED <<complete, verified, looping, limits, verify, starts, resumes, freed,
                   picked, due, seeded, revived, asked, undone, early, missed, mishaps, counts>>

(* The PieceCompleted event and the tick of the run loop do the same; the  *)
(* event may arrive when the run loop has not begun.                       *)
Completes(t) ==
    /\ state[t] = "Downloading" /\ complete[t]
    /\ state' = [state EXCEPT ![t] = "Completed"]
    /\ processed' = [processed EXCEPT ![t] = TRUE]
    /\ IF processed[t] THEN UNCHANGED <<completion, handled>>
       ELSE /\ completion' = [completion EXCEPT ![t] = "choosing"]
            /\ handled' = [handled EXCEPT ![t] = @ + 1]
    /\ UNCHANGED <<complete, verified, looping, limits, verify, starts, resumes, freed,
                   picked, due, seeded, revived, asked, undone, early, missed, mishaps, counts>>

(* The run loop: whether a peer is interested is data.                     *)
Interest(t) ==
    /\ "shares" \in scenario /\ looping[t] /\ complete[t]
    /\ state[t] \in {"Seeding", "Completed"}
    /\ state' = [state EXCEPT ![t] = IF @ = "Seeding" THEN "Completed" ELSE "Seeding"]
    /\ UNCHANGED <<complete, verified, looping, processed, limits, tasks, history, counts>>

(* handle_torrent_completed has no target, or the data is there already.   *)
CompletionStays(t) ==
    /\ completion[t] = "choosing"
    /\ completion' = [completion EXCEPT ![t] = "none"]
    /\ UNCHANGED <<status, limits, verify, starts, resumes, freed, picked, due, history,
                   counts>>

(* move_torrent_data sets Moving without looking at the state.             *)
MoveBegins(t) ==
    /\ "moves" \in scenario /\ completion[t] = "choosing" /\ InMap(t)
    /\ completion' = [completion EXCEPT ![t] = "moving"]
    /\ state' = [state EXCEPT ![t] = "Moving"]
    /\ undone' = IF t \in asked THEN undone \cup {t} ELSE undone
    /\ revived' = IF state[t] \in {"Queued", "Paused"} THEN revived \cup {t} ELSE revived
    /\ UNCHANGED <<complete, verified, looping, processed, limits, verify, starts, resumes,
                   freed, picked, due, seeded, asked, handled, early, missed, mishaps, counts>>

MoveEnds(t) ==
    /\ completion[t] = "moving"
    /\ completion' = [completion EXCEPT ![t] = "none"]
    /\ state' = IF state[t] = "Moving" THEN [state EXCEPT ![t] = "Completed"] ELSE state
    /\ UNCHANGED <<complete, verified, looping, processed, limits, verify, starts, resumes,
                   freed, picked, due, history, counts>>

-----------------------------------------------------------------------------
Tasks ==
    \/ DequeueChooses
    \/ \E choice \in resumes : ResumeActs(choice)
    \/ \E t \in Torrents :
         \/ VerifyBatches(t) \/ VerifyFails(t) \/ VerifyEnds(t)
         \/ StartDecides(t) \/ StartSpawns(t)
         \/ DequeueStarts(t)
         \/ Completes(t) \/ CompletionStays(t) \/ MoveBegins(t) \/ MoveEnds(t)

Next ==
    \/ Tasks
    \/ SharesScan
    \/ \E l \in Limits : SetQueueSettings(l)
    \/ \E t \in Torrents :
         \/ Add(t) \/ Pause(t) \/ Remove(t) \/ ResumeChooses(t)
         \/ SharesAct(t) \/ PieceArrives(t) \/ Interest(t)

Spec == Init /\ [][Next]_vars

-----------------------------------------------------------------------------
(* Properties *)

TypeOK ==
    /\ state \in [Torrents -> States]
    /\ {complete, verified, looping, processed} \subseteq [Torrents -> BOOLEAN]
    /\ limits \in Limits
    /\ verify \in [Torrents -> {"none", "scanning", "ending"}]
    /\ starts \subseteq Torrents \X {"announcing", "decided"}
    /\ resumes \subseteq [of : Torrents, complete : BOOLEAN, queue : BOOLEAN]
    /\ freed \in 0 .. MaxCommands
    /\ picked \in [Torrents -> 0 .. MaxCommands]
    /\ completion \in [Torrents -> {"none", "choosing", "moving"}]
    /\ handled \in [Torrents -> Nat]
    /\ {due, seeded, asked, undone, early, missed, revived} \subseteq SUBSET Torrents
    /\ mishaps \subseteq Windows
    /\ scenario \in Scenarios /\ commands \in 0 .. MaxCommands

(* At most max_active_downloads torrents download.  The count and the      *)
(* write that relies on it are under different locks: only a choice that   *)
(* is stale when it is acted on, or a limit lowered meanwhile, can exceed  *)
(* the limit; checks, resumes and the queue together never do.             *)
DownloadsBounded ==
    limits.dl > 0 /\ mishaps \cap {"stale", "lowered"} = {}
    => Cardinality({t \in Torrents : state[t] = "Downloading" /\ ~complete[t]}) <= limits.dl

(* A torrent that waits although it would fit is about to be started,      *)
(* unless a slot came free in one of six ways that nobody answers:         *)
(*   finished   a download has finished, or was found complete             *)
(*   raised     the limits were changed                                    *)
(*   again      the resume of a running torrent has put it into the queue  *)
(*   stale      a choice was acted on after what it rests on had changed   *)
(*   crossed    a check has queued its torrent behind one that waits       *)
(*   undeleted  a removal has failed to delete the content                 *)
SlotsUsed ==
    Waiting # {} /\ mishaps \cap {"finished", "raised", "again", "stale", "crossed",
                                  "undeleted"} = {}
    => freed > 0 \/ \E t \in Torrents : picked[t] > 0

(* A torrent whose last command is a pause stays paused: neither its check *)
(* nor its start nor the end of a move revives it.  Two tasks do, and no   *)
(* other: a dequeue that chose it earlier, and the begin of a move.        *)
PauseHolds == \A t \in asked : state[t] = "Paused" \/ t \in undone

(* A torrent that runs has its run loop, or a start_torrent that is about  *)
(* to spawn it: no check and no queue leaves it without one, only a move   *)
(* that found it Queued or Paused and ends as Completed.                   *)
LoopRuns ==
    \A t \in Torrents :
        Active(t) => \/ looping[t]
                     \/ \E at \in {"announcing", "decided"} : <<t, at>> \in starts
                     \/ t \in revived

(* The completion actions run once, for a download and not for data that   *)
(* was there before; they are missed only by a torrent that was not in     *)
(* Downloading when its last piece came or was taken out of it before the  *)
(* event, and run for old data only when it was set to Downloading before  *)
(* its verification had ended.                                             *)
CompletionFitting ==
    \A t \in Torrents :
        /\ handled[t] <= 1
        /\ handled[t] = 1 => t \notin seeded \/ t \in early
        /\ state[t] \in {"Completed", "Seeding"} /\ t \notin seeded
           => handled[t] = 1 \/ t \in missed

(* Data that was complete before this session never fires the completion   *)
(* actions, as a comment in verify_existing_pieces says.                   *)
OldDataSilent == \A t \in seeded : handled[t] = 0
=============================================================================
