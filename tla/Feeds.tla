-------------------------------- MODULE Feeds --------------------------------
(***************************************************************************)
(* What adds torrents without the user: a watched folder and an RSS feed   *)
(* with its rules, and settings.json, which keeps both over a restart.     *)
(*                                                                         *)
(* The scan of the folder, the refresh loop, a refresh the user asks for,  *)
(* the two processors that hand findings to the engine and the writer of   *)
(* the settings are tasks of their own; a step ends at each lock.  Of the  *)
(* settings the model has those that matter here and `seedless`, which     *)
(* stands for all the others.  An absent folder or feed is a disabled one. *)
(***************************************************************************)
EXTENDS Naturals, FiniteSets, Sequences, SequencesExt

CONSTANTS
    TorrentFiles, FeedItems, Rules,
    Matching,        \* the items that each rule matches
    FeedScenarios,   \* what happens together in a behaviour of this instance
    MaxFeedChanges,  \* bound on the changes of settings
    MaxFeedLives     \* bound on the starts of the process

ASSUME FeedsAssumption ==
    /\ Matching \in [Rules -> SUBSET FeedItems]
    /\ TorrentFiles \cap FeedItems = {}
    /\ {MaxFeedChanges, MaxFeedLives} \subseteq Nat
    /\ FeedScenarios \subseteq SUBSET {"files", "item", "items", "forced", "settings"}

VARIABLES
    (* outside *)
    inFolder,      \* the files that lie in the watched folder
    published,     \* the items the feed shows
    saved,         \* settings.json
    (* in memory *)
    started,       \* whether the process runs
    settings,      \* the settings in force
    processed,     \* processed_files
    downloaded,    \* the marks of items a rule has matched
    stored,        \* feed_items: each item absent, new or done (is_downloaded)
    due,           \* refresh_interval has passed since last_refresh
    (* tasks *)
    listing,       \* what the scan has yet to look at
    found,         \* the channel of WatchEvents
    matched,       \* the channel of RssMatchEvents
    refresh,       \* refresh_feeds: where it is, with its items, rules and item
    forced,        \* refresh_feed on demand, with its items and their flags
    (* saves *)
    asking,        \* setters that have not called persist_settings yet
    settingsDirty, \* a PersistKind::Settings waits in the channel
    settingsWriter,\* the snapshots on their way to the file, of the writer and at exit
    quitting,      \* the application is being left
    (* history *)
    unwritten,     \* the last write of the settings has failed
    handed,        \* what the processors have taken in this life
    known,         \* the marks this life has started with
    sent,          \* how often each item was sent to the engine
    forgotten,     \* how often its mark was lost with a life
    overwritten,   \* items stored as new by a forced refresh after they were marked
    feedScenario, feedChanges, feedLives

feedVars == <<inFolder, published, saved, started, settings, processed, downloaded, stored, due,
              listing, found, matched, refresh, forced, asking, settingsDirty, settingsWriter,
              quitting, unwritten, handed, known, sent, forgotten, overwritten, feedScenario,
              feedChanges, feedLives>>

Settings == [watching : BOOLEAN, following : BOOLEAN, rules : SUBSET Rules, seedless : BOOLEAN]
DefaultSettings == [watching |-> FALSE, following |-> FALSE, rules |-> {}, seedless |-> FALSE]
Persisted == [settings : Settings, downloaded : SUBSET FeedItems]

NoRefresh == [at |-> "asleep", items |-> {}, rules |-> {}, item |-> {}]
NotForced == [at |-> "no", items |-> {}, done |-> {}]
Unstored == [i \in FeedItems |-> "absent"]
Never == [i \in FeedItems |-> 0]
NoSaves == [writer |-> {}, exit |-> {}]

outside == <<inFolder, published>>
watching == <<processed, listing, found>>
refreshing == <<downloaded, stored, due, matched, refresh, forced, sent, overwritten>>
saving == <<saved, asking, settingsDirty, settingsWriter, quitting, unwritten>>
life == <<started, known, forgotten, feedScenario, feedLives>>

(* An earlier life has left settings behind. *)
FeedsInit ==
    /\ inFolder = {} /\ published = {}
    /\ saved = [settings |-> [DefaultSettings EXCEPT !.watching = TRUE, !.following = TRUE,
                                                     !.rules = Rules], downloaded |-> {}]
    /\ started = FALSE /\ settings = DefaultSettings /\ processed = {} /\ downloaded = {}
    /\ stored = Unstored /\ due = FALSE
    /\ listing = {} /\ found = <<>> /\ matched = <<>> /\ refresh = NoRefresh /\ forced = NotForced
    /\ asking = 0 /\ settingsDirty = FALSE /\ settingsWriter = NoSaves /\ quitting = FALSE
    /\ unwritten = FALSE
    /\ handed = {} /\ known = {} /\ sent = Never /\ forgotten = Never /\ overwritten = {}
    /\ feedScenario \in FeedScenarios /\ feedChanges = 0 /\ feedLives = 0

(* ---------------------------- the outside ------------------------------ *)

FileArrives(f) ==
    /\ "files" \in feedScenario /\ f \notin inFolder
    /\ inFolder' = inFolder \union {f} /\ UNCHANGED published

FileGoes(f) == f \in inFolder /\ inFolder' = inFolder \ {f} /\ UNCHANGED published
ItemPublished(i) ==
    /\ i \notin published
    /\ \/ "items" \in feedScenario
       \/ "item" \in feedScenario /\ published = {}
    /\ published' = published \union {i} /\ UNCHANGED inFolder

(* -------------------------- the watched folder ------------------------- *)

(* scan_folders: the folder is listed as it is at that time. *)
ScanBegins ==
    /\ started /\ settings.watching /\ listing = {} /\ listing' = inFolder
    /\ UNCHANGED <<processed, found, handed>>

ScanFile(f) ==
    /\ f \in listing /\ listing' = listing \ {f}
    /\ processed' = processed \union {f}
    /\ found' = IF f \in processed THEN found ELSE Append(found, f)
    /\ UNCHANGED handed

(* Read, parsed and added, or not; nothing is tried again. *)
TakeFile ==
    /\ found # <<>> /\ found' = Tail(found) /\ handed' = handed \union {Head(found)}
    /\ UNCHANGED <<processed, listing>>

(* ------------------------------ the feed ------------------------------- *)

FeedIsDue ==
    /\ feedScenario \cap {"item", "items"} # {}
    /\ started /\ settings.following /\ ~due /\ due' = TRUE
    /\ UNCHANGED <<downloaded, stored, matched, refresh, forced, sent, overwritten, handed>>

RefreshBegins ==
    /\ started /\ settings.following /\ due /\ refresh.at = "asleep"
    /\ refresh' = [refresh EXCEPT !.at = "fetching"]
    /\ UNCHANGED <<downloaded, stored, due, matched, forced, sent, overwritten, handed>>

(* The items of an answer; those without a torrent or a magnet are left    *)
(* out of `published`.                                                     *)
Fetched(r) == [r EXCEPT !.at = "fetched", !.items = published]

(* last_refresh is set for an answer and for a failure alike. *)
FetchEnds ==
    /\ refresh.at = "fetching" /\ due' = FALSE
    /\ \/ refresh' = Fetched(refresh)
       \/ refresh' = NoRefresh
    /\ UNCHANGED <<downloaded, stored, matched, forced, sent, overwritten, handed>>

Flagged(items, done) ==
    [i \in FeedItems |-> IF i \notin items THEN "absent" ELSE IF i \in done THEN "done" ELSE "new"]

(* Nobody else marks items, so the flags are read and stored as one step.  *)
StoreFetched ==
    /\ refresh.at = "fetched"
    /\ stored' = Flagged(refresh.items, downloaded) /\ overwritten' = {}
    /\ refresh' = [refresh EXCEPT !.at = "stored"]
    /\ UNCHANGED <<downloaded, due, matched, forced, sent, handed>>

ReadRules ==
    /\ refresh.at = "stored"
    /\ refresh' = [refresh EXCEPT !.at = "matching", !.rules = settings.rules]
    /\ UNCHANGED <<downloaded, stored, due, matched, forced, sent, overwritten, handed>>

(* What a rule's patterns and episodes make of a title is given.           *)
Wanted(i, rs) == \E r \in rs : i \in Matching[r]

Match(i) ==
    /\ refresh.at = "matching" /\ i \in refresh.items
    /\ IF i \in downloaded \/ ~Wanted(i, refresh.rules)
       THEN /\ refresh' = [refresh EXCEPT !.items = @ \ {i}]
            /\ UNCHANGED downloaded
       ELSE /\ refresh' = [refresh EXCEPT !.at = "marked", !.items = @ \ {i}, !.item = {i}]
            /\ downloaded' = downloaded \union {i}
    /\ UNCHANGED <<stored, due, matched, forced, sent, overwritten, handed>>

FlagStored ==
    /\ refresh.at = "marked"
    /\ stored' = [i \in FeedItems |->
                     IF i \in refresh.item /\ stored[i] = "new" THEN "done" ELSE stored[i]]
    /\ overwritten' = overwritten \ refresh.item
    /\ refresh' = [refresh EXCEPT !.at = "flagged"]
    /\ UNCHANGED <<downloaded, due, matched, forced, sent, handed>>

SendMatch ==
    /\ refresh.at = "flagged"
    /\ \E i \in refresh.item : matched' = Append(matched, i) /\ sent' = [sent EXCEPT ![i] = @ + 1]
    /\ refresh' = [refresh EXCEPT !.at = "matching", !.item = {}]
    /\ UNCHANGED <<downloaded, stored, due, forced, overwritten, handed>>

RefreshEnds ==
    /\ refresh.at = "matching" /\ refresh.items = {} /\ refresh' = NoRefresh
    /\ UNCHANGED <<downloaded, stored, due, matched, forced, sent, overwritten, handed>>

(* A magnet or a torrent to download first: as for files, once.            *)
TakeMatch ==
    /\ matched # <<>> /\ matched' = Tail(matched) /\ handed' = handed \union {Head(matched)}
    /\ UNCHANGED <<downloaded, stored, due, refresh, forced, sent, overwritten>>

(* refresh_rss_feed: the rules are not asked, but last_refresh is set, and *)
(* a failure leaves it.                                                    *)
ForceRefresh ==
    /\ "forced" \in feedScenario /\ started /\ settings.following /\ forced.at = "no"
    /\ forced' = [forced EXCEPT !.at = "fetching"]
    /\ UNCHANGED <<downloaded, stored, due, matched, refresh, sent, overwritten, handed>>

ForcedFetched ==
    /\ forced.at = "fetching"
    /\ \/ forced' = Fetched(forced) /\ due' = FALSE
       \/ forced' = NotForced /\ UNCHANGED due
    /\ UNCHANGED <<downloaded, stored, matched, refresh, sent, overwritten, handed>>

ForcedFlags ==
    /\ forced.at = "fetched"
    /\ forced' = [forced EXCEPT !.at = "flagged", !.done = downloaded]
    /\ UNCHANGED <<downloaded, stored, due, matched, refresh, sent, overwritten, handed>>

ForcedStores ==
    /\ forced.at = "flagged"
    /\ stored' = Flagged(forced.items, forced.done)
    /\ overwritten' = (forced.items \ forced.done) \cap downloaded
    /\ forced' = NotForced
    /\ UNCHANGED <<downloaded, due, matched, refresh, sent, handed>>

(* ---------------------------- the settings ----------------------------- *)

(* What one setter can make of the settings: set_bandwidth_limits and the  *)
(* like, add_watch_folder, remove_rss_rule ...                             *)
Variants(s) ==
    {[s EXCEPT !.watching = b] : b \in BOOLEAN} \union
    {[s EXCEPT !.following = b] : b \in BOOLEAN} \union
    {[s EXCEPT !.seedless = b] : b \in BOOLEAN} \union
    {[s EXCEPT !.rules = rs] : rs \in {s.rules \union {r} : r \in Rules}
                                       \union {s.rules \ {r} : r \in Rules}}

ChangeSettings ==
    /\ "settings" \in feedScenario /\ started
    /\ feedChanges < MaxFeedChanges /\ feedChanges' = feedChanges + 1
    /\ settings' \in Variants(settings) \ {settings}
    /\ asking' = asking + 1
    /\ UNCHANGED <<saved, settingsDirty, settingsWriter, quitting, unwritten>>

AskToSave ==
    /\ asking > 0 /\ asking' = asking - 1 /\ settingsDirty' = TRUE
    /\ UNCHANGED <<saved, settings, settingsWriter, quitting, unwritten, feedChanges>>

Snapshot == [settings |-> settings, downloaded |-> downloaded]

(* The writer empties the channel and takes the settings after that. *)
WriterTakes ==
    /\ settingsDirty /\ settingsWriter.writer = {}
    /\ settingsDirty' = FALSE
    /\ settingsWriter' = [settingsWriter EXCEPT !.writer = {Snapshot}]
    /\ UNCHANGED <<saved, settings, asking, quitting, unwritten, feedChanges>>

Quit ==
    /\ started /\ ~quitting /\ quitting' = TRUE
    /\ settingsWriter' = [settingsWriter EXCEPT !.exit = {Snapshot}]
    /\ UNCHANGED <<saved, settings, asking, settingsDirty, unwritten, feedChanges>>

(* Mutant: the channel is emptied after the save. *)
SaveSettingsDraining(who) ==
    /\ \E p \in settingsWriter[who] : saved' = p
    /\ settingsWriter' = [settingsWriter EXCEPT ![who] = {}]
    /\ settingsDirty' = FALSE /\ unwritten' = FALSE
    /\ UNCHANGED <<settings, asking, quitting, feedChanges>>

(* The file is replaced. *)
SaveSettings(who) ==
    /\ \E p \in settingsWriter[who] : saved' = p
    /\ settingsWriter' = [settingsWriter EXCEPT ![who] = {}]
    /\ unwritten' = FALSE
    /\ UNCHANGED <<settings, asking, settingsDirty, quitting, feedChanges>>

(* Or the write fails and is logged; nobody asks again.  It counts as a    *)
(* change against the bound.                                               *)
SaveFails(who) ==
    /\ "settings" \in feedScenario /\ settingsWriter[who] # {}
    /\ feedChanges < MaxFeedChanges /\ feedChanges' = feedChanges + 1
    /\ settingsWriter' = [settingsWriter EXCEPT ![who] = {}]
    /\ unwritten' = TRUE
    /\ UNCHANGED <<saved, settings, asking, settingsDirty, quitting>>

(* ------------------------ starts and ends ------------------------------ *)

(* apply_persisted_settings comes before the tasks; new asks for a save.   *)
BootFeeds ==
    /\ ~started /\ feedLives < MaxFeedLives
    /\ started' = TRUE /\ feedLives' = feedLives + 1
    /\ settings' = saved.settings /\ downloaded' = saved.downloaded /\ known' = saved.downloaded
    /\ settingsDirty' = TRUE

(* A crash at any time, or the end after save_all_now. *)
LifeEnds ==
    /\ started /\ started' = FALSE
    /\ forgotten' = [i \in FeedItems |->
                        forgotten[i] + IF i \in downloaded \ saved.downloaded THEN 1 ELSE 0]
    /\ settings' = DefaultSettings /\ processed' = {} /\ downloaded' = {} /\ stored' = Unstored
    /\ due' = FALSE /\ listing' = {} /\ found' = <<>> /\ matched' = <<>>
    /\ refresh' = NoRefresh /\ forced' = NotForced
    /\ asking' = 0 /\ settingsDirty' = FALSE /\ settingsWriter' = NoSaves /\ quitting' = FALSE
    /\ unwritten' = FALSE
    /\ handed' = {} /\ known' = {} /\ overwritten' = {}
    /\ UNCHANGED <<outside, saved, sent, feedScenario, feedChanges, feedLives>>

FeedsNext ==
    \/ /\ \/ \E f \in TorrentFiles : FileArrives(f) \/ FileGoes(f)
          \/ \E i \in FeedItems : ItemPublished(i)
       /\ UNCHANGED <<watching, refreshing, saving, life, settings, handed, feedChanges>>
    \/ /\ ScanBegins \/ TakeFile \/ \E f \in TorrentFiles : ScanFile(f)
       /\ UNCHANGED <<outside, refreshing, saving, life, settings, feedChanges>>
    \/ /\ \/ FeedIsDue \/ RefreshBegins \/ FetchEnds \/ StoreFetched \/ ReadRules
          \/ \E i \in FeedItems : Match(i)
          \/ FlagStored \/ SendMatch \/ RefreshEnds \/ TakeMatch
          \/ ForceRefresh \/ ForcedFetched \/ ForcedFlags \/ ForcedStores
       /\ UNCHANGED <<outside, watching, saving, life, settings, feedChanges>>
    \/ /\ ChangeSettings \/ AskToSave \/ WriterTakes \/ Quit
          \/ \E who \in {"writer", "exit"} : SaveSettings(who) \/ SaveFails(who)
       /\ UNCHANGED <<outside, watching, refreshing, life, handed>>
    \/ /\ BootFeeds
       /\ UNCHANGED <<outside, watching, stored, due, matched, refresh, forced, sent, overwritten,
                      saved, asking, settingsWriter, quitting, unwritten, handed, forgotten,
                      feedScenario, feedChanges>>
    \/ LifeEnds

FeedsSpec == FeedsInit /\ [][FeedsNext]_feedVars

(* ----------------------------- properties ------------------------------ *)

(* Every variable is of its type. *)
FeedsTypeOK ==
    /\ inFolder \subseteq TorrentFiles /\ published \subseteq FeedItems /\ saved \in Persisted
    /\ started \in BOOLEAN /\ settings \in Settings /\ processed \subseteq TorrentFiles
    /\ downloaded \subseteq FeedItems /\ stored \in [FeedItems -> {"absent", "new", "done"}]
    /\ due \in BOOLEAN /\ listing \subseteq TorrentFiles
    /\ found \in Seq(TorrentFiles) /\ matched \in Seq(FeedItems)
    /\ refresh \in [at : {"asleep", "fetching", "fetched", "stored", "matching", "marked",
                          "flagged"},
                    items : SUBSET FeedItems, rules : SUBSET Rules, item : SUBSET FeedItems]
    /\ forced \in [at : {"no", "fetching", "fetched", "flagged"},
                   items : SUBSET FeedItems, done : SUBSET FeedItems]
    /\ asking \in 0 .. MaxFeedChanges /\ {settingsDirty, quitting, unwritten} \subseteq BOOLEAN
    /\ settingsWriter \in [{"writer", "exit"} -> SUBSET Persisted]
    /\ handed \subseteq TorrentFiles \union FeedItems /\ known \subseteq FeedItems
    /\ sent \in [FeedItems -> 0 .. MaxFeedLives]
    /\ forgotten \in [FeedItems -> 0 .. MaxFeedLives] /\ overwritten \subseteq FeedItems
    /\ feedScenario \in FeedScenarios
    /\ feedChanges \in 0 .. MaxFeedChanges /\ feedLives \in 0 .. MaxFeedLives

(* In one life a file is handed to the engine once: what is processed has  *)
(* been handed over or waits its turn, in one place (processed_files).     *)
FilesOnce ==
    /\ processed = ToSet(found) \union (handed \cap TorrentFiles)
    /\ IsInjective(found) /\ ToSet(found) \cap handed = {}

(* So is an item, and none that an earlier life had marked and saved: a    *)
(* mark stems from that life or stands for exactly one event (downloaded). *)
ItemsOnce ==
    /\ downloaded = known \union ToSet(matched) \union (handed \cap FeedItems)
                          \union refresh.item
    /\ IsInjective(matched)
    /\ (ToSet(matched) \union refresh.item) \cap handed = {}
    /\ refresh.item \cap ToSet(matched) = {}
    /\ known \cap (ToSet(matched) \union handed \union refresh.item) = {}

(* Over all lives an item is sent again only for each life that ended      *)
(* before its mark was saved (get_downloaded_history,                      *)
(* restore_downloaded_history).                                            *)
ResentWhenForgotten == \A i \in FeedItems : sent[i] <= 1 + forgotten[i]

(* What the user is shown as downloaded is marked, and what is marked is   *)
(* shown so, unless a forced refresh stored flags it had read before.      *)
FlagsAgree ==
    \A i \in FeedItems :
        /\ stored[i] = "done" => i \in downloaded
        /\ stored[i] = "new" /\ i \in downloaded =>
               \/ i \in overwritten
               \/ refresh.at = "marked" /\ i \in refresh.item

(* Once nobody is about to ask for a save or saving, the file has the      *)
(* settings in force, whatever changed while the writer was at work,       *)
(* unless its last write has failed.                                       *)
SettingsSaved ==
    started /\ ~quitting /\ ~unwritten /\ asking = 0 /\ ~settingsDirty /\ settingsWriter = NoSaves =>
        saved.settings = settings

(* A finding of a watched folder or of a feed reaches the engine once, is  *)
(* remembered and shown as such, and the settings reach the file.          *)
FeedsKept ==
    FilesOnce /\ ItemsOnce /\ ResentWhenForgotten /\ FlagsAgree /\ SettingsSaved
=============================================================================
