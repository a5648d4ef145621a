---------------------------- MODULE OutsideProofs ----------------------------
(* What holds of the dealings with the outside for any feeds and files, any *)
(* number of tries and of datagrams lost, late or doubled, and any nodes.   *)
EXTENDS MCOutside, CountingLemmas

-----------------------------------------------------------------------------
(* Feeds and settings *)

(* A process that does not run has nothing in memory and no task.          *)
FeedsDown ==
    ~started =>
        /\ settings = DefaultSettings /\ downloaded = {} /\ processed = {} /\ stored = Unstored
        /\ listing = {} /\ found = <<>> /\ matched = <<>> /\ refresh = NoRefresh
        /\ forced = NotForced /\ asking = 0 /\ ~settingsDirty /\ settingsWriter = NoSaves
        /\ handed = {} /\ known = {} /\ overwritten = {} /\ ~quitting /\ ~unwritten

(* The refresh has at most one item in hand, and only between its mark and *)
(* its event.                                                              *)
OneInHand ==
    IF refresh.at \in {"marked", "flagged"} THEN \E i \in FeedItems : refresh.item = {i}
    ELSE refresh.item = {}

(* Each life sends an item once and forgets it once.                       *)
LivesCounted ==
    /\ asking <= feedChanges
    /\ \A i \in FeedItems :
          /\ forgotten[i] + (IF started THEN 1 ELSE 0) <= feedLives
          /\ sent[i] + (IF started /\ i \notin ToSet(matched) \union handed THEN 1 ELSE 0)
                 <= feedLives

(* What a life has saved it has marked.                                    *)
SavedIsMarked ==
    started => /\ saved.downloaded \subseteq downloaded
               /\ \A who \in {"writer", "exit"} : \A p \in settingsWriter[who] :
                      p.downloaded \subseteq downloaded

(* The mark of an item that was sent is in memory, in the file or counted  *)
(* as forgotten; an item whose event is still to come is not sent yet.     *)
SentIsMarked ==
    \A i \in FeedItems :
        sent[i] <= forgotten[i] +
            (IF i \in (IF started THEN downloaded \ refresh.item ELSE saved.downloaded)
             THEN 1 ELSE 0)

(* What a forced refresh has read as marked is marked.                     *)
ForcedRead == forced.done \subseteq downloaded

(* A change is about to be asked for, asked for, in the writer's snapshot  *)
(* or in the file, as long as nobody leaves.                               *)
ChangeIsUnderWay ==
    /\ started /\ ~quitting => settingsWriter["exit"] = {}
    /\ started /\ ~quitting /\ asking = 0 /\ ~settingsDirty =>
           IF settingsWriter["writer"] = {} THEN unwritten \/ saved.settings = settings
           ELSE \A p \in settingsWriter["writer"] : p.settings = settings

FeedsInv ==
    /\ FeedsTypeOK /\ FeedsDown /\ OneInHand /\ LivesCounted
    /\ FilesOnce /\ ItemsOnce
    /\ SavedIsMarked /\ SentIsMarked
    /\ ForcedRead /\ FlagsAgree
    /\ ChangeIsUnderWay

USE DEF outside, watching, refreshing, saving, life, feedVars

(* The kinds of steps: outside, of the watched folder, of the feed, of the *)
(* settings.                                                               *)
OutsideStep ==
    /\ \/ \E f \in TorrentFiles : FileArrives(f) \/ FileGoes(f)
       \/ \E i \in FeedItems : ItemPublished(i)
    /\ UNCHANGED <<watching, refreshing, saving, life, settings, handed, feedChanges>>
FolderStep ==
    /\ ScanBegins \/ TakeFile \/ \E f \in TorrentFiles : ScanFile(f)
    /\ UNCHANGED <<outside, refreshing, saving, life, settings, feedChanges>>
FeedStep ==
    /\ \/ FeedIsDue \/ RefreshBegins \/ FetchEnds \/ StoreFetched \/ ReadRules
       \/ \E i \in FeedItems : Match(i)
       \/ FlagStored \/ SendMatch \/ RefreshEnds \/ TakeMatch
       \/ ForceRefresh \/ ForcedFetched \/ ForcedFlags \/ ForcedStores
    /\ UNCHANGED <<outside, watching, saving, life, settings, feedChanges>>
SettingsStep ==
    /\ ChangeSettings \/ AskToSave \/ WriterTakes \/ Quit
       \/ \E who \in {"writer", "exit"} : SaveSettings(who) \/ SaveFails(who)
    /\ UNCHANGED <<outside, watching, refreshing, life, handed>>
BootStep ==
    /\ BootFeeds
    /\ UNCHANGED <<outside, watching, stored, due, matched, refresh, forced, sent, overwritten,
                   saved, asking, settingsWriter, quitting, unwritten, handed, forgotten,
                   feedScenario, feedChanges>>

(* What a step is: of the outside, of the folder, of the feed, of the      *)
(* settings, a boot or the end of a life.                                  *)
LEMMA FeedKinds ==
  ASSUME [FeedsNext]_feedVars
  PROVE  \/ OutsideStep \/ FolderStep \/ FeedStep \/ SettingsStep \/ BootStep \/ LifeEnds
         \/ UNCHANGED feedVars
BY DEF FeedsNext, OutsideStep, FolderStep, FeedStep, SettingsStep, BootStep

(* Sequences without a repetition and their elements.                      *)
LEMMA Appended ==
  ASSUME NEW S, NEW s \in Seq(S), NEW x
  PROVE  /\ ToSet(Append(s, x)) = ToSet(s) \union {x}
         /\ IsInjective(s) /\ x \notin ToSet(s) => IsInjective(Append(s, x))
<1>1. /\ Len(Append(s, x)) = Len(s) + 1 /\ Append(s, x)[Len(s) + 1] = x
      /\ \A i \in 1 .. Len(s) : Append(s, x)[i] = s[i]
  OBVIOUS
<1>2. DOMAIN Append(s, x) = 1 .. Len(s) + 1 /\ DOMAIN s = 1 .. Len(s) /\ Len(s) \in Nat
  OBVIOUS
<1>3. ToSet(Append(s, x)) = ToSet(s) \union {x}
  BY <1>1, <1>2 DEF ToSet
<1>4. ASSUME IsInjective(s), x \notin ToSet(s) PROVE IsInjective(Append(s, x))
  BY <1>1, <1>2, <1>4 DEF ToSet, IsInjective
<1>. QED BY <1>3, <1>4

(* What taking the first of a sequence leaves.                             *)
LEMMA Taken ==
  ASSUME NEW S, NEW s \in Seq(S), s # <<>>
  PROVE  /\ Head(s) \in S /\ Tail(s) \in Seq(S)
         /\ ToSet(s) = ToSet(Tail(s)) \union {Head(s)}
         /\ IsInjective(s) => IsInjective(Tail(s)) /\ Head(s) \notin ToSet(Tail(s))
<1>1. /\ Len(s) \in Nat /\ Len(s) > 0 /\ DOMAIN s = 1 .. Len(s) /\ Head(s) = s[1]
      /\ Tail(s) \in Seq(S) /\ Len(Tail(s)) = Len(s) - 1
      /\ DOMAIN Tail(s) = 1 .. Len(s) - 1
      /\ \A i \in 1 .. Len(s) - 1 : Tail(s)[i] = s[i + 1]
  OBVIOUS
<1>2. s[1] \in S
  BY <1>1
<1>3. \A i \in 1 .. Len(s) : i = 1 \/ (i - 1 \in 1 .. Len(s) - 1 /\ s[i] = Tail(s)[i - 1])
  BY <1>1
<1>4. \A i \in 1 .. Len(s) - 1 : i + 1 \in 1 .. Len(s) /\ i + 1 # 1
  BY <1>1
<1>5. ToSet(s) = ToSet(Tail(s)) \union {Head(s)}
  <2>1. ASSUME NEW x \in ToSet(s) PROVE x \in ToSet(Tail(s)) \union {Head(s)}
    <3>1. PICK i \in 1 .. Len(s) : x = s[i]
      BY <1>1 DEF ToSet
    <3>2. CASE i = 1
      BY <1>1, <3>1, <3>2
    <3>3. CASE i - 1 \in 1 .. Len(s) - 1 /\ s[i] = Tail(s)[i - 1]
      BY <1>1, <3>1, <3>3 DEF ToSet
    <3>. QED BY <1>3, <3>2, <3>3
  <2>2. \A x \in ToSet(Tail(s)) : x \in ToSet(s)
    BY <1>1, <1>4 DEF ToSet
  <2>3. Head(s) \in ToSet(s)
    BY <1>1 DEF ToSet
  <2>. QED BY <2>1, <2>2, <2>3
<1>6. ASSUME IsInjective(s) PROVE IsInjective(Tail(s)) /\ Head(s) \notin ToSet(Tail(s))
  BY <1>1, <1>4, <1>6 DEF ToSet, IsInjective
<1>. QED BY <1>1, <1>2, <1>5, <1>6

(* ------------------------------- types --------------------------------- *)

(* The values that a life begins with are of their types.                  *)
LEMMA DefaultTypes ==
  /\ DefaultSettings \in Settings
  /\ NoRefresh \in [at : {"asleep", "fetching", "fetched", "stored", "matching", "marked",
                          "flagged"},
                    items : SUBSET FeedItems, rules : SUBSET Rules, item : SUBSET FeedItems]
  /\ NotForced \in [at : {"no", "fetching", "fetched", "flagged"},
                    items : SUBSET FeedItems, done : SUBSET FeedItems]
  /\ Unstored \in [FeedItems -> {"absent", "new", "done"}]
  /\ NoSaves \in [{"writer", "exit"} -> SUBSET Persisted]
BY DEF DefaultSettings, Settings, NoRefresh, NotForced, Unstored, NoSaves

LEMMA VariantTypes == ASSUME NEW s \in Settings PROVE Variants(s) \subseteq Settings
BY DEF Variants, Settings

FolderTyped ==
    /\ inFolder \subseteq TorrentFiles /\ published \subseteq FeedItems
    /\ processed \subseteq TorrentFiles /\ listing \subseteq TorrentFiles
    /\ found \in Seq(TorrentFiles) /\ handed \subseteq TorrentFiles \union FeedItems
RefreshTyped ==
    /\ downloaded \subseteq FeedItems /\ stored \in [FeedItems -> {"absent", "new", "done"}]
    /\ due \in BOOLEAN /\ matched \in Seq(FeedItems) /\ overwritten \subseteq FeedItems
    /\ refresh \in [at : {"asleep", "fetching", "fetched", "stored", "matching", "marked",
                          "flagged"},
                    items : SUBSET FeedItems, rules : SUBSET Rules, item : SUBSET FeedItems]
    /\ forced \in [at : {"no", "fetching", "fetched", "flagged"},
                   items : SUBSET FeedItems, done : SUBSET FeedItems]
SettingsTyped ==
    /\ settings \in Settings /\ saved \in Persisted
    /\ settingsWriter \in [{"writer", "exit"} -> SUBSET Persisted]
FlagsTyped ==
    /\ started \in BOOLEAN /\ settingsDirty \in BOOLEAN
    /\ quitting \in BOOLEAN /\ unwritten \in BOOLEAN
CountsTyped ==
    /\ asking \in 0 .. MaxFeedChanges /\ feedChanges \in 0 .. MaxFeedChanges
    /\ feedLives \in 0 .. MaxFeedLives
LivesTyped ==
    /\ sent \in [FeedItems -> 0 .. MaxFeedLives] /\ forgotten \in [FeedItems -> 0 .. MaxFeedLives]
    /\ known \subseteq FeedItems /\ feedScenario \in FeedScenarios

LEMMA FeedsTyped ==
  /\ FeedsTypeOK <=> /\ FolderTyped /\ RefreshTyped /\ SettingsTyped /\ FlagsTyped /\ CountsTyped
                     /\ LivesTyped
  /\ FeedsTypeOK' <=> /\ FolderTyped' /\ RefreshTyped' /\ SettingsTyped' /\ FlagsTyped'
                      /\ CountsTyped' /\ LivesTyped'
BY DEF FeedsTypeOK, FolderTyped, RefreshTyped, SettingsTyped, FlagsTyped, CountsTyped, LivesTyped

LEMMA FeedsTypeInit == FeedsInit => FeedsTypeOK
<1>. SUFFICES ASSUME FeedsInit PROVE FeedsTypeOK
  OBVIOUS
<1>1. FolderTyped /\ FlagsTyped
  <2>1. FolderTyped
    BY DEF FeedsInit, FolderTyped
  <2>2. FlagsTyped
    BY DEF FeedsInit, FlagsTyped
  <2>. QED BY <2>1, <2>2
<1>2. RefreshTyped
  <2>1. matched \in Seq(FeedItems) /\ (due \in BOOLEAN)
    <3>1. matched \in Seq(FeedItems)
      BY DEF FeedsInit
    <3>2. due \in BOOLEAN
      BY DEF FeedsInit
    <3>. QED BY <3>1, <3>2
  <2>2. downloaded \subseteq FeedItems /\ overwritten \subseteq FeedItems
    BY DEF FeedsInit
  <2>. QED BY <2>1, <2>2, DefaultTypes DEF FeedsInit, RefreshTyped
<1>3. SettingsTyped
  BY DefaultTypes DEF FeedsInit, SettingsTyped, Persisted, Settings, DefaultSettings
<1>4. CountsTyped /\ LivesTyped
  BY FeedsAssumption DEF FeedsInit, CountsTyped, LivesTyped, Never
<1>. QED BY <1>1, <1>2, <1>3, <1>4, FeedsTyped

(* The lists grow by what they do not hold yet, which is why the types     *)
(* need that things come once.                                             *)
LEMMA FeedsTypeStep ==
  FeedsTypeOK /\ FeedsDown /\ OneInHand /\ LivesCounted /\ ItemsOnce /\ [FeedsNext]_feedVars
      => FeedsTypeOK'
<1>. SUFFICES ASSUME FeedsTypeOK, FeedsDown, OneInHand, LivesCounted, ItemsOnce,
                    [FeedsNext]_feedVars
             PROVE  FeedsTypeOK'
  OBVIOUS
<1>1. /\ FolderTyped /\ RefreshTyped /\ SettingsTyped /\ FlagsTyped /\ CountsTyped /\ LivesTyped
      /\ MaxFeedLives \in Nat /\ MaxFeedChanges \in Nat
  BY FeedsTyped, FeedsAssumption
<1>2. FolderTyped'
  <2>1. CASE OutsideStep
    BY <1>1, <2>1 DEF OutsideStep, FileArrives, FileGoes, ItemPublished, FolderTyped
  <2>2. CASE FolderStep
    <3>1. CASE ScanBegins \/ \E f \in TorrentFiles : ScanFile(f)
      BY <1>1, <2>2, <3>1 DEF FolderStep, ScanBegins, ScanFile, FolderTyped
    <3>2. CASE TakeFile
      <4>1. Head(found) \in TorrentFiles /\ Tail(found) \in Seq(TorrentFiles)
        BY <1>1, <3>2, Taken DEF TakeFile, FolderTyped
      <4>. QED BY <1>1, <2>2, <3>2, <4>1 DEF FolderStep, TakeFile, FolderTyped
    <3>. QED BY <2>2, <3>1, <3>2 DEF FolderStep
  <2>3. CASE FeedStep
    <3>1. CASE TakeMatch
      <4>1. Head(matched) \in FeedItems
        BY <1>1, <3>1, Taken DEF TakeMatch, RefreshTyped
      <4>. QED BY <1>1, <2>3, <3>1, <4>1 DEF FeedStep, TakeMatch, FolderTyped
    <3>2. CASE ~TakeMatch
      BY <1>1, <2>3, <3>2 DEF FeedStep, FeedIsDue, RefreshBegins, FetchEnds, StoreFetched,
         ReadRules, Match, FlagStored, SendMatch, RefreshEnds, ForceRefresh, ForcedFetched,
         ForcedFlags, ForcedStores, FolderTyped
    <3>. QED BY <3>1, <3>2
  <2>4. CASE SettingsStep \/ BootStep \/ UNCHANGED feedVars
    BY <1>1, <2>4 DEF SettingsStep, BootStep, FolderTyped
  <2>5. CASE LifeEnds
    BY <1>1, <2>5 DEF LifeEnds, FolderTyped
  <2>. QED BY <2>1, <2>2, <2>3, <2>4, <2>5, FeedKinds
<1>3. RefreshTyped'
  <2>. USE DEF RefreshTyped
  <2>1. CASE FeedStep
    <3>1. CASE FeedIsDue \/ RefreshBegins \/ ReadRules
      BY <1>1, <3>1 DEF FeedIsDue, RefreshBegins, ReadRules, SettingsTyped, Settings
    <3>2. CASE FetchEnds \/ RefreshEnds
      BY <1>1, <3>2, DefaultTypes DEF FetchEnds, RefreshEnds, Fetched, FolderTyped
    <3>3. CASE StoreFetched
      BY <1>1, <3>3 DEF StoreFetched, Flagged
    <3>4. ASSUME NEW i \in FeedItems, Match(i) PROVE RefreshTyped'
      <4>1. refresh'.at \in {"matching", "marked"} /\ downloaded' \subseteq FeedItems
        BY <1>1, <3>4 DEF Match
      <4>2. /\ refresh'.items = refresh.items \ {i} /\ refresh'.rules = refresh.rules
            /\ refresh'.item \in {refresh.item, {i}}
            /\ DOMAIN refresh' = {"at", "items", "rules", "item"}
        BY <1>1, <3>4 DEF Match
      <4>3. refresh' = [at |-> refresh'.at, items |-> refresh'.items, rules |-> refresh'.rules,
                        item |-> refresh'.item]
        BY <1>1, <3>4 DEF Match
      <4>4. refresh'.items \subseteq FeedItems /\ refresh'.item \subseteq FeedItems
            /\ refresh'.rules \subseteq Rules
        BY <1>1, <4>2
      <4>5. refresh' \in [at : {"asleep", "fetching", "fetched", "stored", "matching", "marked",
                               "flagged"},
                         items : SUBSET FeedItems, rules : SUBSET Rules, item : SUBSET FeedItems]
        BY <4>1, <4>3, <4>4
      <4>. QED BY <1>1, <3>4, <4>1, <4>5 DEF Match
    <3>5. CASE FlagStored
      BY <1>1, <3>5 DEF FlagStored
    <3>6. CASE SendMatch
      <4>1. PICK i \in FeedItems : refresh.item = {i}
        BY <3>6 DEF SendMatch, OneInHand
      <4>2. matched' = Append(matched, i) /\ matched' \in Seq(FeedItems)
        BY <1>1, <3>6, <4>1 DEF SendMatch
      <4>. QED BY <1>1, <3>6, <4>2 DEF SendMatch
    <3>7. CASE TakeMatch
      <4>1. Tail(matched) \in Seq(FeedItems)
        BY <1>1, <3>7, Taken DEF TakeMatch
      <4>. QED BY <1>1, <3>7, <4>1 DEF TakeMatch
    <3>8. CASE ForceRefresh \/ ForcedFlags
      BY <1>1, <3>8 DEF ForceRefresh, ForcedFlags
    <3>9. CASE ForcedFetched \/ ForcedStores
      BY <1>1, <3>9, DefaultTypes DEF ForcedFetched, ForcedStores, Fetched, Flagged, FolderTyped
    <3>. QED BY <2>1, <3>1, <3>2, <3>3, <3>4, <3>5, <3>6, <3>7, <3>8, <3>9 DEF FeedStep
  <2>2. CASE OutsideStep \/ FolderStep \/ SettingsStep \/ UNCHANGED feedVars
    BY <1>1, <2>2 DEF OutsideStep, FolderStep, SettingsStep
  <2>3. CASE BootStep
    BY <1>1, <2>3 DEF BootStep, BootFeeds, SettingsTyped, Persisted
  <2>4. CASE LifeEnds
    <3>1. matched' \in Seq(FeedItems) /\ (due' \in BOOLEAN)
      <4>1. matched' \in Seq(FeedItems)
        BY <2>4 DEF LifeEnds
      <4>2. due' \in BOOLEAN
        BY <2>4 DEF LifeEnds
      <4>. QED BY <4>1, <4>2
    <3>2. downloaded' \subseteq FeedItems /\ overwritten' \subseteq FeedItems
      BY <2>4 DEF LifeEnds
    <3>. QED BY <2>4, <3>1, <3>2, DefaultTypes DEF LifeEnds
  <2>. QED BY <2>1, <2>2, <2>3, <2>4, FeedKinds
<1>4. SettingsTyped'
  <2>. USE DEF SettingsTyped
  <2>1. CASE SettingsStep
    <3>1. Snapshot \in Persisted
      BY <1>1 DEF Snapshot, Persisted, RefreshTyped
    <3>2. CASE ChangeSettings
      BY <1>1, <3>2, VariantTypes DEF ChangeSettings
    <3>3. CASE ~ChangeSettings
      BY <1>1, <2>1, <3>1, <3>3 DEF SettingsStep, AskToSave, WriterTakes, Quit, SaveSettings,
         SaveFails
    <3>. QED BY <3>2, <3>3
  <2>2. CASE OutsideStep \/ FolderStep \/ FeedStep \/ UNCHANGED feedVars
    BY <1>1, <2>2 DEF OutsideStep, FolderStep, FeedStep
  <2>3. CASE BootStep
    BY <1>1, <2>3 DEF BootStep, BootFeeds, Persisted
  <2>4. CASE LifeEnds
    BY <1>1, <2>4, DefaultTypes DEF LifeEnds
  <2>. QED BY <2>1, <2>2, <2>3, <2>4, FeedKinds
<1>5. FlagsTyped'
  <2>. USE DEF FlagsTyped
  <2>1. CASE SettingsStep
    BY <1>1, <2>1 DEF SettingsStep, ChangeSettings, AskToSave, WriterTakes, Quit, SaveSettings,
       SaveFails
  <2>2. CASE OutsideStep \/ FolderStep \/ FeedStep \/ UNCHANGED feedVars
    BY <1>1, <2>2 DEF OutsideStep, FolderStep, FeedStep
  <2>3. CASE BootStep \/ LifeEnds
    BY <1>1, <2>3 DEF BootStep, BootFeeds, LifeEnds
  <2>. QED BY <2>1, <2>2, <2>3, FeedKinds
<1>6. CountsTyped'
  <2>. USE DEF CountsTyped
  <2>1. CASE SettingsStep
    BY <1>1, <2>1 DEF SettingsStep, ChangeSettings, AskToSave, WriterTakes, Quit, SaveSettings,
       SaveFails, LivesCounted
  <2>2. CASE OutsideStep \/ FolderStep \/ FeedStep \/ UNCHANGED feedVars
    BY <1>1, <2>2 DEF OutsideStep, FolderStep, FeedStep
  <2>3. CASE BootStep
    BY <1>1, <2>3 DEF BootStep, BootFeeds
  <2>4. CASE LifeEnds
    BY <1>1, <2>4 DEF LifeEnds
  <2>. QED BY <2>1, <2>2, <2>3, <2>4, FeedKinds
<1>7. LivesTyped'
  <2>. USE DEF LivesTyped
  <2>1. CASE FeedStep
    <3>1. CASE SendMatch
      <4>1. PICK i \in FeedItems : refresh.item = {i}
        BY <3>1 DEF SendMatch, OneInHand
      <4>2. sent[i] + 1 \in 0 .. MaxFeedLives
        <5>1. started
          BY <3>1, <4>1 DEF SendMatch, FeedsDown, NoRefresh
        <5>2. i \notin ToSet(matched) \union handed
          BY <4>1 DEF ItemsOnce
        <5>. QED BY <1>1, <5>1, <5>2 DEF LivesCounted, CountsTyped
      <4>. QED BY <1>1, <2>1, <3>1, <4>1, <4>2 DEF FeedStep, SendMatch
    <3>2. CASE ~SendMatch
      BY <1>1, <2>1, <3>2 DEF FeedStep, FeedIsDue, RefreshBegins, FetchEnds, StoreFetched,
         ReadRules, Match, FlagStored, TakeMatch, RefreshEnds, ForceRefresh, ForcedFetched,
         ForcedFlags, ForcedStores
    <3>. QED BY <3>1, <3>2
  <2>2. CASE OutsideStep \/ FolderStep \/ SettingsStep \/ UNCHANGED feedVars
    BY <1>1, <2>2 DEF OutsideStep, FolderStep, SettingsStep
  <2>3. CASE BootStep
    BY <1>1, <2>3 DEF BootStep, BootFeeds, SettingsTyped, Persisted
  <2>4. CASE LifeEnds
    <3>1. \A i \in FeedItems : forgotten[i] + 1 \in 0 .. MaxFeedLives
      BY <1>1, <2>4 DEF LifeEnds, LivesCounted, CountsTyped
    <3>. QED BY <1>1, <2>4, <3>1 DEF LifeEnds
  <2>. QED BY <2>1, <2>2, <2>3, <2>4, FeedKinds
<1>. QED BY <1>2, <1>3, <1>4, <1>5, <1>6, <1>7, FeedsTyped

(* ----------------------- lives and the two queues ----------------------- *)

(* Only a process that runs takes a step of its own.                       *)
LEMMA FeedsAwake ==
  ASSUME FeedsDown, FolderStep \/ FeedStep \/ SettingsStep
  PROVE  started /\ started'
<1>1. CASE FolderStep
  BY <1>1 DEF FolderStep, ScanBegins, ScanFile, TakeFile, FeedsDown
<1>2. CASE FeedStep
  <2>1. CASE FeedIsDue \/ RefreshBegins \/ ForceRefresh
    BY <1>2, <2>1 DEF FeedStep, FeedIsDue, RefreshBegins, ForceRefresh
  <2>2. CASE FetchEnds \/ StoreFetched \/ ReadRules \/ FlagStored \/ SendMatch \/ RefreshEnds
    <3>1. refresh.at # "asleep"
      BY <2>2 DEF FetchEnds, StoreFetched, ReadRules, FlagStored, SendMatch, RefreshEnds
    <3>. QED BY <1>2, <3>1 DEF FeedStep, FeedsDown, NoRefresh
  <2>3. CASE \E i \in FeedItems : Match(i)
    <3>1. refresh.at # "asleep"
      BY <2>3 DEF Match
    <3>. QED BY <1>2, <3>1 DEF FeedStep, FeedsDown, NoRefresh
  <2>4. CASE TakeMatch
    BY <1>2, <2>4 DEF FeedStep, TakeMatch, FeedsDown
  <2>5. CASE ForcedFetched \/ ForcedFlags \/ ForcedStores
    <3>1. forced.at # "no"
      BY <2>5 DEF ForcedFetched, ForcedFlags, ForcedStores
    <3>. QED BY <1>2, <3>1 DEF FeedStep, FeedsDown, NotForced
  <2>. QED BY <1>2, <2>1, <2>2, <2>3, <2>4, <2>5 DEF FeedStep
<1>3. CASE SettingsStep
  BY <1>3 DEF SettingsStep, ChangeSettings, AskToSave, WriterTakes, Quit, SaveSettings, SaveFails,
     FeedsDown, NoSaves
<1>. QED BY <1>1, <1>2, <1>3

(* A process that is down has nothing under way.                           *)
LEMMA FeedsDownStep == FeedsDown /\ [FeedsNext]_feedVars => FeedsDown'
<1>. SUFFICES ASSUME FeedsDown, [FeedsNext]_feedVars PROVE FeedsDown'
  OBVIOUS
<1>1. CASE FolderStep \/ FeedStep \/ SettingsStep
  BY <1>1, FeedsAwake DEF FeedsDown
<1>2. CASE OutsideStep \/ UNCHANGED feedVars
  BY <1>2 DEF OutsideStep, FeedsDown
<1>3. CASE BootStep
  BY <1>3 DEF BootStep, BootFeeds, FeedsDown
<1>4. CASE LifeEnds
  BY <1>4 DEF LifeEnds, FeedsDown
<1>. QED BY <1>1, <1>2, <1>3, <1>4, FeedKinds

(* A match takes an item into the hand or leaves everything as it is.      *)
LEMMA MatchTakes ==
  ASSUME FeedsTypeOK, OneInHand, NEW i \in FeedItems, Match(i)
  PROVE  /\ UNCHANGED <<matched, handed, sent>> /\ refresh.item = {}
         /\ \/ refresh'.at = "matching" /\ refresh'.item = {} /\ downloaded' = downloaded
            \/ /\ refresh'.at = "marked" /\ refresh'.item = {i}
               /\ i \notin downloaded /\ downloaded' = downloaded \union {i}
<1>1. UNCHANGED <<matched, handed, sent>> /\ refresh.item = {} /\ refresh.at = "matching"
  BY DEF Match, OneInHand
<1>2. refresh \in [at : {"asleep", "fetching", "fetched", "stored", "matching", "marked",
                         "flagged"},
                   items : SUBSET FeedItems, rules : SUBSET Rules, item : SUBSET FeedItems]
  BY DEF FeedsTypeOK
<1>3. CASE /\ refresh' = [refresh EXCEPT !.items = @ \ {i}]
           /\ UNCHANGED downloaded
  BY <1>1, <1>2, <1>3
<1>4. CASE /\ i \notin downloaded
           /\ refresh' = [refresh EXCEPT !.at = "marked", !.items = @ \ {i}, !.item = {i}]
           /\ downloaded' = downloaded \union {i}
  BY <1>1, <1>2, <1>4
<1>. QED BY <1>3, <1>4 DEF Match

(* A refresh that has just fetched or has come to its end has no item in   *)
(* hand.                                                                   *)
LEMMA RefreshRests ==
  ASSUME FeedsTypeOK, OneInHand, FetchEnds \/ RefreshEnds
  PROVE  /\ UNCHANGED <<matched, handed, sent, downloaded>>
         /\ refresh.item = {} /\ refresh'.item = {} /\ refresh'.at \in {"asleep", "fetched"}
<1>1. refresh.item = {} /\ UNCHANGED <<matched, handed, sent, downloaded>>
  BY DEF FetchEnds, RefreshEnds, OneInHand
<1>2. refresh \in [at : {"asleep", "fetching", "fetched", "stored", "matching", "marked",
                         "flagged"},
                   items : SUBSET FeedItems, rules : SUBSET Rules, item : SUBSET FeedItems]
  BY DEF FeedsTypeOK
<1>3. CASE refresh' = NoRefresh
  BY <1>1, <1>3 DEF NoRefresh
<1>4. CASE refresh' = Fetched(refresh)
  BY <1>1, <1>2, <1>4 DEF Fetched
<1>. QED BY <1>3, <1>4 DEF FetchEnds, RefreshEnds

(* The loop takes an item into its hand only after it has put the one      *)
(* before down.                                                            *)
LEMMA OneInHandStep ==
  FeedsTypeOK /\ FeedsDown /\ OneInHand /\ [FeedsNext]_feedVars => OneInHand'
<1>. SUFFICES ASSUME FeedsTypeOK, FeedsDown, OneInHand, [FeedsNext]_feedVars PROVE OneInHand'
  OBVIOUS
<1>. USE DEF OneInHand
<1>1. CASE FeedStep
  <2>1. CASE RefreshBegins \/ StoreFetched \/ ReadRules \/ FlagStored \/ SendMatch
    BY <2>1 DEF RefreshBegins, StoreFetched, ReadRules, FlagStored, SendMatch, FeedsTypeOK
  <2>2. CASE FetchEnds \/ RefreshEnds
    BY <2>2, RefreshRests
  <2>3. ASSUME NEW i \in FeedItems, Match(i) PROVE OneInHand'
    BY <2>3, MatchTakes
  <2>4. CASE FeedIsDue \/ TakeMatch \/ ForceRefresh \/ ForcedFetched \/ ForcedFlags \/ ForcedStores
    BY <2>4 DEF FeedIsDue, TakeMatch, ForceRefresh, ForcedFetched, ForcedFlags, ForcedStores
  <2>. QED BY <1>1, <2>1, <2>2, <2>3, <2>4 DEF FeedStep
<1>2. CASE OutsideStep \/ FolderStep \/ SettingsStep \/ BootStep \/ UNCHANGED feedVars
  BY <1>2 DEF OutsideStep, FolderStep, SettingsStep, BootStep
<1>3. CASE LifeEnds
  BY <1>3 DEF LifeEnds, NoRefresh
<1>. QED BY <1>1, <1>2, <1>3, FeedKinds

(* Every step but the start and the end of a process keeps the marks and   *)
(* adds to them what it takes in hand; only the sending counts.            *)
LEMMA MarksGrow ==
  ASSUME FeedsTypeOK, OneInHand, FeedStep
  PROVE  /\ UNCHANGED <<started, known, forgotten, saved, settingsWriter, feedLives, asking,
                         feedChanges>>
         /\ downloaded \subseteq downloaded'
         /\ \/ /\ UNCHANGED <<matched, handed, sent>>
               /\ downloaded' \ downloaded = refresh'.item \ refresh.item
               /\ refresh.item \subseteq refresh'.item /\ refresh'.item \subseteq FeedItems
            \/ \E i \in FeedItems : /\ refresh.item = {i} /\ refresh'.item = {}
                                    /\ matched' = Append(matched, i)
                                    /\ sent' = [sent EXCEPT ![i] = @ + 1]
                                    /\ UNCHANGED <<downloaded, handed>>
            \/ /\ matched # <<>> /\ matched' = Tail(matched)
               /\ handed' = handed \union {Head(matched)}
               /\ UNCHANGED <<downloaded, refresh, sent>>
<1>1. UNCHANGED <<started, known, forgotten, saved, settingsWriter, feedLives, asking, feedChanges>>
  BY DEF FeedStep
<1>8. refresh.item \subseteq FeedItems
  BY DEF OneInHand
<1>2. CASE SendMatch
  <2>1. PICK i \in FeedItems : refresh.item = {i}
    BY <1>2 DEF SendMatch, OneInHand
  <2>2. /\ matched' = Append(matched, i) /\ refresh'.item = {}
        /\ sent' = [sent EXCEPT ![i] = @ + 1] /\ UNCHANGED <<downloaded, handed>>
    BY <1>2, <2>1 DEF SendMatch, FeedsTypeOK
  <2>. QED BY <1>1, <2>1, <2>2
<1>3. CASE TakeMatch
  BY <1>1, <1>3 DEF TakeMatch
<1>4. ASSUME NEW i \in FeedItems, Match(i)
      PROVE  /\ UNCHANGED <<matched, handed, sent>> /\ downloaded \subseteq downloaded'
             /\ downloaded' \ downloaded = refresh'.item \ refresh.item
             /\ refresh.item \subseteq refresh'.item /\ refresh'.item \subseteq FeedItems
  BY <1>4, MatchTakes
<1>5. CASE FeedIsDue \/ ForceRefresh \/ ForcedFetched \/ ForcedFlags \/ ForcedStores
  BY <1>1, <1>5, <1>8 DEF FeedIsDue, ForceRefresh, ForcedFetched, ForcedFlags, ForcedStores
<1>6. CASE RefreshBegins \/ StoreFetched \/ ReadRules \/ FlagStored
  <2>1. refresh'.item = refresh.item /\ UNCHANGED <<matched, handed, sent, downloaded>>
    BY <1>6 DEF RefreshBegins, StoreFetched, ReadRules, FlagStored, FeedsTypeOK
  <2>. QED BY <1>1, <1>8, <2>1
<1>7. CASE FetchEnds \/ RefreshEnds
  BY <1>1, <1>7, RefreshRests
<1>. QED BY <1>1, <1>2, <1>3, <1>4, <1>5, <1>6, <1>7 DEF FeedStep

(* A scan takes the files that are not known, and knows them from then on. *)
LEMMA FilesOnceStep ==
  FeedsTypeOK /\ FeedsDown /\ FilesOnce /\ ItemsOnce /\ [FeedsNext]_feedVars => FilesOnce'
<1>. SUFFICES ASSUME FeedsTypeOK, FeedsDown, FilesOnce, ItemsOnce, [FeedsNext]_feedVars
             PROVE  FilesOnce'
  OBVIOUS
<1>. USE DEF FilesOnce
<1>1. /\ found \in Seq(TorrentFiles) /\ matched \in Seq(FeedItems) /\ listing \subseteq TorrentFiles
      /\ TorrentFiles \cap FeedItems = {}
  BY FeedsAssumption DEF FeedsTypeOK
<1>2. CASE FolderStep
  <2>1. CASE ScanBegins
    BY <1>2, <2>1 DEF FolderStep, ScanBegins
  <2>2. ASSUME NEW f \in TorrentFiles, ScanFile(f) PROVE FilesOnce'
    <3>1. CASE f \in processed
      BY <2>2, <3>1 DEF ScanFile
    <3>2. CASE f \notin processed
      <4>1. found' = Append(found, f) /\ processed' = processed \union {f} /\ handed' = handed
        BY <2>2, <3>2 DEF ScanFile
      <4>2. f \notin ToSet(found) /\ f \notin handed
        BY <3>2
      <4>3. ToSet(found') = ToSet(found) \union {f} /\ IsInjective(found')
        BY <1>1, <4>1, <4>2, Appended
      <4>. QED BY <4>1, <4>2, <4>3
    <3>. QED BY <3>1, <3>2
  <2>3. CASE TakeFile
    <3>1. /\ Head(found) \in TorrentFiles
          /\ ToSet(found) = ToSet(found') \union {Head(found)}
          /\ IsInjective(found') /\ Head(found) \notin ToSet(found')
      BY <1>1, <2>3, Taken DEF TakeFile
    <3>2. handed' = handed \union {Head(found)} /\ processed' = processed
      BY <2>3 DEF TakeFile
    <3>. QED BY <3>1, <3>2
  <2>. QED BY <1>2, <2>1, <2>2, <2>3 DEF FolderStep
<1>3. CASE FeedStep
  <2>1. CASE TakeMatch
    <3>1. Head(matched) \in FeedItems /\ handed' = handed \union {Head(matched)}
      BY <1>1, <2>1, Taken DEF TakeMatch
    <3>2. ToSet(found) \subseteq TorrentFiles
      BY <1>1 DEF ToSet
    <3>. QED BY <1>1, <1>3, <3>1, <3>2 DEF FeedStep
  <2>2. CASE ~TakeMatch
    BY <1>3, <2>2 DEF FeedStep, FeedIsDue, RefreshBegins, FetchEnds, StoreFetched,
       ReadRules, Match, FlagStored, SendMatch, RefreshEnds, ForceRefresh, ForcedFetched,
       ForcedFlags, ForcedStores
  <2>. QED BY <2>1, <2>2
<1>4. CASE OutsideStep \/ SettingsStep \/ BootStep \/ UNCHANGED feedVars
  BY <1>4 DEF OutsideStep, SettingsStep, BootStep
<1>5. CASE LifeEnds
  BY <1>5 DEF LifeEnds, ToSet, IsInjective
<1>. QED BY <1>2, <1>3, <1>4, <1>5, FeedKinds

(* An item is marked before it is sent, and only unmarked ones match.      *)
LEMMA ItemsOnceStep ==
  FeedsTypeOK /\ FeedsDown /\ OneInHand /\ ItemsOnce /\ [FeedsNext]_feedVars => ItemsOnce'
<1>. SUFFICES ASSUME FeedsTypeOK, FeedsDown, OneInHand, ItemsOnce, [FeedsNext]_feedVars
             PROVE  ItemsOnce'
  OBVIOUS
<1>. USE DEF ItemsOnce
<1>1. /\ found \in Seq(TorrentFiles) /\ matched \in Seq(FeedItems) /\ known \subseteq FeedItems
      /\ TorrentFiles \cap FeedItems = {} /\ handed \subseteq TorrentFiles \union FeedItems
      /\ ToSet(matched) \subseteq FeedItems
  BY FeedsAssumption DEF FeedsTypeOK, ToSet
<1>2. CASE FeedStep
  <2>0. UNCHANGED known
    BY <1>2, MarksGrow
  <2>1. CASE /\ UNCHANGED <<matched, handed>> /\ downloaded \subseteq downloaded'
             /\ downloaded' \ downloaded = refresh'.item \ refresh.item
             /\ refresh.item \subseteq refresh'.item /\ refresh'.item \subseteq FeedItems
    <3>1. UNCHANGED ToSet(matched) /\ UNCHANGED IsInjective(matched)
      BY <2>1
    <3>2. \A x \in refresh'.item \ refresh.item :
              x \notin ToSet(matched) /\ x \notin handed /\ x \notin known
      BY <2>1
    <3>3. downloaded' = downloaded \union refresh'.item
      BY <2>1
    <3>. QED BY <2>0, <2>1, <3>1, <3>2, <3>3
  <2>2. ASSUME NEW i \in FeedItems, refresh.item = {i}, refresh'.item = {},
               matched' = Append(matched, i), UNCHANGED <<downloaded, handed>>
        PROVE  ItemsOnce'
    <3>1. i \notin ToSet(matched) /\ i \notin handed /\ i \notin known
      BY <2>2
    <3>2. ToSet(matched') = ToSet(matched) \union {i} /\ IsInjective(matched')
      BY <1>1, <2>2, <3>1, Appended
    <3>. QED BY <2>0, <2>2, <3>1, <3>2
  <2>3. CASE /\ matched # <<>> /\ matched' = Tail(matched)
             /\ handed' = handed \union {Head(matched)} /\ UNCHANGED <<downloaded, refresh>>
    <3>1. /\ Head(matched) \in FeedItems
          /\ ToSet(matched) = ToSet(matched') \union {Head(matched)}
          /\ IsInjective(matched') /\ Head(matched) \notin ToSet(matched')
      BY <1>1, <2>3, Taken
    <3>. QED BY <1>1, <2>0, <2>3, <3>1
  <2>. QED BY <1>2, <2>1, <2>2, <2>3, MarksGrow
<1>3. CASE FolderStep
  <2>1. CASE TakeFile
    <3>1. Head(found) \in TorrentFiles /\ handed' = handed \union {Head(found)}
      BY <1>1, <2>1, Taken DEF TakeFile
    <3>2. refresh.item \subseteq FeedItems
      BY DEF FeedsTypeOK
    <3>. QED BY <1>1, <1>3, <3>1, <3>2 DEF FolderStep
  <2>2. CASE ~TakeFile
    BY <1>3, <2>2 DEF FolderStep, ScanBegins, ScanFile
  <2>. QED BY <2>1, <2>2
<1>4. CASE OutsideStep \/ SettingsStep \/ UNCHANGED feedVars
  BY <1>4 DEF OutsideStep, SettingsStep
<1>5. CASE BootStep
  <2>1. handed = {} /\ matched = <<>> /\ refresh.item = {}
    BY <1>5 DEF BootStep, BootFeeds, FeedsDown, NoRefresh
  <2>2. /\ UNCHANGED <<handed, matched, refresh>>
        /\ downloaded' = known'
    BY <1>5 DEF BootStep, BootFeeds
  <2>3. ToSet(matched) = {} /\ IsInjective(matched)
    BY <2>1 DEF ToSet, IsInjective
  <2>. QED BY <2>1, <2>2, <2>3
<1>6. CASE LifeEnds
  BY <1>6 DEF LifeEnds, ToSet, IsInjective, NoRefresh
<1>. QED BY <1>2, <1>3, <1>4, <1>5, <1>6, FeedKinds

(* A life sends an item once, for its mark is in memory until the life     *)
(* ends.                                                                   *)
LEMMA LivesCountedStep ==
  FeedsTypeOK /\ FeedsDown /\ OneInHand /\ LivesCounted /\ ItemsOnce /\ [FeedsNext]_feedVars
      => LivesCounted'
<1>. SUFFICES ASSUME FeedsTypeOK, FeedsDown, OneInHand, LivesCounted, ItemsOnce,
                    [FeedsNext]_feedVars
             PROVE  LivesCounted'
  OBVIOUS
<1>. USE DEF LivesCounted
<1>1. /\ matched \in Seq(FeedItems) /\ found \in Seq(TorrentFiles)
      /\ asking \in Nat /\ feedChanges \in Nat /\ feedLives \in Nat
      /\ \A i \in FeedItems : sent[i] \in Nat /\ forgotten[i] \in Nat
      /\ sent \in [FeedItems -> 0 .. MaxFeedLives]
  BY FeedsAssumption DEF FeedsTypeOK
<1>2. CASE FeedStep
  <2>0. started /\ started' /\ UNCHANGED <<forgotten, feedLives, asking, feedChanges>>
    BY <1>2, FeedsAwake, MarksGrow
  <2>1. CASE UNCHANGED <<matched, handed, sent>>
    <3>1. UNCHANGED ToSet(matched)
      BY <2>1
    <3>. QED BY <2>0, <2>1, <3>1
  <2>2. ASSUME NEW i \in FeedItems, refresh.item = {i}, matched' = Append(matched, i),
               sent' = [sent EXCEPT ![i] = @ + 1], UNCHANGED handed
        PROVE  LivesCounted'
    <3>1. i \notin ToSet(matched) \union handed
      BY <2>2 DEF ItemsOnce
    <3>2. ToSet(matched') = ToSet(matched) \union {i}
      BY <1>1, <2>2, Appended
    <3>3. sent[i] + 1 <= feedLives /\ sent'[i] = sent[i] + 1
      BY <1>1, <2>0, <2>2, <3>1
    <3>4. \A j \in FeedItems \ {i} : sent'[j] = sent[j]
      BY <1>1, <2>2
    <3>. QED BY <1>1, <2>0, <2>2, <3>2, <3>3, <3>4
  <2>3. CASE /\ matched # <<>> /\ matched' = Tail(matched)
             /\ handed' = handed \union {Head(matched)} /\ UNCHANGED sent
    <3>1. ToSet(matched) \union handed = ToSet(matched') \union handed'
      BY <1>1, <2>3, Taken
    <3>. QED BY <2>0, <2>3, <3>1
  <2>. QED BY <1>2, <2>1, <2>2, <2>3, MarksGrow
<1>3. CASE FolderStep
  <2>1. started /\ started'
    BY <1>3, FeedsAwake
  <2>2. /\ handed \subseteq handed'
        /\ UNCHANGED <<matched, sent, forgotten, feedLives, asking, feedChanges>>
    BY <1>3 DEF FolderStep, ScanBegins, ScanFile, TakeFile
  <2>. QED BY <1>1, <2>1, <2>2
<1>4. CASE SettingsStep
  <2>1. UNCHANGED <<matched, handed, sent, forgotten, feedLives, started>>
    BY <1>4 DEF SettingsStep
  <2>2. asking' <= feedChanges'
    BY <1>1, <1>4 DEF SettingsStep, ChangeSettings, AskToSave, WriterTakes, Quit, SaveSettings,
       SaveFails
  <2>. QED BY <2>1, <2>2
<1>5. CASE OutsideStep \/ UNCHANGED feedVars
  BY <1>5 DEF OutsideStep
<1>6. CASE BootStep
  <2>1. ~started /\ started' /\ feedLives' = feedLives + 1
        /\ UNCHANGED <<matched, handed, sent, forgotten, asking, feedChanges>>
    BY <1>6 DEF BootStep, BootFeeds
  <2>. QED BY <1>1, <2>1
<1>7. CASE LifeEnds
  <2>1. /\ started /\ ~started' /\ asking' = 0 /\ UNCHANGED <<sent, feedLives, feedChanges>>
        /\ \A i \in FeedItems : forgotten'[i] \in {forgotten[i], forgotten[i] + 1}
    BY <1>1, <1>7 DEF LifeEnds
  <2>. QED BY <1>1, <2>1
<1>. QED BY <1>2, <1>3, <1>4, <1>5, <1>6, <1>7, FeedKinds

LEMMA SavedStep ==
  FeedsTypeOK /\ FeedsDown /\ OneInHand /\ SavedIsMarked /\ [FeedsNext]_feedVars
      => SavedIsMarked'
<1>. SUFFICES ASSUME FeedsTypeOK, FeedsDown, OneInHand, SavedIsMarked, [FeedsNext]_feedVars
             PROVE  SavedIsMarked'
  OBVIOUS
<1>. USE DEF SavedIsMarked
<1>1. CASE FeedStep
  BY <1>1, MarksGrow
<1>2. CASE SettingsStep
  <2>1. /\ UNCHANGED downloaded /\ started
        /\ settingsWriter \in [{"writer", "exit"} -> SUBSET Persisted]
    BY <1>2, FeedsAwake DEF SettingsStep, FeedsTypeOK
  <2>2. Snapshot.downloaded = downloaded
    BY DEF Snapshot
  <2>3. CASE ChangeSettings \/ AskToSave
    BY <2>1, <2>3 DEF ChangeSettings, AskToSave
  <2>4. CASE WriterTakes \/ Quit
    BY <2>1, <2>2, <2>4 DEF WriterTakes, Quit
  <2>5. ASSUME NEW who \in {"writer", "exit"}, SaveSettings(who) \/ SaveFails(who)
        PROVE  SavedIsMarked'
    BY <2>1, <2>5 DEF SaveSettings, SaveFails
  <2>. QED BY <1>2, <2>3, <2>4, <2>5 DEF SettingsStep
<1>3. CASE OutsideStep \/ FolderStep \/ UNCHANGED feedVars
  BY <1>3 DEF OutsideStep, FolderStep
<1>4. CASE BootStep
  BY <1>4 DEF BootStep, BootFeeds, FeedsDown, NoSaves
<1>5. CASE LifeEnds
  BY <1>5 DEF LifeEnds
<1>. QED BY <1>1, <1>2, <1>3, <1>4, <1>5, FeedKinds

(* Only the end of a life takes a mark from memory; it is in the file      *)
(* then, or forgotten.                                                     *)
LEMMA SentStep ==
  FeedsTypeOK /\ FeedsDown /\ OneInHand /\ ItemsOnce /\ SentIsMarked /\ [FeedsNext]_feedVars
      => SentIsMarked'
<1>. SUFFICES ASSUME FeedsTypeOK, FeedsDown, OneInHand, ItemsOnce, SentIsMarked,
                    [FeedsNext]_feedVars
             PROVE  SentIsMarked'
  OBVIOUS
<1>. USE DEF SentIsMarked
<1>1. /\ \A i \in FeedItems : sent[i] \in Nat /\ forgotten[i] \in Nat
      /\ sent \in [FeedItems -> 0 .. MaxFeedLives]
  BY DEF FeedsTypeOK
<1>2. CASE FeedStep
  <2>0. started /\ started' /\ UNCHANGED forgotten
    BY <1>2, FeedsAwake, MarksGrow
  <2>1. CASE /\ UNCHANGED <<matched, handed, sent>> /\ downloaded \subseteq downloaded'
             /\ downloaded' \ downloaded = refresh'.item \ refresh.item
    <3>1. downloaded \ refresh.item \subseteq downloaded' \ refresh'.item
      BY <2>1
    <3>. QED BY <1>1, <2>0, <2>1, <3>1
  <2>2. ASSUME NEW i \in FeedItems, refresh.item = {i}, refresh'.item = {},
               sent' = [sent EXCEPT ![i] = @ + 1], UNCHANGED downloaded
        PROVE  SentIsMarked'
    <3>1. i \in downloaded
      BY <2>2 DEF ItemsOnce
    <3>2. sent[i] <= forgotten[i] /\ sent'[i] = sent[i] + 1
      BY <1>1, <2>0, <2>2
    <3>3. \A j \in FeedItems \ {i} : sent'[j] = sent[j]
      BY <1>1, <2>2
    <3>. QED BY <1>1, <2>0, <2>2, <3>1, <3>2, <3>3
  <2>3. CASE UNCHANGED <<downloaded, refresh, sent>>
    BY <2>0, <2>3
  <2>. QED BY <1>2, <2>1, <2>2, <2>3, MarksGrow
<1>3. CASE SettingsStep
  BY <1>3, FeedsAwake DEF SettingsStep
<1>4. CASE OutsideStep \/ FolderStep \/ UNCHANGED feedVars
  BY <1>4 DEF OutsideStep, FolderStep
<1>5. CASE BootStep
  <2>1. /\ ~started /\ started' /\ refresh.item = {} /\ downloaded' = saved.downloaded
        /\ UNCHANGED <<sent, forgotten, refresh>>
    BY <1>5 DEF BootStep, BootFeeds, FeedsDown, NoRefresh
  <2>. QED BY <2>1
<1>6. CASE LifeEnds
  <2>1. /\ started /\ ~started' /\ UNCHANGED <<sent, saved>>
        /\ \A i \in FeedItems : forgotten'[i] =
               forgotten[i] + (IF i \in downloaded \ saved.downloaded THEN 1 ELSE 0)
    BY <1>1, <1>6 DEF LifeEnds
  <2>. QED BY <1>1, <2>1
<1>. QED BY <1>2, <1>3, <1>4, <1>5, <1>6, FeedKinds

(* ------------------------------- the flags ------------------------------ *)

(* Marks are only added in a life: what the forced refresh read as marked  *)
(* stays marked.                                                           *)
LEMMA ForcedStep ==
  FeedsTypeOK /\ FeedsDown /\ OneInHand /\ ForcedRead /\ [FeedsNext]_feedVars => ForcedRead'
<1>. SUFFICES ASSUME FeedsTypeOK, FeedsDown, OneInHand, ForcedRead, [FeedsNext]_feedVars
             PROVE  ForcedRead'
  OBVIOUS
<1>. USE DEF ForcedRead
<1>1. CASE FeedStep
  <2>1. forced'.done \in {forced.done, {}, downloaded}
    <3>1. CASE ForceRefresh \/ ForcedFlags
      BY <3>1 DEF ForceRefresh, ForcedFlags, FeedsTypeOK
    <3>2. CASE ForcedFetched \/ ForcedStores
      <4>1. CASE forced' = NotForced
        BY <4>1 DEF NotForced
      <4>2. CASE forced' = Fetched(forced)
        BY <4>2 DEF Fetched, FeedsTypeOK
      <4>. QED BY <3>2, <4>1, <4>2 DEF ForcedFetched, ForcedStores
    <3>3. CASE ~(ForceRefresh \/ ForcedFlags \/ ForcedFetched \/ ForcedStores)
      BY <1>1, <3>3 DEF FeedStep, FeedIsDue, RefreshBegins, FetchEnds, StoreFetched, ReadRules,
         Match, FlagStored, SendMatch, TakeMatch, RefreshEnds
    <3>. QED BY <3>1, <3>2, <3>3
  <2>. QED BY <1>1, <2>1, MarksGrow
<1>2. CASE OutsideStep \/ FolderStep \/ SettingsStep \/ UNCHANGED feedVars
  BY <1>2 DEF OutsideStep, FolderStep, SettingsStep
<1>3. CASE BootStep
  BY <1>3 DEF BootStep, BootFeeds, FeedsDown, NotForced
<1>4. CASE LifeEnds
  BY <1>4 DEF LifeEnds, NotForced
<1>. QED BY <1>1, <1>2, <1>3, <1>4, FeedKinds

LEMMA FlagsStep ==
  /\ FeedsTypeOK /\ FeedsDown /\ OneInHand /\ ItemsOnce /\ ForcedRead /\ FlagsAgree
  /\ [FeedsNext]_feedVars
  => FlagsAgree'
<1>. SUFFICES ASSUME FeedsTypeOK, FeedsDown, OneInHand, ItemsOnce, ForcedRead, FlagsAgree,
                    [FeedsNext]_feedVars
             PROVE  FlagsAgree'
  OBVIOUS
<1>. USE DEF FlagsAgree
<1>1. CASE FeedStep
  <2>1. CASE StoreFetched
    BY <2>1 DEF StoreFetched, Flagged
  <2>2. CASE ForcedStores
    BY <2>2 DEF ForcedStores, Flagged, ForcedRead
  <2>3. ASSUME NEW i \in FeedItems, Match(i) PROVE FlagsAgree'
    <3>1. UNCHANGED <<stored, overwritten>> /\ refresh.at = "matching"
      BY <2>3 DEF Match
    <3>. QED BY <2>3, <3>1, MatchTakes
  <2>4. CASE FlagStored
    <3>1. refresh.at = "marked" /\ UNCHANGED downloaded /\ overwritten' = overwritten \ refresh.item
      BY <2>4 DEF FlagStored
    <3>2. refresh.item \subseteq downloaded'
      BY <3>1 DEF ItemsOnce
    <3>. QED BY <2>4, <3>1, <3>2 DEF FlagStored
  <2>5. CASE RefreshBegins \/ ReadRules \/ SendMatch
    <3>1. /\ UNCHANGED <<stored, overwritten, downloaded>>
          /\ refresh.at # "marked"
      BY <2>5 DEF RefreshBegins, ReadRules, SendMatch
    <3>. QED BY <3>1
  <2>6. CASE FetchEnds \/ RefreshEnds
    <3>1. UNCHANGED <<stored, overwritten, downloaded>> /\ refresh.at # "marked"
      BY <2>6 DEF FetchEnds, RefreshEnds
    <3>. QED BY <3>1
  <2>7. CASE FeedIsDue \/ TakeMatch \/ ForceRefresh \/ ForcedFetched \/ ForcedFlags
    BY <2>7 DEF FeedIsDue, TakeMatch, ForceRefresh, ForcedFetched, ForcedFlags
  <2>. QED BY <1>1, <2>1, <2>2, <2>3, <2>4, <2>5, <2>6, <2>7 DEF FeedStep
<1>2. CASE OutsideStep \/ FolderStep \/ SettingsStep \/ UNCHANGED feedVars
  BY <1>2 DEF OutsideStep, FolderStep, SettingsStep
<1>3. CASE BootStep
  BY <1>3 DEF BootStep, BootFeeds, FeedsDown, Unstored
<1>4. CASE LifeEnds
  BY <1>4 DEF LifeEnds, Unstored
<1>. QED BY <1>1, <1>2, <1>3, <1>4, FeedKinds

(* A change goes from the setter to the writer to the file, and a failed   *)
(* write is counted.                                                       *)
LEMMA ChangeStep ==
  FeedsTypeOK /\ FeedsDown /\ ChangeIsUnderWay /\ [FeedsNext]_feedVars => ChangeIsUnderWay'
<1>. SUFFICES ASSUME FeedsTypeOK, FeedsDown, ChangeIsUnderWay, [FeedsNext]_feedVars
             PROVE  ChangeIsUnderWay'
  OBVIOUS
<1>. USE DEF ChangeIsUnderWay
<1>1. asking \in Nat /\ settingsWriter \in [{"writer", "exit"} -> SUBSET Persisted]
  BY FeedsAssumption DEF FeedsTypeOK
<1>2. CASE SettingsStep
  <2>1. UNCHANGED started
    BY <1>2 DEF SettingsStep
  <2>2. CASE ChangeSettings
    BY <1>1, <2>1, <2>2 DEF ChangeSettings
  <2>3. CASE AskToSave
    BY <1>1, <2>1, <2>3 DEF AskToSave
  <2>4. CASE WriterTakes
    <3>1. Snapshot.settings = settings
      BY DEF Snapshot
    <3>. QED BY <1>1, <2>1, <2>4, <3>1 DEF WriterTakes
  <2>5. CASE Quit
    BY <2>1, <2>5 DEF Quit
  <2>6. ASSUME NEW who \in {"writer", "exit"}, SaveSettings(who) PROVE ChangeIsUnderWay'
    <3>1. CASE who = "writer"
      BY <1>1, <2>1, <2>6, <3>1 DEF SaveSettings
    <3>2. CASE who = "exit"
      BY <1>1, <2>1, <2>6, <3>2 DEF SaveSettings
    <3>. QED BY <3>1, <3>2
  <2>7. ASSUME NEW who \in {"writer", "exit"}, SaveFails(who) PROVE ChangeIsUnderWay'
    BY <1>1, <2>1, <2>7 DEF SaveFails
  <2>. QED BY <1>2, <2>2, <2>3, <2>4, <2>5, <2>6, <2>7 DEF SettingsStep
<1>3. CASE OutsideStep \/ FolderStep \/ FeedStep \/ UNCHANGED feedVars
  BY <1>3 DEF OutsideStep, FolderStep, FeedStep
<1>4. CASE BootStep
  BY <1>4 DEF BootStep, BootFeeds, FeedsDown, NoSaves
<1>5. CASE LifeEnds
  BY <1>5 DEF LifeEnds
<1>. QED BY <1>2, <1>3, <1>4, <1>5, FeedKinds

LEMMA FeedsInitInv == FeedsInit => FeedsInv
<1>. SUFFICES ASSUME FeedsInit PROVE FeedsInv
  OBVIOUS
<1>1. FeedsDown /\ OneInHand /\ ForcedRead
  BY DEF FeedsInit, FeedsDown, OneInHand, ForcedRead, NoRefresh, NotForced
<1>2. LivesCounted /\ SentIsMarked
  BY DEF FeedsInit, LivesCounted, SentIsMarked, Never
<1>3. FilesOnce /\ ItemsOnce
  BY DEF FeedsInit, FilesOnce, ItemsOnce, ToSet, IsInjective, NoRefresh
<1>4. SavedIsMarked /\ ChangeIsUnderWay
  BY DEF FeedsInit, SavedIsMarked, ChangeIsUnderWay
<1>5. FlagsAgree
  BY DEF FeedsInit, FlagsAgree, Unstored
<1>. QED BY <1>1, <1>2, <1>3, <1>4, <1>5, FeedsTypeInit DEF FeedsInv

LEMMA FeedsInvStep == FeedsInv /\ [FeedsNext]_feedVars => FeedsInv'
BY FeedsTypeStep, FeedsDownStep, OneInHandStep, LivesCountedStep, FilesOnceStep, ItemsOnceStep,
   SavedStep, SentStep, ForcedStep, FlagsStep, ChangeStep DEF FeedsInv

(* Whatever the folder, the feed and the settings do, and wherever a life  *)
(* ends: a finding is handed over once, its mark is lost only with a life  *)
(* that ended before it was saved, the flags shown agree with the marks,   *)
(* and the settings reach the file.                                        *)
THEOREM FindingsKept == FeedsSpec => [](FeedsTypeOK /\ FeedsKept)
<1>1. FeedsInv => FeedsTypeOK /\ FeedsKept
  <2>. SUFFICES ASSUME FeedsInv PROVE FeedsKept
    BY DEF FeedsInv
  <2>1. ResentWhenForgotten
    <3>1. \A i \in FeedItems : sent[i] \in Nat /\ forgotten[i] \in Nat
      BY DEF FeedsInv, FeedsTypeOK
    <3>. QED BY <3>1 DEF FeedsInv, SentIsMarked, ResentWhenForgotten
  <2>2. SettingsSaved
    BY DEF FeedsInv, ChangeIsUnderWay, SettingsSaved, NoSaves
  <2>. QED BY <2>1, <2>2 DEF FeedsInv, FeedsKept
<1>. QED BY <1>1, FeedsInitInv, FeedsInvStep, PTL DEF FeedsSpec

-----------------------------------------------------------------------------
(* An announce over UDP *)

Undisturbed == ~strayed /\ connects <= 1 /\ duplicated = 0 /\ ~clipped

Datagrams == [to : {"tracker", "client"}, action : Actions \union {"error", "short error"},
              tid : TransactionIds \union {0}, cid : Nat]

UdpTyped ==
    /\ asked \in {"announce", "scrape"} /\ step \in {"connect", "request", "ended"}
    /\ waiting \in BOOLEAN /\ transaction \in TransactionIds /\ connects \in Nat
    /\ duplicated \in Nat /\ connection \in Nat /\ IsFiniteSet(granted)
    /\ wire \in [DOMAIN wire -> Nat \ {0}] /\ DOMAIN wire \subseteq Datagrams

(* What is on its way to the tracker is ours; what comes from it has an id *)
(* it has granted or an answer it has served.                              *)
WireIsOwn ==
    \A m \in DOMAIN wire :
        /\ m.to = "tracker" => m.tid # 0 /\ m.action \in Actions
        /\ m.to = "client" /\ m.tid # 0 =>
               /\ m.action = "connect" => m.cid \in granted
               /\ m.action \in {"announce", "scrape"} => m.cid = 0 /\ m \in served

EndedIsStill == (step = "ended" => ~waiting) /\ (outcome # "none" => step = "ended")

(* Without a stray, a second connect or a duplicate there is one datagram  *)
(* until we are connected, and then only those of the request.             *)
WireIsExpected ==
    Undisturbed =>
        /\ step = "connect" =>
               /\ connects = 0 => DOMAIN wire = {}
               /\ \A m, n \in DOMAIN wire : m = n /\ wire[m] = 1
               /\ \A m \in DOMAIN wire : m.tid = transaction /\ m.action \in {"connect", "error"}
        /\ step = "request" =>
               \A m \in DOMAIN wire : m.tid = transaction /\ m.action \in {asked, "error"}

UdpInv == UdpTyped /\ WireIsOwn /\ EndedIsStill /\ WireIsExpected /\ AnswersOwn

USE DEF call, udpVars

(* What putting one into a bag does to its entries.                        *)
LEMMA BagGrown ==
  ASSUME NEW B, B \in [DOMAIN B -> Nat \ {0}], NEW x
  PROVE  LET A == B (+) One(x)
         IN /\ DOMAIN A = DOMAIN B \union {x} /\ A \in [DOMAIN A -> Nat \ {0}]
            /\ x \notin DOMAIN B => A[x] = 1
            /\ \A y \in DOMAIN B \ {x} : A[y] = B[y]
<1>. DEFINE A == B (+) One(x)
<1>1. DOMAIN A = DOMAIN B \union {x}
  BY DEF (+), One, SetToBag
<1>2. A[x] = (IF x \in DOMAIN B THEN B[x] + 1 ELSE 1)
  BY DEF (+), One, SetToBag
<1>3. \A y \in DOMAIN B \ {x} : A[y] = B[y]
  BY DEF (+), One, SetToBag
<1>4. A = [y \in DOMAIN A |-> A[y]]
  BY <1>1 DEF (+)
<1>5. \A y \in DOMAIN A : A[y] \in Nat \ {0}
  BY <1>1, <1>2, <1>3
<1>. QED BY <1>1, <1>2, <1>3, <1>4, <1>5

(* What taking one out of a bag does to its entries.                       *)
LEMMA BagShrunk ==
  ASSUME NEW B, B \in [DOMAIN B -> Nat \ {0}], NEW x \in DOMAIN B
  PROVE  LET R == B (-) One(x)
         IN /\ DOMAIN R \subseteq DOMAIN B /\ R \in [DOMAIN R -> Nat \ {0}]
            /\ B[x] = 1 => DOMAIN R = DOMAIN B \ {x}
<1>. DEFINE C == [e \in DOMAIN B |-> IF e \in {x} THEN B[e] - 1 ELSE B[e]]
            R == [e \in {d \in DOMAIN C : C[d] > 0} |-> C[e]]
<1>1. B (-) One(x) = R
  <2>1. DOMAIN One(x) = {x} /\ One(x)[x] = 1
    BY DEF One, SetToBag
  <2>2. C = [e \in DOMAIN B |-> IF e \in DOMAIN One(x) THEN B[e] - One(x)[e] ELSE B[e]]
    BY <2>1
  <2>. QED BY <2>2 DEF (-)
<1>2. \A e \in DOMAIN B : B[e] \in Nat \ {0}
  OBVIOUS
<1>3. DOMAIN C = DOMAIN B /\ \A e \in DOMAIN C : C[e] \in Nat
  BY <1>2
<1>4. DOMAIN R \subseteq DOMAIN B /\ R \in [DOMAIN R -> Nat \ {0}]
  BY <1>3
<1>5. B[x] = 1 => \A e \in DOMAIN B : C[e] > 0 <=> e # x
  BY <1>2
<1>. QED BY <1>1, <1>3, <1>4, <1>5

(* What can happen to the datagrams: they lose one, one is added, or the   *)
(* tracker puts its answer in the place of a request.                      *)
LEMMA SendAdds ==
  ASSUME UdpTyped, Send
  PROVE  LET m == Datagram("tracker", IF step = "connect" THEN "connect" ELSE asked,
                           transaction, connection)
         IN /\ wire' = wire (+) One(m) /\ m \in Datagrams /\ m.to = "tracker"
            /\ m.action = (IF step = "connect" THEN "connect" ELSE asked)
            /\ m.tid = transaction /\ m.tid # 0 /\ m.action \in Actions
<1>1. transaction \in TransactionIds /\ 0 \notin TransactionIds /\ connection \in Nat
      /\ asked \in Actions
  BY UdpAssumption DEF UdpTyped, Actions
<1>2. (IF step = "connect" THEN "connect" ELSE asked) \in Actions
  BY <1>1 DEF Actions
<1>. DEFINE action == IF step = "connect" THEN "connect" ELSE asked
            m == Datagram("tracker", action, transaction, connection)
<1>3. /\ m \in Datagrams /\ m.to = "tracker" /\ m.action = action /\ m.tid = transaction
  BY <1>1, <1>2 DEF Datagram, Datagrams
<1>. QED BY <1>1, <1>2, <1>3 DEF Send

LEMMA NextNumber == 0 \in Nat /\ \A n \in Nat : n + 1 \in Nat /\ n + 1 # 0
OBVIOUS

(* The tracker answers a request by one datagram with the same transaction *)
(* id.                                                                     *)
LEMMA AnswerReplaces ==
  ASSUME UdpTyped, WireIsOwn, NEW m \in DOMAIN wire, TrackerAnswers(m)
  PROVE  \E a \in Datagrams :
            /\ wire' = wire (-) One(m) (+) One(a)
            /\ a.to = "client" /\ a.tid = m.tid /\ a.tid # 0
            /\ a.action \in {m.action, "error", "short error"}
            /\ a.action = "short error" => clipped'
            /\ a.action = "connect" => a.cid \in granted'
            /\ a.action \in {"announce", "scrape"} => a.cid = 0 /\ a \in served'
            /\ IsFiniteSet(granted')
<1>1. PICK act \in {m.action, "error", "short error"} :
          LET cid == IF act = "connect" THEN Cardinality(granted) + 1 ELSE 0
              answer == Datagram("client", act, m.tid, cid)
          IN /\ wire' = wire (-) One(m) (+) One(answer)
             /\ granted' = IF act = "connect" THEN granted \union {cid} ELSE granted
             /\ served' = IF m.action = "connect" THEN served ELSE served \union {answer}
             /\ clipped' = (clipped \/ act = "short error")
  BY DEF TrackerAnswers
<1>. DEFINE cid == IF act = "connect" THEN Cardinality(granted) + 1 ELSE 0
            answer == Datagram("client", act, m.tid, cid)
<1>2. IsFiniteSet(granted) /\ Cardinality(granted) \in Nat
  <2>1. IsFiniteSet(granted)
    BY DEF UdpTyped
  <2>. QED BY <2>1, FS_CardinalityType
<1>3. cid \in Nat /\ m \in Datagrams /\ m.to = "tracker" /\ m.tid # 0 /\ m.action \in Actions
  <2>1. cid \in Nat
    BY <1>2, NextNumber, Zenon
  <2>2. m.to = "tracker" /\ m \in Datagrams
    BY DEF TrackerAnswers, UdpTyped
  <2>. QED BY <2>1, <2>2 DEF WireIsOwn
<1>4. /\ answer \in Datagrams /\ answer.to = "client" /\ answer.tid = m.tid
      /\ answer.action = act /\ answer.cid = cid
  <2>1. act \in Actions \union {"error", "short error"} /\ m.tid \in TransactionIds \union {0}
    BY <1>3 DEF Datagrams
  <2>. HIDE DEF cid
  <2>. QED BY <1>3, <2>1 DEF Datagram, Datagrams
<1>5. IsFiniteSet(granted')
  <2>1. IsFiniteSet(granted \union {cid})
    BY <1>2, FS_AddElement
  <2>. QED BY <1>1, <1>2, <2>1
<1>6. act = "connect" => answer.cid \in granted'
  BY <1>1, <1>4
<1>7. act \in {"announce", "scrape"} => answer.cid = 0 /\ answer \in served'
  BY <1>1, <1>4
<1>. QED BY <1>1, <1>3, <1>4, <1>5, <1>6, <1>7

(* What a step is: of the client, of the network or of the tracker.        *)
LEMMA UdpKinds ==
  ASSUME [UdpNext]_udpVars
  PROVE  \/ Send \/ TimesOut \/ GivesUp \/ SocketFails \/ UNCHANGED udpVars
         \/ \E m \in DOMAIN wire : Receive(m) \/ TrackerAnswers(m) \/ Lose(m) \/ Duplicate(m)
BY DEF UdpNext, BagToSet

LEMMA UdpTypedStep == UdpTyped /\ WireIsOwn /\ [UdpNext]_udpVars => UdpTyped'
<1>. SUFFICES ASSUME UdpTyped, WireIsOwn, [UdpNext]_udpVars PROVE UdpTyped'
  OBVIOUS
<1>1. wire \in [DOMAIN wire -> Nat \ {0}] /\ DOMAIN wire \subseteq Datagrams
  BY DEF UdpTyped
<1>2. CASE Send
  <2>1. PICK m \in Datagrams : wire' = wire (+) One(m)
    BY <1>2, SendAdds
  <2>2. wire' \in [DOMAIN wire' -> Nat \ {0}] /\ DOMAIN wire' \subseteq Datagrams
    <3>1. DOMAIN wire' = DOMAIN wire \union {m} /\ wire' \in [DOMAIN wire' -> Nat \ {0}]
      BY ONLY <1>1, <2>1, BagGrown
    <3>. QED BY <1>1, <3>1
  <2>3. connects' \in Nat /\ UNCHANGED <<asked, step, transaction, connection, granted, duplicated>>
        /\ waiting' = TRUE
    BY <1>2 DEF Send, UdpTyped
  <2>. QED BY <2>2, <2>3 DEF UdpTyped
<1>3. CASE TimesOut \/ GivesUp \/ SocketFails \/ UNCHANGED udpVars
  BY <1>3 DEF TimesOut, GivesUp, SocketFails, Ends, UdpTyped
<1>4. ASSUME NEW m \in DOMAIN wire, Receive(m) PROVE UdpTyped'
  <2>1. wire' \in [DOMAIN wire' -> Nat \ {0}] /\ DOMAIN wire' \subseteq Datagrams
    BY <1>1, <1>4, BagShrunk DEF Receive
  <2>2. m.cid \in Nat /\ UNCHANGED <<asked, granted, connects, duplicated>>
    BY <1>1, <1>4 DEF Receive, Datagrams
  <2>3. /\ step' \in {"connect", "request", "ended"} /\ waiting' = FALSE
        /\ transaction' \in TransactionIds /\ connection' \in Nat
    <3>1. CASE Connected(m)
      BY <2>2, <3>1 DEF Connected, Ends, UdpTyped
    <3>2. CASE Answered(m)
      BY <3>2 DEF Answered, Ends, UdpTyped
    <3>. QED BY <1>4, <3>1, <3>2 DEF Receive
  <2>. QED BY <2>1, <2>2, <2>3 DEF UdpTyped
<1>5. ASSUME NEW m \in DOMAIN wire, TrackerAnswers(m) PROVE UdpTyped'
  <2>1. PICK a \in Datagrams : wire' = wire (-) One(m) (+) One(a) /\ IsFiniteSet(granted')
    BY <1>5, AnswerReplaces
  <2>. DEFINE rest == wire (-) One(m)
  <2>2. rest \in [DOMAIN rest -> Nat \ {0}] /\ DOMAIN rest \subseteq Datagrams
    BY <1>1, BagShrunk
  <2>. HIDE DEF rest
  <2>3. wire' \in [DOMAIN wire' -> Nat \ {0}] /\ DOMAIN wire' \subseteq Datagrams
    <3>1. wire' = rest (+) One(a)
      BY <2>1 DEF rest
    <3>2. DOMAIN wire' = DOMAIN rest \union {a} /\ wire' \in [DOMAIN wire' -> Nat \ {0}]
      BY ONLY <2>2, <3>1, BagGrown
    <3>. QED BY <2>2, <3>2
  <2>. QED BY <1>5, <2>1, <2>3 DEF TrackerAnswers, UdpTyped
<1>6. ASSUME NEW m \in DOMAIN wire, Lose(m) PROVE UdpTyped'
  <2>1. wire' \in [DOMAIN wire' -> Nat \ {0}] /\ DOMAIN wire' \subseteq Datagrams
    BY <1>1, <1>6, BagShrunk DEF Lose
  <2>. QED BY <1>6, <2>1 DEF Lose, UdpTyped
<1>7. ASSUME NEW m \in DOMAIN wire, Duplicate(m) PROVE UdpTyped'
  <2>1. wire' \in [DOMAIN wire' -> Nat \ {0}] /\ DOMAIN wire' \subseteq Datagrams
    BY <1>1, <1>7, BagGrown DEF Duplicate
  <2>. QED BY <1>7, <2>1 DEF Duplicate, UdpTyped
<1>. QED BY <1>2, <1>3, <1>4, <1>5, <1>6, <1>7, UdpKinds

(* Only a granted id is put into a request, and only a served answer is    *)
(* put on the wire.                                                        *)
LEMMA WireOwnStep == UdpTyped /\ WireIsOwn /\ [UdpNext]_udpVars => WireIsOwn'
<1>. SUFFICES ASSUME UdpTyped, WireIsOwn, [UdpNext]_udpVars PROVE WireIsOwn'
  OBVIOUS
<1>1. wire \in [DOMAIN wire -> Nat \ {0}] /\ DOMAIN wire \subseteq Datagrams
  BY DEF UdpTyped
<1>. USE DEF WireIsOwn
<1>2. CASE Send
  <2>1. PICK m \in Datagrams :
            wire' = wire (+) One(m) /\ m.to = "tracker" /\ m.tid # 0 /\ m.action \in Actions
    BY <1>2, SendAdds
  <2>2. DOMAIN wire' = DOMAIN wire \union {m} /\ UNCHANGED <<granted, served>>
    <3>1. DOMAIN wire' = DOMAIN wire \union {m}
      BY ONLY <1>1, <2>1, BagGrown
    <3>2. UNCHANGED <<granted, served>>
      BY ONLY <1>2 DEF Send
    <3>. QED BY <3>1, <3>2
  <2>. QED BY <2>1, <2>2
<1>3. CASE TimesOut \/ GivesUp \/ SocketFails \/ UNCHANGED udpVars
  BY <1>3 DEF TimesOut, GivesUp, SocketFails
<1>4. ASSUME NEW m \in DOMAIN wire, Receive(m) \/ Lose(m) PROVE WireIsOwn'
  <2>1. DOMAIN wire' \subseteq DOMAIN wire /\ UNCHANGED <<granted, served>>
    BY <1>1, <1>4, BagShrunk DEF Receive, Lose
  <2>. QED BY <2>1
<1>5. ASSUME NEW m \in DOMAIN wire, TrackerAnswers(m) PROVE WireIsOwn'
  <2>1. PICK a \in Datagrams :
            /\ wire' = wire (-) One(m) (+) One(a)
            /\ a.to = "client"
            /\ a.action = "connect" => a.cid \in granted'
            /\ a.action \in {"announce", "scrape"} => a.cid = 0 /\ a \in served'
    BY <1>5, AnswerReplaces
  <2>. DEFINE rest == wire (-) One(m)
  <2>2. rest \in [DOMAIN rest -> Nat \ {0}] /\ DOMAIN rest \subseteq DOMAIN wire
    BY <1>1, BagShrunk
  <2>. HIDE DEF rest
  <2>3. DOMAIN wire' = DOMAIN rest \union {a}
    BY <2>1, <2>2, BagGrown DEF rest
  <2>4. granted \subseteq granted' /\ served \subseteq served'
    BY <1>5 DEF TrackerAnswers
  <2>. QED BY <2>1, <2>2, <2>3, <2>4
<1>6. ASSUME NEW m \in DOMAIN wire, Duplicate(m) PROVE WireIsOwn'
  <2>1. wire' = wire (+) One(m) /\ UNCHANGED <<granted, served>>
    BY <1>6 DEF Duplicate
  <2>2. DOMAIN wire' = DOMAIN wire
    <3>1. DOMAIN wire' = DOMAIN wire \union {m}
      BY ONLY <1>1, <2>1, BagGrown
    <3>. QED BY <3>1
  <2>. QED BY <2>1, <2>2
<1>. QED BY <1>2, <1>3, <1>4, <1>5, <1>6, UdpKinds

(* What a datagram makes of the call.                                      *)
LEMMA ReceiveMeans ==
  ASSUME UdpTyped, EndedIsStill, NEW m \in DOMAIN wire, Receive(m)
  PROVE  /\ waiting' = FALSE /\ m.to = "client" /\ step # "ended"
         /\ \/ /\ step = "connect" /\ step' = "ended" /\ UNCHANGED <<transaction, connection>>
               /\ \/ outcome' = "failure"
                  \/ outcome' = "invalid" /\ m.action \notin {"connect", "error"}
            \/ /\ step = "connect" /\ step' = "connect" /\ m.tid # transaction
               /\ UNCHANGED <<transaction, connection, outcome>>
            \/ /\ step = "connect" /\ step' = "request" /\ UNCHANGED outcome
               /\ m.tid = transaction /\ m.action = "connect" /\ connection' = m.cid
            \/ /\ step = "request" /\ step' = "ended" /\ UNCHANGED <<transaction, connection>>
               /\ \/ outcome' = "failure"
                  \/ (outcome' = "ok" /\ m.tid = transaction /\ m.action = asked)
                  \/ /\ outcome' = "invalid"
                     /\ m.tid # transaction \/ m.action \notin {asked, "error"}
<1>1. m.to = "client" /\ step # "ended" /\ step \in {"connect", "request", "ended"}
      /\ asked \in {"announce", "scrape"}
  BY DEF Receive, EndedIsStill, UdpTyped
<1>2. CASE step = "connect" /\ Connected(m)
  <2>1. CASE m.action = "short error"
    <3>1. Ends("invalid")
      BY <1>2, <2>1 DEF Connected
    <3>. QED BY <1>1, <1>2, <2>1, <3>1 DEF Ends
  <2>2. CASE m.action = "error"
    <3>1. Ends("failure")
      BY <1>2, <2>2 DEF Connected
    <3>. QED BY <1>1, <1>2, <2>2, <3>1 DEF Ends
  <2>3. CASE m.action \notin {"connect", "error", "short error"}
    <3>1. Ends("invalid")
      BY <1>2, <2>3 DEF Connected
    <3>. QED BY <1>1, <1>2, <2>3, <3>1 DEF Ends
  <2>4. CASE m.action = "connect" /\ m.tid # transaction
    <3>1. waiting' = FALSE /\ UNCHANGED <<step, transaction, connection, outcome>>
      BY <1>2, <2>4 DEF Connected
    <3>. QED BY <1>1, <1>2, <2>4, <3>1
  <2>5. CASE m.action = "connect" /\ m.tid = transaction
    <3>1. step' = "request" /\ waiting' = FALSE /\ connection' = m.cid /\ UNCHANGED outcome
      BY <1>2, <2>5 DEF Connected
    <3>. QED BY <1>1, <1>2, <2>5, <3>1
  <2>. QED BY <2>1, <2>2, <2>3, <2>4, <2>5
<1>3. CASE step = "request" /\ Answered(m)
  <2>1. step' = "ended" /\ waiting' = FALSE /\ UNCHANGED <<transaction, connection>>
    BY <1>3 DEF Answered, Ends
  <2>2. CASE TooShort(m) \/ m.tid # transaction
    <3>1. outcome' = "invalid"
      BY <1>3, <2>2 DEF Answered, Ends
    <3>. QED BY <1>1, <1>3, <2>1, <2>2, <3>1 DEF TooShort
  <2>3. CASE ~TooShort(m) /\ m.tid = transaction
    <3>1. outcome' = IF m.action \in {"error", "short error"} THEN "failure"
                     ELSE IF m.action = asked THEN "ok" ELSE "invalid"
      BY <1>3, <2>3 DEF Answered, Ends
    <3>. QED BY <1>1, <1>3, <2>1, <2>3, <3>1
  <2>. QED BY <2>2, <2>3
<1>. QED BY <1>1, <1>2, <1>3 DEF Receive

(* A call that has ended no longer waits.                                  *)
LEMMA EndedStep == UdpTyped /\ EndedIsStill /\ [UdpNext]_udpVars => EndedIsStill'
<1>. SUFFICES ASSUME UdpTyped, EndedIsStill, [UdpNext]_udpVars PROVE EndedIsStill'
  OBVIOUS
<1>1. CASE Send \/ TimesOut \/ GivesUp \/ SocketFails \/ UNCHANGED udpVars
  BY <1>1 DEF Send, TimesOut, GivesUp, SocketFails, Ends, EndedIsStill
<1>2. ASSUME NEW m \in DOMAIN wire, Receive(m) PROVE EndedIsStill'
  BY <1>2, ReceiveMeans DEF EndedIsStill
<1>3. ASSUME NEW m \in DOMAIN wire, TrackerAnswers(m) \/ Lose(m) \/ Duplicate(m)
      PROVE  EndedIsStill'
  <2>1. UNCHANGED <<step, waiting, outcome>>
    BY <1>3 DEF TrackerAnswers, Lose, Duplicate
  <2>. QED BY <2>1 DEF EndedIsStill
<1>. QED BY <1>1, <1>2, <1>3, UdpKinds

(* What disturbs an announce stays in its history.                         *)
LEMMA DisturbedStays ==
  ASSUME UdpTyped, [UdpNext]_udpVars, Undisturbed'
  PROVE  Undisturbed
<1>. USE DEF Undisturbed, UdpTyped
<1>1. CASE Send
  BY <1>1 DEF Send
<1>2. CASE TimesOut \/ GivesUp \/ SocketFails \/ UNCHANGED udpVars
  BY <1>2 DEF TimesOut, GivesUp, SocketFails
<1>3. ASSUME NEW m \in DOMAIN wire, Receive(m) \/ TrackerAnswers(m) \/ Lose(m) PROVE Undisturbed
  <2>1. UNCHANGED <<strayed, connects, duplicated>> /\ (clipped => clipped')
    <3>1. CASE TrackerAnswers(m)
      <4>1. UNCHANGED <<strayed, connects, duplicated>>
        BY <3>1 DEF TrackerAnswers
      <4>2. clipped => clipped'
        BY <3>1 DEF TrackerAnswers
      <4>. QED BY <4>1, <4>2
    <3>2. CASE Receive(m)
      BY <3>2 DEF Receive
    <3>3. CASE Lose(m)
      BY <3>3 DEF Lose
    <3>. QED BY <1>3, <3>1, <3>2, <3>3
  <2>. QED BY <2>1
<1>4. ASSUME NEW m \in DOMAIN wire, Duplicate(m) PROVE Undisturbed
  BY <1>4 DEF Duplicate
<1>. QED BY <1>1, <1>2, <1>3, <1>4, UdpKinds

(* Without a loss, a delay or a copy, one datagram at a time is on the     *)
(* way.                                                                    *)
LEMMA ExpectedStep ==
  UdpTyped /\ WireIsOwn /\ EndedIsStill /\ WireIsExpected /\ [UdpNext]_udpVars => WireIsExpected'
<1>. SUFFICES ASSUME UdpTyped, WireIsOwn, EndedIsStill, WireIsExpected, [UdpNext]_udpVars,
                    Undisturbed'
             PROVE  /\ step' = "connect" =>
                          /\ connects' = 0 => DOMAIN wire' = {}
                          /\ \A m, n \in DOMAIN wire' : m = n /\ wire'[m] = 1
                          /\ \A m \in DOMAIN wire' : /\ m.tid = transaction'
                                                     /\ m.action \in {"connect", "error"}
                    /\ step' = "request" =>
                          \A m \in DOMAIN wire' : /\ m.tid = transaction'
                                                  /\ m.action \in {asked', "error"}
  BY DEF WireIsExpected
<1>1. /\ Undisturbed
      /\ step = "connect" =>
             /\ connects = 0 => DOMAIN wire = {}
             /\ \A m, n \in DOMAIN wire : m = n /\ wire[m] = 1
             /\ \A m \in DOMAIN wire : m.tid = transaction /\ m.action \in {"connect", "error"}
      /\ step = "request" =>
             \A m \in DOMAIN wire : m.tid = transaction /\ m.action \in {asked, "error"}
  BY DisturbedStays DEF WireIsExpected
<1>2. /\ wire \in [DOMAIN wire -> Nat \ {0}] /\ DOMAIN wire \subseteq Datagrams /\ connects \in Nat
      /\ asked \in {"announce", "scrape"}
  BY DEF UdpTyped
<1>3. CASE Send
  <2>1. PICK m \in Datagrams : /\ wire' = wire (+) One(m) /\ m.tid = transaction
                               /\ m.action = IF step = "connect" THEN "connect" ELSE asked
    BY <1>3, SendAdds
  <2>2. /\ DOMAIN wire' = DOMAIN wire \union {m}
        /\ m \notin DOMAIN wire => wire'[m] = 1
    BY ONLY <1>2, <2>1, BagGrown
  <2>3. UNCHANGED <<step, transaction, asked>>
    BY <1>3 DEF Send
  <2>4. step = "connect" => connects = 0 /\ connects' = 1
    BY <1>2, <1>3 DEF Send, Undisturbed
  <2>. QED BY <1>1, <2>1, <2>2, <2>3, <2>4
<1>4. CASE TimesOut \/ UNCHANGED udpVars
  BY <1>1, <1>4 DEF TimesOut
<1>5. CASE GivesUp \/ SocketFails
  BY <1>5 DEF GivesUp, SocketFails, Ends
<1>6. ASSUME NEW m \in DOMAIN wire, Receive(m) \/ Lose(m)
      PROVE  /\ wire[m] = 1 => DOMAIN wire' = DOMAIN wire \ {m}
             /\ DOMAIN wire' \subseteq DOMAIN wire /\ UNCHANGED <<asked, connects>>
  <2>1. wire' = wire (-) One(m) /\ UNCHANGED <<asked, connects>>
    BY <1>6 DEF Receive, Lose
  <2>2. /\ wire[m] = 1 => DOMAIN wire' = DOMAIN wire \ {m}
        /\ DOMAIN wire' \subseteq DOMAIN wire
    BY ONLY <1>2, <1>6, <2>1, BagShrunk
  <2>. QED BY <2>1, <2>2
<1>7. ASSUME NEW m \in DOMAIN wire, Receive(m) PROVE \/ step' = "ended" \/ DOMAIN wire' = {}
  <2>1. CASE step = "connect"
    <3>1. DOMAIN wire = {m} /\ wire[m] = 1
      BY <1>1, <1>7, <2>1
    <3>. QED BY <1>6, <1>7, <3>1
  <2>2. CASE step # "connect"
    BY <1>7, <2>2, ReceiveMeans
  <2>. QED BY <2>1, <2>2
<1>8. ASSUME NEW m \in DOMAIN wire, Lose(m)
      PROVE  /\ UNCHANGED <<step, transaction>>
             /\ step = "connect" => DOMAIN wire' = DOMAIN wire \ {m}
  BY <1>1, <1>6, <1>8 DEF Lose
<1>9. ASSUME NEW m \in DOMAIN wire, TrackerAnswers(m)
      PROVE  /\ UNCHANGED <<step, transaction, asked, connects>>
             /\ \E a \in Datagrams :
                   /\ a.tid = m.tid /\ a.action \in {m.action, "error"}
                   /\ DOMAIN wire' \subseteq DOMAIN wire \union {a}
                   /\ wire[m] = 1 /\ DOMAIN wire = {m} => DOMAIN wire' = {a} /\ wire'[a] = 1
  <2>1. PICK a \in Datagrams : /\ wire' = wire (-) One(m) (+) One(a) /\ a.tid = m.tid
                               /\ a.action \in {m.action, "error", "short error"}
                               /\ a.action = "short error" => clipped'
    BY <1>9, AnswerReplaces
  <2>. DEFINE rest == wire (-) One(m)
  <2>2. /\ DOMAIN rest \subseteq DOMAIN wire /\ rest \in [DOMAIN rest -> Nat \ {0}]
        /\ wire[m] = 1 => DOMAIN rest = DOMAIN wire \ {m}
    BY ONLY <1>2, <1>9, BagShrunk
  <2>. HIDE DEF rest
  <2>3. wire' = rest (+) One(a)
    BY <2>1 DEF rest
  <2>4. DOMAIN wire' = DOMAIN rest \union {a} /\ (a \notin DOMAIN rest => wire'[a] = 1)
    BY ONLY <2>2, <2>3, BagGrown
  <2>5. UNCHANGED <<step, transaction, asked, connects>>
    BY <1>9 DEF TrackerAnswers
  <2>6. a.action \in {m.action, "error"}
    BY <2>1 DEF Undisturbed
  <2>7. wire[m] = 1 /\ DOMAIN wire = {m} => DOMAIN wire' = {a} /\ wire'[a] = 1
    BY <2>2, <2>4
  <2>. QED BY <2>1, <2>2, <2>4, <2>5, <2>6, <2>7
<1>10. ASSUME NEW m \in DOMAIN wire, Receive(m)
       PROVE  /\ step' = "connect" =>
                    /\ connects' = 0 => DOMAIN wire' = {}
                    /\ \A k, n \in DOMAIN wire' : k = n /\ wire'[k] = 1
                    /\ \A k \in DOMAIN wire' : /\ k.tid = transaction'
                                               /\ k.action \in {"connect", "error"}
              /\ step' = "request" =>
                    \A k \in DOMAIN wire' : k.tid = transaction' /\ k.action \in {asked', "error"}
  BY <1>7, <1>10
<1>11. ASSUME NEW m \in DOMAIN wire, Lose(m)
       PROVE  /\ step' = "connect" =>
                    /\ connects' = 0 => DOMAIN wire' = {}
                    /\ \A k, n \in DOMAIN wire' : k = n /\ wire'[k] = 1
                    /\ \A k \in DOMAIN wire' : /\ k.tid = transaction'
                                               /\ k.action \in {"connect", "error"}
              /\ step' = "request" =>
                    \A k \in DOMAIN wire' : k.tid = transaction' /\ k.action \in {asked', "error"}
  <2>1. UNCHANGED <<step, transaction, asked, connects>> /\ DOMAIN wire' \subseteq DOMAIN wire
    BY <1>6, <1>11 DEF Lose
  <2>2. step = "connect" => DOMAIN wire' = {}
    BY <1>1, <1>6, <1>11
  <2>. QED BY <1>1, <2>1, <2>2
<1>12. ASSUME NEW m \in DOMAIN wire, TrackerAnswers(m)
       PROVE  /\ step' = "connect" =>
                    /\ connects' = 0 => DOMAIN wire' = {}
                    /\ \A k, n \in DOMAIN wire' : k = n /\ wire'[k] = 1
                    /\ \A k \in DOMAIN wire' : /\ k.tid = transaction'
                                               /\ k.action \in {"connect", "error"}
              /\ step' = "request" =>
                    \A k \in DOMAIN wire' : k.tid = transaction' /\ k.action \in {asked', "error"}
  <2>1. PICK a \in Datagrams :
            /\ a.tid = m.tid /\ a.action \in {m.action, "error"}
            /\ DOMAIN wire' \subseteq DOMAIN wire \union {a}
            /\ wire[m] = 1 /\ DOMAIN wire = {m} => DOMAIN wire' = {a} /\ wire'[a] = 1
    BY <1>9, <1>12
  <2>2. UNCHANGED <<step, transaction, asked, connects>>
    BY <1>9, <1>12
  <2>3. CASE step = "connect"
    <3>1. DOMAIN wire = {m} /\ wire[m] = 1 /\ connects # 0
      BY <1>1, <1>12, <2>3
    <3>. QED BY <1>1, <2>1, <2>2, <2>3, <3>1
  <2>4. CASE step # "connect"
    BY <1>1, <2>1, <2>2, <2>4
  <2>. QED BY <2>3, <2>4
<1>13. ASSUME NEW m \in DOMAIN wire, Duplicate(m) PROVE FALSE
  BY <1>13 DEF Duplicate, Undisturbed, UdpTyped
<1>. QED BY <1>3, <1>4, <1>5, <1>10, <1>11, <1>12, <1>13, UdpKinds

LEMMA AnswersStep == UdpInv /\ [UdpNext]_udpVars => AnswersOwn'
<1>. SUFFICES ASSUME UdpInv, [UdpNext]_udpVars PROVE AnswersOwn'
  OBVIOUS
<1>1. UdpTyped /\ WireIsOwn /\ EndedIsStill /\ WireIsExpected /\ AnswersOwn
  BY DEF UdpInv
<1>2. AnswersOwn <=> /\ step = "request" => connection \in granted
                     /\ outcome = "ok" => /\ connection \in granted
                                          /\ Datagram("client", asked, transaction, 0) \in served
                     /\ outcome = "invalid" => ~Undisturbed
  BY <1>1 DEF AnswersOwn, Undisturbed, UdpTyped
<1>3. UdpTyped'
  BY <1>1, UdpTypedStep
<1>4. AnswersOwn' <=> /\ step' = "request" => connection' \in granted'
                      /\ outcome' = "ok" =>
                            /\ connection' \in granted'
                            /\ Datagram("client", asked', transaction', 0) \in served'
                      /\ outcome' = "invalid" => ~Undisturbed'
  BY <1>3 DEF AnswersOwn, Undisturbed, UdpTyped
<1>5. ~Undisturbed => ~Undisturbed'
  BY <1>1, DisturbedStays
<1>6. CASE Send \/ TimesOut \/ UNCHANGED udpVars
  <2>1. UNCHANGED <<asked, step, connection, outcome, transaction, granted, served>>
    BY <1>6 DEF Send, TimesOut
  <2>. QED BY <1>1, <1>2, <1>4, <1>5, <2>1
<1>7. CASE GivesUp \/ SocketFails
  <2>1. step' = "ended" /\ outcome' \in {"timeout", "io"}
    BY <1>7 DEF GivesUp, SocketFails, Ends
  <2>. QED BY <1>4, <2>1
<1>8. ASSUME NEW m \in DOMAIN wire, Receive(m) PROVE AnswersOwn'
  <2>1. UNCHANGED <<asked, granted, served>> /\ m \in Datagrams /\ transaction # 0
        /\ asked \in {"announce", "scrape"}
    BY <1>1, <1>8, UdpAssumption DEF Receive, UdpTyped
  <2>2. step # "ended" /\ outcome = "none" /\ m.to = "client"
    BY <1>1, <1>8, ReceiveMeans DEF EndedIsStill
  <2>3. CASE step = "connect" /\ step' = "ended"
    <3>1. outcome' = "failure" \/ (outcome' = "invalid" /\ m.action \notin {"connect", "error"})
      BY <1>1, <1>8, <2>3, ReceiveMeans
    <3>2. Undisturbed => m.action \in {"connect", "error"}
      BY <1>1, <2>3 DEF WireIsExpected
    <3>. QED BY <1>4, <1>5, <2>3, <3>1, <3>2
  <2>4. CASE step = "connect" /\ step' = "connect"
    <3>1. UNCHANGED outcome
      BY <1>1, <1>8, <2>4, ReceiveMeans
    <3>. QED BY <1>4, <2>2, <2>4, <3>1
  <2>5. CASE step = "connect" /\ step' = "request"
    <3>1. UNCHANGED outcome /\ m.tid = transaction /\ m.action = "connect" /\ connection' = m.cid
      BY <1>1, <1>8, <2>5, ReceiveMeans
    <3>2. m.cid \in granted
      BY <1>1, <2>1, <2>2, <3>1 DEF WireIsOwn
    <3>. QED BY <1>4, <2>1, <2>2, <3>1, <3>2
  <2>6. CASE step = "request" /\ step' = "ended"
    <3>1. UNCHANGED <<transaction, connection>>
          /\ \/ outcome' = "failure"
             \/ (outcome' = "ok" /\ m.tid = transaction /\ m.action = asked)
             \/ (outcome' = "invalid" /\ (m.tid # transaction \/ m.action \notin {asked, "error"}))
      BY <1>1, <1>8, <2>6, ReceiveMeans
    <3>2. ASSUME outcome' = "ok" PROVE Datagram("client", asked, transaction, 0) \in served
      <4>1. m.cid = 0 /\ m \in served
        BY <1>1, <2>1, <2>2, <3>1, <3>2 DEF WireIsOwn
      <4>2. m = Datagram("client", asked, transaction, 0)
        BY <2>1, <2>2, <3>1, <3>2, <4>1 DEF Datagram, Datagrams
      <4>. QED BY <4>1, <4>2
    <3>3. Undisturbed => m.tid = transaction /\ m.action \in {asked, "error"}
      BY <1>1, <2>6 DEF WireIsExpected
    <3>. QED BY <1>1, <1>2, <1>4, <1>5, <2>1, <2>6, <3>1, <3>2, <3>3
  <2>. QED BY <1>1, <1>8, <2>3, <2>4, <2>5, <2>6, ReceiveMeans
<1>9. ASSUME NEW m \in DOMAIN wire, TrackerAnswers(m) \/ Lose(m) \/ Duplicate(m)
      PROVE  AnswersOwn'
  <2>1. UNCHANGED <<asked, step, connection, outcome, transaction>>
        /\ granted \subseteq granted' /\ served \subseteq served'
    BY <1>9 DEF TrackerAnswers, Lose, Duplicate
  <2>. QED BY <1>1, <1>2, <1>4, <1>5, <2>1
<1>. QED BY <1>6, <1>7, <1>8, <1>9, UdpKinds

LEMMA UdpInitInv == UdpInit => UdpInv
<1>. SUFFICES ASSUME UdpInit PROVE UdpInv
  OBVIOUS
<1>1. CASE wire = EmptyBag
  <2>1. DOMAIN wire = {} /\ wire \in [DOMAIN wire -> Nat \ {0}]
    BY <1>1 DEF EmptyBag, SetToBag
  <2>2. UdpTyped
    BY <2>1, FS_EmptySet DEF UdpInit, UdpTyped
  <2>. QED BY <2>1, <2>2 DEF UdpInit, UdpInv, WireIsOwn, EndedIsStill, WireIsExpected, AnswersOwn
<1>2. CASE wire # EmptyBag
  <2>1. PICK a \in {"connect", "announce"} : wire = One(Datagram("client", a, 0, 0))
    BY <1>2 DEF UdpInit
  <2>. DEFINE d == Datagram("client", a, 0, 0)
  <2>2. d \in Datagrams /\ d.to = "client" /\ d.tid = 0
    BY DEF Datagram, Datagrams, Actions
  <2>3. DOMAIN wire = {d} /\ wire \in [DOMAIN wire -> Nat \ {0}]
    BY <2>1 DEF One, SetToBag
  <2>4. UdpTyped
    BY <2>2, <2>3, FS_EmptySet DEF UdpInit, UdpTyped
  <2>5. strayed /\ step = "connect" /\ outcome = "none"
    BY <1>2 DEF UdpInit
  <2>6. WireIsOwn
    BY <2>2, <2>3 DEF WireIsOwn
  <2>. QED BY <2>4, <2>5, <2>6 DEF UdpInv, EndedIsStill, WireIsExpected, AnswersOwn, Undisturbed
<1>. QED BY <1>1, <1>2

(* The copies of a request for an id that are on their way, one by one.    *)
AsksForId(m) == m.to = "tracker" /\ m.action = "connect"
CopiesOf(B) == {c \in (DOMAIN B) \X Nat : AsksForId(c[1]) /\ c[2] \in 1 .. B[c[1]]}
Asking == CopiesOf(wire)

(* The tracker numbers the ids it grants, one for each request that was    *)
(* sent or doubled, and no other is on its way or in use.                  *)
GrantsCounted ==
    /\ IsFiniteSet(Asking) /\ granted = 1 .. Cardinality(granted)
    /\ Cardinality(granted) + Cardinality(Asking) <= connects + duplicated
    /\ connection \in granted \union {0} /\ \A m \in DOMAIN wire : m.cid \in granted \union {0}

(* Its answers to the request itself carry no id.                          *)
Served == [to : {"client"}, action : Actions \union {"error", "short error"},
           tid : TransactionIds \union {0}, cid : {0}]

(* An attempt that waits was counted; only one who was connected has got   *)
(* as far as the request, after an attempt of its own.                     *)
TriesCounted ==
    /\ sends \in 0 .. UdpMaxRetries /\ connects \in 0 .. UdpMaxRetries
    /\ duplicated \in 0 .. MaxDuplicated
    /\ step = "connect" => connects = sends
    /\ waiting => sends > 0
    /\ step = "request" => UdpMaxRetries > 0

TrackerTyped ==
    /\ granted \subseteq Nat \ {0} /\ served \subseteq Served
    /\ outcome \in {"none", "ok", "failure", "timeout", "invalid", "io"}
    /\ strayed \in BOOLEAN /\ clipped \in BOOLEAN

(* Each try sends once.                                                    *)
LEMMA TriesCountedStep == UdpTyped /\ TriesCounted /\ [UdpNext]_udpVars => TriesCounted'
<1>. SUFFICES ASSUME UdpTyped, TriesCounted, [UdpNext]_udpVars PROVE TriesCounted'
  OBVIOUS
<1>1. UdpMaxRetries \in Nat /\ MaxDuplicated \in Nat
  BY UdpAssumption
<1>2. CASE Send
  <2>1. /\ sends < Tries /\ sends' = sends + 1 /\ step' = step /\ duplicated' = duplicated
        /\ connects' = IF step = "connect" THEN connects + 1 ELSE connects
    BY <1>2 DEF Send
  <2>2. Tries \in Nat /\ Tries <= UdpMaxRetries
    BY <1>1 DEF Tries, TriesCounted
  <2>. QED BY <1>1, <2>1, <2>2 DEF TriesCounted
<1>3. CASE TimesOut \/ GivesUp \/ SocketFails \/ UNCHANGED udpVars
  BY <1>3 DEF TimesOut, GivesUp, SocketFails, Ends, TriesCounted
<1>4. ASSUME NEW m \in DOMAIN wire, Receive(m) PROVE TriesCounted'
  <2>1. waiting /\ waiting' = FALSE /\ UNCHANGED <<connects, duplicated>>
    BY <1>4 DEF Receive, Connected, Answered, Ends
  <2>2. \/ step' = "ended" /\ sends' = sends
        \/ step' = step /\ sends' = sends
        \/ step' = "request" /\ sends' = 0
    BY <1>4 DEF Receive, Connected, Answered, Ends
  <2>. QED BY <1>1, <2>1, <2>2 DEF TriesCounted
<1>5. ASSUME NEW m \in DOMAIN wire, TrackerAnswers(m) \/ Lose(m) PROVE TriesCounted'
  <2>1. UNCHANGED <<step, sends, waiting, connects, duplicated>>
    BY <1>5 DEF TrackerAnswers, Lose
  <2>. QED BY <2>1 DEF TriesCounted
<1>6. ASSUME NEW m \in DOMAIN wire, Duplicate(m) PROVE TriesCounted'
  BY <1>1, <1>6 DEF Duplicate, TriesCounted
<1>. QED BY <1>2, <1>3, <1>4, <1>5, <1>6, UdpKinds

LEMMA TrackerTypedStep ==
  UdpTyped /\ WireIsOwn /\ TrackerTyped /\ [UdpNext]_udpVars => TrackerTyped'
<1>. SUFFICES ASSUME UdpTyped, WireIsOwn, TrackerTyped, [UdpNext]_udpVars PROVE TrackerTyped'
  OBVIOUS
<1>1. CASE Send \/ TimesOut \/ GivesUp \/ SocketFails \/ UNCHANGED udpVars
  BY <1>1 DEF Send, TimesOut, GivesUp, SocketFails, Ends, TrackerTyped
<1>2. ASSUME NEW m \in DOMAIN wire, Receive(m) PROVE TrackerTyped'
  <2>1. outcome' \in {outcome, "ok", "failure", "invalid"}
    BY <1>2 DEF Receive, Connected, Answered, Ends
  <2>. QED BY <1>2, <2>1 DEF Receive, TrackerTyped
<1>3. ASSUME NEW m \in DOMAIN wire, TrackerAnswers(m) PROVE TrackerTyped'
  <2>1. PICK action \in {m.action, "error", "short error"} :
          LET cid == IF action = "connect" THEN Cardinality(granted) + 1 ELSE 0
              answer == Datagram("client", action, m.tid, cid)
          IN /\ granted' = IF action = "connect" THEN granted \union {cid} ELSE granted
             /\ served' = IF m.action = "connect" THEN served ELSE served \union {answer}
             /\ clipped' = (clipped \/ action = "short error")
    BY <1>3 DEF TrackerAnswers
  <2>. DEFINE cid == IF action = "connect" THEN Cardinality(granted) + 1 ELSE 0
              answer == Datagram("client", action, m.tid, cid)
  <2>2. Cardinality(granted) \in Nat
    BY FS_CardinalityType DEF UdpTyped
  <2>3. cid \in Nat /\ (action = "connect" => cid \in Nat \ {0})
    <3>1. Cardinality(granted) + 1 \in Nat \ {0} /\ 0 \in Nat
      BY <2>2, NextNumber, Zenon
    <3>. QED BY <3>1, Zenon
  <2>4. m.action \in Actions /\ m.tid \in TransactionIds
    BY <1>3 DEF TrackerAnswers, WireIsOwn, UdpTyped, Datagrams
  <2>5. m.action # "connect" => action # "connect" /\ cid = 0
    OBVIOUS
  <2>. HIDE DEF cid
  <2>6. m.action # "connect" => answer \in Served
    BY <2>4, <2>5 DEF Served, Datagram
  <2>. HIDE DEF answer
  <2>7. granted' \subseteq Nat \ {0} /\ served' \subseteq Served
    BY <2>1, <2>3, <2>6 DEF TrackerTyped, cid, answer
  <2>8. clipped' \in BOOLEAN
    BY <2>1 DEF TrackerTyped
  <2>. QED BY <1>3, <2>7, <2>8 DEF TrackerAnswers, TrackerTyped
<1>4. ASSUME NEW m \in DOMAIN wire, Lose(m) \/ Duplicate(m) PROVE TrackerTyped'
  BY <1>4 DEF Lose, Duplicate, TrackerTyped
<1>. QED BY <1>1, <1>2, <1>3, <1>4, UdpKinds

(* One datagram more or fewer, and the copies of requests for an id.       *)
LEMMA CopiesGrown ==
  ASSUME NEW B, B \in [DOMAIN B -> Nat \ {0}], NEW x
  PROVE  /\ \E c : CopiesOf(B (+) One(x)) \subseteq CopiesOf(B) \union {c}
         /\ ~AsksForId(x) => CopiesOf(B (+) One(x)) \subseteq CopiesOf(B)
<1>. DEFINE A == B (+) One(x)
            n == IF x \in DOMAIN B THEN B[x] + 1 ELSE 1
<1>1. DOMAIN A = DOMAIN B \union {x} /\ \A y \in DOMAIN B \ {x} : A[y] = B[y]
  BY DEF (+), One, SetToBag
<1>2. A[x] = n
  BY DEF (+), One, SetToBag
<1>3. \A y \in DOMAIN B : B[y] \in Nat \ {0}
  OBVIOUS
<1>. HIDE DEF A
<1>4. ASSUME NEW c \in CopiesOf(A), c # <<x, n>> PROVE c \in CopiesOf(B)
  <2>1. /\ c = <<c[1], c[2]>> /\ c[1] \in DOMAIN A /\ c[2] \in Nat /\ AsksForId(c[1])
        /\ c[2] \in 1 .. A[c[1]]
    BY <1>4 DEF CopiesOf
  <2>2. CASE c[1] # x
    BY <1>1, <2>1, <2>2 DEF CopiesOf
  <2>3. CASE c[1] = x
    <3>1. c[2] \in 1 .. n /\ c[2] # n
      BY <1>2, <1>4, <2>1, <2>3
    <3>2. x \in DOMAIN B /\ c[2] \in 1 .. B[x]
      <4>1. CASE x \in DOMAIN B
        BY <1>3, <2>1, <3>1, <4>1
      <4>2. CASE x \notin DOMAIN B
        BY <2>1, <3>1, <4>2
      <4>. QED BY <4>1, <4>2
    <3>. QED BY <2>1, <2>3, <3>2 DEF CopiesOf
  <2>. QED BY <2>2, <2>3
<1>5. \A c \in CopiesOf(A) : AsksForId(c[1])
  BY DEF CopiesOf
<1>. QED BY <1>4, <1>5 DEF A

(* A datagram taken from the wire is one numbered copy less.               *)
LEMMA CopiesShrunk ==
  ASSUME NEW B, B \in [DOMAIN B -> Nat \ {0}], NEW x \in DOMAIN B
  PROVE  /\ CopiesOf(B (-) One(x)) \subseteq CopiesOf(B)
         /\ AsksForId(x) => \E c \in CopiesOf(B) : CopiesOf(B (-) One(x)) \subseteq CopiesOf(B) \ {c}
<1>. DEFINE C == [e \in DOMAIN B |-> IF e \in {x} THEN B[e] - 1 ELSE B[e]]
            R == [e \in {d \in DOMAIN C : C[d] > 0} |-> C[e]]
<1>1. B (-) One(x) = R
  <2>1. DOMAIN One(x) = {x} /\ One(x)[x] = 1
    BY DEF One, SetToBag
  <2>2. C = [e \in DOMAIN B |-> IF e \in DOMAIN One(x) THEN B[e] - One(x)[e] ELSE B[e]]
    BY <2>1
  <2>. QED BY <2>2 DEF (-)
<1>2. \A y \in DOMAIN B : B[y] \in Nat \ {0}
  OBVIOUS
<1>3. \A y \in DOMAIN R : y \in DOMAIN B /\ R[y] = IF y = x THEN B[y] - 1 ELSE B[y]
  OBVIOUS
<1>. HIDE DEF R
<1>4. ASSUME NEW c \in CopiesOf(R) PROVE c \in CopiesOf(B) /\ c # <<x, B[x]>>
  <2>1. /\ c = <<c[1], c[2]>> /\ c[1] \in DOMAIN R /\ c[2] \in Nat /\ AsksForId(c[1])
        /\ c[2] \in 1 .. R[c[1]]
    BY <1>4 DEF CopiesOf
  <2>2. c[1] \in DOMAIN B /\ B[c[1]] \in Nat
    BY <1>2, <1>3, <2>1
  <2>3. c[2] \in 1 .. B[c[1]] /\ (c[1] = x => c[2] # B[x])
    BY <1>3, <2>1, <2>2
  <2>. QED BY <2>1, <2>2, <2>3 DEF CopiesOf
<1>5. AsksForId(x) => <<x, B[x]>> \in CopiesOf(B)
  <2>1. B[x] \in Nat /\ B[x] \in 1 .. B[x]
    BY <1>2
  <2>. QED BY <2>1 DEF CopiesOf
<1>. QED BY <1>1, <1>4, <1>5

(* What that does to their number.                                         *)
LEMMA CopiesCounted ==
  ASSUME NEW S, IsFiniteSet(S), NEW T
  PROVE  /\ Cardinality(S) \in Nat
         /\ T \subseteq S => IsFiniteSet(T) /\ Cardinality(T) \in Nat /\ Cardinality(T) <= Cardinality(S)
         /\ \A c : T \subseteq S \union {c} =>
                IsFiniteSet(T) /\ Cardinality(T) \in Nat /\ Cardinality(T) <= Cardinality(S) + 1
         /\ \A c \in S : T \subseteq S \ {c} =>
                IsFiniteSet(T) /\ Cardinality(T) \in Nat /\ Cardinality(T) + 1 <= Cardinality(S)
<1>1. Cardinality(S) \in Nat
  BY FS_CardinalityType
<1>2. ASSUME NEW U, IsFiniteSet(U), T \subseteq U
      PROVE  IsFiniteSet(T) /\ Cardinality(T) \in Nat /\ Cardinality(T) <= Cardinality(U)
  BY <1>2, FS_Subset, FS_CardinalityType
<1>3. ASSUME NEW c, T \subseteq S \union {c}
      PROVE  IsFiniteSet(T) /\ Cardinality(T) \in Nat /\ Cardinality(T) <= Cardinality(S) + 1
  <2>1. /\ IsFiniteSet(S \union {c})
        /\ Cardinality(S \union {c}) = IF c \in S THEN Cardinality(S) ELSE Cardinality(S) + 1
    BY FS_AddElement
  <2>2. IsFiniteSet(T) /\ Cardinality(T) \in Nat /\ Cardinality(T) <= Cardinality(S \union {c})
    BY <1>2, <1>3, <2>1
  <2>. QED BY <1>1, <2>1, <2>2
<1>4. ASSUME NEW c \in S, T \subseteq S \ {c}
      PROVE  IsFiniteSet(T) /\ Cardinality(T) \in Nat /\ Cardinality(T) + 1 <= Cardinality(S)
  <2>1. IsFiniteSet(S \ {c}) /\ Cardinality(S \ {c}) = Cardinality(S) - 1
    BY FS_RemoveElement
  <2>2. IsFiniteSet(T) /\ Cardinality(T) \in Nat /\ Cardinality(T) <= Cardinality(S \ {c})
    BY <1>2, <1>4, <2>1
  <2>. QED BY <1>1, <2>1, <2>2
<1>. QED BY <1>1, <1>2, <1>3, <1>4

(* An id is granted for a connect that leaves the wire, and there are only *)
(* as many as were sent or doubled.                                        *)
LEMMA GrantsCountedStep == UdpTyped /\ WireIsOwn /\ GrantsCounted /\ [UdpNext]_udpVars => GrantsCounted'
<1>. SUFFICES ASSUME UdpTyped, WireIsOwn, GrantsCounted, [UdpNext]_udpVars PROVE GrantsCounted'
  OBVIOUS
<1>. DEFINE g == Cardinality(granted)
            a == Cardinality(Asking)
<1>1. wire \in [DOMAIN wire -> Nat \ {0}] /\ DOMAIN wire \subseteq Datagrams
  BY DEF UdpTyped
<1>2. /\ IsFiniteSet(Asking) /\ IsFiniteSet(granted) /\ granted = 1 .. g /\ g + a <= connects + duplicated
      /\ connection \in granted \union {0} /\ \A m \in DOMAIN wire : m.cid \in granted \union {0}
  BY DEF UdpTyped, GrantsCounted
<1>3. g \in Nat /\ a \in Nat /\ connects \in Nat /\ duplicated \in Nat
  BY <1>2, FS_CardinalityType DEF UdpTyped
<1>. HIDE DEF g, a
<1>9. /\ g + 1 \notin 1 .. g
      /\ \A n \in Nat : n + 1 <= a => (g + 1) + n <= connects + duplicated
      /\ \A n \in Nat : n <= a => g + n <= connects + duplicated
  BY <1>2, <1>3
<1>4. CASE Send
  <2>. DEFINE m == Datagram("tracker", IF step = "connect" THEN "connect" ELSE asked,
                            transaction, connection)
  <2>1. /\ wire' = wire (+) One(m) /\ connects' = IF step = "connect" THEN connects + 1 ELSE connects
        /\ UNCHANGED <<granted, duplicated, connection>>
    BY <1>4 DEF Send
  <2>2. m.cid = connection /\ (step # "connect" => ~AsksForId(m))
    BY DEF Datagram, AsksForId, UdpTyped
  <2>. HIDE DEF m
  <2>3. DOMAIN wire' = DOMAIN wire \union {m}
    BY ONLY <1>1, <2>1, BagGrown
  <2>4. \A k \in DOMAIN wire' : k.cid \in granted' \union {0}
    BY <1>2, <2>1, <2>2, <2>3
  <2>5. CASE step = "connect"
    <3>1. PICK c : Asking' \subseteq Asking \union {c}
      BY <1>1, <2>1, CopiesGrown DEF Asking
    <3>2. IsFiniteSet(Asking') /\ Cardinality(Asking') \in Nat /\ Cardinality(Asking') <= a + 1
      BY <1>2, <3>1, CopiesCounted DEF a
    <3>3. g + Cardinality(Asking') <= connects' + duplicated'
      BY <1>2, <1>3, <2>1, <2>5, <3>2
    <3>. QED BY <1>2, <2>1, <2>4, <3>2, <3>3 DEF GrantsCounted, g
  <2>6. CASE step # "connect"
    <3>1. Asking' \subseteq Asking
      BY <1>1, <2>1, <2>2, <2>6, CopiesGrown DEF Asking
    <3>2. IsFiniteSet(Asking') /\ Cardinality(Asking') \in Nat /\ Cardinality(Asking') <= a
      BY <1>2, <3>1, CopiesCounted DEF a
    <3>3. g + Cardinality(Asking') <= connects' + duplicated'
      BY <1>2, <1>3, <2>1, <2>6, <3>2
    <3>. QED BY <1>2, <2>1, <2>4, <3>2, <3>3 DEF GrantsCounted, g
  <2>. QED BY <2>5, <2>6
<1>5. CASE TimesOut \/ GivesUp \/ SocketFails \/ UNCHANGED udpVars
  <2>1. UNCHANGED <<wire, granted, connects, duplicated, connection>>
    BY <1>5 DEF TimesOut, GivesUp, SocketFails, Ends
  <2>. QED BY <2>1 DEF GrantsCounted, Asking
<1>6. ASSUME NEW m \in DOMAIN wire, Receive(m) \/ Lose(m) PROVE GrantsCounted'
  <2>1. /\ wire' = wire (-) One(m) /\ UNCHANGED <<granted, connects, duplicated>>
        /\ connection' \in {connection, m.cid}
    BY <1>6 DEF Receive, Lose, Connected, Answered, Ends
  <2>2. Asking' \subseteq Asking
    BY <1>1, <2>1, CopiesShrunk DEF Asking
  <2>3. IsFiniteSet(Asking') /\ Cardinality(Asking') \in Nat /\ Cardinality(Asking') <= a
    BY <1>2, <2>2, CopiesCounted DEF a
  <2>4. g + Cardinality(Asking') <= connects' + duplicated'
    BY <1>2, <1>3, <2>1, <2>3
  <2>5. DOMAIN wire' \subseteq DOMAIN wire
    BY <1>1, <2>1, BagShrunk
  <2>. QED BY <1>2, <2>1, <2>3, <2>4, <2>5 DEF GrantsCounted, g
<1>7. ASSUME NEW m \in DOMAIN wire, TrackerAnswers(m) PROVE GrantsCounted'
  <2>1. PICK action \in {m.action, "error", "short error"} :
          LET cid == IF action = "connect" THEN Cardinality(granted) + 1 ELSE 0
              answer == Datagram("client", action, m.tid, cid)
          IN /\ wire' = wire (-) One(m) (+) One(answer)
             /\ granted' = IF action = "connect" THEN granted \union {cid} ELSE granted
    BY <1>7 DEF TrackerAnswers
  <2>. DEFINE cid == IF action = "connect" THEN Cardinality(granted) + 1 ELSE 0
              answer == Datagram("client", action, m.tid, cid)
              rest == wire (-) One(m)
  <2>2. /\ wire' = rest (+) One(answer) /\ answer.cid = cid /\ ~AsksForId(answer)
        /\ granted' = IF action = "connect" THEN granted \union {g + 1} ELSE granted
        /\ cid = IF action = "connect" THEN g + 1 ELSE 0
    BY <2>1 DEF Datagram, AsksForId, g
  <2>3. UNCHANGED <<connects, duplicated, connection>> /\ m.to = "tracker"
    BY <1>7 DEF TrackerAnswers
  <2>4. /\ rest \in [DOMAIN rest -> Nat \ {0}] /\ DOMAIN rest \subseteq DOMAIN wire
        /\ CopiesOf(rest) \subseteq Asking
        /\ AsksForId(m) => \E c \in Asking : CopiesOf(rest) \subseteq Asking \ {c}
    BY <1>1, BagShrunk, CopiesShrunk DEF Asking
  <2>. HIDE DEF cid, answer, rest
  <2>5. Asking' \subseteq CopiesOf(rest)
    BY <2>2, <2>4, CopiesGrown DEF Asking
  <2>6. DOMAIN wire' = DOMAIN rest \union {answer}
    BY ONLY <2>2, <2>4, BagGrown
  <2>7. \A k \in DOMAIN wire' : k.cid \in granted' \union {0}
    BY <1>2, <2>2, <2>4, <2>6
  <2>8. CASE action = "connect"
    <3>1. AsksForId(m)
      BY <2>1, <2>3, <2>8 DEF AsksForId
    <3>2. PICK c \in Asking : Asking' \subseteq Asking \ {c}
      BY <2>4, <2>5, <3>1
    <3>3. IsFiniteSet(Asking') /\ Cardinality(Asking') \in Nat /\ Cardinality(Asking') + 1 <= a
      BY <1>2, <3>2, CopiesCounted DEF a
    <3>4. granted' = 1 .. g + 1
      BY <1>2, <1>3, <2>2, <2>8
    <3>5. Cardinality(granted') = g + 1
      BY <1>2, <1>9, <2>2, <2>8, FS_AddElement DEF g
    <3>6. Cardinality(granted') + Cardinality(Asking') <= connects' + duplicated'
      BY <1>9, <2>3, <3>3, <3>5
    <3>7. connection' \in granted' \union {0}
      BY <1>2, <2>2, <2>3
    <3>. QED BY <2>7, <3>3, <3>4, <3>5, <3>6, <3>7 DEF GrantsCounted
  <2>9. CASE action # "connect"
    <3>1. Asking' \subseteq Asking /\ granted' = granted
      BY <2>2, <2>4, <2>5, <2>9
    <3>2. IsFiniteSet(Asking') /\ Cardinality(Asking') \in Nat /\ Cardinality(Asking') <= a
      BY <1>2, <3>1, CopiesCounted DEF a
    <3>3. g + Cardinality(Asking') <= connects' + duplicated'
      BY <1>9, <2>3, <3>2
    <3>. QED BY <1>2, <2>3, <2>7, <3>1, <3>2, <3>3 DEF GrantsCounted, g
  <2>. QED BY <2>8, <2>9
<1>8. ASSUME NEW m \in DOMAIN wire, Duplicate(m) PROVE GrantsCounted'
  <2>1. /\ wire' = wire (+) One(m) /\ duplicated' = duplicated + 1
        /\ UNCHANGED <<granted, connects, connection>>
    BY <1>8 DEF Duplicate
  <2>2. DOMAIN wire' = DOMAIN wire
    <3>1. DOMAIN wire' = DOMAIN wire \union {m}
      BY ONLY <1>1, <2>1, BagGrown
    <3>. QED BY <3>1
  <2>3. PICK c : Asking' \subseteq Asking \union {c}
    BY <1>1, <2>1, CopiesGrown DEF Asking
  <2>4. IsFiniteSet(Asking') /\ Cardinality(Asking') \in Nat /\ Cardinality(Asking') <= a + 1
    BY <1>2, <2>3, CopiesCounted DEF a
  <2>5. g + Cardinality(Asking') <= connects' + duplicated'
    BY <1>2, <1>3, <2>1, <2>4
  <2>. QED BY <1>2, <2>1, <2>2, <2>4, <2>5 DEF GrantsCounted, g
<1>. QED BY <1>4, <1>5, <1>6, <1>7, <1>8, UdpKinds

LEMMA GrantsBegin == UdpInit => GrantsCounted
<1>. SUFFICES ASSUME UdpInit PROVE GrantsCounted
  OBVIOUS
<1>1. \A m \in DOMAIN wire : m.to = "client" /\ m.cid = 0
  <2>1. CASE wire = EmptyBag
    BY <2>1 DEF EmptyBag, SetToBag
  <2>2. CASE wire # EmptyBag
    BY <2>2 DEF UdpInit, One, SetToBag, Datagram
  <2>. QED BY <2>1, <2>2
<1>2. Asking = {} /\ granted = {} /\ connects = 0 /\ duplicated = 0 /\ connection = 0
  BY <1>1 DEF UdpInit, Asking, CopiesOf, AsksForId
<1>3. IsFiniteSet({}) /\ Cardinality({}) = 0 /\ 1 .. 0 = {}
  BY FS_EmptySet
<1>. QED BY <1>1, <1>2, <1>3 DEF GrantsCounted

LEMMA UdpTypes ==
  UdpTyped /\ WireIsOwn /\ TriesCounted /\ TrackerTyped /\ GrantsCounted => UdpTypeOK
<1>. SUFFICES ASSUME UdpTyped, WireIsOwn, TriesCounted, TrackerTyped, GrantsCounted PROVE UdpTypeOK
  OBVIOUS
<1>1. granted \union {0} \subseteq 0 .. UdpMaxRetries + MaxDuplicated
  <2>1. /\ Cardinality(granted) \in Nat /\ Cardinality(Asking) \in Nat
        /\ Cardinality(granted) + Cardinality(Asking) <= connects + duplicated
    BY FS_CardinalityType DEF UdpTyped, GrantsCounted
  <2>2. /\ UdpMaxRetries \in Nat /\ MaxDuplicated \in Nat
        /\ connects \in 0 .. UdpMaxRetries /\ duplicated \in 0 .. MaxDuplicated
    BY UdpAssumption DEF TriesCounted
  <2>3. Cardinality(granted) <= UdpMaxRetries + MaxDuplicated
    BY <2>1, <2>2
  <2>. QED BY <2>1, <2>2, <2>3 DEF GrantsCounted
<1>2. ASSUME NEW m \in DOMAIN wire PROVE m \in Requests \union Answers
  <2>1. m \in Datagrams /\ m.cid \in 0 .. UdpMaxRetries + MaxDuplicated
    BY <1>1 DEF UdpTyped, GrantsCounted
  <2>2. CASE m.to = "tracker"
    BY <2>1, <2>2 DEF WireIsOwn, Datagrams, Requests
  <2>3. CASE m.to = "client"
    BY <2>1, <2>3 DEF Datagrams, Answers
  <2>. QED BY <2>1, <2>2, <2>3 DEF Datagrams
<1>3. Served \subseteq Answers /\ connection \in 0 .. UdpMaxRetries + MaxDuplicated
  BY <1>1 DEF Served, Answers, GrantsCounted
<1>. QED BY <1>2, <1>3 DEF UdpTyped, TriesCounted, TrackerTyped, UdpTypeOK, BagToSet

(* Whatever is lost, late or doubled: a request carries an id that was     *)
(* granted to this socket, a success is the tracker's answer to it, and an *)
(* answer found invalid was a stray, a repetition or a clipped error.      *)
THEOREM AnswersAreOwn == UdpSpec => [](UdpTypeOK /\ AnswersOwn)
<1>1. UdpInit => UdpInv /\ TriesCounted /\ TrackerTyped /\ GrantsCounted
  <2>. SUFFICES ASSUME UdpInit PROVE TriesCounted /\ TrackerTyped
    BY UdpInitInv, GrantsBegin
  <2>1. TriesCounted
    BY UdpAssumption DEF UdpInit, TriesCounted
  <2>2. strayed \in BOOLEAN
    <3>1. strayed = (wire # EmptyBag)
      BY DEF UdpInit
    <3>. QED BY <3>1, Zenon
  <2>. QED BY <2>1, <2>2 DEF UdpInit, TrackerTyped
<1>2. UdpInv /\ [UdpNext]_udpVars => UdpInv'
  BY UdpTypedStep, WireOwnStep, EndedStep, ExpectedStep, AnswersStep DEF UdpInv
<1>3. UdpInv => UdpTyped /\ WireIsOwn /\ AnswersOwn
  BY DEF UdpInv
<1>. QED BY <1>1, <1>2, <1>3, TriesCountedStep, TrackerTypedStep, GrantsCountedStep, UdpTypes, PTL
         DEF UdpSpec

-----------------------------------------------------------------------------
(* The DHT node *)

SpareIsFresh == \A i \in DOMAIN spare : spare[i].fails = 0

(* Of a node that is in the bucket twice only the first entry is blamed.   *)
FirstIsBlamed ==
    \A i, j \in DOMAIN bucket : i < j /\ bucket[i].id = bucket[j].id => bucket[j].fails = 0

(* A replacement that is in the bucket, or twice a replacement, was queued *)
(* twice.                                                                  *)
QueuedTwice ==
    /\ \A i \in DOMAIN spare : \A j \in DOMAIN bucket :
           spare[i].id = bucket[j].id => spare[i].id \in requeued
    /\ \A i, j \in DOMAIN spare : i # j /\ spare[i].id = spare[j].id => spare[i].id \in requeued

(* A lookup asks a node once.                                              *)
AskedOnce ==
    /\ \A q, r \in asks : q.task = r.task /\ q.node = r.node => q = r
    /\ \A q \in asks : q.node \in lookup[q.task].queried
    /\ \A t \in DhtTasks : lookup[t].to \cap lookup[t].queried = {}

TableTyped == bucket \in Seq(Entries) /\ spare \in Seq(Entries) /\ requeued \subseteq DhtNodes
              /\ streak \in [DhtNodes -> Nat]

QueriesTyped ==
    /\ lookup \in [DhtTasks -> [kind : {"none", "ping", "find_node", "get_peers"},
                                to : SUBSET DhtNodes, queried : SUBSET DhtNodes,
                                new : SUBSET DhtNodes, rounds : Nat]]
    /\ asks \subseteq Queries /\ pending \in [Tids -> SUBSET (DhtTasks \X DhtNodes)]
    /\ inbox \subseteq [tid : Tids, node : DhtNodes] /\ collided \in BOOLEAN

StoreTyped ==
    /\ epoch \in Nat /\ tokens \subseteq [node : DhtNodes, epoch : Nat]
    /\ peers \subseteq [node : DhtNodes, token : [node : DhtNodes, epoch : Nat], at : Nat]

TableInv == SpareIsFresh /\ FirstIsBlamed /\ FailuresOwn /\ QueuedTwice /\ BucketShape

DhtInv == /\ TableTyped /\ QueriesTyped /\ StoreTyped
          /\ TableInv /\ AskedOnce /\ PendingOwned /\ AnnouncesAuthorised

USE DEF table, querying, storing, DhtTasks

(* What removing an entry leaves of a sequence.                            *)
LEMMA OneRemoved ==
  ASSUME NEW S, NEW s \in Seq(S), NEW i \in 1 .. Len(s)
  PROVE  /\ RemoveAt(s, i) \in Seq(S) /\ Len(RemoveAt(s, i)) = Len(s) - 1
         /\ \A j \in 1 .. Len(s) - 1 : RemoveAt(s, i)[j] = s[IF j < i THEN j ELSE j + 1]
<1>. DEFINE front == SubSeq(s, 1, i - 1)
            back == SubSeq(s, i + 1, Len(s))
<1>1. /\ front \in Seq(S) /\ Len(front) = i - 1
      /\ \A j \in 1 .. i - 1 : front[j] = s[j]
  OBVIOUS
<1>2. /\ back \in Seq(S) /\ Len(back) = Len(s) - i
      /\ \A j \in 1 .. Len(s) - i : back[j] = s[j + i]
  OBVIOUS
<1>3. RemoveAt(s, i) = front \o back
  BY DEF RemoveAt
<1>. HIDE DEF front, back
<1>4. front \o back \in Seq(S) /\ Len(front \o back) = Len(s) - 1
  BY <1>1, <1>2
<1>5. ASSUME NEW j \in 1 .. Len(s) - 1
      PROVE  (front \o back)[j] = s[IF j < i THEN j ELSE j + 1]
  <2>1. CASE j < i
    BY <1>1, <1>2, <2>1
  <2>2. CASE j >= i
    <3>1. (front \o back)[j] = back[j - (i - 1)]
      BY <1>1, <1>2, <2>2
    <3>2. back[j - (i - 1)] = s[j + 1]
      BY <1>2, <2>2
    <3>. QED BY <2>2, <3>1, <3>2
  <2>3. Len(s) \in Nat
    OBVIOUS
  <2>4. j < i \/ j >= i
    BY <2>3
  <2>. HIDE DEF front, back
  <2>. QED BY ONLY <2>1, <2>2, <2>4
<1>. QED BY <1>3, <1>4, <1>5

(* What appending an entry makes of a sequence.                            *)
LEMMA OneAppended ==
  ASSUME NEW S, NEW s \in Seq(S), NEW e \in S
  PROVE  /\ Append(s, e) \in Seq(S) /\ Len(Append(s, e)) = Len(s) + 1
         /\ DOMAIN Append(s, e) = 1 .. Len(s) + 1 /\ Append(s, e)[Len(s) + 1] = e
         /\ \A j \in 1 .. Len(s) : Append(s, e)[j] = s[j]
OBVIOUS

LEMMA LastOrBefore == \A N \in Nat : \A j \in 1 .. N : j = N \/ j \in 1 .. N - 1
OBVIOUS

(* The first place of a node.                                              *)
LEMMA FirstPlace ==
  ASSUME bucket \in Seq(Entries), NEW n, Places(n) # {}
  PROVE  /\ First(Places(n)) \in 1 .. Len(bucket) /\ bucket[First(Places(n))].id = n
         /\ \A j \in 1 .. Len(bucket) : bucket[j].id = n => First(Places(n)) <= j
<1>. DEFINE N == Len(bucket)
            fromEnd == {N - i : i \in Places(n)}
<1>1. Places(n) \subseteq 1 .. N /\ N \in Nat
  BY DEF Places
<1>2. \E i \in Places(n) : \A j \in Places(n) : i <= j
  <2>1. IsFiniteSet(fromEnd)
    <3>1. IsFiniteSet(0 .. N - 1)
      <4>1. 0 \in Int /\ N - 1 \in Int
        BY <1>1
      <4>. QED BY <4>1, FS_Interval
    <3>2. fromEnd \subseteq 0 .. N - 1
      BY <1>1
    <3>. HIDE DEF fromEnd
    <3>. QED BY <3>1, <3>2, FS_Subset
  <2>2. fromEnd \in SUBSET Nat /\ fromEnd # {}
    BY <1>1
  <2>3. PICK m \in fromEnd : \A k \in fromEnd : k <= m
    <3>. HIDE DEF fromEnd
    <3>. QED BY <2>1, <2>2, Greatest
  <2>4. PICK i \in Places(n) : m = N - i
    BY <2>3
  <2>5. \A j \in Places(n) : N - j <= N - i
    BY <2>3, <2>4
  <2>. QED BY <1>1, <2>5
<1>3. First(Places(n)) \in Places(n) /\ \A j \in Places(n) : First(Places(n)) <= j
  BY <1>2 DEF First
<1>. QED BY <1>3 DEF Places

LEMMA EntryTypes ==
  /\ \A n \in DhtNodes : Fresh(n) \in Entries /\ Fresh(n).id = n /\ Fresh(n).fails = 0
  /\ \A e \in Entries : e.id \in DhtNodes /\ e.fails \in Nat
  /\ FailLimit \in Nat \ {0} /\ K \in Nat \ {0}
<1>1. FailLimit \in Nat \ {0} /\ K \in Nat \ {0}
  BY DhtAssumption
<1>. QED BY <1>1 DEF Fresh, Entries

(* A node that is heard may clear its count, one that is heard of not.     *)
LEMMA AddNodeKeeps ==
  ASSUME TableTyped, TableInv, NEW n \in DhtNodes, AddNode(n),
         streak' = streak \/ streak' = [streak EXCEPT ![n] = 0]
  PROVE  TableTyped' /\ TableInv'
<1>1. /\ bucket \in Seq(Entries) /\ spare \in Seq(Entries) /\ Len(bucket) \in Nat
      /\ requeued \subseteq DhtNodes /\ streak \in [DhtNodes -> Nat]
      /\ DOMAIN bucket = 1 .. Len(bucket) /\ DOMAIN spare = 1 .. Len(spare)
      /\ \A j \in DOMAIN bucket : bucket[j] \in Entries /\ bucket[j].id \in DhtNodes
      /\ \A j \in DOMAIN spare : spare[j] \in Entries /\ spare[j].id \in DhtNodes
  BY EntryTypes DEF TableTyped
<1>2. streak' \in [DhtNodes -> Nat] /\ streak'[n] \in {streak[n], 0}
      /\ \A k \in DhtNodes \ {n} : streak'[k] = streak[k]
  BY <1>1
<1>3. CASE Places(n) # {}
  <2>. DEFINE p == First(Places(n))
              N == Len(bucket)
              Old(j) == IF j < p THEN j ELSE j + 1
              rest == RemoveAt(bucket, p)
  <2>1. p \in 1 .. N /\ bucket[p].id = n /\ \A j \in 1 .. N : bucket[j].id = n => p <= j
    BY <1>1, <1>3, FirstPlace
  <2>2. bucket' = Append(rest, Fresh(n)) /\ UNCHANGED <<spare, requeued>>
    BY <1>3 DEF AddNode
  <2>. HIDE DEF p
  <2>3. /\ rest \in Seq(Entries) /\ Len(rest) = N - 1
        /\ \A j \in 1 .. N - 1 : rest[j] = bucket[IF j < p THEN j ELSE j + 1]
    BY <1>1, <2>1, OneRemoved
  <2>. HIDE DEF rest
  <2>4. /\ bucket' \in Seq(Entries) /\ Len(bucket') = N /\ DOMAIN bucket' = 1 .. N
        /\ bucket'[N].id = n /\ bucket'[N].fails = 0
        /\ \A j \in 1 .. N - 1 : bucket'[j] = bucket[Old(j)]
    <3>1. bucket' \in Seq(Entries) /\ Len(bucket') = N
          /\ bucket'[N] = Fresh(n) /\ \A j \in 1 .. N - 1 : bucket'[j] = rest[j]
      <4>1. Fresh(n) \in Entries /\ Len(rest) + 1 = N
        BY <1>1, <2>3, EntryTypes
      <4>. QED BY ONLY <2>2, <2>3, <4>1, OneAppended
    <3>. QED BY <1>1, <2>3, <3>1, EntryTypes
  <2>5. /\ \A j \in 1 .. N - 1 : Old(j) \in DOMAIN bucket /\ Old(j) # p
        /\ \A j, k \in 1 .. N - 1 : (j < k => Old(j) < Old(k)) /\ (j # k => Old(j) # Old(k))
    BY <1>1, <2>1
  <2>6. \A j \in 1 .. N - 1 : bucket[Old(j)].id = n => bucket[Old(j)].fails = 0
    <3>. HIDE DEF Old
    <3>1. ASSUME NEW j \in 1 .. N - 1, bucket[Old(j)].id = n PROVE bucket[Old(j)].fails = 0
      <4>1. Old(j) \in 1 .. N /\ Old(j) # p
        BY <1>1, <2>5
      <4>2. p <= Old(j)
        BY <2>1, <3>1, <4>1
      <4>3. p < Old(j)
        BY <1>1, <2>1, <4>1, <4>2
      <4>. QED BY <1>1, <2>1, <3>1, <4>1, <4>3 DEF TableInv, FirstIsBlamed
    <3>. QED BY <3>1
  <2>7. \A j \in 1 .. N : \E k \in 1 .. N : bucket'[j].id = bucket[k].id
    <3>1. ASSUME NEW j \in 1 .. N PROVE \E k \in 1 .. N : bucket'[j].id = bucket[k].id
      <4>1. CASE j = N
        BY <2>1, <2>4, <4>1
      <4>2. CASE j # N
        <5>1. j \in 1 .. N - 1
          BY ONLY <1>1, <4>2, LastOrBefore
        <5>. QED BY <1>1, <2>4, <2>5, <5>1
      <4>. QED BY <4>1, <4>2
    <3>. QED BY <3>1
  <2>8. FirstIsBlamed'
    <3>1. SUFFICES ASSUME NEW i \in 1 .. N, NEW j \in 1 .. N, i < j, bucket'[i].id = bucket'[j].id
                   PROVE  bucket'[j].fails = 0
      BY <2>4 DEF FirstIsBlamed
    <3>2. CASE j = N
      BY <2>4, <3>2
    <3>3. CASE j # N
      <4>1. i \in 1 .. N - 1 /\ j \in 1 .. N - 1
        BY <1>1, <3>1, <3>3
      <4>. HIDE DEF Old
      <4>. QED BY <2>4, <2>5, <3>1, <4>1 DEF TableInv, FirstIsBlamed
    <3>. QED BY <3>2, <3>3
  <2>9. FailuresOwn'
    <3>1. SUFFICES ASSUME NEW i \in 1 .. N PROVE bucket'[i].fails <= streak'[bucket'[i].id]
      BY <2>4 DEF FailuresOwn
    <3>2. CASE i = N
      BY <1>1, <1>2, <2>4, <3>2
    <3>3. CASE i # N
      <4>1. i \in 1 .. N - 1
        BY ONLY <1>1, <3>1, <3>3, LastOrBefore
      <4>2. bucket'[i] = bucket[Old(i)] /\ bucket[Old(i)].fails <= streak[bucket[Old(i)].id]
        BY <2>4, <2>5, <4>1 DEF TableInv, FailuresOwn
      <4>3. CASE bucket'[i].id = n
        <5>1. bucket'[i].fails = 0 /\ streak'[n] \in Nat
          BY <1>2, <2>6, <4>1, <4>2, <4>3
        <5>. QED BY <4>3, <5>1
      <4>4. CASE bucket'[i].id # n
        <5>1. bucket'[i].id \in DhtNodes
          BY <1>1, <2>5, <4>1, <4>2
        <5>. HIDE DEF Old
        <5>. QED BY <1>2, <4>2, <4>4, <5>1
      <4>. QED BY <4>3, <4>4
    <3>. QED BY <3>2, <3>3
  <2>10. QueuedTwice'
    <3>1. ASSUME NEW i \in DOMAIN spare, NEW j \in 1 .. N, spare[i].id = bucket'[j].id
          PROVE  spare[i].id \in requeued
      <4>1. PICK k \in 1 .. N : spare[i].id = bucket[k].id
        BY <2>7, <3>1
      <4>. QED BY <1>1, <4>1 DEF TableInv, QueuedTwice
    <3>2. \A i, j \in DOMAIN spare : i # j /\ spare[i].id = spare[j].id => spare[i].id \in requeued
      BY DEF TableInv, QueuedTwice
    <3>. QED BY ONLY <2>2, <2>4, <3>1, <3>2 DEF QueuedTwice
  <2>11. BucketShape'
    <3>1. Len(bucket') <= K /\ Len(spare') <= K /\ (spare' # <<>> => Len(bucket') = K)
      BY <2>2, <2>4 DEF TableInv, BucketShape
    <3>2. ASSUME NEW i \in 1 .. N, NEW j \in 1 .. N, i # j, bucket'[i].id = bucket'[j].id
          PROVE  bucket'[i].id \in requeued
      <4>1. CASE i = N
        <5>1. j \in 1 .. N - 1
          BY ONLY <1>1, <3>2, <4>1, LastOrBefore
        <5>2. bucket[Old(j)].id = n /\ Old(j) \in DOMAIN bucket /\ Old(j) # p
          BY <2>4, <2>5, <3>2, <4>1, <5>1
        <5>. HIDE DEF Old
        <5>. QED BY <1>1, <2>1, <2>4, <4>1, <5>2 DEF TableInv, BucketShape
      <4>2. CASE j = N
        <5>1. i \in 1 .. N - 1
          BY ONLY <1>1, <3>2, <4>2, LastOrBefore
        <5>2. bucket[Old(i)].id = n /\ Old(i) \in DOMAIN bucket /\ Old(i) # p
          BY <2>4, <2>5, <3>2, <4>2, <5>1
        <5>. HIDE DEF Old
        <5>. QED BY <1>1, <2>1, <2>4, <3>2, <4>2, <5>2 DEF TableInv, BucketShape
      <4>3. CASE i # N /\ j # N
        <5>1. i \in 1 .. N - 1 /\ j \in 1 .. N - 1
          BY ONLY <1>1, <4>3, <3>2, LastOrBefore
        <5>. HIDE DEF Old
        <5>. QED BY <2>4, <2>5, <3>2, <5>1 DEF TableInv, BucketShape
      <4>. QED BY <4>1, <4>2, <4>3
    <3>. QED BY <2>2, <2>4, <3>1, <3>2 DEF BucketShape
  <2>. QED BY <1>1, <1>2, <2>2, <2>4, <2>8, <2>9, <2>10, <2>11
       DEF TableTyped, TableInv, SpareIsFresh
<1>4. CASE Places(n) = {} /\ Len(bucket) < K
  <2>. DEFINE N == Len(bucket)
  <2>1. bucket' = Append(bucket, Fresh(n)) /\ UNCHANGED <<spare, requeued>>
    BY <1>4 DEF AddNode
  <2>2. /\ bucket' \in Seq(Entries) /\ Len(bucket') = N + 1 /\ DOMAIN bucket' = 1 .. N + 1
        /\ bucket'[N + 1].id = n /\ bucket'[N + 1].fails = 0
        /\ \A j \in 1 .. N : bucket'[j] = bucket[j]
    BY <1>1, <2>1, EntryTypes
  <2>3. \A j \in 1 .. N : bucket[j].id # n
    BY <1>1, <1>4 DEF Places
  <2>4. spare = <<>>
    <3>1. spare # <<>> => N = K
      BY DEF TableInv, BucketShape
    <3>2. N # K
      <4>1. K \in Nat /\ Len(bucket) \in Nat /\ Len(bucket) < K
        BY <1>1, <1>4, EntryTypes
      <4>. QED BY ONLY <4>1
    <3>. QED BY ONLY <3>1, <3>2
  <2>5. \A j \in 1 .. N + 1 : j = N + 1 \/ j \in 1 .. N
    BY <1>1
  <2>6. FirstIsBlamed'
    BY <1>1, <2>2, <2>3, <2>5 DEF TableInv, FirstIsBlamed
  <2>7. FailuresOwn'
    <3>1. \A j \in 1 .. N : bucket'[j].fails <= streak'[bucket'[j].id]
      BY <1>1, <1>2, <2>2, <2>3 DEF TableInv, FailuresOwn
    <3>2. bucket'[N + 1].fails <= streak'[bucket'[N + 1].id]
      BY <1>2, <2>2
    <3>. QED BY <2>2, <2>5, <3>1, <3>2 DEF FailuresOwn
  <2>8. QueuedTwice' /\ SpareIsFresh'
    BY <2>1, <2>4 DEF QueuedTwice, SpareIsFresh
  <2>9. BucketShape'
    <3>1. Len(bucket') <= K /\ Len(spare') <= K /\ spare' = <<>>
      BY <1>1, <1>4, <2>1, <2>2, <2>4, EntryTypes
    <3>2. \A i, j \in 1 .. N + 1 :
             bucket'[i].id = bucket'[j].id /\ i # j => bucket'[i].id \in requeued
      BY <1>1, <2>2, <2>3, <2>5 DEF TableInv, BucketShape
    <3>. QED BY <2>1, <2>2, <3>1, <3>2 DEF BucketShape
  <2>. QED BY <1>1, <1>2, <2>1, <2>2, <2>6, <2>7, <2>8, <2>9 DEF TableTyped, TableInv
<1>5. CASE Places(n) = {} /\ Len(bucket) = K
  <2>1. \A j \in DOMAIN bucket : bucket[j].id # n
    BY <1>5 DEF Places
  <2>2. UNCHANGED bucket
    BY <1>5, EntryTypes DEF AddNode
  <2>3. FirstIsBlamed' /\ FailuresOwn'
    BY <1>1, <1>2, <2>1, <2>2 DEF TableInv, FirstIsBlamed, FailuresOwn
  <2>4. CASE Len(spare) = K
    <3>1. UNCHANGED <<spare, requeued>>
      BY <1>5, <2>4, EntryTypes DEF AddNode
    <3>. QED BY <1>1, <1>2, <2>2, <2>3, <3>1
         DEF TableTyped, TableInv, SpareIsFresh, QueuedTwice, BucketShape
  <2>5. CASE Len(spare) # K
    <3>. DEFINE M == Len(spare)
    <3>1. /\ spare' = Append(spare, Fresh(n))
          /\ requeued' = IF \E i \in DOMAIN spare : spare[i].id = n
                         THEN requeued \union {n} ELSE requeued
      BY <1>5, <2>5, EntryTypes DEF AddNode
    <3>2. /\ spare' \in Seq(Entries) /\ Len(spare') = M + 1 /\ DOMAIN spare' = 1 .. M + 1
          /\ spare'[M + 1].id = n /\ spare'[M + 1].fails = 0
          /\ \A j \in 1 .. M : spare'[j] = spare[j]
      BY <1>1, <3>1, EntryTypes
    <3>3. \A j \in 1 .. M + 1 : j = M + 1 \/ j \in 1 .. M
      BY <1>1
    <3>4. SpareIsFresh'
      BY <1>1, <3>2, <3>3 DEF TableInv, SpareIsFresh
    <3>5. requeued \subseteq requeued' /\ requeued' \subseteq DhtNodes
          /\ \A i \in 1 .. M : spare[i].id = n => n \in requeued'
      BY <1>1, <3>1
    <3>6. QueuedTwice'
      <4>1. \A i \in 1 .. M + 1 : \A j \in DOMAIN bucket :
               spare'[i].id = bucket[j].id => spare'[i].id \in requeued'
        BY <1>1, <2>1, <3>2, <3>3, <3>5 DEF TableInv, QueuedTwice
      <4>2. \A i, j \in 1 .. M + 1 :
               i # j /\ spare'[i].id = spare'[j].id => spare'[i].id \in requeued'
        BY <1>1, <3>2, <3>3, <3>5 DEF TableInv, QueuedTwice
      <4>. QED BY <2>2, <3>2, <4>1, <4>2 DEF QueuedTwice
    <3>7. BucketShape'
      <4>1. Len(spare') <= K
        <5>1. M \in Nat /\ M <= K
          BY <1>1 DEF TableInv, BucketShape
        <5>. QED BY ONLY <2>5, <3>2, <5>1, EntryTypes
      <4>. QED BY <1>5, <2>2, <3>5, <4>1 DEF TableInv, BucketShape
    <3>. QED BY <1>1, <1>2, <2>2, <2>3, <3>2, <3>4, <3>5, <3>6, <3>7 DEF TableTyped, TableInv
  <2>. QED BY <2>4, <2>5
<1>. QED BY <1>3, <1>4, <1>5 DEF AddNode

(* What removes a node from the bucket.                                    *)
LEMMA PromotedKeeps ==
  ASSUME TableTyped, TableInv, NEW p \in DOMAIN bucket,
         bucket' = Promoted(p), spare' = IF spare = <<>> THEN spare ELSE Tail(spare),
         UNCHANGED requeued, streak' \in [DhtNodes -> Nat],
         \A k \in DhtNodes : streak[k] <= streak'[k]
  PROVE  TableTyped' /\ TableInv'
<1>. DEFINE N == Len(bucket)
            M == Len(spare)
            Old(j) == IF j < p THEN j ELSE j + 1
            rest == RemoveAt(bucket, p)
<1>1. /\ bucket \in Seq(Entries) /\ spare \in Seq(Entries) /\ N \in Nat /\ M \in Nat
      /\ requeued \subseteq DhtNodes /\ streak \in [DhtNodes -> Nat]
      /\ DOMAIN bucket = 1 .. N /\ DOMAIN spare = 1 .. M /\ p \in 1 .. N
      /\ \A j \in DOMAIN bucket : bucket[j] \in Entries /\ bucket[j].id \in DhtNodes
      /\ \A j \in DOMAIN spare : spare[j] \in Entries /\ spare[j].id \in DhtNodes
  BY EntryTypes DEF TableTyped
<1>2. /\ rest \in Seq(Entries) /\ Len(rest) = N - 1
      /\ \A j \in 1 .. N - 1 : rest[j] = bucket[Old(j)]
  BY <1>1, OneRemoved
<1>3. /\ \A j \in 1 .. N - 1 : Old(j) \in 1 .. N
      /\ \A j, k \in 1 .. N - 1 : (j < k => Old(j) < Old(k)) /\ (j # k => Old(j) # Old(k))
  BY <1>1
<1>. HIDE DEF rest, Old
<1>4. \A e \in Entries : e.fails \in Nat
  BY EntryTypes
<1>5. \A j \in DOMAIN bucket : bucket[j].fails <= streak'[bucket[j].id]
  <2>1. ASSUME NEW j \in DOMAIN bucket PROVE bucket[j].fails <= streak'[bucket[j].id]
    <3>1. bucket[j].fails <= streak[bucket[j].id]
      BY DEF TableInv, FailuresOwn
    <3>2. bucket[j].fails \in Nat /\ streak[bucket[j].id] \in Nat /\ streak'[bucket[j].id] \in Nat
          /\ streak[bucket[j].id] <= streak'[bucket[j].id]
      BY <1>1, <1>4
    <3>. QED BY <3>1, <3>2
  <2>. QED BY <2>1
<1>6. CASE spare = <<>>
  <2>1. bucket' = rest /\ spare' = <<>>
    <3>1. bucket' = rest \o <<>>
      BY <1>6 DEF Promoted, rest
    <3>. QED BY <1>2, <1>6, <3>1
  <2>2. bucket' \in Seq(Entries) /\ Len(bucket') = N - 1 /\ DOMAIN bucket' = 1 .. N - 1
        /\ \A j \in 1 .. N - 1 : bucket'[j] = bucket[Old(j)]
    <3>1. bucket' \in Seq(Entries) /\ Len(bucket') = N - 1 /\ DOMAIN bucket' = 1 .. Len(bucket')
      BY <1>2, <2>1
    <3>. QED BY <1>2, <2>1, <3>1
  <2>3. FirstIsBlamed'
    <3>1. ASSUME NEW i \in 1 .. N - 1, NEW j \in 1 .. N - 1, i < j, bucket'[i].id = bucket'[j].id
          PROVE  bucket'[j].fails = 0
      <4>1. Old(i) < Old(j) /\ Old(i) \in DOMAIN bucket /\ Old(j) \in DOMAIN bucket
        BY <1>1, <1>3, <3>1
      <4>. QED BY <2>2, <3>1, <4>1 DEF TableInv, FirstIsBlamed
    <3>. QED BY <2>2, <3>1 DEF FirstIsBlamed
  <2>4. FailuresOwn'
    BY <1>1, <1>3, <1>5, <2>2 DEF FailuresOwn
  <2>5. BucketShape'
    <3>1. N - 1 <= K /\ Len(spare') <= K
      <4>1. N <= K /\ Len(spare) <= K
        BY DEF TableInv, BucketShape
      <4>. QED BY <1>1, <1>6, <2>1, <4>1, EntryTypes
    <3>. QED BY <1>1, <1>3, <2>1, <2>2, <3>1 DEF TableInv, BucketShape
  <2>. QED BY <1>1, <2>1, <2>2, <2>3, <2>4, <2>5
       DEF TableTyped, TableInv, SpareIsFresh, QueuedTwice
<1>7. CASE spare # <<>>
  <2>. DEFINE h == Head(spare)
  <2>1. /\ h \in Entries /\ h = spare[1] /\ 1 \in DOMAIN spare
        /\ spare' \in Seq(Entries) /\ Len(spare') = M - 1 /\ DOMAIN spare' = 1 .. M - 1
        /\ \A j \in 1 .. M - 1 : spare'[j] = spare[j + 1] /\ j + 1 \in DOMAIN spare /\ j + 1 # 1
    BY <1>1, <1>7
  <2>2. bucket' = rest \o <<h>>
    BY <1>7 DEF Promoted, rest
  <2>. HIDE DEF h
  <2>3. /\ bucket' \in Seq(Entries) /\ Len(bucket') = N /\ DOMAIN bucket' = 1 .. N
        /\ bucket'[N] = h /\ \A j \in 1 .. N - 1 : bucket'[j] = bucket[Old(j)]
    <3>1. rest \o <<h>> = Append(rest, h)
      BY <1>2, <2>1
    <3>2. Len(rest) + 1 = N
      BY <1>1, <1>2
    <3>3. /\ Append(rest, h) \in Seq(Entries) /\ Len(Append(rest, h)) = N
          /\ DOMAIN Append(rest, h) = 1 .. N /\ Append(rest, h)[N] = h
          /\ \A j \in 1 .. Len(rest) : Append(rest, h)[j] = rest[j]
      BY ONLY <1>2, <2>1, <3>2, OneAppended
    <3>. QED BY <1>1, <1>2, <2>2, <3>1, <3>3
  <2>4. N = K /\ Len(spare) <= K
    BY <1>7 DEF TableInv, BucketShape
  <2>5. h.fails = 0 /\ \A j \in 1 .. N : h.id = bucket[j].id => h.id \in requeued
    BY <1>1, <2>1 DEF TableInv, SpareIsFresh, QueuedTwice
  <2>6. \A j \in 1 .. N : j = N \/ j \in 1 .. N - 1
    BY <1>1, LastOrBefore
  <2>7. FirstIsBlamed'
    <3>1. SUFFICES ASSUME NEW i \in 1 .. N, NEW j \in 1 .. N, i < j, bucket'[i].id = bucket'[j].id
                   PROVE  bucket'[j].fails = 0
      BY <2>3 DEF FirstIsBlamed
    <3>2. CASE j = N
      BY <2>3, <2>5, <3>2
    <3>3. CASE j # N
      <4>1. i \in 1 .. N - 1 /\ j \in 1 .. N - 1
        <5>1. i # N
          BY ONLY N \in Nat, i \in 1 .. N, j \in 1 .. N, i < j
        <5>. QED BY ONLY <2>6, <3>3, <5>1
      <4>2. Old(i) < Old(j) /\ Old(i) \in DOMAIN bucket /\ Old(j) \in DOMAIN bucket
            /\ bucket'[i] = bucket[Old(i)] /\ bucket'[j] = bucket[Old(j)]
        BY ONLY <1>1, <1>3, <2>3, <3>1, <4>1
      <4>3. FirstIsBlamed
        BY DEF TableInv
      <4>. QED BY ONLY <3>1, <4>2, <4>3 DEF FirstIsBlamed
    <3>. QED BY <3>2, <3>3
  <2>8. FailuresOwn'
    <3>1. \A j \in 1 .. N - 1 : bucket'[j].fails <= streak'[bucket'[j].id]
      BY <1>1, <1>3, <1>5, <2>3
    <3>2. bucket'[N].fails <= streak'[bucket'[N].id]
      <4>1. bucket'[N].id \in DhtNodes
        BY <2>1, <2>3, EntryTypes
      <4>. QED BY <2>3, <2>5, <4>1
    <3>. QED BY <2>3, <2>6, <3>1, <3>2 DEF FailuresOwn
  <2>9. SpareIsFresh'
    BY <1>1, <2>1 DEF TableInv, SpareIsFresh
  <2>10. QueuedTwice'
    <3>1. ASSUME NEW i \in 1 .. M - 1, NEW j \in 1 .. N, spare'[i].id = bucket'[j].id
          PROVE  spare'[i].id \in requeued
      <4>1. CASE j = N
        <5>1. /\ spare[i + 1].id = spare[1].id /\ i + 1 # 1 /\ i + 1 \in DOMAIN spare
              /\ 1 \in DOMAIN spare /\ spare'[i] = spare[i + 1]
          BY <2>1, <2>3, <3>1, <4>1
        <5>. QED BY <5>1 DEF TableInv, QueuedTwice
      <4>2. CASE j # N
        <5>1. Old(j) \in DOMAIN bucket /\ bucket'[j] = bucket[Old(j)]
          BY <1>1, <1>3, <2>3, <2>6, <4>2
        <5>. QED BY <2>1, <3>1, <5>1 DEF TableInv, QueuedTwice
      <4>. QED BY <4>1, <4>2
    <3>2. ASSUME NEW i \in 1 .. M - 1, NEW j \in 1 .. M - 1, i # j, spare'[i].id = spare'[j].id
          PROVE  spare'[i].id \in requeued
      <4>1. i + 1 # j + 1
        BY <3>2
      <4>. QED BY <2>1, <3>2, <4>1 DEF TableInv, QueuedTwice
    <3>. QED BY <2>1, <2>3, <3>1, <3>2 DEF QueuedTwice
  <2>11. BucketShape'
    <3>1. Len(bucket') = K /\ Len(spare') <= K /\ K <= K
      <4>1. K \in Nat
        BY EntryTypes
      <4>2. M <= K /\ M \in Nat
        BY <1>1, <2>4
      <4>. QED BY <2>1, <2>3, <2>4, <4>1, <4>2
    <3>2. ASSUME NEW i \in 1 .. N, NEW j \in 1 .. N, i # j, bucket'[i].id = bucket'[j].id
          PROVE  bucket'[i].id \in requeued
      <4>1. ASSUME NEW k \in 1 .. N - 1, bucket'[k].id = h.id PROVE h.id \in requeued
        BY <1>3, <2>3, <2>5, <4>1
      <4>2. CASE i = N
        <5>1. j \in 1 .. N - 1
          BY <2>6, <3>2, <4>2
        <5>. QED BY <2>3, <3>2, <4>1, <4>2, <5>1
      <4>3. CASE j = N
        <5>1. i \in 1 .. N - 1
          BY <2>6, <3>2, <4>3
        <5>. QED BY <2>3, <3>2, <4>1, <4>3, <5>1
      <4>4. CASE i # N /\ j # N
        <5>1. i \in 1 .. N - 1 /\ j \in 1 .. N - 1
          BY <2>6, <4>4
        <5>. QED BY <1>1, <1>3, <2>3, <3>2, <5>1 DEF TableInv, BucketShape
      <4>. QED BY <4>2, <4>3, <4>4
    <3>. QED BY <2>3, <3>1, <3>2 DEF BucketShape
  <2>. QED BY <1>1, <2>1, <2>3, <2>7, <2>8, <2>9, <2>10, <2>11 DEF TableTyped, TableInv
<1>. QED BY <1>6, <1>7

(* The first entry of the node is blamed, or gives way to a replacement,   *)
(* which joins without failures.                                           *)
LEMMA MarkFailedKeeps ==
  ASSUME TableTyped, TableInv, NEW n \in DhtNodes, MarkFailed(n),
         streak' = [streak EXCEPT ![n] = @ + 1]
  PROVE  TableTyped' /\ TableInv'
<1>1. streak \in [DhtNodes -> Nat]
  BY DEF TableTyped
<1>2. /\ streak' \in [DhtNodes -> Nat] /\ streak'[n] = streak[n] + 1
      /\ \A k \in DhtNodes : streak[k] <= streak'[k]
  BY <1>1
<1>3. /\ bucket \in Seq(Entries) /\ DOMAIN bucket = 1 .. Len(bucket)
      /\ \A j \in DOMAIN bucket : bucket[j] \in Entries
      /\ \A e \in Entries : e.id \in DhtNodes /\ e.fails \in Nat
  BY EntryTypes DEF TableTyped
<1>4. CASE Places(n) = {}
  <2>1. UNCHANGED table
    BY <1>4 DEF MarkFailed
  <2>2. FailuresOwn'
    <3>1. ASSUME NEW i \in DOMAIN bucket PROVE bucket[i].fails <= streak'[bucket[i].id]
      <4>1. bucket[i].fails <= streak[bucket[i].id]
        BY DEF TableInv, FailuresOwn
      <4>2. bucket[i].fails \in Nat /\ streak[bucket[i].id] \in Nat
            /\ streak'[bucket[i].id] \in Nat /\ streak[bucket[i].id] <= streak'[bucket[i].id]
        BY <1>1, <1>2, <1>3
      <4>. QED BY <4>1, <4>2
    <3>. QED BY <2>1, <3>1 DEF FailuresOwn
  <2>. QED BY <1>2, <2>1, <2>2
       DEF TableTyped, TableInv, SpareIsFresh, FirstIsBlamed, QueuedTwice, BucketShape
<1>5. CASE Places(n) # {}
  <2>. DEFINE p == First(Places(n))
  <2>1. p \in DOMAIN bucket /\ bucket[p].id = n
        /\ \A j \in DOMAIN bucket : bucket[j].id = n => p <= j
    BY <1>3, <1>5, FirstPlace
  <2>2. CASE bucket[p].fails + 1 >= FailLimit
    <3>1. bucket' = Promoted(p) /\ UNCHANGED requeued
          /\ spare' = IF spare = <<>> THEN spare ELSE Tail(spare)
      BY <1>5, <2>2 DEF MarkFailed
    <3>. HIDE DEF p
    <3>. QED BY <1>2, <2>1, <3>1, PromotedKeeps
  <2>3. CASE ~(bucket[p].fails + 1 >= FailLimit)
    <3>1. bucket' = [bucket EXCEPT ![p].fails = bucket[p].fails + 1]
          /\ UNCHANGED <<spare, requeued>>
      BY <1>5, <2>3 DEF MarkFailed
    <3>. HIDE DEF p
    <3>2. bucket[p].fails + 1 \in 0 .. FailLimit
      BY <1>3, <2>1, <2>3, EntryTypes
    <3>3. [bucket[p] EXCEPT !.fails = bucket[p].fails + 1] \in Entries
      BY <1>3, <2>1, <3>2 DEF Entries
    <3>4. bucket' \in Seq(Entries) /\ Len(bucket') = Len(bucket) /\ DOMAIN bucket' = DOMAIN bucket
      BY <1>3, <2>1, <3>1, <3>3
    <3>5. \A j \in DOMAIN bucket : bucket'[j].id = bucket[j].id
             /\ bucket'[j].fails = (IF j = p THEN bucket[p].fails + 1 ELSE bucket[j].fails)
      <4>1. \A e \in Entries : /\ [e EXCEPT !.fails = bucket[p].fails + 1].id = e.id
                               /\ [e EXCEPT !.fails = bucket[p].fails + 1].fails
                                      = bucket[p].fails + 1
        BY DEF Entries
      <4>2. \A j \in DOMAIN bucket :
               bucket'[j] = IF j = p THEN [bucket[p] EXCEPT !.fails = bucket[p].fails + 1]
                            ELSE bucket[j]
        BY <1>3, <2>1, <3>1
      <4>. QED BY <1>3, <2>1, <4>1, <4>2
    <3>6. FirstIsBlamed'
      <4>1. ASSUME NEW i \in DOMAIN bucket, NEW j \in DOMAIN bucket, i < j,
                   bucket[i].id = bucket[j].id
            PROVE  bucket'[j].fails = 0
        <5>1. j # p
          BY <1>3, <2>1, <4>1
        <5>. QED BY <3>5, <4>1, <5>1 DEF TableInv, FirstIsBlamed
      <4>. QED BY <3>4, <3>5, <4>1 DEF FirstIsBlamed
    <3>7. FailuresOwn'
      <4>1. ASSUME NEW j \in DOMAIN bucket PROVE bucket'[j].fails <= streak'[bucket'[j].id]
        <5>1. bucket[j].fails <= streak[bucket[j].id]
          BY DEF TableInv, FailuresOwn
        <5>2. bucket[j].fails \in Nat /\ streak[bucket[j].id] \in Nat
              /\ streak'[bucket[j].id] \in Nat /\ streak[bucket[j].id] <= streak'[bucket[j].id]
          BY <1>1, <1>2, <1>3
        <5>3. CASE j = p
          BY <1>2, <2>1, <3>5, <5>1, <5>2, <5>3
        <5>4. CASE j # p
          BY <3>5, <5>1, <5>2, <5>4
        <5>. QED BY <5>3, <5>4
      <4>. QED BY <3>4, <4>1 DEF FailuresOwn
    <3>8. QueuedTwice' /\ BucketShape' /\ SpareIsFresh'
      BY <3>1, <3>4, <3>5 DEF TableInv, QueuedTwice, BucketShape, SpareIsFresh
    <3>. QED BY <1>2, <3>1, <3>4, <3>6, <3>7, <3>8 DEF TableTyped, TableInv
  <2>. QED BY <2>2, <2>3
<1>. QED BY <1>4, <1>5

(* Time takes nothing away but freshness.                                  *)
LEMMA AgesKeeps == TableTyped /\ TableInv /\ Ages => TableTyped' /\ TableInv'
<1>. SUFFICES ASSUME TableTyped, TableInv, Ages PROVE TableTyped' /\ TableInv'
  OBVIOUS
<1>1. ASSUME NEW s \in Seq(Entries), NEW i \in DOMAIN s
      PROVE  LET t == [s EXCEPT ![i].age = "stale"]
             IN /\ t \in Seq(Entries) /\ Len(t) = Len(s) /\ DOMAIN t = DOMAIN s
                /\ \A j \in DOMAIN s : t[j].id = s[j].id /\ t[j].fails = s[j].fails
  <2>1. \A e \in Entries : /\ [e EXCEPT !.age = "stale"] \in Entries
                           /\ [e EXCEPT !.age = "stale"].id = e.id
                           /\ [e EXCEPT !.age = "stale"].fails = e.fails
    BY DEF Entries
  <2>2. s[i] \in Entries
    OBVIOUS
  <2>. DEFINE f == [s[i] EXCEPT !.age = "stale"]
  <2>3. f \in Entries /\ f.id = s[i].id /\ f.fails = s[i].fails
    BY <2>1, <2>2
  <2>. HIDE DEF f
  <2>4. [s EXCEPT ![i] = f] \in Seq(Entries) /\ Len([s EXCEPT ![i] = f]) = Len(s)
        /\ DOMAIN [s EXCEPT ![i] = f] = DOMAIN s
        /\ \A j \in DOMAIN s : [s EXCEPT ![i] = f][j] = IF j = i THEN f ELSE s[j]
    BY <2>3
  <2>. QED BY <2>3, <2>4 DEF f
<1>2. UNCHANGED <<requeued, streak>> /\ bucket \in Seq(Entries) /\ spare \in Seq(Entries)
  BY DEF Ages, TableTyped
<1>3. /\ bucket' \in Seq(Entries) /\ Len(bucket') = Len(bucket) /\ DOMAIN bucket' = DOMAIN bucket
      /\ \A j \in DOMAIN bucket : /\ bucket'[j].id = bucket[j].id
                                  /\ bucket'[j].fails = bucket[j].fails
  <2>1. CASE UNCHANGED bucket
    BY <1>2, <2>1
  <2>2. CASE \E i \in DOMAIN bucket : bucket' = [bucket EXCEPT ![i].age = "stale"]
    BY ONLY <1>1, <1>2, <2>2
  <2>. QED BY <2>1, <2>2 DEF Ages
<1>4. /\ spare' \in Seq(Entries) /\ Len(spare') = Len(spare) /\ DOMAIN spare' = DOMAIN spare
      /\ \A j \in DOMAIN spare : /\ spare'[j].id = spare[j].id
                                 /\ spare'[j].fails = spare[j].fails
      /\ spare' # <<>> => spare # <<>>
  <2>1. CASE UNCHANGED spare
    BY <1>2, <2>1
  <2>2. CASE \E i \in DOMAIN spare : spare' = [spare EXCEPT ![i].age = "stale"]
    <3>1. spare # <<>>
      BY <1>2, <2>2
    <3>. QED BY ONLY <1>1, <1>2, <2>2, <3>1
  <2>. QED BY <2>1, <2>2 DEF Ages
<1>5. SpareIsFresh'
  BY <1>4 DEF TableInv, SpareIsFresh
<1>6. FirstIsBlamed' /\ FailuresOwn'
  BY <1>2, <1>3 DEF TableInv, FirstIsBlamed, FailuresOwn
<1>7. QueuedTwice'
  BY <1>2, <1>3, <1>4 DEF TableInv, QueuedTwice
<1>8. BucketShape'
  BY <1>2, <1>3, <1>4 DEF TableInv, BucketShape
<1>. QED BY <1>2, <1>3, <1>4, <1>5, <1>6, <1>7, <1>8 DEF TableTyped, TableInv

(* What a step is: of a task, of a query, of the network, of the table or  *)
(* of the store.                                                           *)
LEMMA DhtKinds ==
  ASSUME [DhtNext]_dhtVars
  PROVE  \/ Ages \/ RotateTokens \/ UNCHANGED dhtVars
         \/ \E t \in DhtTasks, kind \in {"ping", "find_node", "get_peers"} : Begin(t, kind)
         \/ \E t \in DhtTasks, n \in DhtNodes, tid \in Tids : Ask(t, n, tid)
         \/ \E t \in DhtTasks : RoundEnds(t)
         \/ \E m \in inbox : HandleAnswer(m)
         \/ \E q \in asks : QueryEnds(q) \/ Conclude(q)
         \/ \E n \in DhtNodes : HandleQuery(n) \/ \E token \in tokens : HandleAnnounce(n, token)
<1>1. CASE RefreshBucket
  BY <1>1 DEF RefreshBucket
<1>. QED BY <1>1 DEF DhtNext

LEMMA QueryTypes ==
  \A q \in Queries :
      /\ q.task \in DhtTasks /\ q.node \in DhtNodes /\ q.tid \in Tids /\ q.ended \in BOOLEAN
      /\ q.named \subseteq DhtNodes
BY DEF Queries

(* The table changes by hearing a node, by blaming one and by aging.       *)
LEMMA TableStep ==
  ASSUME TableTyped, TableInv, QueriesTyped, [DhtNext]_dhtVars
  PROVE  TableTyped' /\ TableInv'
<1>1. ASSUME UNCHANGED <<table, streak>> PROVE TableTyped' /\ TableInv'
  BY <1>1 DEF TableTyped, TableInv, SpareIsFresh, FirstIsBlamed, FailuresOwn, QueuedTwice,
              BucketShape
<1>2. ASSUME NEW n \in DhtNodes, Hears(n) PROVE TableTyped' /\ TableInv'
  BY <1>2, AddNodeKeeps DEF Hears
<1>3. CASE RotateTokens \/ UNCHANGED dhtVars
  BY <1>1, <1>3 DEF RotateTokens, dhtVars
<1>4. ASSUME NEW t, NEW kind, Begin(t, kind) PROVE TableTyped' /\ TableInv'
  BY <1>1, <1>4 DEF Begin
<1>5. ASSUME NEW t, NEW n, NEW tid, Ask(t, n, tid) PROVE TableTyped' /\ TableInv'
  BY <1>1, <1>5 DEF Ask
<1>6. ASSUME NEW t, RoundEnds(t) PROVE TableTyped' /\ TableInv'
  BY <1>1, <1>6 DEF RoundEnds
<1>7. ASSUME NEW m \in inbox, HandleAnswer(m) PROVE TableTyped' /\ TableInv'
  <2>1. m.node \in DhtNodes
    BY DEF QueriesTyped
  <2>2. Hears(m.node) \/ UNCHANGED <<table, streak>>
    BY <1>7 DEF HandleAnswer
  <2>. QED BY <1>1, <1>2, <2>1, <2>2
<1>8. ASSUME NEW q \in asks, QueryEnds(q) PROVE TableTyped' /\ TableInv'
  BY <1>1, <1>8 DEF QueryEnds
<1>9. ASSUME NEW q \in asks, Conclude(q) PROVE TableTyped' /\ TableInv'
  <2>1. q.node \in DhtNodes /\ News(q) \subseteq DhtNodes
    <3>1. q \in Queries
      BY DEF QueriesTyped
    <3>. QED BY <3>1, QueryTypes DEF News
  <2>2. \/ UNCHANGED <<table, streak>>
        \/ UNCHANGED streak /\ \E n \in News(q) : AddNode(n)
        \/ MarkFailed(q.node) /\ streak' = [streak EXCEPT ![q.node] = @ + 1]
    BY <1>9 DEF Conclude
  <2>3. ASSUME UNCHANGED streak, NEW n \in News(q), AddNode(n) PROVE TableTyped' /\ TableInv'
    BY <2>1, <2>3, AddNodeKeeps
  <2>4. ASSUME MarkFailed(q.node), streak' = [streak EXCEPT ![q.node] = @ + 1]
        PROVE  TableTyped' /\ TableInv'
    BY <2>1, <2>4, MarkFailedKeeps
  <2>. QED BY <1>1, <2>2, <2>3, <2>4
<1>10. ASSUME NEW n \in DhtNodes, HandleQuery(n) \/ \E token \in tokens : HandleAnnounce(n, token)
       PROVE  TableTyped' /\ TableInv'
  BY <1>2, <1>10 DEF HandleQuery, HandleAnnounce
<1>. QED BY <1>3, <1>4, <1>5, <1>6, <1>7, <1>8, <1>9, <1>10, AgesKeeps, DhtKinds

(* A query changes on its way, never whose it is.                          *)
LEMMA QueryChanged ==
  ASSUME NEW q \in Queries, NEW named \in SUBSET DhtNodes, NEW got \in {"answer", "failure"}
  PROVE  /\ LET r == [q EXCEPT !.got = "answer", !.named = named]
            IN /\ r \in Queries /\ r.task = q.task /\ r.node = q.node /\ r.tid = q.tid
               /\ r.ended = q.ended
         /\ LET r == [q EXCEPT !.ended = TRUE, !.got = got]
            IN /\ r \in Queries /\ r.task = q.task /\ r.node = q.node /\ r.tid = q.tid
               /\ r.ended
BY DEF Queries

(* The queries of HandleAnswer and QueryEnds are those there were.         *)
LEMMA AnswerMaps ==
  ASSUME QueriesTyped, NEW m \in inbox, HandleAnswer(m)
  PROVE  \E f \in [asks -> Queries] :
            /\ asks' = {f[q] : q \in asks}
            /\ \A q \in asks : /\ f[q].task = q.task /\ f[q].node = q.node /\ f[q].tid = q.tid
                               /\ f[q].ended = q.ended
<1>1. \A q \in asks : q \in Queries
  BY DEF QueriesTyped
<1>2. PICK named \in SUBSET DhtNodes :
         asks' = {IF <<q.task, q.node>> \in pending[m.tid] /\ q.tid = m.tid
                       /\ ~q.ended /\ q.got = "nothing"
                  THEN [q EXCEPT !.got = "answer", !.named = named] ELSE q : q \in asks}
  BY DEF HandleAnswer
<1>. DEFINE f == [q \in asks |->
                    IF <<q.task, q.node>> \in pending[m.tid] /\ q.tid = m.tid
                         /\ ~q.ended /\ q.got = "nothing"
                    THEN [q EXCEPT !.got = "answer", !.named = named] ELSE q]
<1>3. asks' = {f[q] : q \in asks}
  BY <1>2
<1>4. ASSUME NEW q \in asks
      PROVE  /\ f[q] \in Queries
             /\ f[q].task = q.task /\ f[q].node = q.node /\ f[q].tid = q.tid /\ f[q].ended = q.ended
  <2>. DEFINE r == [q EXCEPT !.got = "answer", !.named = named]
  <2>1. r \in Queries /\ r.task = q.task /\ r.node = q.node /\ r.tid = q.tid /\ r.ended = q.ended
    BY <1>1, QueryChanged
  <2>2. f[q] = r \/ f[q] = q
    OBVIOUS
  <2>. HIDE DEF r, f
  <2>. QED BY <1>1, <2>1, <2>2
<1>5. f \in [asks -> Queries]
  BY <1>4
<1>. HIDE DEF f
<1>. QED BY <1>3, <1>4, <1>5

(* A query that ends stays among the queries, marked as ended; the others  *)
(* are as before.                                                          *)
LEMMA EndMaps ==
  ASSUME QueriesTyped, NEW e \in asks, QueryEnds(e)
  PROVE  \E f \in [asks -> Queries] :
            /\ asks' = {f[q] : q \in asks}
            /\ \A q \in asks : /\ f[q].task = q.task /\ f[q].node = q.node /\ f[q].tid = q.tid
                               /\ f[q].ended = IF q = e THEN TRUE ELSE q.ended
<1>1. \A q \in asks : q \in Queries
  BY DEF QueriesTyped
<1>. DEFINE r == [e EXCEPT !.ended = TRUE, !.got = IF @ = "answer" THEN @ ELSE "failure"]
            f == [q \in asks |-> IF q = e THEN r ELSE q]
<1>2. r \in Queries /\ r.task = e.task /\ r.node = e.node /\ r.tid = e.tid /\ r.ended = TRUE
  BY <1>1 DEF Queries
<1>3. asks' = (asks \ {e}) \union {r}
  BY DEF QueryEnds
<1>. HIDE DEF r
<1>4. asks' = {f[q] : q \in asks}
  BY <1>3
<1>5. f \in [asks -> Queries]
  BY <1>1, <1>2
<1>6. \A q \in asks : /\ f[q].task = q.task /\ f[q].node = q.node /\ f[q].tid = q.tid
                      /\ f[q].ended = IF q = e THEN TRUE ELSE q.ended
  BY <1>2
<1>. HIDE DEF f
<1>. QED BY <1>4, <1>5, <1>6

(* Asks made by mapping those there were, whose tasks have asked the same. *)
LEMMA MappedOnce ==
  ASSUME AskedOnce, NEW f \in [asks -> Queries], asks' = {f[q] : q \in asks}, UNCHANGED lookup,
         \A q \in asks : f[q].task = q.task /\ f[q].node = q.node
  PROVE  AskedOnce'
<1>1. ASSUME NEW q \in asks', NEW r \in asks', q.task = r.task, q.node = r.node PROVE q = r
  <2>1. PICK a \in asks, b \in asks : q = f[a] /\ r = f[b]
    OBVIOUS
  <2>2. a = b
    BY <1>1, <2>1 DEF AskedOnce
  <2>. QED BY <2>1, <2>2
<1>2. ASSUME NEW q \in asks' PROVE q.node \in lookup[q.task].queried
  <2>1. PICK a \in asks : q = f[a]
    OBVIOUS
  <2>. QED BY <2>1 DEF AskedOnce
<1>. QED BY <1>1, <1>2 DEF AskedOnce

LEMMA LookupTypes ==
  ASSUME QueriesTyped
  PROVE  /\ DOMAIN lookup = DhtTasks
         /\ \A t \in DhtTasks : /\ lookup[t].to \subseteq DhtNodes
                                /\ lookup[t].queried \subseteq DhtNodes
                                /\ lookup[t].new \subseteq DhtNodes
BY DEF QueriesTyped

(* Who a task has asked and is to ask.                                     *)
LEMMA AskMeans ==
  ASSUME QueriesTyped, NEW t \in DhtTasks, NEW n \in DhtNodes, NEW tid \in Tids, Ask(t, n, tid)
  PROVE  /\ n \in lookup[t].to
         /\ lookup'[t].to = lookup[t].to \ {n} /\ lookup'[t].queried = lookup[t].queried \union {n}
         /\ \A u \in DhtTasks \ {t} : lookup'[u] = lookup[u]
         /\ \E got \in {"nothing", "failure"} : asks' = asks \union {Query(t, n, tid, got)}
BY DEF QueriesTyped, Ask

(* What a lookup that begins leaves alone.                                 *)
LEMMA BeginMeans ==
  ASSUME QueriesTyped, NEW t \in DhtTasks, NEW kind \in {"ping", "find_node", "get_peers"},
         Begin(t, kind)
  PROVE  /\ lookup[t] = Idle /\ lookup'[t].queried = {} /\ UNCHANGED asks
         /\ \A u \in DhtTasks \ {t} : lookup'[u] = lookup[u]
BY DEF QueriesTyped, Begin, Idle

(* A round ends when none of its queries is left, and chooses nodes that   *)
(* were not asked.                                                         *)
LEMMA RoundMeans ==
  ASSUME QueriesTyped, NEW t \in DhtTasks, RoundEnds(t)
  PROVE  /\ \A q \in asks : q.task # t
         /\ lookup'[t].to \cap lookup'[t].queried = {} /\ UNCHANGED asks
         /\ \A u \in DhtTasks \ {t} : lookup'[u] = lookup[u]
<1>1. CASE lookup' = [lookup EXCEPT ![t] = Idle]
  BY <1>1 DEF QueriesTyped, RoundEnds, Idle
<1>2. CASE lookup' = [lookup EXCEPT ![t].to = lookup[t].new \ lookup[t].queried,
                                    ![t].new = {}, ![t].rounds = @ - 1]
  BY <1>2 DEF QueriesTyped, RoundEnds
<1>. QED BY <1>1, <1>2 DEF RoundEnds

(* Concluding takes the query away and leaves what is pending.             *)
LEMMA ConcludeMeans ==
  ASSUME QueriesTyped, NEW q \in asks, Conclude(q)
  PROVE  /\ asks' = asks \ {q} /\ UNCHANGED <<pending, leaked, collided>>
         /\ \A p \in asks : p.task = q.task => p.ended
         /\ \A t \in DhtTasks : /\ lookup'[t].to = lookup[t].to
                                /\ lookup'[t].queried = lookup[t].queried
<1>1. asks' = asks \ {q} /\ UNCHANGED <<pending, leaked, collided>>
      /\ \A p \in asks : p.task = q.task => p.ended
  BY DEF Conclude
<1>2. \/ UNCHANGED lookup
      \/ lookup' = [lookup EXCEPT ![q.task].new = @ \union News(q)]
  BY DEF Conclude
<1>3. ASSUME NEW t \in DhtTasks
      PROVE lookup'[t].to = lookup[t].to /\ lookup'[t].queried = lookup[t].queried
  BY <1>2 DEF QueriesTyped
<1>. QED BY <1>1, <1>3

LEMMA NewQuery ==
  ASSUME NEW t \in DhtTasks, NEW n \in DhtNodes, NEW tid \in Tids,
         NEW got \in {"nothing", "failure"}
  PROVE  LET q == Query(t, n, tid, got)
         IN /\ q \in Queries /\ q.task = t /\ q.node = n /\ q.tid = tid
            /\ q.ended = (got = "failure")
BY DEF Query, Queries

LEMMA QueriesTypedStep ==
  ASSUME TableTyped, QueriesTyped, [DhtNext]_dhtVars
  PROVE  QueriesTyped'
<1>. DEFINE Lookups == [kind : {"none", "ping", "find_node", "get_peers"},
                        to : SUBSET DhtNodes, queried : SUBSET DhtNodes,
                        new : SUBSET DhtNodes, rounds : Nat]
<1>1. /\ lookup \in [DhtTasks -> Lookups] /\ asks \subseteq Queries
      /\ pending \in [Tids -> SUBSET (DhtTasks \X DhtNodes)]
      /\ inbox \subseteq [tid : Tids, node : DhtNodes] /\ collided \in BOOLEAN
  BY DEF QueriesTyped
<1>2. Idle \in Lookups
  BY DEF Idle
<1>3. CASE Ages \/ RotateTokens \/ UNCHANGED dhtVars
  <2>1. UNCHANGED <<lookup, asks, pending, inbox, collided>>
    BY <1>3 DEF Ages, RotateTokens, dhtVars
  <2>. QED BY <2>1 DEF QueriesTyped
<1>4. ASSUME NEW t \in DhtTasks, NEW kind \in {"ping", "find_node", "get_peers"}, Begin(t, kind)
      PROVE  QueriesTyped'
  <2>1. PICK to \in Targets(kind) :
           lookup' = [lookup EXCEPT ![t] =
                        [Idle EXCEPT !.kind = kind, !.to = to, !.rounds = Rounds(kind)]]
    BY <1>4 DEF Begin
  <2>2. to \subseteq DhtNodes
    <3>1. GoodNodes \subseteq DhtNodes
      BY EntryTypes DEF GoodNodes, TableTyped
    <3>. QED BY <3>1 DEF Targets
  <2>3. Rounds(kind) \in Nat
    BY DhtAssumption DEF Rounds
  <2>4. [Idle EXCEPT !.kind = kind, !.to = to, !.rounds = Rounds(kind)] \in Lookups
    BY <2>2, <2>3 DEF Idle
  <2>5. UNCHANGED <<asks, pending, inbox, collided>>
    BY <1>4 DEF Begin
  <2>6. lookup' \in [DhtTasks -> Lookups]
    BY <1>1, <2>1, <2>4
  <2>. QED BY <1>1, <2>5, <2>6 DEF QueriesTyped
<1>5. ASSUME NEW t \in DhtTasks, NEW n \in DhtNodes, NEW tid \in Tids, Ask(t, n, tid)
      PROVE  QueriesTyped'
  <2>1. PICK got \in {"nothing", "failure"} : asks' = asks \union {Query(t, n, tid, got)}
    BY <1>5, AskMeans
  <2>2. asks' \subseteq Queries
    <3>1. Query(t, n, tid, got) \in Queries
      BY NewQuery
    <3>. QED BY <1>1, <2>1, <3>1
  <2>3. lookup' \in [DhtTasks -> Lookups]
    BY <1>1, <1>5 DEF Ask
  <2>4. pending' = pending \/ pending' = [pending EXCEPT ![tid] = {<<t, n>>}]
    BY <1>5 DEF Ask
  <2>5. pending' \in [Tids -> SUBSET (DhtTasks \X DhtNodes)]
    BY <1>1, <2>4
  <2>6. inbox' \subseteq [tid : Tids, node : DhtNodes]
    BY <1>1, <1>5 DEF Ask
  <2>7. collided' \in BOOLEAN
    BY <1>1, <1>5 DEF Ask
  <2>. QED BY <2>2, <2>3, <2>5, <2>6, <2>7 DEF QueriesTyped
<1>6. ASSUME NEW t \in DhtTasks, RoundEnds(t) PROVE QueriesTyped'
  <2>1. lookup[t].rounds \in Nat /\ UNCHANGED <<asks, pending, inbox, collided>>
    BY <1>1, <1>6 DEF RoundEnds
  <2>2. lookup' \in [DhtTasks -> Lookups]
    <3>1. CASE lookup' = [lookup EXCEPT ![t] = Idle]
      BY <1>1, <1>2, <3>1
    <3>2. CASE /\ lookup[t].rounds > 1
               /\ lookup' = [lookup EXCEPT ![t].to = lookup[t].new \ lookup[t].queried,
                                           ![t].new = {}, ![t].rounds = @ - 1]
      <4>1. lookup[t].rounds - 1 \in Nat
        BY <2>1, <3>2
      <4>. QED BY <1>1, <3>2, <4>1
    <3>. QED BY <1>6, <3>1, <3>2 DEF RoundEnds
  <2>. QED BY <1>1, <2>1, <2>2 DEF QueriesTyped
<1>7. ASSUME NEW m \in inbox, HandleAnswer(m) PROVE QueriesTyped'
  <2>1. asks' \subseteq Queries
    BY <1>7, AnswerMaps
  <2>2. UNCHANGED <<lookup, pending, collided>> /\ inbox' \subseteq inbox
    BY <1>7 DEF HandleAnswer
  <2>. QED BY <1>1, <2>1, <2>2 DEF QueriesTyped
<1>8. ASSUME NEW e \in asks, QueryEnds(e) PROVE QueriesTyped'
  <2>1. asks' \subseteq Queries
    <3>1. PICK f \in [asks -> Queries] :
           /\ asks' = {f[q] : q \in asks}
           /\ \A q \in asks : /\ f[q].task = q.task /\ f[q].node = q.node /\ f[q].tid = q.tid
                              /\ f[q].ended = IF q = e THEN TRUE ELSE q.ended
      BY <1>8, EndMaps
    <3>. QED BY <3>1
  <2>2. UNCHANGED <<lookup, inbox, collided>> /\ pending' = [pending EXCEPT ![e.tid] = {}]
    BY <1>8 DEF QueryEnds
  <2>3. pending' \in [Tids -> SUBSET (DhtTasks \X DhtNodes)]
    BY <1>1, <2>2
  <2>. QED BY <1>1, <2>1, <2>2, <2>3 DEF QueriesTyped
<1>9. ASSUME NEW q \in asks, Conclude(q) PROVE QueriesTyped'
  <2>1. asks' \subseteq Queries /\ UNCHANGED <<pending, inbox, collided>>
    BY <1>1, <1>9 DEF Conclude
  <2>2. \/ UNCHANGED lookup
        \/ lookup' = [lookup EXCEPT ![q.task].new = @ \union News(q)]
    BY <1>9 DEF Conclude
  <2>3. News(q) \subseteq DhtNodes
    BY <1>1, QueryTypes DEF News
  <2>4. lookup' \in [DhtTasks -> Lookups]
    BY <1>1, <2>2, <2>3
  <2>. QED BY <1>1, <2>1, <2>4 DEF QueriesTyped
<1>10. ASSUME NEW n \in DhtNodes, HandleQuery(n) \/ \E token \in tokens : HandleAnnounce(n, token)
       PROVE  QueriesTyped'
  <2>1. UNCHANGED <<lookup, asks, pending, inbox, collided>>
    BY <1>10 DEF HandleQuery, HandleAnnounce
  <2>. QED BY <2>1 DEF QueriesTyped
<1>. QED BY <1>3, <1>4, <1>5, <1>6, <1>7, <1>8, <1>9, <1>10, DhtKinds

(* The actions that leave the queries and who is asked alone.              *)
LEMMA OtherKinds ==
  ASSUME \/ Ages \/ RotateTokens \/ UNCHANGED dhtVars
         \/ \E n \in DhtNodes : HandleQuery(n) \/ \E token \in tokens : HandleAnnounce(n, token)
  PROVE  UNCHANGED <<lookup, asks, pending, leaked, collided>>
BY DEF Ages, RotateTokens, dhtVars, HandleQuery, HandleAnnounce

(* A round chooses among those not yet asked, and asking records them.     *)
LEMMA AskedOnceStep == QueriesTyped /\ AskedOnce /\ [DhtNext]_dhtVars => AskedOnce'
<1>. SUFFICES ASSUME QueriesTyped, AskedOnce, [DhtNext]_dhtVars PROVE AskedOnce'
  OBVIOUS
<1>1. \A q \in asks : q.task \in DhtTasks
  BY QueryTypes DEF QueriesTyped
<1>2. CASE UNCHANGED <<lookup, asks, pending, leaked, collided>>
  BY <1>2 DEF AskedOnce
<1>3. ASSUME NEW t \in DhtTasks, NEW kind \in {"ping", "find_node", "get_peers"}, Begin(t, kind)
      PROVE  AskedOnce'
  <2>1. \A q \in asks : q.task # t
    BY <1>3, BeginMeans DEF AskedOnce, Idle
  <2>. QED BY <1>1, <1>3, <2>1, BeginMeans DEF AskedOnce
<1>4. ASSUME NEW t \in DhtTasks, RoundEnds(t) PROVE AskedOnce'
  BY <1>1, <1>4, RoundMeans DEF AskedOnce
<1>5. ASSUME NEW t \in DhtTasks, NEW n \in DhtNodes, NEW tid \in Tids, Ask(t, n, tid)
      PROVE  AskedOnce'
  <2>1. PICK got \in {"nothing", "failure"} : asks' = asks \union {Query(t, n, tid, got)}
    BY <1>5, AskMeans
  <2>2. PICK new \in Queries : asks' = asks \union {new} /\ new.task = t /\ new.node = n
    BY <2>1, NewQuery
  <2>3. /\ n \in lookup[t].to
        /\ lookup'[t].to = lookup[t].to \ {n} /\ lookup'[t].queried = lookup[t].queried \union {n}
        /\ \A u \in DhtTasks \ {t} : lookup'[u] = lookup[u]
    BY <1>5, AskMeans
  <2>4. \A q \in asks : ~(q.task = t /\ q.node = n)
    BY <2>3 DEF AskedOnce
  <2>5. \A q, r \in asks' : q.task = r.task /\ q.node = r.node => q = r
    BY <2>2, <2>4 DEF AskedOnce
  <2>6. \A q \in asks' : q.node \in lookup'[q.task].queried
    BY <1>1, <2>2, <2>3 DEF AskedOnce
  <2>7. \A u \in DhtTasks : lookup'[u].to \cap lookup'[u].queried = {}
    BY <2>3 DEF AskedOnce
  <2>. QED BY <2>5, <2>6, <2>7 DEF AskedOnce
<1>6. ASSUME NEW m \in inbox, HandleAnswer(m) PROVE AskedOnce'
  <2>1. UNCHANGED lookup
    BY <1>6 DEF HandleAnswer
  <2>2. PICK f \in [asks -> Queries] :
           asks' = {f[q] : q \in asks} /\ \A q \in asks : f[q].task = q.task /\ f[q].node = q.node
    BY <1>6, AnswerMaps
  <2>. QED BY <2>1, <2>2, MappedOnce
<1>7. ASSUME NEW e \in asks, QueryEnds(e) PROVE AskedOnce'
  <2>1. UNCHANGED lookup
    BY <1>7 DEF QueryEnds
  <2>2. PICK f \in [asks -> Queries] :
           /\ asks' = {f[q] : q \in asks}
           /\ \A q \in asks : /\ f[q].task = q.task /\ f[q].node = q.node /\ f[q].tid = q.tid
                              /\ f[q].ended = IF q = e THEN TRUE ELSE q.ended
    BY <1>7, EndMaps
  <2>3. \A q \in asks : f[q].task = q.task /\ f[q].node = q.node
    BY <2>2
  <2>. QED BY <2>1, <2>2, <2>3, MappedOnce
<1>8. ASSUME NEW q \in asks, Conclude(q) PROVE AskedOnce'
  BY <1>1, <1>8, ConcludeMeans DEF AskedOnce
<1>. QED BY <1>2, <1>3, <1>4, <1>5, <1>6, <1>7, <1>8, DhtKinds, OtherKinds

(* An entry that is replaced shows as collided, one whose sending failed   *)
(* as leaked.                                                              *)
LEMMA PendingStep ==
  QueriesTyped /\ AskedOnce /\ PendingOwned /\ [DhtNext]_dhtVars => PendingOwned'
<1>. SUFFICES ASSUME QueriesTyped, AskedOnce, PendingOwned, [DhtNext]_dhtVars PROVE PendingOwned'
  OBVIOUS
<1>1. /\ \A q \in asks : q.task \in DhtTasks /\ q.tid \in Tids
      /\ DOMAIN pending = Tids /\ collided \in BOOLEAN
  BY QueryTypes DEF QueriesTyped
<1>2. /\ \A tid \in Tids : pending[tid] # {} =>
             \/ tid \in leaked
             \/ \E q \in asks : q.tid = tid /\ ~q.ended /\ <<q.task, q.node>> \in pending[tid]
      /\ \A q \in asks : ~q.ended => pending[q.tid] = {<<q.task, q.node>>} \/ collided
  BY DEF PendingOwned
<1>3. CASE UNCHANGED <<asks, pending, leaked, collided>>
  BY <1>3 DEF PendingOwned
<1>4. ASSUME NEW t \in DhtTasks, NEW n \in DhtNodes, NEW tid \in Tids, Ask(t, n, tid)
      PROVE  PendingOwned'
  <2>1. CASE /\ asks' = asks \union {Query(t, n, tid, "failure")}
             /\ UNCHANGED <<pending, leaked, collided>>
    <3>1. Query(t, n, tid, "failure").ended
      BY NewQuery
    <3>. QED BY <1>2, <2>1, <3>1 DEF PendingOwned
  <2>2. CASE /\ pending' = [pending EXCEPT ![tid] = {<<t, n>>}]
             /\ collided' = (collided \/ pending[tid] # {})
             /\ \/ /\ asks' = asks \union {Query(t, n, tid, "nothing")} /\ leaked' = leaked \ {tid}
                \/ /\ asks' = asks \union {Query(t, n, tid, "failure")}
                   /\ leaked' = leaked \union {tid}
    <3>1. pending'[tid] = {<<t, n>>} /\ \A i \in Tids \ {tid} : pending'[i] = pending[i]
      BY <1>1, <2>2
    <3>2. ASSUME NEW q \in asks, ~q.ended
          PROVE  pending'[q.tid] = {<<q.task, q.node>>} \/ collided'
      <4>1. CASE q.tid = tid
        <5>1. pending[tid] = {<<q.task, q.node>>} \/ collided
          BY <1>2, <3>2, <4>1
        <5>. QED BY <2>2, <5>1
      <4>2. CASE q.tid # tid
        BY <1>1, <1>2, <2>2, <3>1, <3>2, <4>2
      <4>. QED BY <4>1, <4>2
    <3>3. ASSUME NEW i \in Tids \ {tid}, pending'[i] # {}
          PROVE  \/ i \in leaked'
                 \/ \E q \in asks' : q.tid = i /\ ~q.ended /\ <<q.task, q.node>> \in pending'[i]
      BY <1>2, <2>2, <3>1, <3>3
    <3>4. CASE asks' = asks \union {Query(t, n, tid, "nothing")}
      <4>. DEFINE q == Query(t, n, tid, "nothing")
      <4>1. q.task = t /\ q.node = n /\ q.tid = tid /\ q.ended = FALSE
        BY DEF Query
      <4>. HIDE DEF q
      <4>2. q \in asks' /\ \A p \in asks' : p \in asks \/ p = q
        BY <3>4 DEF q
      <4>. QED BY <3>1, <3>2, <3>3, <4>1, <4>2 DEF PendingOwned
    <3>5. CASE asks' = asks \union {Query(t, n, tid, "failure")} /\ leaked' = leaked \union {tid}
      <4>1. Query(t, n, tid, "failure").ended
        BY NewQuery
      <4>. QED BY <3>2, <3>3, <3>5, <4>1 DEF PendingOwned
    <3>. QED BY <2>2, <3>4, <3>5
  <2>. QED BY <1>4, <2>1, <2>2 DEF Ask
<1>5. ASSUME NEW m \in inbox, HandleAnswer(m) PROVE PendingOwned'
  <2>1. UNCHANGED <<pending, leaked, collided>>
    BY <1>5 DEF HandleAnswer
  <2>2. PICK f \in [asks -> Queries] :
           /\ asks' = {f[q] : q \in asks}
           /\ \A q \in asks : /\ f[q].task = q.task /\ f[q].node = q.node /\ f[q].tid = q.tid
                              /\ f[q].ended = q.ended
    BY <1>5, AnswerMaps
  <2>3. ASSUME NEW tid \in Tids, pending[tid] # {}, tid \notin leaked
        PROVE  \E q \in asks' : q.tid = tid /\ ~q.ended /\ <<q.task, q.node>> \in pending[tid]
    <3>1. PICK q \in asks : q.tid = tid /\ ~q.ended /\ <<q.task, q.node>> \in pending[tid]
      BY <1>2, <2>3
    <3>. QED BY <2>2, <3>1
  <2>4. ASSUME NEW r \in asks', ~r.ended PROVE pending[r.tid] = {<<r.task, r.node>>} \/ collided
    BY <1>2, <2>2, <2>4
  <2>. QED BY <2>1, <2>3, <2>4 DEF PendingOwned
<1>6. ASSUME NEW e \in asks, QueryEnds(e) PROVE PendingOwned'
  <2>1. /\ pending' = [pending EXCEPT ![e.tid] = {}] /\ leaked' = leaked \ {e.tid}
        /\ UNCHANGED collided /\ ~e.ended
    BY <1>6 DEF QueryEnds
  <2>2. PICK f \in [asks -> Queries] :
           /\ asks' = {f[q] : q \in asks}
           /\ \A q \in asks : /\ f[q].task = q.task /\ f[q].node = q.node /\ f[q].tid = q.tid
                              /\ f[q].ended = IF q = e THEN TRUE ELSE q.ended
    BY <1>6, EndMaps
  <2>3. pending'[e.tid] = {} /\ \A i \in Tids \ {e.tid} : pending'[i] = pending[i]
    BY <1>1, <2>1
  <2>4. ASSUME NEW tid \in Tids, pending'[tid] # {}, tid \notin leaked'
        PROVE  \E q \in asks' : q.tid = tid /\ ~q.ended /\ <<q.task, q.node>> \in pending'[tid]
    <3>1. tid # e.tid /\ pending'[tid] = pending[tid] /\ tid \notin leaked
      BY <2>1, <2>3, <2>4
    <3>2. PICK q \in asks : q.tid = tid /\ ~q.ended /\ <<q.task, q.node>> \in pending[tid]
      BY <1>2, <2>4, <3>1
    <3>3. q # e /\ f[q] \in asks'
      BY <2>2, <3>1, <3>2
    <3>4. f[q].tid = tid /\ ~f[q].ended /\ <<f[q].task, f[q].node>> \in pending'[tid]
      BY <2>2, <3>1, <3>2, <3>3
    <3>. QED BY <3>3, <3>4
  <2>5. ASSUME NEW r \in asks', ~r.ended PROVE pending'[r.tid] = {<<r.task, r.node>>} \/ collided
    <3>1. PICK q \in asks : r = f[q]
      BY <2>2
    <3>2. q # e /\ ~q.ended /\ r.task = q.task /\ r.node = q.node /\ r.tid = q.tid
      BY <2>2, <2>5, <3>1
    <3>3. CASE q.tid = e.tid
      <4>1. <<q.task, q.node>> # <<e.task, e.node>>
        BY <3>2 DEF AskedOnce
      <4>2. /\ pending[q.tid] = {<<q.task, q.node>>} \/ collided
            /\ pending[q.tid] = {<<e.task, e.node>>} \/ collided
        BY <1>2, <2>1, <3>2, <3>3
      <4>3. collided
        BY ONLY <4>1, <4>2
      <4>. QED BY <4>3
    <3>4. CASE q.tid # e.tid
      BY <1>1, <1>2, <2>3, <3>2, <3>4
    <3>. QED BY <3>3, <3>4
  <2>. QED BY <2>1, <2>4, <2>5 DEF PendingOwned
<1>7. ASSUME NEW e \in asks, Conclude(e) PROVE PendingOwned'
  <2>1. asks' = asks \ {e} /\ UNCHANGED <<pending, leaked, collided>> /\ e.ended
    BY <1>7, ConcludeMeans
  <2>. QED BY <1>2, <2>1 DEF PendingOwned
<1>8. ASSUME NEW t, NEW kind, Begin(t, kind) \/ RoundEnds(t) PROVE PendingOwned'
  BY <1>3, <1>8 DEF Begin, RoundEnds
<1>. QED BY <1>3, <1>4, <1>5, <1>6, <1>7, <1>8, DhtKinds, OtherKinds

(* A peer is stored for a token that was given out.                        *)
LEMMA StoreStep ==
  StoreTyped /\ AnnouncesAuthorised /\ [DhtNext]_dhtVars => StoreTyped' /\ AnnouncesAuthorised'
<1>. SUFFICES ASSUME StoreTyped, AnnouncesAuthorised, [DhtNext]_dhtVars
              PROVE  StoreTyped' /\ AnnouncesAuthorised'
  OBVIOUS
<1>1. CASE UNCHANGED <<epoch, tokens, peers>>
  BY <1>1 DEF StoreTyped, AnnouncesAuthorised
<1>2. CASE RotateTokens
  BY <1>2 DEF RotateTokens, StoreTyped, AnnouncesAuthorised
<1>3. ASSUME NEW n \in DhtNodes, HandleQuery(n) PROVE StoreTyped' /\ AnnouncesAuthorised'
  <2>1. UNCHANGED <<epoch, peers>>
    BY <1>3 DEF HandleQuery
  <2>2. tokens' = tokens \/ tokens' = tokens \union {[node |-> n, epoch |-> epoch]}
    BY <1>3 DEF HandleQuery
  <2>. QED BY <2>1, <2>2 DEF StoreTyped, AnnouncesAuthorised
<1>4. ASSUME NEW n \in DhtNodes, NEW token \in tokens, HandleAnnounce(n, token)
      PROVE  StoreTyped' /\ AnnouncesAuthorised'
  <2>1. /\ UNCHANGED <<epoch, tokens>>
        /\ peers' = IF ValidToken(n, token) THEN AddPeer(n, token) ELSE peers
    BY <1>4 DEF HandleAnnounce
  <2>2. CASE ValidToken(n, token)
    <3>. DEFINE new == [node |-> n, token |-> token, at |-> epoch]
    <3>1. /\ token.node = n /\ epoch \in Nat /\ token.epoch \in Nat
          /\ token.epoch \in {epoch, epoch - 1}
      BY <2>2 DEF ValidToken, StoreTyped
    <3>2. epoch - token.epoch \in {0, 1}
      BY <3>1
    <3>3. new \in [node : DhtNodes, token : [node : DhtNodes, epoch : Nat], at : Nat]
          /\ new.token.node = new.node /\ new.at - new.token.epoch \in {0, 1}
      BY <3>1, <3>2 DEF StoreTyped
    <3>4. \A p \in peers' : p \in peers \/ p = new
      BY <2>1, <2>2 DEF AddPeer
    <3>. QED BY <2>1, <3>3, <3>4 DEF StoreTyped, AnnouncesAuthorised
  <2>3. CASE ~ValidToken(n, token)
    BY <1>1, <2>1, <2>3
  <2>. QED BY <2>2, <2>3
<1>5. ASSUME \/ Ages \/ UNCHANGED dhtVars
             \/ \E t \in DhtTasks, kind \in {"ping", "find_node", "get_peers"} : Begin(t, kind)
             \/ \E t \in DhtTasks, n \in DhtNodes, tid \in Tids : Ask(t, n, tid)
             \/ \E t \in DhtTasks : RoundEnds(t)
             \/ \E m \in inbox : HandleAnswer(m)
             \/ \E q \in asks : QueryEnds(q) \/ Conclude(q)
      PROVE  UNCHANGED <<epoch, tokens, peers>>
  BY <1>5 DEF Ages, dhtVars, Begin, Ask, RoundEnds, HandleAnswer, QueryEnds, Conclude
<1>. QED BY <1>1, <1>2, <1>3, <1>4, <1>5, DhtKinds

(* The table that a behaviour starts with has each node once.              *)
LEMMA DhtInitInv == DhtInit => DhtInv
<1>. SUFFICES ASSUME DhtInit PROVE DhtInv
  OBVIOUS
<1>0. PICK ids \in SUBSET DhtNodes : \E order \in SetToSeqs(ids) :
          Len(order) \in {0, K} /\ bucket = [i \in DOMAIN order |-> Fresh(order[i])]
  BY DEF DhtInit
<1>1. PICK order \in SetToSeqs(ids) :
          Len(order) \in {0, K} /\ bucket = [i \in DOMAIN order |-> Fresh(order[i])]
  BY <1>0
<1>2. /\ order \in [1 .. Cardinality(ids) -> ids]
      /\ \A i, j \in 1 .. Cardinality(ids) : i # j => order[i] # order[j]
  BY DEF SetToSeqs
<1>3. Cardinality(ids) \in Nat
  <2>1. IsFiniteSet(ids)
    BY DhtAssumption, FS_Subset
  <2>. QED BY <2>1, FS_CardinalityType
<1>. DEFINE N == Cardinality(ids)
<1>. HIDE DEF N
<1>4. order \in Seq(DhtNodes) /\ Len(order) = N /\ DOMAIN order = 1 .. N
  BY <1>2, <1>3 DEF N
<1>5. /\ bucket \in Seq(Entries) /\ Len(bucket) = N /\ DOMAIN bucket = 1 .. N
      /\ \A i \in 1 .. N : bucket[i].id = order[i] /\ bucket[i].fails = 0
  BY <1>1, <1>4, EntryTypes
<1>6. N <= K
  BY <1>1, <1>3, <1>4, EntryTypes DEF N
<1>7. /\ spare = <<>> /\ requeued = {} /\ streak = [n \in DhtNodes |-> 0]
      /\ lookup = [t \in DhtTasks |-> Idle] /\ asks = {} /\ pending = [tid \in Tids |-> {}]
      /\ inbox = {} /\ epoch = 0 /\ tokens = {} /\ peers = {} /\ leaked = {} /\ collided = FALSE
  BY DEF DhtInit
<1>8. TableTyped
  BY <1>5, <1>7 DEF TableTyped
<1>9. QueriesTyped
  BY <1>7 DEF QueriesTyped, Idle
<1>10. StoreTyped /\ AnnouncesAuthorised /\ PendingOwned
  BY <1>7 DEF StoreTyped, AnnouncesAuthorised, PendingOwned
<1>11. AskedOnce
  BY <1>7 DEF AskedOnce, Idle
<1>12. SpareIsFresh /\ FirstIsBlamed /\ QueuedTwice
  BY <1>5, <1>7 DEF SpareIsFresh, FirstIsBlamed, QueuedTwice
<1>13. FailuresOwn
  BY <1>5, <1>7, <1>8, EntryTypes DEF FailuresOwn, TableTyped
<1>14. BucketShape
  <2>1. \A i, j \in DOMAIN bucket : bucket[i].id = bucket[j].id /\ i # j => FALSE
    BY <1>2, <1>5 DEF N
  <2>2. Len(spare) <= K
    BY <1>7, EntryTypes
  <2>. QED BY <1>5, <1>6, <1>7, <2>1, <2>2 DEF BucketShape
<1>. QED BY <1>8, <1>9, <1>10, <1>11, <1>12, <1>13, <1>14 DEF DhtInv, TableInv

(* The counters stay within their bounds, the rounds of a lookup within    *)
(* those of get_peers, and the peer store has the tokens handed out.       *)
DhtCounted ==
    /\ \A t \in DhtTasks : lookup[t].rounds <= MaxIterations
    /\ epoch <= MaxRotations /\ \A k \in tokens : k.epoch <= MaxRotations
    /\ \A p \in peers : p.token \in tokens
    /\ leaked \subseteq Tids /\ lookups \in 0 .. MaxLookups
    /\ dhtScenario \in DhtScenarios /\ unasked \in 0 .. MaxUnasked[dhtScenario]

LEMMA StoreCountedStep ==
  ASSUME StoreTyped, DhtCounted, [DhtNext]_dhtVars
  PROVE  /\ epoch' <= MaxRotations /\ \A k \in tokens' : k.epoch <= MaxRotations
         /\ \A p \in peers' : p.token \in tokens'
<1>1. CASE UNCHANGED <<epoch, tokens, peers>>
  BY <1>1 DEF DhtCounted
<1>2. CASE RotateTokens
  <2>1. epoch \in Nat /\ MaxRotations \in Nat /\ epoch < MaxRotations /\ epoch' = epoch + 1
        /\ UNCHANGED <<tokens, peers>>
    BY <1>2, DhtAssumption DEF RotateTokens, StoreTyped
  <2>. QED BY <2>1 DEF DhtCounted
<1>3. ASSUME NEW n \in DhtNodes, HandleQuery(n)
      PROVE  /\ epoch' <= MaxRotations /\ \A k \in tokens' : k.epoch <= MaxRotations
             /\ \A p \in peers' : p.token \in tokens'
  <2>1. /\ UNCHANGED <<epoch, peers>>
        /\ tokens' = tokens \/ tokens' = tokens \union {[node |-> n, epoch |-> epoch]}
    BY <1>3 DEF HandleQuery
  <2>. QED BY <2>1 DEF DhtCounted
<1>4. ASSUME NEW n \in DhtNodes, NEW token \in tokens, HandleAnnounce(n, token)
      PROVE  /\ UNCHANGED <<epoch, tokens>> /\ \A p \in peers' : p.token \in tokens'
  BY <1>4 DEF HandleAnnounce, AddPeer, DhtCounted
<1>5. ASSUME \/ Ages \/ UNCHANGED dhtVars
             \/ \E t \in DhtTasks, kind \in {"ping", "find_node", "get_peers"} : Begin(t, kind)
             \/ \E t \in DhtTasks, n \in DhtNodes, tid \in Tids : Ask(t, n, tid)
             \/ \E t \in DhtTasks : RoundEnds(t)
             \/ \E m \in inbox : HandleAnswer(m)
             \/ \E q \in asks : QueryEnds(q) \/ Conclude(q)
      PROVE  UNCHANGED <<epoch, tokens, peers>>
  BY <1>5 DEF Ages, dhtVars, Begin, Ask, RoundEnds, HandleAnswer, QueryEnds, Conclude
<1>6. ASSUME NEW n \in DhtNodes, NEW token \in tokens, HandleAnnounce(n, token)
      PROVE  /\ epoch' <= MaxRotations /\ \A k \in tokens' : k.epoch <= MaxRotations
             /\ \A p \in peers' : p.token \in tokens'
  BY <1>4, <1>6 DEF DhtCounted
<1>. QED BY <1>1, <1>2, <1>3, <1>5, <1>6, DhtKinds

(* How far a lookup may still go only falls, once it has begun.            *)
LEMMA RoundsCountedStep ==
  ASSUME QueriesTyped, DhtCounted, [DhtNext]_dhtVars, NEW u \in DhtTasks
  PROVE  lookup'[u].rounds <= MaxIterations
<1>0. MaxIterations \in Nat \ {0} /\ lookup[u].rounds \in Nat /\ lookup[u].rounds <= MaxIterations
  BY DhtAssumption DEF QueriesTyped, DhtCounted
<1>1. ASSUME NEW t \in DhtTasks, NEW kind \in {"ping", "find_node", "get_peers"}, Begin(t, kind)
      PROVE  lookup'[u].rounds <= MaxIterations
  <2>1. PICK to \in Targets(kind) :
           lookup' = [lookup EXCEPT ![t] =
                        [Idle EXCEPT !.kind = kind, !.to = to, !.rounds = Rounds(kind)]]
    BY <1>1 DEF Begin
  <2>2. Rounds(kind) <= MaxIterations
    BY <1>0 DEF Rounds
  <2>3. [Idle EXCEPT !.kind = kind, !.to = to, !.rounds = Rounds(kind)].rounds = Rounds(kind)
    BY DEF Idle
  <2>4. lookup'[u].rounds \in {lookup[u].rounds, Rounds(kind)}
    BY <2>1, <2>3 DEF QueriesTyped
  <2>. QED BY <1>0, <2>2, <2>4
<1>2. ASSUME NEW t \in DhtTasks, NEW n \in DhtNodes, NEW tid \in Tids, Ask(t, n, tid)
      PROVE  lookup'[u].rounds = lookup[u].rounds
  <2>1. lookup' = [lookup EXCEPT ![t].to = @ \ {n}, ![t].queried = @ \union {n}]
    BY <1>2 DEF Ask
  <2>. QED BY <2>1 DEF QueriesTyped
<1>3. ASSUME NEW t \in DhtTasks, RoundEnds(t)
      PROVE  lookup'[u].rounds <= MaxIterations
  <2>1. CASE lookup' = [lookup EXCEPT ![t] = Idle]
    <3>1. lookup'[u].rounds \in {0, lookup[u].rounds}
      BY <2>1 DEF QueriesTyped, Idle
    <3>. QED BY <1>0, <3>1
  <2>2. CASE lookup' = [lookup EXCEPT ![t].to = lookup[t].new \ lookup[t].queried,
                                      ![t].new = {}, ![t].rounds = @ - 1]
    <3>1. lookup'[u].rounds \in {lookup[u].rounds, lookup[u].rounds - 1}
      BY <2>2 DEF QueriesTyped
    <3>. QED BY <1>0, <3>1
  <2>. QED BY <1>3, <2>1, <2>2 DEF RoundEnds
<1>4. ASSUME NEW q \in asks, Conclude(q) PROVE lookup'[u].rounds = lookup[u].rounds
  <2>1. \/ UNCHANGED lookup
        \/ lookup' = [lookup EXCEPT ![q.task].new = @ \union News(q)]
    BY <1>4 DEF Conclude
  <2>. QED BY <2>1 DEF QueriesTyped
<1>5. ASSUME \/ Ages \/ RotateTokens \/ UNCHANGED dhtVars
             \/ \E m \in inbox : HandleAnswer(m)
             \/ \E q \in asks : QueryEnds(q)
             \/ \E n \in DhtNodes : HandleQuery(n) \/ \E token \in tokens : HandleAnnounce(n, token)
      PROVE  lookup' = lookup
  BY <1>5 DEF Ages, RotateTokens, dhtVars, HandleAnswer, QueryEnds, HandleQuery, HandleAnnounce
<1>. QED BY <1>0, <1>1, <1>2, <1>3, <1>4, <1>5, DhtKinds

(* Each count goes up only below its bound.                                *)
LEMMA DhtCountedStep ==
  DhtInv /\ DhtCounted /\ [DhtNext]_dhtVars => DhtCounted'
<1>. SUFFICES ASSUME DhtInv, DhtCounted, [DhtNext]_dhtVars PROVE DhtCounted'
  OBVIOUS
<1>1. MaxLookups \in Nat /\ dhtScenario \in DhtScenarios /\ MaxUnasked[dhtScenario] \in Nat
  BY DhtAssumption DEF DhtCounted
<1>2. leaked' \subseteq Tids
  <2>1. ASSUME NEW t \in DhtTasks, NEW n \in DhtNodes, NEW tid \in Tids, Ask(t, n, tid)
        PROVE  leaked' \subseteq leaked \union {tid}
    BY <2>1 DEF Ask
  <2>2. ASSUME \/ Ages \/ RotateTokens \/ UNCHANGED dhtVars
               \/ \E t \in DhtTasks, kind \in {"ping", "find_node", "get_peers"} : Begin(t, kind)
               \/ \E t \in DhtTasks : RoundEnds(t)
               \/ \E m \in inbox : HandleAnswer(m)
               \/ \E q \in asks : QueryEnds(q) \/ Conclude(q)
               \/ \E n \in DhtNodes : HandleQuery(n) \/ \E token \in tokens : HandleAnnounce(n, token)
        PROVE  leaked' \subseteq leaked
    BY <2>2 DEF Ages, RotateTokens, dhtVars, Begin, RoundEnds, HandleAnswer, QueryEnds, Conclude,
                HandleQuery, HandleAnnounce
  <2>. QED BY <2>1, <2>2, DhtKinds DEF DhtCounted
<1>3. dhtScenario' = dhtScenario
  BY DhtKinds DEF Ages, RotateTokens, dhtVars, Begin, Ask, RoundEnds, HandleAnswer, QueryEnds,
                  Conclude, HandleQuery, HandleAnnounce
<1>4. lookups' \in 0 .. MaxLookups
  <2>1. ASSUME NEW t \in DhtTasks, NEW kind, Begin(t, kind)
        PROVE  lookups < MaxLookups /\ lookups' = lookups + 1
    BY <2>1 DEF Begin
  <2>2. ASSUME \/ Ages \/ RotateTokens \/ UNCHANGED dhtVars
               \/ \E t \in DhtTasks, n \in DhtNodes, tid \in Tids : Ask(t, n, tid)
               \/ \E t \in DhtTasks : RoundEnds(t)
               \/ \E m \in inbox : HandleAnswer(m)
               \/ \E q \in asks : QueryEnds(q) \/ Conclude(q)
               \/ \E n \in DhtNodes : HandleQuery(n) \/ \E token \in tokens : HandleAnnounce(n, token)
        PROVE  lookups' = lookups
    BY <2>2 DEF Ages, RotateTokens, dhtVars, Ask, RoundEnds, HandleAnswer, QueryEnds, Conclude,
                HandleQuery, HandleAnnounce
  <2>. QED BY <1>1, <2>1, <2>2, DhtKinds DEF DhtCounted
<1>5. unasked' \in 0 .. MaxUnasked[dhtScenario]
  <2>1. ASSUME Unasked PROVE unasked' \in 0 .. MaxUnasked[dhtScenario]
    BY <1>1, <2>1 DEF Unasked, DhtCounted
  <2>2. ASSUME \/ Ages
               \/ \E n \in DhtNodes : HandleQuery(n) \/ \E token \in tokens : HandleAnnounce(n, token)
        PROVE  Unasked
    BY <2>2 DEF Ages, HandleQuery, HandleAnnounce
  <2>3. ASSUME \/ RotateTokens \/ UNCHANGED dhtVars
               \/ \E t \in DhtTasks, kind \in {"ping", "find_node", "get_peers"} : Begin(t, kind)
               \/ \E t \in DhtTasks, n \in DhtNodes, tid \in Tids : Ask(t, n, tid)
               \/ \E t \in DhtTasks : RoundEnds(t)
               \/ \E m \in inbox : HandleAnswer(m)
               \/ \E q \in asks : QueryEnds(q) \/ Conclude(q)
        PROVE  unasked' = unasked
    BY <2>3 DEF RotateTokens, dhtVars, Begin, Ask, RoundEnds, HandleAnswer, QueryEnds, Conclude
  <2>. QED BY <2>1, <2>2, <2>3, DhtKinds DEF DhtCounted
<1>6. \A t \in DhtTasks : lookup'[t].rounds <= MaxIterations
  BY RoundsCountedStep DEF DhtInv
<1>7. /\ epoch' <= MaxRotations /\ \A k \in tokens' : k.epoch <= MaxRotations
      /\ \A p \in peers' : p.token \in tokens'
  BY StoreCountedStep DEF DhtInv
<1>. QED BY <1>1, <1>2, <1>3, <1>4, <1>5, <1>6, <1>7 DEF DhtCounted

LEMMA DhtTypes == DhtInv /\ DhtCounted => DhtTypeOK
<1>. SUFFICES ASSUME DhtInv, DhtCounted PROVE DhtTypeOK
  OBVIOUS
<1>1. MaxIterations \in Nat /\ MaxRotations \in Nat
  BY DhtAssumption
<1>2. lookup \in [DhtTasks -> [kind : {"none", "ping", "find_node", "get_peers"},
                               to : SUBSET DhtNodes, queried : SUBSET DhtNodes,
                               new : SUBSET DhtNodes, rounds : 0 .. MaxIterations]]
  <2>1. \A t \in DhtTasks : lookup[t].rounds \in 0 .. MaxIterations
    BY <1>1 DEF DhtInv, QueriesTyped, DhtCounted
  <2>. QED BY <2>1 DEF DhtInv, QueriesTyped
<1>3. epoch \in 0 .. MaxRotations /\ tokens \subseteq [node : DhtNodes, epoch : 0 .. MaxRotations]
  <2>1. epoch \in Nat /\ tokens \subseteq [node : DhtNodes, epoch : Nat]
    BY DEF DhtInv, StoreTyped
  <2>2. \A k \in tokens : k.epoch \in 0 .. MaxRotations
    BY <1>1, <2>1 DEF DhtCounted
  <2>. QED BY <1>1, <2>1, <2>2 DEF DhtCounted
<1>. QED BY <1>2, <1>3 DEF DhtInv, TableTyped, QueriesTyped, DhtCounted, DhtTypeOK

(* Whatever lookups, refreshes, answers and queries of others run into     *)
(* each other: no node is blamed for another, the bucket keeps its shape,  *)
(* an entry of pending_queries belongs to the query that waits for it, and *)
(* who announces had a token (RoutingTable, send_query, handle_query).     *)
THEOREM DhtKept == DhtSpec => [](DhtTypeOK /\ TableKept)
<1>1. DhtInit => DhtInv /\ DhtCounted
  <2>. SUFFICES ASSUME DhtInit PROVE DhtCounted
    BY DhtInitInv
  <2>1. /\ lookup = [t \in DhtTasks |-> Idle] /\ tokens = {} /\ peers = {} /\ leaked = {}
        /\ epoch = 0 /\ lookups = 0 /\ unasked = 0 /\ dhtScenario \in DhtScenarios
    BY DEF DhtInit
  <2>2. {MaxIterations, MaxRotations, MaxLookups, MaxUnasked[dhtScenario]} \subseteq Nat
    BY <2>1, DhtAssumption
  <2>. QED BY <2>1, <2>2 DEF DhtCounted, Idle
<1>2. DhtInv /\ [DhtNext]_dhtVars => DhtInv'
  BY TableStep, QueriesTypedStep, AskedOnceStep, PendingStep, StoreStep DEF DhtInv
<1>3. DhtInv => TableKept
  BY DEF DhtInv, TableInv, TableKept
<1>. QED BY <1>1, <1>2, <1>3, DhtCountedStep, DhtTypes, PTL DEF DhtSpec

-----------------------------------------------------------------------------
(* Side by side *)

(* A step of a part leaves the others alone.                               *)
LEMMA PartsApart ==
  ASSUME [OutsideNext]_<<part, feedVars, udpVars, dhtVars>>
  PROVE  [FeedsNext]_feedVars /\ [UdpNext]_udpVars /\ [DhtNext]_dhtVars
BY DEF OutsideNext, OtherVars

(* What the parts promise each for itself holds of them side by side, for  *)
(* any constants.                                                          *)
THEOREM OutsideKept ==
  OutsideSpec => [](OutsideTypeOK /\ FeedsKept /\ AnswersOwn /\ TableKept)
<1>1. OutsideInit => FeedsInit /\ UdpInit /\ DhtInit
  BY DEF OutsideInit
<1>2. OutsideSpec => FeedsSpec /\ UdpSpec /\ DhtSpec
  BY <1>1, PartsApart, PTL DEF OutsideSpec, FeedsSpec, UdpSpec, DhtSpec
<1>3. FeedsTypeOK /\ UdpTypeOK /\ DhtTypeOK => OutsideTypeOK
  BY DEF OutsideTypeOK
<1>. QED BY <1>2, <1>3, FindingsKept, AnswersAreOwn, DhtKept, PTL
=============================================================================
