------------------------- MODULE ConfigEntryProofs -------------------------
(***************************************************************************)
(* Proofs about ConfigEntry, for any entries, uuids, attempts, window and  *)
(* number of events.  What each property needs beyond itself: that the     *)
(* update listener's baseline is the configuration as it is stored, so     *)
(* that no update is taken for the one that is known; that a setup under   *)
(* way has the credentials that are stored, or a reload is due; that a     *)
(* setup which has come to the platforms has taken the issue down; and     *)
(* that the unload of an entry takes its commands along.                   *)
(***************************************************************************)
EXTENDS ConfigEntry, Integers, TLAPS

\* The baseline of the listener, and what a setup has read so far.
BaselineInv ==
  \A e \in Entries : Listening(e) => snapshot[e] = Snapshot(conf[e], token[e])

UsingInv ==
  \A e \in Entries : ~reload[e] =>
    /\ ha[e] = "setup" => using[e].creds = conf[e].creds
    /\ ha[e] \in {"platforms", "loaded"} => using[e] = conf[e]

IssueInv == \A e \in Entries : ha[e] = "platforms" => ~authIssue[e]

ScenesInv == \A e \in Entries : "generate_scenes" \in stored[e].options

OutboxInv ==
  \A c \in outbox : /\ c[2] \in Known[c[1]] /\ Listening(c[1])
                    /\ \A d \in outbox : d[2] = c[2] => d = c

SessionInv == AvailableOnlyInSession /\ DeadSessionIsHandled /\ IssueMeansRejected /\ IssueInv
ConfInv    == BaselineInv /\ UsingInv
StoredInv  == CredentialsInDataOnly /\ ScenesInv

IInv == TypeOK /\ NoLeakedConnection /\ SessionInv /\ ConfInv /\ StoredInv /\ OutboxInv

-----------------------------------------------------------------------------
(* What a step leaves alone it leaves true.                                *)

LEMMA Frames ==
  /\ NoLeakedConnection /\ UNCHANGED <<ha, handles, orphans, flow>> => NoLeakedConnection'
  /\ SessionInv /\ UNCHANGED <<ha, session, connected, authIssue, reauth, reload>> => SessionInv'
  /\ ConfInv /\ UNCHANGED <<ha, reload, snapshot, conf, token, using>> => ConfInv'
  /\ StoredInv /\ UNCHANGED stored => StoredInv'
  /\ OutboxInv /\ UNCHANGED <<ha, outbox>> => OutboxInv'
<1>1. NoLeakedConnection /\ UNCHANGED <<ha, handles, orphans, flow>> => NoLeakedConnection'
  BY DEF NoLeakedConnection
<1>2. SessionInv /\ UNCHANGED <<ha, session, connected, authIssue, reauth, reload>> => SessionInv'
  BY DEF SessionInv, AvailableOnlyInSession, DeadSessionIsHandled, IssueMeansRejected, IssueInv
<1>3. ConfInv /\ UNCHANGED <<ha, reload, snapshot, conf, token, using>> => ConfInv'
  BY DEF ConfInv, BaselineInv, UsingInv, Listening
<1>4. StoredInv /\ UNCHANGED stored => StoredInv'
  BY DEF StoredInv, CredentialsInDataOnly, ScenesInv
<1>5. OutboxInv /\ UNCHANGED <<ha, outbox>> => OutboxInv'
  BY DEF OutboxInv, Listening
<1>. QED
  BY <1>1, <1>2, <1>3, <1>4, <1>5

\* The count of an entry's connections is the count of what they are for.
LEMMA HandlesTyped ==
  ASSUME handles' \in [Entries -> Int], orphans' \in [Entries -> Nat], NoLeakedConnection'
  PROVE  handles' \in [Entries -> Nat]
<1>1. \A e \in Entries : handles'[e] \in Nat
  BY DEF NoLeakedConnection, Holds
<1>. QED
  BY <1>1

LEMMA KeyFacts ==
  /\ ConnectionKeys \subseteq Keys /\ Preferences \subseteq Keys
  /\ ConnectionKeys \cap Preferences = {}
  /\ "generate_scenes" \in Preferences /\ "generate_scenes" \notin ConnectionKeys
  /\ "verify_ssl" \in ConnectionKeys
  /\ {"generate_lightcontroller_subcontrols", "generate_scenes_delay"} \subseteq Preferences
BY DEF Keys, ConnectionKeys, Preferences

\* The migration moves the connection keys and keeps the preferences.
LEMMA MigratedEffect ==
  ASSUME NEW s \in StoredEntry, s.version < 5, "generate_scenes" \in s.options
  PROVE  /\ Migrated(s) \in StoredEntry
         /\ Migrated(s).version = 5
         /\ Migrated(s).data = s.data \cup ConnectionKeys
         /\ Migrated(s).options \cap ConnectionKeys = {}
         /\ "generate_scenes" \in Migrated(s).options
<1>. DEFINE added == (IF s.version = 1 THEN {"generate_lightcontroller_subcontrols"} ELSE {})
                       \cup (IF s.version <= 2 THEN {"generate_scenes_delay"} ELSE {})
                       \cup (IF s.version <= 3 THEN {"verify_ssl"} ELSE {})
            kept  == (s.options \cup added) \ ConnectionKeys
<1>1. added \subseteq Keys
  BY KeyFacts
<1>2. kept \subseteq Keys /\ kept \cap ConnectionKeys = {} /\ "generate_scenes" \in kept
  BY <1>1, KeyFacts DEF StoredEntry
<1>3. Migrated(s) = [version |-> 5, data |-> s.data \cup ConnectionKeys, options |-> kept]
  <2>1. ~(s.version > 4)
    BY DEF StoredEntry
  <2>2. s.options \cup added = s.options
          \cup (IF s.version = 1 THEN {"generate_lightcontroller_subcontrols"} ELSE {})
          \cup (IF s.version <= 2 THEN {"generate_scenes_delay"} ELSE {})
          \cup (IF s.version <= 3 THEN {"verify_ssl"} ELSE {})
    OBVIOUS
  <2>. QED
    BY <2>1, <2>2 DEF Migrated
<1>4. s.data \cup ConnectionKeys \subseteq Keys
  BY KeyFacts DEF StoredEntry
<1>. QED
  BY <1>2, <1>3, <1>4 DEF StoredEntry

\* Other options in a stored entry.
LEMMA OptionsTyped ==
  ASSUME NEW s \in StoredEntry, NEW o \in SUBSET Keys
  PROVE  [s EXCEPT !.options = o] \in StoredEntry
BY DEF StoredEntry

\* Other credentials, or other options, in a configuration.
LEMMA ConfTyped ==
  ASSUME NEW c \in Confs
  PROVE  /\ \A k \in Creds : [c EXCEPT !.creds = k] \in Confs
         /\ [c EXCEPT !.options = ~@] \in Confs
         /\ [c EXCEPT !.options = ~@].creds = c.creds
         /\ \A o \in Confs : /\ [c EXCEPT !.creds = o.creds] \in Confs
                             /\ [c EXCEPT !.options = o.options] \in Confs
<1>1. c \in [creds : Creds, options : BOOLEAN]
  BY DEF Confs
<1>2. (~c.options) \in BOOLEAN
  OBVIOUS
<1>3. \A o \in Confs : o.creds \in Creds /\ o.options \in BOOLEAN
  BY DEF Confs
<1>. QED
  BY <1>1, <1>2, <1>3 DEF Confs

\* A form tests credentials.
LEMMA FlowTyped ==
  ASSUME TypeOK, NEW e \in Entries, flow[e] # NoFlow
  PROVE  flow[e] \in Creds
BY DEF TypeOK

\* What the 401 bookkeeping counts.
LEMMA RecordedTyped ==
  ASSUME NEW t \in [count : 0..MaxAttempts, age : 0..Window]
  PROVE  Recorded(t) \in [count : 0..MaxAttempts, age : 0..Window]
BY ConfigEntryAssumption DEF Recorded

\* Something happens from the outside.
LEMMA OneEventLess == TypeOK /\ events > 0 => events - 1 \in 0..Events
BY ConfigEntryAssumption DEF TypeOK

LEMMA ClearedTyped == Cleared \in [count : 0..MaxAttempts, age : 0..Window]
BY ConfigEntryAssumption DEF Cleared

\* An update of the entry is one of its configuration and its token, and the
\* listener's baseline follows it.
LEMMA EntryUpdatedEffect ==
  ASSUME TypeOK, ConfInv, NEW e \in Entries, NEW c \in Confs, NEW t \in {0, 1},
         EntryUpdated(e, c, t), UNCHANGED <<ha, using>>,
         c.creds = conf[e].creds
  PROVE  /\ conf' \in [Entries -> Confs] /\ token' \in [Entries -> {0, 1}]
         /\ snapshot' \in [Entries -> {NoSnapshot} \cup (Creds \X BOOLEAN)]
         /\ reload' \in [Entries -> BOOLEAN]
         /\ \A f \in Entries : reload[f] => reload'[f]
         /\ ConfInv'
<1>1. Snapshot(c, t) \in Creds \X BOOLEAN
  BY DEF Snapshot, Confs
<1>2. conf' \in [Entries -> Confs] /\ token' \in [Entries -> {0, 1}]
  BY DEF TypeOK, EntryUpdated
<1>3. snapshot' \in [Entries -> {NoSnapshot} \cup (Creds \X BOOLEAN)]
  BY <1>1 DEF TypeOK, EntryUpdated
<1>4. reload' \in [Entries -> BOOLEAN] /\ \A f \in Entries : reload[f] => reload'[f]
  BY DEF TypeOK, EntryUpdated
<1>5. BaselineInv'
  BY DEF TypeOK, ConfInv, BaselineInv, EntryUpdated, Listening, Snapshot
<1>6. UsingInv'
  <2>1. SUFFICES ASSUME NEW f \in Entries, ~reload'[f]
                 PROVE  /\ ha[f] = "setup" => using[f].creds = conf'[f].creds
                        /\ ha[f] \in {"platforms", "loaded"} => using[f] = conf'[f]
    BY DEF UsingInv
  <2>2. /\ ~reload[f]
        /\ ha[f] = "setup" => using[f].creds = conf[f].creds
        /\ ha[f] \in {"platforms", "loaded"} => using[f] = conf[f]
    BY <1>4, <2>1 DEF ConfInv, UsingInv
  <2>3. CASE f # e
    BY <2>2, <2>3 DEF TypeOK, EntryUpdated
  <2>4. CASE f = e /\ ~Listening(e)
    BY <2>2, <2>4 DEF TypeOK, EntryUpdated, Listening, Working
  <2>5. CASE f = e /\ Listening(e)
    <3>1. Snapshot(c, t) = Snapshot(conf[e], token[e])
      BY <2>1, <2>5 DEF TypeOK, ConfInv, BaselineInv, EntryUpdated
    <3>2. c = conf[e]
      <4>1. conf[e] \in Confs /\ c \in Confs
        BY DEF TypeOK
      <4>2. c.creds = conf[e].creds /\ c.options = conf[e].options
        BY <3>1 DEF Snapshot
      <4>. QED
        BY <4>1, <4>2 DEF Confs
    <3>. QED
      BY <2>2, <2>5, <3>2 DEF TypeOK, EntryUpdated
  <2>. QED
    BY <2>3, <2>4, <2>5
<1>. QED
  BY <1>2, <1>3, <1>4, <1>5, <1>6 DEF ConfInv

-----------------------------------------------------------------------------
(* Every step keeps the invariant.  Each lemma proves the parts the step   *)
(* can disturb; Frames has the others.                                     *)

LEMMA MigrateStep ==
  ASSUME IInv, NEW e \in Entries, Migrate(e)
  PROVE  IInv'
<1>. USE DEF Migrate, entryVars, coordVars, authVars, worldVars, IInv
<1>1. /\ stored[e] \in StoredEntry /\ "generate_scenes" \in stored[e].options
      /\ stored' = [stored EXCEPT ![e] = Migrated(stored[e])]
  BY DEF TypeOK, StoredInv, ScenesInv
<1>2. StoredInv'
  BY <1>1, MigratedEffect DEF TypeOK, StoredInv, CredentialsInDataOnly, ScenesInv
<1>3. TypeOK'
  BY <1>1, MigratedEffect DEF TypeOK
<1>. QED
  BY <1>1, <1>2, <1>3, Frames

LEMMA BeginSetupStep ==
  ASSUME IInv, NEW e \in Entries, BeginSetup(e)
  PROVE  IInv'
<1>. USE DEF BeginSetup, entryVars, coordVars, authVars, worldVars, IInv
<1>1. NoLeakedConnection'
  BY DEF TypeOK, NoLeakedConnection, Holds, States, Resting, Working, Unloading
<1>2. SessionInv'
  BY DEF TypeOK, SessionInv, AvailableOnlyInSession, DeadSessionIsHandled, IssueMeansRejected, IssueInv, States, Resting, Working, Unloading
<1>3. ConfInv'
  BY DEF TypeOK, ConfInv, BaselineInv, UsingInv, Listening, Snapshot, Confs, States, Resting, Working, Unloading
<1>4. OutboxInv'
  BY DEF TypeOK, OutboxInv, Listening, States, Resting, Working, Unloading
<1>5. TypeOK'
  <2>1. handles' \in [Entries -> Nat]
    BY <1>1, HandlesTyped DEF TypeOK
  <2>a. using[e] \in Confs /\ conf[e] \in Confs
    BY DEF TypeOK
  <2>b. using' = [using EXCEPT ![e] = [using[e] EXCEPT !.creds = conf[e].creds]]
    OBVIOUS
  <2>c. [using[e] EXCEPT !.creds = conf[e].creds] \in Confs
    BY <2>a, ConfTyped
  <2>2. using' \in [Entries -> Confs]
    BY <2>b, <2>c DEF TypeOK
  <2>. QED
    BY <2>1, <2>2 DEF TypeOK, NoSnapshot, States, Resting, Working, Unloading
<1>. QED
  BY <1>1, <1>2, <1>3, <1>4, <1>5, Frames

LEMMA SetupUnavailableStep ==
  ASSUME IInv, NEW e \in Entries, SetupUnavailable(e)
  PROVE  IInv'
<1>. USE DEF SetupUnavailable, entryVars, coordVars, authVars, worldVars, CloseFailedSetup, IInv
<1>1. NoLeakedConnection'
  BY DEF TypeOK, NoLeakedConnection, Holds, States, Resting, Working, Unloading
<1>2. SessionInv'
  BY DEF TypeOK, SessionInv, AvailableOnlyInSession, DeadSessionIsHandled, IssueMeansRejected, IssueInv, States, Resting, Working, Unloading
<1>3. ConfInv'
  BY DEF TypeOK, ConfInv, BaselineInv, UsingInv, Listening, Snapshot, Confs, States, Resting, Working, Unloading
<1>4. OutboxInv'
  BY DEF TypeOK, OutboxInv, Listening, States, Resting, Working, Unloading
<1>5. TypeOK'
  <2>1. handles' \in [Entries -> Nat]
    BY <1>1, HandlesTyped DEF TypeOK
  <2>. QED
    BY <2>1 DEF TypeOK, NoSnapshot, States, Resting, Working, Unloading, Confs, Creds
<1>. QED
  BY <1>1, <1>2, <1>3, <1>4, <1>5, Frames

LEMMA SetupUnauthorisedStep ==
  ASSUME IInv, NEW e \in Entries, SetupUnauthorised(e)
  PROVE  IInv'
<1>. USE DEF SetupUnauthorised, entryVars, coordVars, authVars, worldVars, CloseFailedSetup, IInv
<1>1. NoLeakedConnection'
  BY DEF TypeOK, NoLeakedConnection, Holds, States, Resting, Working, Unloading
<1>2. SessionInv'
  BY DEF TypeOK, SessionInv, AvailableOnlyInSession, DeadSessionIsHandled, IssueMeansRejected, IssueInv, States, Resting, Working, Unloading
<1>3. ConfInv'
  BY DEF TypeOK, ConfInv, BaselineInv, UsingInv, Listening, Snapshot, Confs, States, Resting, Working, Unloading
<1>4. OutboxInv'
  BY DEF TypeOK, OutboxInv, Listening, States, Resting, Working, Unloading
<1>5. TypeOK'
  <2>1. handles' \in [Entries -> Nat]
    BY <1>1, HandlesTyped DEF TypeOK
  <2>2. tracker' \in [Entries -> [count : 0..MaxAttempts, age : 0..Window]]
    BY RecordedTyped DEF TypeOK
  <2>. QED
    BY <2>1, <2>2 DEF TypeOK, NoSnapshot, States, Resting, Working, Unloading
<1>. QED
  BY <1>1, <1>2, <1>3, <1>4, <1>5, Frames

LEMMA SetupSucceedsStep ==
  ASSUME IInv, NEW e \in Entries, SetupSucceeds(e)
  PROVE  IInv'
<1>. USE DEF SetupSucceeds, entryVars, coordVars, authVars, worldVars, ClearIssue, IInv
<1>1. NoLeakedConnection'
  BY DEF TypeOK, NoLeakedConnection, Holds, States, Resting, Working, Unloading
<1>2. SessionInv'
  BY DEF TypeOK, SessionInv, AvailableOnlyInSession, DeadSessionIsHandled, IssueMeansRejected, IssueInv, States, Resting, Working, Unloading
<1>3. ConfInv'
  BY DEF TypeOK, ConfInv, BaselineInv, UsingInv, Listening, Snapshot, Confs, States, Resting, Working, Unloading
<1>4. OutboxInv'
  BY DEF TypeOK, OutboxInv, Listening, States, Resting, Working, Unloading
<1>5. TypeOK'
  <2>1. tracker' \in [Entries -> [count : 0..MaxAttempts, age : 0..Window]]
    BY ClearedTyped DEF TypeOK
  <2>2. conf[e] \in Confs /\ using[e] \in Confs
    BY DEF TypeOK
  <2>3. Snapshot(conf[e], token[e]) \in Creds \X BOOLEAN
    BY <2>2 DEF Snapshot, Confs
  <2>4. snapshot' \in [Entries -> {NoSnapshot} \cup (Creds \X BOOLEAN)]
    BY <2>3 DEF TypeOK
  <2>5. [using[e] EXCEPT !.options = conf[e].options] \in Confs
    BY <2>2, ConfTyped
  <2>6. using' \in [Entries -> Confs]
    BY <2>5 DEF TypeOK
  <2>7. ha' \in [Entries -> States] /\ authIssue' \in [Entries -> BOOLEAN]
    BY DEF TypeOK, States
  <2>. QED
    BY <2>1, <2>4, <2>6, <2>7 DEF TypeOK
<1>. QED
  BY <1>1, <1>2, <1>3, <1>4, <1>5, Frames

LEMMA PlatformsReadyStep ==
  ASSUME IInv, NEW e \in Entries, PlatformsReady(e)
  PROVE  IInv'
<1>. USE DEF PlatformsReady, entryVars, coordVars, authVars, worldVars, IInv
<1>1. NoLeakedConnection'
  BY DEF TypeOK, NoLeakedConnection, Holds, States, Resting, Working, Unloading
<1>2. SessionInv'
  BY DEF TypeOK, SessionInv, AvailableOnlyInSession, DeadSessionIsHandled, IssueMeansRejected, IssueInv, States, Resting, Working, Unloading
<1>3. ConfInv'
  BY DEF TypeOK, ConfInv, BaselineInv, UsingInv, Listening, Snapshot, Confs, States, Resting, Working, Unloading
<1>4. OutboxInv'
  BY DEF TypeOK, OutboxInv, Listening, States, Resting, Working, Unloading
<1>5. TypeOK'
  BY DEF TypeOK, NoSnapshot, States, Resting, Working, Unloading, Confs, Creds
<1>. QED
  BY <1>1, <1>2, <1>3, <1>4, <1>5, Frames

LEMMA LoginStep ==
  ASSUME IInv, NEW e \in Entries, Login(e)
  PROVE  IInv'
<1>. USE DEF Login, entryVars, coordVars, authVars, worldVars, SetConnected, IInv
<1>1. PICK t \in {0, 1} : EntryUpdated(e, conf[e], t)
  BY DEF TypeOK
<1>2. /\ conf' \in [Entries -> Confs] /\ token' \in [Entries -> {0, 1}]
      /\ snapshot' \in [Entries -> {NoSnapshot} \cup (Creds \X BOOLEAN)]
      /\ reload' \in [Entries -> BOOLEAN] /\ \A f \in Entries : reload[f] => reload'[f]
      /\ ConfInv'
  BY <1>1, EntryUpdatedEffect DEF TypeOK
<1>3. SessionInv'
  BY <1>2 DEF TypeOK, SessionInv, AvailableOnlyInSession, DeadSessionIsHandled, IssueMeansRejected, IssueInv, States, Resting, Working, Unloading
<1>4. ConfInv'
  BY <1>2
<1>5. TypeOK'
  BY <1>2 DEF TypeOK
<1>. QED
  BY <1>1, <1>2, <1>3, <1>4, <1>5, Frames

LEMMA RejectedStep ==
  ASSUME IInv, NEW e \in Entries, Rejected(e)
  PROVE  IInv'
<1>. USE DEF Rejected, entryVars, coordVars, authVars, worldVars, SetConnected, IInv
<1>1. SessionInv'
  BY DEF TypeOK, SessionInv, AvailableOnlyInSession, DeadSessionIsHandled, IssueMeansRejected, IssueInv, States, Resting, Working, Unloading
<1>2. TypeOK'
  BY DEF TypeOK, NoSnapshot, States, Resting, Working, Unloading, Confs, Creds
<1>. QED
  BY <1>1, <1>2, Frames

LEMMA ReloadAfterCrashStep ==
  ASSUME IInv, NEW e \in Entries, ReloadAfterCrash(e)
  PROVE  IInv'
<1>. USE DEF ReloadAfterCrash, entryVars, coordVars, authVars, worldVars, IInv
<1>1. SessionInv'
  BY DEF TypeOK, SessionInv, AvailableOnlyInSession, DeadSessionIsHandled, IssueMeansRejected, IssueInv, States, Resting, Working, Unloading
<1>2. ConfInv'
  BY DEF TypeOK, ConfInv, BaselineInv, UsingInv, Listening, Snapshot, Confs, States, Resting, Working, Unloading
<1>3. TypeOK'
  BY DEF TypeOK, NoSnapshot, States, Resting, Working, Unloading, Confs, Creds
<1>. QED
  BY <1>1, <1>2, <1>3, Frames

LEMMA ReloadUnloadedStep ==
  ASSUME IInv, NEW e \in Entries, ReloadUnloaded(e)
  PROVE  IInv'
<1>. USE DEF ReloadUnloaded, entryVars, coordVars, authVars, worldVars, IInv
<1>1. NoLeakedConnection'
  BY DEF TypeOK, NoLeakedConnection, Holds, States, Resting, Working, Unloading
<1>2. SessionInv'
  BY DEF TypeOK, SessionInv, AvailableOnlyInSession, DeadSessionIsHandled, IssueMeansRejected, IssueInv, States, Resting, Working, Unloading
<1>3. ConfInv'
  BY DEF TypeOK, ConfInv, BaselineInv, UsingInv, Listening, Snapshot, Confs, States, Resting, Working, Unloading
<1>4. OutboxInv'
  BY DEF TypeOK, OutboxInv, Listening, States, Resting, Working, Unloading
<1>5. TypeOK'
  BY DEF TypeOK, NoSnapshot, States, Resting, Working, Unloading, Confs, Creds
<1>. QED
  BY <1>1, <1>2, <1>3, <1>4, <1>5, Frames

LEMMA UnloadPlatformsStep ==
  ASSUME IInv, NEW e \in Entries, UnloadPlatforms(e)
  PROVE  IInv'
<1>. USE DEF UnloadPlatforms, entryVars, coordVars, authVars, worldVars, IInv
<1>1. /\ events' \in 0..Events /\ reload' \in [Entries -> BOOLEAN]
      /\ \A f \in Entries \ {e} : ha'[f] = ha[f] /\ reload'[f] = reload[f]
      /\ ha'[e] \in {"reloading", "failed_unload", "removing"}
      /\ ha' \in [Entries -> States]
  <2>1. CASE /\ reload[e] /\ ha' = [ha EXCEPT ![e] = "reloading"]
             /\ UNCHANGED <<reload, events>>
    BY <2>1 DEF TypeOK, States, Unloading, Working
  <2>2. CASE /\ events > 0 /\ events' = events - 1
             /\ ha' = [ha EXCEPT ![e] = "failed_unload"]
             /\ reload' = [reload EXCEPT ![e] = FALSE]
    BY <2>2, OneEventLess DEF TypeOK, States, Working
  <2>3. CASE /\ events > 0 /\ events' = events - 1
             /\ ha' = [ha EXCEPT ![e] = "removing"] /\ UNCHANGED reload
    BY <2>3, OneEventLess DEF TypeOK, States, Unloading, Working
  <2>. QED
    BY <2>1, <2>2, <2>3
<1>2. NoLeakedConnection'
  BY <1>1 DEF TypeOK, NoLeakedConnection, Holds, States, Resting, Working, Unloading
<1>3. SessionInv'
  BY <1>1 DEF TypeOK, SessionInv, AvailableOnlyInSession, DeadSessionIsHandled, IssueMeansRejected, IssueInv, States, Resting, Working, Unloading
<1>4. ConfInv'
  BY <1>1 DEF TypeOK, ConfInv, BaselineInv, UsingInv, Listening, Working, Unloading
<1>5. OutboxInv'
  BY <1>1 DEF TypeOK, OutboxInv, Listening, Working, Unloading
<1>6. TypeOK'
  BY <1>1 DEF TypeOK
<1>. QED
  BY <1>1, <1>2, <1>3, <1>4, <1>5, <1>6, Frames

LEMMA StopSessionStep ==
  ASSUME IInv, NEW e \in Entries, StopSession(e)
  PROVE  IInv'
<1>. USE DEF StopSession, entryVars, coordVars, authVars, worldVars, IInv
<1>1. PICK left \in {"none", "abandoned"} : session' = [session EXCEPT ![e] = left]
  OBVIOUS
<1>2. SessionInv'
  BY <1>1 DEF TypeOK, SessionInv, AvailableOnlyInSession, DeadSessionIsHandled, IssueMeansRejected, IssueInv, States, Resting, Working, Unloading
<1>3. TypeOK'
  BY <1>1 DEF TypeOK
<1>. QED
  BY <1>2, <1>3, Frames

LEMMA FinishUnloadStep ==
  ASSUME IInv, NEW e \in Entries, FinishUnload(e)
  PROVE  IInv'
<1>. USE DEF FinishUnload, entryVars, coordVars, authVars, worldVars, CleansUp, IInv
<1>1. NoLeakedConnection'
  BY DEF TypeOK, NoLeakedConnection, Holds, States, Resting, Working, Unloading
<1>2. SessionInv'
  BY DEF TypeOK, SessionInv, AvailableOnlyInSession, DeadSessionIsHandled, IssueMeansRejected, IssueInv, States, Resting, Working, Unloading
<1>3. ConfInv'
  BY DEF TypeOK, ConfInv, BaselineInv, UsingInv, Listening, Snapshot, Confs, States, Resting, Working, Unloading
<1>4. OutboxInv'
  BY DEF TypeOK, OutboxInv, Listening, States, Resting, Working, Unloading
<1>5. TypeOK'
  <2>1. handles' \in [Entries -> Nat]
    BY <1>1, HandlesTyped DEF TypeOK
  <2>2. tracker' \in [Entries -> [count : 0..MaxAttempts, age : 0..Window]]
    BY ClearedTyped DEF TypeOK
  <2>3. orphans' \in [Entries -> Nat]
    BY DEF TypeOK
  <2>4. /\ ha' \in [Entries -> States] /\ reload' \in [Entries -> BOOLEAN]
        /\ reauth' \in [Entries -> BOOLEAN] /\ connected' \in [Entries -> BOOLEAN]
    BY DEF TypeOK, States, Resting
  <2>5. /\ session' \in [Entries -> {"none", "live", "crashed", "ended", "abandoned"}]
        /\ snapshot' \in [Entries -> {NoSnapshot} \cup (Creds \X BOOLEAN)]
        /\ outbox' \subseteq Entries \X Uuids /\ services' \in BOOLEAN
    BY DEF TypeOK
  <2>. QED
    BY <2>1, <2>2, <2>3, <2>4, <2>5 DEF TypeOK
<1>. QED
  BY <1>1, <1>2, <1>3, <1>4, <1>5, Frames

LEMMA RemoveUnloadedStep ==
  ASSUME IInv, NEW e \in Entries, RemoveUnloaded(e)
  PROVE  IInv'
<1>. USE DEF RemoveUnloaded, entryVars, coordVars, authVars, worldVars, IInv
<1>1. NoLeakedConnection'
  BY DEF TypeOK, NoLeakedConnection, Holds, States, Resting, Working, Unloading
<1>2. SessionInv'
  BY DEF TypeOK, SessionInv, AvailableOnlyInSession, DeadSessionIsHandled, IssueMeansRejected, IssueInv, States, Resting, Working, Unloading
<1>3. ConfInv'
  BY DEF TypeOK, ConfInv, BaselineInv, UsingInv, Listening, Snapshot, Confs, States, Resting, Working, Unloading
<1>4. OutboxInv'
  BY DEF TypeOK, OutboxInv, Listening, States, Resting, Working, Unloading
<1>5. TypeOK'
  BY OneEventLess DEF TypeOK, NoSnapshot, States, Resting, Working, Unloading, Confs, Creds
<1>. QED
  BY <1>1, <1>2, <1>3, <1>4, <1>5, Frames

LEMMA SubmitFormStep ==
  ASSUME IInv, NEW e \in Entries, SubmitForm(e)
  PROVE  IInv'
<1>. USE DEF SubmitForm, entryVars, coordVars, authVars, worldVars, IInv
<1>1. NoLeakedConnection'
  <2>1. flow[e] = NoFlow /\ flow'[e] # NoFlow /\ handles'[e] = handles[e] + 1
    BY DEF TypeOK, Creds, NoFlow
  <2>2. \A f \in Entries \ {e} : flow'[f] = flow[f] /\ handles'[f] = handles[f]
    BY DEF TypeOK
  <2>. QED
    BY <2>1, <2>2 DEF TypeOK, NoLeakedConnection, Holds
<1>2. TypeOK'
  <2>1. handles' \in [Entries -> Nat]
    BY <1>1, HandlesTyped DEF TypeOK
  <2>. QED
    BY <2>1 DEF TypeOK, NoSnapshot, States, Resting, Working, Unloading, Confs, Creds
<1>. QED
  BY <1>1, <1>2, Frames

LEMMA FormRefusedStep ==
  ASSUME IInv, NEW e \in Entries, FormRefused(e)
  PROVE  IInv'
<1>. USE DEF FormRefused, entryVars, coordVars, authVars, worldVars, CloseTest, IInv
<1>1. NoLeakedConnection'
  BY DEF TypeOK, NoLeakedConnection, Holds, States, Resting, Working, Unloading
<1>2. TypeOK'
  <2>1. handles' \in [Entries -> Nat]
    BY <1>1, HandlesTyped DEF TypeOK
  <2>. QED
    BY <2>1 DEF TypeOK, NoSnapshot, States, Resting, Working, Unloading, Confs, Creds
<1>. QED
  BY <1>1, <1>2, Frames

LEMMA FormCreatesStep ==
  ASSUME IInv, NEW e \in Entries, FormCreates(e)
  PROVE  IInv'
<1>. USE DEF FormCreates, entryVars, coordVars, authVars, worldVars, CloseTest, IInv
<1>1. NoLeakedConnection'
  BY DEF TypeOK, NoLeakedConnection, Holds, States, Resting, Working, Unloading
<1>2. SessionInv'
  BY DEF TypeOK, SessionInv, AvailableOnlyInSession, DeadSessionIsHandled, IssueMeansRejected, IssueInv, States, Resting, Working, Unloading
<1>3. ConfInv'
  BY DEF TypeOK, ConfInv, BaselineInv, UsingInv, Listening, Snapshot, Confs, States, Resting, Working, Unloading
<1>4. StoredInv'
  BY KeyFacts DEF TypeOK, StoredInv, CredentialsInDataOnly, ScenesInv, StoredEntry
<1>5. OutboxInv'
  BY DEF TypeOK, OutboxInv, Listening, States, Resting, Working, Unloading
<1>6. TypeOK'
  <2>1. handles' \in [Entries -> Nat]
    BY <1>1, HandlesTyped DEF TypeOK
  <2>2. stored' \in [Entries -> StoredEntry]
    BY KeyFacts DEF TypeOK, StoredEntry
  <2>a. TypeOK /\ flow[e] # NoFlow /\ conf[e] \in Confs
    BY DEF TypeOK
  <2>b. [conf[e] EXCEPT !.creds = flow[e]] \in Confs
    BY <2>a, ConfTyped, FlowTyped
  <2>c. conf' = [conf EXCEPT ![e] = [conf[e] EXCEPT !.creds = flow[e]]]
    OBVIOUS
  <2>3. conf' \in [Entries -> Confs] /\ flow' \in [Entries -> Creds \cup {NoFlow}]
    BY <2>b, <2>c DEF TypeOK
  <2>4. ha' \in [Entries -> States]
    BY DEF TypeOK, States, Resting, Working, Unloading
  <2>. QED
    BY <2>1, <2>2, <2>3, <2>4 DEF TypeOK
<1>. QED
  BY <1>1, <1>2, <1>3, <1>4, <1>5, <1>6, Frames

LEMMA FormReauthenticatesStep ==
  ASSUME IInv, NEW e \in Entries, FormReauthenticates(e)
  PROVE  IInv'
<1>. USE DEF FormReauthenticates, entryVars, coordVars, authVars, worldVars, CloseTest, IInv
<1>1. NoLeakedConnection'
  BY DEF TypeOK, NoLeakedConnection, Holds, States, Resting, Working, Unloading
<1>2. SessionInv'
  BY DEF TypeOK, SessionInv, AvailableOnlyInSession, DeadSessionIsHandled, IssueMeansRejected, IssueInv, States, Resting, Working, Unloading
<1>3. ConfInv'
  BY DEF TypeOK, ConfInv, BaselineInv, UsingInv, Listening, Snapshot, Confs, States, Resting, Working, Unloading
<1>4. TypeOK'
  <2>1. handles' \in [Entries -> Nat]
    BY <1>1, HandlesTyped DEF TypeOK
  <2>a. TypeOK /\ flow[e] # NoFlow /\ conf[e] \in Confs
    BY DEF TypeOK
  <2>2. [conf[e] EXCEPT !.creds = flow[e]] \in Confs
    BY <2>a, ConfTyped, FlowTyped
  <2>3. Snapshot([conf[e] EXCEPT !.creds = flow[e]], token[e]) \in Creds \X BOOLEAN
    BY DEF TypeOK, Snapshot, Confs
  <2>4. snapshot' \in [Entries -> {NoSnapshot} \cup (Creds \X BOOLEAN)]
    BY <2>3 DEF TypeOK
  <2>5. conf' \in [Entries -> Confs] /\ flow' \in [Entries -> Creds \cup {NoFlow}]
    BY <2>2 DEF TypeOK
  <2>. QED
    BY <2>1, <2>4, <2>5 DEF TypeOK
<1>. QED
  BY <1>1, <1>2, <1>3, <1>4, Frames

LEMMA SaveOptionsStep ==
  ASSUME IInv, NEW e \in Entries, SaveOptions(e)
  PROVE  IInv'
<1>. USE DEF SaveOptions, entryVars, coordVars, authVars, worldVars, IInv
<1>1. PICK c \in Confs : c.creds = conf[e].creds /\ EntryUpdated(e, c, token[e])
  <2>. DEFINE c == [conf[e] EXCEPT !.options = ~@]
  <2>1. c \in Confs /\ c.creds = conf[e].creds
    <3>1. conf[e] \in Confs
      BY DEF TypeOK
    <3>. QED
      BY <3>1, ConfTyped
  <2>2. EntryUpdated(e, c, token[e])
    OBVIOUS
  <2>. HIDE DEF c
  <2>. QED
    BY <2>1, <2>2
<1>2. /\ conf' \in [Entries -> Confs] /\ token' \in [Entries -> {0, 1}]
      /\ snapshot' \in [Entries -> {NoSnapshot} \cup (Creds \X BOOLEAN)]
      /\ reload' \in [Entries -> BOOLEAN] /\ \A f \in Entries : reload[f] => reload'[f]
      /\ ConfInv'
  <2>1. token[e] \in {0, 1} /\ UNCHANGED <<ha, using>> /\ TypeOK /\ ConfInv
    BY DEF TypeOK
  <2>. QED
    BY <1>1, <2>1, EntryUpdatedEffect
<1>3. SessionInv'
  BY <1>2 DEF TypeOK, SessionInv, AvailableOnlyInSession, DeadSessionIsHandled, IssueMeansRejected, IssueInv, States, Resting, Working, Unloading
<1>4. ConfInv'
  BY <1>2
<1>5. StoredInv'
  <2>1. /\ stored'[e].version = stored[e].version /\ stored'[e].data = stored[e].data
        /\ stored'[e].options = stored[e].options \cup Preferences
    BY DEF TypeOK, StoredEntry
  <2>2. \A f \in Entries \ {e} : stored'[f] = stored[f]
    BY DEF TypeOK
  <2>. QED
    BY <2>1, <2>2, KeyFacts DEF StoredInv, CredentialsInDataOnly, ScenesInv
<1>6. TypeOK'
  <2>1. stored[e].options \cup Preferences \in SUBSET Keys
    BY KeyFacts DEF TypeOK, StoredEntry
  <2>2. [stored[e] EXCEPT !.options = stored[e].options \cup Preferences] \in StoredEntry
    BY <2>1, OptionsTyped DEF TypeOK
  <2>3. stored' \in [Entries -> StoredEntry]
    BY <2>2 DEF TypeOK
  <2>. QED
    BY <1>2, <2>3, OneEventLess DEF TypeOK
<1>. QED
  BY <1>1, <1>2, <1>3, <1>4, <1>5, <1>6, Frames

LEMMA DropStep ==
  ASSUME IInv, NEW e \in Entries, Drop(e)
  PROVE  IInv'
<1>. USE DEF Drop, entryVars, coordVars, authVars, worldVars, SetConnected, IInv
<1>1. SessionInv'
  BY DEF TypeOK, SessionInv, AvailableOnlyInSession, DeadSessionIsHandled, IssueMeansRejected, IssueInv, States, Resting, Working, Unloading
<1>2. TypeOK'
  BY OneEventLess DEF TypeOK, NoSnapshot, States, Resting, Working, Unloading, Confs, Creds
<1>. QED
  BY <1>1, <1>2, Frames

LEMMA CrashesStep ==
  ASSUME IInv, NEW e \in Entries, Crashes(e)
  PROVE  IInv'
<1>. USE DEF Crashes, entryVars, coordVars, authVars, worldVars, SetConnected, IInv
<1>1. SessionInv'
  BY DEF TypeOK, SessionInv, AvailableOnlyInSession, DeadSessionIsHandled, IssueMeansRejected, IssueInv, States, Resting, Working, Unloading
<1>2. TypeOK'
  BY OneEventLess DEF TypeOK, NoSnapshot, States, Resting, Working, Unloading, Confs, Creds
<1>. QED
  BY <1>1, <1>2, Frames

\* Miniservers and time move nothing an entry holds but its bookkeeping.
LEMMA WorldStep ==
  ASSUME IInv, \/ Tick
               \/ \E e \in Entries : GoesDown(e) \/ Boots(e) \/ PasswordChanged(e)
  PROVE  IInv'
<1>. USE DEF IInv, entryVars, coordVars, authVars
<1>1. CASE Tick
  <2>a. ASSUME NEW t \in [count : 0..MaxAttempts, age : 0..Window], t.age < Window
        PROVE  [t EXCEPT !.age = @ + 1] \in [count : 0..MaxAttempts, age : 0..Window]
    <3>1. t.age + 1 \in 0..Window
      BY <2>a, ConfigEntryAssumption
    <3>. QED
      BY <3>1
  <2>b. tracker \in [Entries -> [count : 0..MaxAttempts, age : 0..Window]]
    BY DEF TypeOK
  <2>1. tracker' \in [Entries -> [count : 0..MaxAttempts, age : 0..Window]]
    BY <1>1, <2>a, <2>b DEF Tick
  <2>2. TypeOK'
    BY <1>1, <2>1 DEF TypeOK, Tick, worldVars
  <2>. QED
    BY <1>1, <2>2, Frames DEF Tick
<1>2. ASSUME NEW e \in Entries, GoesDown(e) \/ Boots(e) \/ PasswordChanged(e)
      PROVE  IInv'
  <2>1. /\ server' \in [Entries -> {"up", "booting", "down"}]
        /\ secret' \in [Entries -> Creds]
    BY <1>2 DEF TypeOK, GoesDown, Boots, PasswordChanged, Creds
  <2>2. events' \in 0..Events
    BY <1>2, OneEventLess DEF TypeOK, GoesDown, Boots, PasswordChanged
  <2>3. TypeOK'
    BY <1>2, <2>1, <2>2 DEF TypeOK, GoesDown, Boots, PasswordChanged
  <2>. QED
    BY <1>2, <2>3, Frames DEF GoesDown, Boots, PasswordChanged
<1>. QED
  BY <1>1, <1>2

\* A command starts at an entry that listens and knows its uuid; no other entry
\* does.
LEMMA CommandStep ==
  ASSUME IInv, CommandSent \/ \E u \in Uuids : BusCommand(u) \/ ServiceCommand(u)
  PROVE  IInv'
<1>. USE DEF IInv, entryVars, coordVars, authVars
<1>1. CASE CommandSent
  <2>1. TypeOK'
    BY <1>1 DEF TypeOK, CommandSent, worldVars
  <2>2. OutboxInv'
    BY <1>1 DEF OutboxInv, CommandSent, Listening
  <2>. QED
    BY <1>1, <2>1, <2>2, Frames DEF CommandSent
<1>2. ASSUME NEW u \in Uuids, BusCommand(u)
      PROVE  IInv'
  <2>1. TypeOK'
    BY <1>2, OneEventLess DEF TypeOK, BusCommand
  <2>2. \A c \in outbox' : c[1] \in Entries /\ c[2] = u /\ c = <<c[1], u>> /\ u \in Known[c[1]] /\ Listening(c[1])
    BY <1>2 DEF BusCommand, SendsOnBus, Listening
  <2>3. OutboxInv'
    BY <1>2, <2>2, ConfigEntryAssumption DEF OutboxInv, BusCommand, Listening
  <2>. QED
    BY <1>2, <2>1, <2>3, Frames DEF BusCommand
<1>3. ASSUME NEW u \in Uuids, ServiceCommand(u)
      PROVE  IInv'
  <2>1. TypeOK'
    BY <1>3, OneEventLess DEF TypeOK, ServiceCommand
  <2>2. OutboxInv'
    BY <1>3 DEF OutboxInv, ServiceCommand, Listening
  <2>. QED
    BY <1>3, <2>1, <2>2, Frames DEF ServiceCommand
<1>. QED
  BY <1>1, <1>2, <1>3

LEMMA StepInvariant == IInv /\ [Next]_vars => IInv'
<1>. SUFFICES ASSUME IInv, [Next]_vars PROVE IInv'
  OBVIOUS
<1>1. ASSUME NEW e \in Entries, SetupStep(e) PROVE IInv'
  BY <1>1, MigrateStep, BeginSetupStep, SetupUnavailableStep, SetupUnauthorisedStep,
     SetupSucceedsStep, PlatformsReadyStep DEF SetupStep
<1>2. ASSUME NEW e \in Entries, SessionStep(e) PROVE IInv'
  BY <1>2, LoginStep, RejectedStep, ReloadAfterCrashStep DEF SessionStep
<1>3. ASSUME NEW e \in Entries, UnloadStep(e) PROVE IInv'
  BY <1>3, ReloadUnloadedStep, UnloadPlatformsStep, StopSessionStep, FinishUnloadStep DEF UnloadStep
<1>4. ASSUME NEW e \in Entries, FormStep(e) PROVE IInv'
  BY <1>4, FormRefusedStep, FormCreatesStep, FormReauthenticatesStep DEF FormStep
<1>5. CASE UNCHANGED vars
  <2>1. TypeOK'
    BY <1>5 DEF IInv, TypeOK, vars, entryVars, coordVars, authVars, worldVars
  <2>. QED
    BY <1>5, <2>1, Frames DEF IInv, vars, entryVars, coordVars, authVars
<1>. QED
  BY <1>1, <1>2, <1>3, <1>4, <1>5, RemoveUnloadedStep, SubmitFormStep, SaveOptionsStep,
     DropStep, CrashesStep, WorldStep, CommandStep DEF Next

LEMMA InitInvariant == Init => IInv
<1>. SUFFICES ASSUME Init PROVE IInv
  OBVIOUS
<1>. USE DEF Init
<1>1. PICK v \in 1..4 : stored = [e \in Entries |-> Written(IF e \in Legacy THEN v ELSE 4)]
  OBVIOUS
<1>2. ASSUME NEW w \in 1..4
      PROVE  Written(w) \in StoredEntry /\ Written(w).version # 5
             /\ "generate_scenes" \in Written(w).options
  BY KeyFacts DEF Written, StoredEntry, Keys, Preferences
<1>3. TypeOK
  <2>1. stored \in [Entries -> StoredEntry]
    BY <1>1, <1>2
  <2>2. tracker \in [Entries -> [count : 0..MaxAttempts, age : 0..Window]]
    BY ConfigEntryAssumption
  <2>3. conf \in [Entries -> Confs] /\ using \in [Entries -> Confs]
    BY DEF Confs, Creds
  <2>4. ha \in [Entries -> States]
    BY DEF States, Resting
  <2>. QED
    BY <2>1, <2>2, <2>3, <2>4, ConfigEntryAssumption DEF TypeOK, Creds
<1>4. NoLeakedConnection /\ SessionInv /\ ConfInv /\ OutboxInv
  BY DEF NoLeakedConnection, Holds, SessionInv, AvailableOnlyInSession, DeadSessionIsHandled,
         IssueMeansRejected, IssueInv, ConfInv, BaselineInv, UsingInv, OutboxInv, Listening,
         Resting, Working, Unloading
<1>5. StoredInv
  BY <1>1, <1>2 DEF StoredInv, CredentialsInDataOnly, ScenesInv
<1>. QED
  BY <1>3, <1>4, <1>5 DEF IInv

LEMMA Invariant == Spec => []IInv
BY InitInvariant, StepInvariant, PTL DEF Spec

-----------------------------------------------------------------------------
(* The theorems.                                                           *)

\* Every variable of the entries keeps its type, for any entries, uuids and
\* bounds; an entry has at most two connections open.
THEOREM TypeCorrect == Spec => []TypeOK
<1>1. IInv => TypeOK
  BY DEF IInv
<1>. QED
  BY <1>1, Invariant, PTL

\* Whatever a setup, a form, an unload or a reload ends with, the connection it
\* opened is closed (the finally of async_setup_entry and test_loxone_connection,
\* async_cleanup).
THEOREM ConnectionsAreClosed == Spec => []NoLeakedConnection
<1>1. IInv => NoLeakedConnection
  BY DEF IInv
<1>. QED
  BY <1>1, Invariant, PTL

\* A session task belongs to an entry that is loaded or being unloaded, and entities
\* are available only while it runs (run_loxone_session, async_unload_entry).
THEOREM AvailabilityNeedsSession == Spec => []AvailableOnlyInSession
<1>1. IInv => AvailableOnlyInSession
  BY DEF IInv, SessionInv
<1>. QED
  BY <1>1, Invariant, PTL

\* However the session of a loaded entry ended, a reauth flow or a reload follows
\* (the exits of run_loxone_session), whatever forms and reloads came in between.
THEOREM DeadSessionsAreHandled == Spec => []DeadSessionIsHandled
<1>1. IInv => DeadSessionIsHandled
  BY DEF IInv, SessionInv
<1>. QED
  BY <1>1, Invariant, PTL

\* The repair issue never coexists with a running session
\* (_async_clear_auth_failure_issue in every successful setup).
THEOREM IssueIsTakenDown == Spec => []IssueMeansRejected
<1>1. IInv => IssueMeansRejected
  BY DEF IInv, SessionInv
<1>. QED
  BY <1>1, Invariant, PTL

\* A loaded entry runs with the stored configuration or is about to be reloaded,
\* wherever in the setup the update came (_entry_updated and its baseline).
THEOREM UpdatesAreNotMissed == Spec => []ConfigurationInUse
<1>1. IInv => ConfigurationInUse
  BY DEF IInv, ConfInv, UsingInv, ConfigurationInUse
<1>. QED
  BY <1>1, Invariant, PTL

\* From whatever version an entry comes, its credentials end up in the data and
\* only there (async_migrate_entry and the forms).
THEOREM CredentialsAreMoved == Spec => []CredentialsInDataOnly
<1>1. IInv => CredentialsInDataOnly
  BY DEF IInv, StoredInv
<1>. QED
  BY <1>1, Invariant, PTL

\* With any number of Miniservers, whose uuids differ, a command goes to its owner,
\* once, while the entry is there (_resolve_outbound_target, loxone_send).
THEOREM CommandsReachOwners == Spec => []CommandReachesOwner
<1>1. IInv => CommandReachesOwner
  BY DEF IInv, TypeOK, OutboxInv, CommandReachesOwner, Listening, Working, Unloading, Resting
<1>. QED
  BY <1>1, Invariant, PTL
=============================================================================
