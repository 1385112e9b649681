------------------------ MODULE SignedInstall_proofs ------------------------
(***************************************************************************)
(* What is proved of SignedInstall: a list in place has its launchers, and *)
(* a login runs one list, for every set of pins, contents and lists and    *)
(* any number of documents, failures, power losses, commands and logins;   *)
(* and a file is written where it is read, in every tree, wherever the way *)
(* to it has few links.                                                    *)
(***************************************************************************)
EXTENDS InstalledFiles, FiniteSetTheorems, SequenceTheorems, NaturalsInduction, WellFoundedInduction,
  TLAPS

-----------------------------------------------------------------------------
(* What a change does to one state of the files.                           *)

LEMMA FlagsSet ==
  ASSUME NEW d \in Files, NEW flags \in SUBSET Flags
  PROVE  LET e == [d EXCEPT !.flags = flags]
         IN  e \in Files /\ e.config = d.config /\ e.launchers = d.launchers /\ e.flags = flags
  BY DEF Files

LEMMA ConfigSet ==
  ASSUME NEW d \in Files, NEW g \in 0 .. MaxDocs
  PROVE  LET e == [d EXCEPT !.config = g]
         IN  e \in Files /\ e.config = g /\ e.launchers = d.launchers /\ e.flags = d.flags
  BY DEF Files

LEMMA LauncherSet ==
  ASSUME NEW d \in Files, NEW id \in Ids, NEW content \in Contents \cup {Absent}
  PROVE  LET e == [d EXCEPT !.launchers[id] = content]
         IN  /\ e \in Files /\ e.config = d.config /\ e.flags = d.flags
             /\ e.launchers \in Pins /\ e.launchers[id] = content
             /\ \A other \in Ids \ {id} : e.launchers[other] = d.launchers[other]
  BY DEF Files, Pins

(* The three changes of the files, as a step of the system.                *)
SameLists ==
  /\ fs'.config = fs.config /\ fs'.launchers = fs.launchers
  /\ \A d \in disk' : \E e \in disk : d.config = e.config /\ d.launchers = e.launchers

SameLaunchers(g) ==
  /\ fs'.config = g /\ fs'.launchers = fs.launchers /\ fs'.flags = fs.flags
  /\ \A d \in disk' : \E e \in disk : d.config \in {e.config, g} /\ d.launchers = e.launchers

(* One launcher holds `content' and every other stays.                     *)
OneLauncher(id, content) ==
  /\ fs'.config = fs.config /\ fs'.flags = fs.flags /\ fs'.launchers[id] = content
  /\ \A other \in Ids \ {id} : fs'.launchers[other] = fs.launchers[other]
  /\ \A d \in disk' : \E e \in disk :
       /\ d.config = e.config
       /\ d.launchers[id] \in {e.launchers[id], content}
       /\ \A other \in Ids \ {id} : d.launchers[other] = e.launchers[other]

LEMMA FlagsChange ==
  ASSUME FilesOK,
         \/ Change(LAMBDA d : [d EXCEPT !.flags = @ \cup {"skip"}])
         \/ Change(LAMBDA d : [d EXCEPT !.flags = @ \cup {"disabled"}])
         \/ Change(LAMBDA d : [d EXCEPT !.flags = @ \ {"skip"}])
         \/ Change(LAMBDA d : [d EXCEPT !.flags = @ \ {"disabled"}])
         \/ Change(LAMBDA d : [d EXCEPT !.flags = {}])
  PROVE  FilesOK' /\ SameLists
<1> DEFINE Touched(d, e) == e \in Files /\ e.config = d.config /\ e.launchers = d.launchers
<1>1. \A d \in Files : d.flags \in SUBSET Flags
  BY DEF Files
<1>2. /\ \A d \in disk' : d \in disk \/ \E e \in disk : Touched(e, d)
      /\ Touched(fs, fs') /\ fs' \in disk'
  <2>1. CASE Change(LAMBDA d : [d EXCEPT !.flags = @ \cup {"skip"}])
    <3> DEFINE New(d) == [d EXCEPT !.flags = d.flags \cup {"skip"}]
    <3>1. \A d \in Files : Touched(d, New(d))
      BY <1>1, FlagsSet DEF Flags
    <3>2. fs' = New(fs) /\ disk' = disk \cup {New(d) : d \in disk}
      BY <2>1 DEF Change
    <3> HIDE DEF Touched, New
    <3> QED  BY <3>1, <3>2 DEF FilesOK
  <2>2. CASE Change(LAMBDA d : [d EXCEPT !.flags = @ \cup {"disabled"}])
    <3> DEFINE New(d) == [d EXCEPT !.flags = d.flags \cup {"disabled"}]
    <3>1. \A d \in Files : Touched(d, New(d))
      BY <1>1, FlagsSet DEF Flags
    <3>2. fs' = New(fs) /\ disk' = disk \cup {New(d) : d \in disk}
      BY <2>2 DEF Change
    <3> HIDE DEF Touched, New
    <3> QED  BY <3>1, <3>2 DEF FilesOK
  <2>3. CASE Change(LAMBDA d : [d EXCEPT !.flags = @ \ {"skip"}])
    <3> DEFINE New(d) == [d EXCEPT !.flags = d.flags \ {"skip"}]
    <3>1. \A d \in Files : Touched(d, New(d))
      BY <1>1, FlagsSet DEF Flags
    <3>2. fs' = New(fs) /\ disk' = disk \cup {New(d) : d \in disk}
      BY <2>3 DEF Change
    <3> HIDE DEF Touched, New
    <3> QED  BY <3>1, <3>2 DEF FilesOK
  <2>4. CASE Change(LAMBDA d : [d EXCEPT !.flags = @ \ {"disabled"}])
    <3> DEFINE New(d) == [d EXCEPT !.flags = d.flags \ {"disabled"}]
    <3>1. \A d \in Files : Touched(d, New(d))
      BY <1>1, FlagsSet DEF Flags
    <3>2. fs' = New(fs) /\ disk' = disk \cup {New(d) : d \in disk}
      BY <2>4 DEF Change
    <3> HIDE DEF Touched, New
    <3> QED  BY <3>1, <3>2 DEF FilesOK
  <2>5. CASE Change(LAMBDA d : [d EXCEPT !.flags = {}])
    <3> DEFINE New(d) == [d EXCEPT !.flags = {}]
    <3>1. \A d \in Files : Touched(d, New(d))
      BY <1>1, FlagsSet DEF Flags
    <3>2. fs' = New(fs) /\ disk' = disk \cup {New(d) : d \in disk}
      BY <2>5 DEF Change
    <3> HIDE DEF Touched, New
    <3> QED  BY <3>1, <3>2 DEF FilesOK
  <2> QED  BY <2>1, <2>2, <2>3, <2>4, <2>5
<1> QED  BY <1>2 DEF FilesOK, SameLists, Touched

LEMMA ConfigChange ==
  ASSUME FilesOK, NEW g \in 0 .. MaxDocs,
         Change(LAMBDA d : [d EXCEPT !.config = g])
  PROVE  FilesOK' /\ SameLaunchers(g) /\ \A d \in disk' : d \in disk \/ d.config = g
<1> DEFINE Touched(d, e) ==
      e \in Files /\ e.config = g /\ e.launchers = d.launchers /\ e.flags = d.flags
<1>1. \A d \in Files : Touched(d, [d EXCEPT !.config = g])
  BY ConfigSet
<1> HIDE DEF Touched
<1>2. \A d \in disk' : d \in disk \/ \E e \in disk : Touched(e, d)
  BY <1>1 DEF FilesOK, Change
<1>3. Touched(fs, fs') /\ fs' \in disk'
  BY <1>1 DEF FilesOK, Change
<1> QED  BY <1>2, <1>3 DEF FilesOK, SameLaunchers, Touched

LEMMA LauncherChange ==
  ASSUME FilesOK, NEW id \in Ids, NEW content \in Contents \cup {Absent},
         Change(LAMBDA d : [d EXCEPT !.launchers[id] = content])
  PROVE  FilesOK' /\ OneLauncher(id, content)
<1> DEFINE Touched(d, e) ==
      /\ e \in Files /\ e.config = d.config /\ e.flags = d.flags /\ e.launchers[id] = content
      /\ \A other \in Ids \ {id} : e.launchers[other] = d.launchers[other]
<1>1. ASSUME NEW d \in Files
      PROVE  Touched(d, [d EXCEPT !.launchers[id] = content])
  <2> DEFINE e == [d EXCEPT !.launchers[id] = content]
  <2>1. /\ e \in Files /\ e.config = d.config /\ e.flags = d.flags /\ e.launchers[id] = content
        /\ \A other \in Ids \ {id} : e.launchers[other] = d.launchers[other]
    BY LauncherSet, ZenonT(60)
  <2> QED  BY <2>1
<1> HIDE DEF Touched
<1>2. \A d \in disk' : d \in disk \/ \E e \in disk : Touched(e, d)
  BY <1>1 DEF FilesOK, Change
<1>3. Touched(fs, fs') /\ fs' \in disk'
  BY <1>1 DEF FilesOK, Change
<1> QED  BY <1>2, <1>3 DEF FilesOK, OneLauncher, Touched

-----------------------------------------------------------------------------
(* Types.                                                                  *)

LEMMA NamedIsIds == \A g : Named(g) \in SUBSET Ids
  BY DEF Named

LEMMA SyncOK ==
  ASSUME FilesOK, fs' = fs, disk' \in {SyncLaunchers, SyncConfigDir, disk}
  PROVE  FilesOK' /\ SameLists /\ disk' \subseteq disk
  BY DEF FilesOK, SameLists, SyncLaunchers, SyncConfigDir

LEMMA FilesAreTyped ==
  ASSUME TypeOK, [Next]_vars
  PROVE  FilesOK'
<1> USE DEF TypeOK
<1>1. ASSUME NEW id \in engine.todo, engine.at = "launchers",
             Change(LAMBDA d : [d EXCEPT !.launchers[id] = docs[engine.doc][id]])
      PROVE  FilesOK'
  <2>1. engine.doc \in 1 .. Len(docs) /\ id \in Ids
    BY <1>1 DEF EngineOK, ListsOK, Engines
  <2>2. docs[engine.doc] \in Pins
    BY <2>1 DEF ListsOK
  <2>3. docs[engine.doc][id] \in Contents \cup {Absent}
    BY <2>1, <2>2 DEF Pins
  <2> QED  BY <1>1, <2>1, <2>3, LauncherChange
<1>2. ASSUME NEW id \in Ids, Change(LAMBDA d : [d EXCEPT !.launchers[id] = Absent])
      PROVE  FilesOK'
  BY <1>2, LauncherChange
<1>3. CASE UNCHANGED <<fs, disk>>
  BY <1>3 DEF FilesOK
<1>4. CASE SyncLauncher \/ SyncConfig
  BY <1>4, SyncOK DEF SyncLauncher, SyncConfig, Synced
<1>5. CASE WriteLauncher
  BY <1>5, <1>1 DEF WriteLauncher
<1>6. CASE WriteConfig
  <2>1. engine.doc \in 0 .. MaxDocs
    BY DEF EngineOK, ListsOK, Engines
  <2> QED  BY <1>6, <2>1, ConfigChange DEF WriteConfig
<1>7. CASE Collect \/ CaptureRemoves
  BY <1>7, <1>2 DEF Collect, CaptureRemoves, Strays
<1>8. CASE BootSkip \/ BootDisable \/ BootEnable \/ DropSkip \/ ReadSkip
  BY <1>8, <1>3, FlagsChange DEF BootSkip, BootDisable, BootEnable, DropSkip, ReadSkip
<1>9. CASE RemoveTree
  <2>1. CASE Change(LAMBDA d : [d EXCEPT !.config = 0])
    <3>1. 0 \in 0 .. MaxDocs
      BY LimitsAssumption
    <3> QED  BY <2>1, <3>1, ConfigChange
  <2> QED  BY <1>9, <1>2, <2>1, FlagsChange DEF RemoveTree
<1>10. CASE PowerLoss
  BY <1>10 DEF PowerLoss, FilesOK
<1> QED
  BY <1>3, <1>4, <1>5, <1>6, <1>7, <1>8, <1>9, <1>10
  DEF Next, vars, files, authority, Sign, Rehook, Work, StartInstall, Installed, Captures, CaptureReads,
      CaptureCollected, FlagCommands, Removal, Uninstall, Unhook, Uninstalled, Trouble,
      EngineStops, ShellDies, Login, LogIn, ReadPublic, ReadConfig, ReadDisabled, Launch, LoginEnds

LEMMA ListsAreTyped ==
  ASSUME TypeOK, [Next]_vars
  PROVE  ListsOK'
<1> USE DEF TypeOK
<1>1. CASE Sign
  <2> DEFINE n == Len(docs) + 1
  <2>1. PICK pins \in Lists : docs' = Append(docs, pins)
    BY <1>1 DEF Sign
  <2>2. pins \in Pins
    BY ListsAssumption DEF Pins
  <2>3. docs' \in Seq(Pins) /\ Len(docs') = n /\ n \in Nat /\ n <= MaxDocs
    BY <1>1, <2>1, <2>2, LimitsAssumption DEF Sign, ListsOK
  <2>4. queue \in Seq(1 .. n) /\ n \in 1 .. n
    <3>1. 1 .. Len(docs) \subseteq 1 .. n
      BY <2>3 DEF ListsOK
    <3> QED  BY <2>3, <3>1 DEF ListsOK
  <2>5. queue' = Append(queue, n) /\ published' = n
    BY <1>1 DEF Sign
  <2> HIDE DEF n
  <2> QED  BY <2>3, <2>4, <2>5 DEF ListsOK
<1>2. CASE StartInstall
  BY <1>2 DEF StartInstall, ListsOK, authority
<1>3. CASE Uninstall \/ ShellDies \/ PowerLoss
  <2>1. docs' = docs /\ published' \in {0, published} /\ queue' \in {<<>>, queue}
    BY <1>3 DEF Uninstall, ShellDies, PowerLoss, authority
  <2>2. 0 \in 0 .. Len(docs) /\ <<>> \in Seq(1 .. Len(docs))
    BY DEF ListsOK
  <2> QED  BY <2>1, <2>2 DEF ListsOK
<1>4. CASE UNCHANGED <<authority, queue>>
  BY <1>4 DEF ListsOK, authority
<1> QED
  BY <1>1, <1>2, <1>3, <1>4
  DEF Next, vars, Rehook, Work, WriteLauncher, SyncLauncher, WriteConfig, SyncConfig, Synced, Collect, Installed,
      Captures, CaptureReads, CaptureRemoves, CaptureCollected, FlagCommands, BootSkip, BootDisable,
      BootEnable, DropSkip, Removal, Unhook, RemoveTree, Uninstalled, Trouble, EngineStops, Login, LogIn,
      ReadPublic, ReadConfig, ReadDisabled, ReadSkip, Launch, LoginEnds

(* The documents only grow.                                                *)
LEMMA DocsGrow ==
  ASSUME TypeOK, [Next]_vars
  PROVE  /\ Len(docs) \in Nat /\ Len(docs') \in Nat /\ Len(docs) <= Len(docs')
         /\ \A g \in 1 .. Len(docs) : docs'[g] = docs[g]
<1>1. CASE Sign
  BY <1>1 DEF TypeOK, ListsOK, Sign
<1>2. CASE UNCHANGED docs
  BY <1>2 DEF TypeOK, ListsOK
<1> QED
  BY <1>1, <1>2
  DEF Next, vars, authority, Rehook, Work, StartInstall, WriteLauncher, SyncLauncher, WriteConfig, SyncConfig, Synced,
      Collect, Installed, Captures, CaptureReads, CaptureRemoves, CaptureCollected, FlagCommands, BootSkip,
      BootDisable, BootEnable, DropSkip, Removal, Uninstall, Unhook, RemoveTree, Uninstalled, Trouble,
      EngineStops, ShellDies, PowerLoss, Login, LogIn, ReadPublic, ReadConfig, ReadDisabled, ReadSkip,
      Launch, LoginEnds

LEMMA EngineIsTyped ==
  ASSUME TypeOK, [Next]_vars
  PROVE  EngineOK'
<1> USE DEF TypeOK
<1>1. CASE StartInstall
  <2>1. Head(queue) \in 1 .. Len(docs)
    BY <1>1 DEF StartInstall, ListsOK
  <2>2. Head(queue) \in 0 .. MaxDocs /\ Head(queue) # 0 /\ Head(queue) <= Len(docs)
    BY <2>1, LimitsAssumption DEF ListsOK
  <2>3. Idle \in Engines /\ Idle.doc = 0 /\ Idle.at = "idle" /\ Len(docs) \in Nat
    BY LimitsAssumption DEF Engines, Idle, ListsOK
  <2>4. [at |-> "launchers", doc |-> Head(queue), todo |-> Named(Head(queue))] \in Engines
    BY <2>2, NamedIsIds DEF Engines
  <2>5. docs' = docs
    BY <1>1 DEF StartInstall, authority
  <2>6. CASE engine' = Idle
    BY <2>3, <2>5, <2>6 DEF EngineOK
  <2>7. CASE engine' = [at |-> "launchers", doc |-> Head(queue), todo |-> Named(Head(queue))]
    BY <2>2, <2>4, <2>5, <2>7 DEF EngineOK
  <2> QED  BY <1>1, <2>6, <2>7 DEF StartInstall
<1>2. CASE WriteLauncher \/ SyncLauncher \/ WriteConfig \/ SyncConfig
  <2>1. docs' = docs
    BY <1>2 DEF WriteLauncher, SyncLauncher, WriteConfig, SyncConfig, Synced, authority
  <2>2. engine' \in Engines /\ engine'.doc = engine.doc /\ engine.doc # 0
    BY <1>2 DEF WriteLauncher, SyncLauncher, WriteConfig, SyncConfig, Synced, Engines, EngineOK
  <2> QED  BY <2>1, <2>2 DEF EngineOK
<1>3. CASE Installed \/ DropSkip \/ Uninstalled \/ EngineStops \/ ShellDies \/ PowerLoss
            \/ BootDisable \/ Uninstall \/ Unhook
  <2>1. docs' = docs
    BY <1>3
    DEF Installed, DropSkip, Uninstalled, EngineStops, ShellDies, PowerLoss, BootDisable, Uninstall, Unhook, authority
  <2>2. CASE engine' = Idle \/ engine' = [Idle EXCEPT !.at = "dropSkip"] \/ engine' = [Idle EXCEPT !.at = "unhook"]
    BY <2>1, <2>2, LimitsAssumption DEF EngineOK, Engines, Idle, ListsOK
  <2>3. CASE Unhook
    BY <2>1, <2>3 DEF Unhook, EngineOK, Engines
  <2> QED
    BY <1>3, <2>2, <2>3
    DEF Installed, DropSkip, Uninstalled, EngineStops, ShellDies, PowerLoss, BootDisable, Uninstall
<1>4. CASE BootEnable
  <2>1. docs' = docs /\ engine' = [Idle EXCEPT !.at = "dropSkip"]
    BY <1>4 DEF BootEnable, authority
  <2> QED  BY <2>1, LimitsAssumption DEF EngineOK, Engines, Idle, ListsOK
<1>5. CASE engine' = engine
  BY <1>5, DocsGrow, LimitsAssumption DEF EngineOK, Engines
<1> QED
  BY <1>1, <1>2, <1>3, <1>4, <1>5
  DEF Next, vars, Sign, Rehook, Work, Collect, Captures, CaptureReads, CaptureRemoves, CaptureCollected,
      FlagCommands, BootSkip, Removal, RemoveTree, Trouble, Login, LogIn, ReadPublic, ReadConfig,
      ReadDisabled, ReadSkip, Launch, LoginEnds

LEMMA LoginIsTyped ==
  ASSUME TypeOK, [Next]_vars
  PROVE  LoginOK'
<1> USE DEF TypeOK
<1>1. LoggedOut \in Logins /\ LoggedOut.seen = 0 /\ LoggedOut.doc = 0 /\ LoggedOut.at = "out"
  BY LimitsAssumption DEF LoggedOut, Logins
<1>2. CASE login' = LoggedOut
  BY <1>1, <1>2, DocsGrow DEF LoginOK
<1>3. CASE LogIn
  <2>1. login' \in Logins /\ login'.seen = 0 /\ login'.doc = 0 /\ login'.at = "public"
    BY <1>3, LimitsAssumption DEF LogIn, LoggedOut, Logins
  <2> QED  BY <2>1, DocsGrow DEF LoginOK
<1>4. CASE ReadPublic /\ published # 0
  <2>1. docs' = docs /\ published \in 0 .. MaxDocs /\ published <= Len(docs)
    BY <1>4, LimitsAssumption DEF ReadPublic, ListsOK, authority
  <2>2. login' = [login EXCEPT !.seen = published, !.at = IF @ = "public" THEN "config" ELSE "bootConfig"]
    BY <1>4 DEF ReadPublic
  <2>3. login' \in Logins /\ login'.seen = published /\ login'.doc = login.doc
        /\ login'.at \in {"config", "bootConfig"}
    BY <2>1, <2>2 DEF LoginOK, Logins
  <2> QED  BY <2>1, <2>3 DEF LoginOK
<1>5. CASE ReadConfig /\ Verified
  <2>1. docs' = docs /\ fs.config = login.seen /\ fs.config # 0
    BY <1>5 DEF ReadConfig, Verified, authority
  <2>2. login' \in {[login EXCEPT !.at = "bootPublic"], [login EXCEPT !.at = "flags", !.doc = login.seen]}
    BY <1>5, <2>1 DEF ReadConfig
  <2>3. login.seen \in 0 .. MaxDocs
    BY DEF LoginOK, Logins
  <2>4. CASE login' = [login EXCEPT !.at = "bootPublic"]
    BY <2>1, <2>4 DEF LoginOK, Logins
  <2>5. CASE login' = [login EXCEPT !.at = "flags", !.doc = login.seen]
    BY <2>1, <2>3, <2>5 DEF LoginOK, Logins
  <2> QED  BY <2>2, <2>4, <2>5
<1>6. CASE login' # LoggedOut /\ (ReadDisabled \/ ReadSkip \/ Launch)
  <2>1. docs' = docs /\ login.doc # 0
    BY <1>6 DEF ReadDisabled, ReadSkip, Launch, LoginOK, authority
  <2>2. login' \in Logins /\ login'.seen = login.seen /\ login'.doc = login.doc
    <3>1. CASE ReadDisabled
      BY <1>6, <3>1 DEF ReadDisabled, LoginOK, Logins
    <3>2. CASE ReadSkip
      <4>1. login' = [login EXCEPT !.at = "launch", !.todo = Named(login.doc)]
        BY <1>6, <3>2 DEF ReadSkip
      <4> QED  BY <4>1, NamedIsIds DEF LoginOK, Logins
    <3>3. CASE Launch
      BY <1>6, <3>3 DEF Launch, LoginOK, Logins
    <3> QED  BY <1>6, <3>1, <3>2, <3>3
  <2> QED  BY <2>1, <2>2 DEF LoginOK
<1>7. CASE login' = login
  BY <1>7, DocsGrow DEF LoginOK, Logins
<1> QED
  BY <1>2, <1>3, <1>4, <1>5, <1>6, <1>7
  DEF Next, vars, boot, Sign, Rehook, Work, StartInstall, WriteLauncher, SyncLauncher, WriteConfig, SyncConfig, Synced,
      Collect, Installed, Captures, CaptureReads, CaptureRemoves, CaptureCollected, FlagCommands, BootSkip,
      BootDisable, BootEnable, DropSkip, Removal, Uninstall, Unhook, RemoveTree, Uninstalled, Trouble,
      EngineStops, ShellDies, PowerLoss, Login, ReadPublic, ReadConfig, LoginEnds

LEMMA HistoryIsTyped ==
  ASSUME TypeOK, [Next]_vars
  PROVE  HistoryOK'
<1> USE DEF TypeOK
<1>1. 1 .. Len(docs) \subseteq 1 .. Len(docs')
  BY DocsGrow
<1>2. \A r \in ran : r \in [doc : 1 .. Len(docs'), id : Ids, content : Contents]
  BY <1>1 DEF HistoryOK
<1>3. CASE UNCHANGED <<floor, ran>>
  BY <1>2, <1>3, DocsGrow DEF HistoryOK
<1>4. CASE LogIn
  BY <1>4 DEF LogIn, HistoryOK, ListsOK, authority
<1>5. CASE PowerLoss
  BY <1>5 DEF PowerLoss, HistoryOK, authority
<1>6. CASE Launch
  <2>1. PICK id \in login.todo :
          ran' = IF Approved(id, fs.launchers[id])
                 THEN ran \cup {[doc |-> login.doc, id |-> id, content |-> fs.launchers[id]]}
                 ELSE ran
    BY <1>6 DEF Launch
  <2>2. login.doc \in 1 .. Len(docs) /\ id \in Ids
    BY <1>6 DEF Launch, LoginOK, Logins, ListsOK
  <2>3. docs[login.doc] \in Pins
    BY <2>2 DEF ListsOK
  <2>4. Approved(id, fs.launchers[id]) => fs.launchers[id] \in Contents
    BY <2>2, <2>3 DEF Approved, Pins
  <2>5. docs' = docs /\ floor' = floor
    BY <1>6 DEF Launch, authority
  <2> QED  BY <2>1, <2>2, <2>4, <2>5 DEF HistoryOK
<1> QED
  BY <1>3, <1>4, <1>5, <1>6
  DEF Next, vars, boot, Sign, Rehook, Work, StartInstall, WriteLauncher, SyncLauncher, WriteConfig, SyncConfig, Synced,
      Collect, Installed, Captures, CaptureReads, CaptureRemoves, CaptureCollected, FlagCommands, BootSkip,
      BootDisable, BootEnable, DropSkip, Removal, Uninstall, Unhook, RemoveTree, Uninstalled, Trouble,
      EngineStops, ShellDies, Login, ReadPublic, ReadConfig, ReadDisabled, ReadSkip, LoginEnds

LEMMA CountersAreTyped ==
  ASSUME TypeOK, [Next]_vars
  PROVE  CountersOK'
<1> USE LimitsAssumption DEF TypeOK, CountersOK
<1>1. /\ faults' \in {faults, faults + 1} /\ (faults' # faults => faults < MaxFaults)
      /\ losses' \in {losses, losses + 1} /\ (losses' # losses => losses < MaxPower)
      /\ commands' \in {commands, commands + 1} /\ (commands' # commands => commands < MaxCommands)
      /\ logins' \in {logins, logins + 1} /\ (logins' # logins => logins < MaxLogins)
      /\ hook' \in {hook, TRUE, FALSE} /\ unsynced' \in {unsynced, TRUE}
      /\ off' \in {off, TRUE, FALSE} /\ barred' \in {barred, off, FALSE}
      /\ capture' = capture \/ capture' = NoCapture \/ CaptureReads
  <2>1. CASE Sign \/ Rehook \/ StartInstall
    BY <2>1 DEF Sign, Rehook, StartInstall, authority, files, boot, counters
  <2>2. CASE WriteLauncher \/ WriteConfig \/ Collect
    BY <2>2 DEF WriteLauncher, WriteConfig, Collect, authority, files, boot, counters
  <2>3. CASE SyncLauncher \/ SyncConfig
    BY <2>3 DEF SyncLauncher, SyncConfig, Synced, authority, files, boot, counters
  <2>4. CASE Installed
    BY <2>4 DEF Installed, authority, files, boot, counters
  <2>5. CASE CaptureReads \/ CaptureRemoves \/ CaptureCollected
    BY <2>5 DEF CaptureReads, CaptureRemoves, CaptureCollected, authority, files, boot, counters
  <2>6. CASE BootSkip \/ BootDisable \/ BootEnable
    BY <2>6 DEF BootSkip, BootDisable, BootEnable, FlagCommand, authority, files, boot, counters
  <2>7. CASE DropSkip \/ Uninstall \/ Unhook
    BY <2>7 DEF DropSkip, Uninstall, Unhook, authority, files, boot, counters
  <2>8. CASE RemoveTree \/ Uninstalled
    BY <2>8 DEF RemoveTree, Uninstalled, authority, files, boot, counters
  <2>9. CASE EngineStops \/ ShellDies
    BY <2>9 DEF EngineStops, ShellDies, authority, files, boot, counters
  <2>10. CASE PowerLoss
    BY <2>10 DEF PowerLoss, authority, files, boot, counters
  <2>11. CASE LogIn \/ ReadPublic \/ ReadConfig
    BY <2>11 DEF LogIn, ReadPublic, ReadConfig, authority, files, boot, counters
  <2>12. CASE ReadDisabled \/ ReadSkip \/ Launch \/ LoginEnds
    BY <2>12 DEF ReadDisabled, ReadSkip, Launch, LoginEnds, authority, files, boot, counters
  <2>13. CASE UNCHANGED vars
    BY <2>13 DEF vars, files, boot, counters
  <2> QED
    BY <2>1, <2>2, <2>3, <2>4, <2>5, <2>6, <2>7, <2>8, <2>9, <2>10, <2>11, <2>12, <2>13
    DEF Next, Work, Captures, FlagCommands, Removal, Trouble, Login
<1>2. capture' \in [on : BOOLEAN, live : SUBSET Ids]
  <2>1. NoCapture \in [on : BOOLEAN, live : SUBSET Ids]
    BY DEF NoCapture
  <2>2. CASE CaptureReads
    <3>1. PICK live \in SUBSET Ids : capture' = [on |-> TRUE, live |-> live]
      BY <2>2, NamedIsIds DEF CaptureReads
    <3> QED  BY <3>1
  <2> QED  BY <1>1, <2>1, <2>2
<1>3. faults' \in 0 .. MaxFaults /\ losses' \in 0 .. MaxPower
  BY <1>1
<1>4. commands' \in 0 .. MaxCommands /\ logins' \in 0 .. MaxLogins
  BY <1>1
<1> QED  BY <1>1, <1>2, <1>3, <1>4

LEMMA TypeOKInit == Init => TypeOK
<1> SUFFICES ASSUME Init PROVE TypeOK
  OBVIOUS
<1>1. FilesOK
  BY LimitsAssumption DEF Init, FilesOK, Files, NoFiles, Pins, Flags
<1>2. EngineOK
  BY LimitsAssumption DEF Init, Idle, Engines, EngineOK
<1>3. LoginOK
  BY LimitsAssumption DEF Init, LoggedOut, Logins, LoginOK
<1>4. ListsOK
  BY LimitsAssumption DEF Init, ListsOK
<1>5. HistoryOK
  BY DEF Init, HistoryOK
<1>6. CountersOK
  <2>1. capture \in [on : BOOLEAN, live : SUBSET Ids]
    BY DEF Init, NoCapture
  <2>2. \A n \in Nat : 0 \in 0 .. n
    OBVIOUS
  <2> QED  BY <2>1, <2>2, LimitsAssumption DEF Init, CountersOK
<1> QED  BY <1>1, <1>2, <1>3, <1>4, <1>5, <1>6 DEF TypeOK

LEMMA TypeOKStep == TypeOK /\ [Next]_vars => TypeOK'
  BY FilesAreTyped, ListsAreTyped, EngineIsTyped, LoginIsTyped, HistoryIsTyped, CountersAreTyped DEF TypeOK

(* Every variable keeps to its type (the model's own).                     *)
THEOREM SpecTypeOK == Spec => []TypeOK
  BY TypeOKInit, TypeOKStep, PTL DEF Spec

-----------------------------------------------------------------------------
(* A login.                                                                *)

(* After a login began, the authority only went on.                        *)
LoginGoesOn ==
  /\ login.at # "out" => published = 0 \/ published >= floor
  /\ login.at \in {"config", "bootConfig"} => login.seen >= floor
  /\ login.at \in {"flags", "skip", "launch"} => login.doc >= floor
  /\ login.at \notin {"out", "launch"} => ran = {}
  /\ login.at = "launch" => \A r \in ran : r.doc = login.doc

(* A disable holds until a command that lifts it, or an uninstall, begins. *)
DisabledStays ==
  /\ off => "disabled" \in fs.flags
  /\ engine.at \in {"unhook", "tree"} => ~off
  /\ barred => off /\ login.at \notin {"skip", "launch"}

LoginInv == TypeOK /\ LoginGoesOn /\ DisabledStays /\ LoginRunsOneList

LEMMA FlagsStay ==
  ASSUME TypeOK,
         WriteLauncher \/ WriteConfig \/ Collect \/ CaptureRemoves
  PROVE  fs'.flags = fs.flags
<1>1. CASE WriteLauncher
  <2>1. PICK id \in engine.todo : Change(LAMBDA d : [d EXCEPT !.launchers[id] = docs[engine.doc][id]])
    BY <1>1 DEF WriteLauncher
  <2>2. fs' = [fs EXCEPT !.launchers[id] = docs[engine.doc][id]]
    BY <2>1 DEF Change
  <2> QED  BY <2>2 DEF TypeOK, FilesOK, Files
<1>2. CASE WriteConfig
  BY <1>2 DEF WriteConfig, Change, TypeOK, FilesOK, Files
<1>3. CASE Collect \/ CaptureRemoves
  <2>1. PICK id \in Ids : fs' = [fs EXCEPT !.launchers[id] = Absent]
    BY <1>3 DEF Collect, CaptureRemoves, Strays, Change
  <2> QED  BY <2>1 DEF TypeOK, FilesOK, Files
<1> QED  BY <1>1, <1>2, <1>3

LEMMA FlagsGo ==
  ASSUME TypeOK, DisabledStays, [Next]_vars, off'
  PROVE  "disabled" \in fs'.flags
<1> USE DEF TypeOK, FilesOK, Files
<1>1. CASE WriteLauncher \/ WriteConfig \/ Collect \/ CaptureRemoves
  <2>1. off' = off
    BY <1>1 DEF WriteLauncher, WriteConfig, Collect, CaptureRemoves, counters
  <2> QED  BY <1>1, <2>1, FlagsStay DEF DisabledStays
<1>2. CASE BootSkip \/ DropSkip \/ ReadSkip
  <2>1. off' = off
    BY <1>2 DEF BootSkip, DropSkip, ReadSkip, counters
  <2>2. fs' \in {fs, [fs EXCEPT !.flags = @ \cup {"skip"}], [fs EXCEPT !.flags = @ \ {"skip"}]}
    BY <1>2 DEF BootSkip, DropSkip, ReadSkip, Change
  <2> QED  BY <2>1, <2>2 DEF DisabledStays
<1>3. CASE BootDisable
  <2>1. fs' = [fs EXCEPT !.flags = @ \cup {"disabled"}]
    BY <1>3 DEF BootDisable, Change
  <2> QED  BY <2>1
<1>4. CASE BootEnable \/ Uninstall \/ PowerLoss
  BY <1>4 DEF BootEnable, Uninstall, PowerLoss
<1>5. CASE RemoveTree
  BY <1>5 DEF RemoveTree, DisabledStays, counters
<1>6. CASE UNCHANGED <<fs, off>>
  BY <1>6 DEF DisabledStays
<1> QED
  BY <1>1, <1>2, <1>3, <1>4, <1>5, <1>6
  DEF Next, vars, files, counters, Sign, Rehook, Work, StartInstall, SyncLauncher, SyncConfig, Synced, Installed,
      Captures, CaptureReads, CaptureCollected, FlagCommands, Removal, Unhook, Uninstalled, Trouble,
      EngineStops, ShellDies, Login, LogIn, ReadPublic, ReadConfig, ReadDisabled, Launch, LoginEnds

(* What was launched stays what its document signed.                       *)
LEMMA RanStays ==
  ASSUME TypeOK, LoginRunsOneList, [Next]_vars
  PROVE  \A r \in ran : r.content = docs'[r.doc][r.id]
BY DocsGrow DEF TypeOK, HistoryOK, LoginRunsOneList

LEMMA LoginStep ==
  ASSUME LoginInv, [Next]_vars
  PROVE  LoginGoesOn' /\ LoginRunsOneList' /\ (barred' => off' /\ login'.at \notin {"skip", "launch"})
<1>1. TypeOK /\ LoginGoesOn /\ DisabledStays /\ LoginRunsOneList /\ TypeOK'
  BY TypeOKStep DEF LoginInv
<1>2. \A r \in ran : r.content = docs'[r.doc][r.id]
  BY <1>1, RanStays
<1>3. published \in Nat /\ floor \in Nat /\ Len(docs) \in Nat /\ floor <= Len(docs) + 1 /\ published <= Len(docs)
  BY <1>1 DEF TypeOK, ListsOK, HistoryOK
<1>4. CASE UNCHANGED <<login, floor, ran, barred>> /\ published' \in {0, published, Len(docs) + 1} /\ (off => off' \/ ~barred')
  BY <1>1, <1>2, <1>3, <1>4 DEF LoginGoesOn, LoginRunsOneList, DisabledStays
<1>5. CASE UNCHANGED <<login, floor, ran>> /\ published' \in {0, published} /\ ~barred'
  BY <1>1, <1>2, <1>3, <1>5 DEF LoginGoesOn, LoginRunsOneList
<1>6. CASE PowerLoss
  <2>1. login'.at = "out" /\ ran' = {} /\ ~barred'
    BY <1>6 DEF PowerLoss, LoggedOut
  <2> QED  BY <2>1 DEF LoginGoesOn, LoginRunsOneList
<1>7. CASE LogIn
  <2>1. login'.at = "public" /\ ran' = {} /\ barred' = off /\ off' = off /\ published' = published
    BY <1>7 DEF LogIn, LoggedOut, authority, counters
  <2>2. published = 0 \/ floor' = published
    BY <1>7 DEF LogIn
  <2> QED  BY <1>3, <2>1, <2>2 DEF LoginGoesOn, LoginRunsOneList
<1>8. CASE Login /\ ~LogIn /\ ~Launch
  <2>1. UNCHANGED <<docs, published, floor, ran, barred, off>>
    BY <1>8 DEF Login, ReadPublic, ReadConfig, ReadDisabled, ReadSkip, LoginEnds, authority, counters
  <2>2. LoginRunsOneList'
    BY <1>1, <2>1 DEF LoginRunsOneList
  <2>3. CASE login' = LoggedOut
    BY <1>1, <2>1, <2>2, <2>3 DEF LoginGoesOn, DisabledStays, LoggedOut
  <2>4. CASE ReadPublic /\ published # 0
    <3>1. login.at \in {"public", "bootPublic"} /\ login'.seen = published /\ login'.at \in {"config", "bootConfig"}
      BY <1>1, <2>4 DEF ReadPublic, TypeOK, LoginOK, Logins
    <3> QED  BY <1>1, <2>1, <2>2, <2>4, <3>1 DEF LoginGoesOn, DisabledStays
  <2>5. CASE ReadConfig /\ Verified
    <3>1. login.at \in {"config", "bootConfig"} /\ login'.seen = login.seen
          /\ (login'.at = "bootPublic" \/ (login'.at = "flags" /\ login'.doc = login.seen))
      <4>1. login' \in {[login EXCEPT !.at = "bootPublic"], [login EXCEPT !.at = "flags", !.doc = login.seen]}
        BY <2>5 DEF ReadConfig, Verified
      <4>2. login.at \in {"config", "bootConfig"}
        BY <2>5 DEF ReadConfig
      <4>3. login \in Logins
        BY <1>1 DEF TypeOK, LoginOK
      <4>4. CASE login' = [login EXCEPT !.at = "bootPublic"]
        <5>1. login'.at = "bootPublic" /\ login'.seen = login.seen
          BY <4>3, <4>4 DEF Logins
        <5> QED  BY <4>2, <5>1
      <4>5. CASE login' = [login EXCEPT !.at = "flags", !.doc = login.seen]
        BY <4>2, <4>3, <4>5 DEF Logins
      <4> QED  BY <4>1, <4>4, <4>5
    <3> QED  BY <1>1, <2>1, <2>2, <3>1 DEF LoginGoesOn, DisabledStays
  <2>6. CASE ReadDisabled /\ "disabled" \notin fs.flags
    <3>1. login.at = "flags" /\ login'.at = "skip" /\ login'.doc = login.doc
      BY <1>1, <2>6 DEF ReadDisabled, TypeOK, LoginOK, Logins
    <3> QED  BY <1>1, <2>1, <2>2, <2>6, <3>1 DEF LoginGoesOn, DisabledStays
  <2>7. CASE ReadSkip /\ "skip" \notin fs.flags
    <3>1. login.at = "skip" /\ login'.at = "launch" /\ login'.doc = login.doc
      BY <1>1, <2>7 DEF ReadSkip, TypeOK, LoginOK, Logins
    <3> QED  BY <1>1, <2>1, <2>2, <3>1 DEF LoginGoesOn, DisabledStays
  <2> QED
    BY <1>8, <2>3, <2>4, <2>5, <2>6, <2>7
    DEF Login, ReadPublic, ReadConfig, ReadDisabled, ReadSkip, LoginEnds
<1>9. CASE Launch
  <2>1. PICK id \in login.todo :
          /\ login' = [login EXCEPT !.todo = @ \ {id}]
          /\ ran' = IF Approved(id, fs.launchers[id])
                    THEN ran \cup {[doc |-> login.doc, id |-> id, content |-> fs.launchers[id]]}
                    ELSE ran
    BY <1>9 DEF Launch
  <2>2. login.at = "launch" /\ login'.at = "launch" /\ login'.doc = login.doc
    BY <1>1, <1>9, <2>1 DEF Launch, TypeOK, LoginOK, Logins
  <2>3. UNCHANGED <<docs, published, floor, barred, off>>
    BY <1>9 DEF Launch, authority, counters
  <2>4. ~barred /\ login.doc >= floor /\ \A r \in ran : r.doc = login.doc
    BY <1>1, <2>2 DEF LoginGoesOn, DisabledStays
  <2>5. \A r \in ran' : r \in ran \/ (r.doc = login.doc /\ r.content = docs[r.doc][r.id])
    <3> DEFINE launched == [doc |-> login.doc, id |-> id, content |-> fs.launchers[id]]
    <3>1. launched.doc = login.doc /\ launched.id = id /\ launched.content = fs.launchers[id]
      OBVIOUS
    <3> HIDE DEF launched
    <3>2. CASE fs.launchers[id] = docs[login.doc][id] /\ ran' = ran \cup {launched}
      <4>1. \A r \in ran' : r \in ran \/ r = launched
        BY <3>2
      <4>2. launched.doc = login.doc /\ launched.content = docs[launched.doc][launched.id]
        BY <3>1, <3>2
      <4> QED  BY <4>1, <4>2, Zenon
    <3>3. Approved(id, fs.launchers[id]) => fs.launchers[id] = docs[login.doc][id]
      BY DEF Approved
    <3>4. ran' = IF Approved(id, fs.launchers[id]) THEN ran \cup {launched} ELSE ran
      BY <2>1, Zenon DEF launched
    <3>5. CASE ran' = ran
      BY <3>5
    <3> QED  BY <3>2, <3>3, <3>4, <3>5, Zenon
  <2>6. \A r \in ran' : r.doc = login.doc /\ r.content = docs'[r.doc][r.id]
    BY <1>1, <2>3, <2>4, <2>5 DEF LoginRunsOneList
  <2>7. LoginGoesOn'
    BY <1>1, <2>2, <2>3, <2>4, <2>6 DEF LoginGoesOn
  <2> QED  BY <2>3, <2>4, <2>6, <2>7 DEF LoginRunsOneList
<1>10. CASE Sign \/ Rehook \/ Work \/ Captures \/ BootSkip \/ BootDisable \/ DropSkip \/ UNCHANGED vars
  <2>1. UNCHANGED boot
    BY <1>10
    DEF Sign, Rehook, Work, StartInstall, WriteLauncher, SyncLauncher, WriteConfig, SyncConfig, Synced, Collect,
        Installed, Captures, CaptureReads, CaptureRemoves, CaptureCollected, BootSkip, BootDisable, DropSkip, vars
  <2>2. (off' = off \/ off') /\ published' \in {published, Len(docs) + 1}
    BY <1>10
    DEF Sign, Rehook, Work, StartInstall, WriteLauncher, SyncLauncher, WriteConfig, SyncConfig, Synced, Collect,
        Installed, Captures, CaptureReads, CaptureRemoves, CaptureCollected, BootSkip, BootDisable, DropSkip, vars,
        counters, authority
  <2>3. (off => off') /\ published' \in {0, published, Len(docs) + 1}
    BY <2>2
  <2>4. UNCHANGED <<login, floor, ran, barred>>
    BY <2>1 DEF boot
  <2> QED  BY <1>4, <2>3, <2>4
<1>11. CASE BootEnable \/ Uninstall
  BY <1>5, <1>11 DEF BootEnable, Uninstall, authority
<1>12. CASE Unhook \/ RemoveTree \/ Uninstalled \/ EngineStops \/ ShellDies
  BY <1>4, <1>12 DEF Unhook, RemoveTree, Uninstalled, EngineStops, ShellDies, authority, boot, counters
<1> QED
  BY <1>6, <1>7, <1>8, <1>9, <1>10, <1>11, <1>12
  DEF Next, FlagCommands, Removal, Trouble, Login

LEMMA LoginInvInit == Init => LoginInv
  BY TypeOKInit DEF Init, LoginInv, LoginGoesOn, DisabledStays, LoginRunsOneList, LoggedOut, Idle

LEMMA RemovalIsOn ==
  ASSUME TypeOK, DisabledStays, [Next]_vars, engine'.at \in {"unhook", "tree"}
  PROVE  ~off'
<1>1. CASE engine' = engine /\ (off' = off \/ ~off')
  BY <1>1 DEF DisabledStays
<1>2. CASE Uninstall
  BY <1>2 DEF Uninstall
<1>3. CASE Unhook
  BY <1>3 DEF Unhook, DisabledStays, counters
<1>4. CASE engine' = Idle \/ engine' = [Idle EXCEPT !.at = "dropSkip"]
  BY <1>4 DEF Idle
<1>5. CASE StartInstall \/ WriteLauncher \/ SyncLauncher \/ WriteConfig \/ SyncConfig
  <2>1. CASE StartInstall
    BY <2>1 DEF StartInstall, Idle
  <2>2. CASE WriteLauncher \/ WriteConfig
    BY <2>2 DEF WriteLauncher, WriteConfig, TypeOK, EngineOK, Engines
  <2>3. CASE SyncLauncher \/ SyncConfig
    BY <2>3 DEF SyncLauncher, SyncConfig, Synced, TypeOK, EngineOK, Engines
  <2> QED  BY <1>5, <2>1, <2>2, <2>3
<1> QED
  BY <1>1, <1>2, <1>3, <1>4, <1>5
  DEF Next, vars, counters, Sign, Rehook, Work, Collect, Installed, Captures, CaptureReads, CaptureRemoves,
      CaptureCollected, FlagCommands, BootSkip, BootDisable, BootEnable, DropSkip, Removal, RemoveTree,
      Uninstalled, Trouble, EngineStops, ShellDies, PowerLoss, Login, LogIn, ReadPublic, ReadConfig,
      ReadDisabled, ReadSkip, Launch, LoginEnds

LEMMA LoginInvStep == LoginInv /\ [Next]_vars => LoginInv'
<1> SUFFICES ASSUME LoginInv, [Next]_vars PROVE LoginInv'
  OBVIOUS
<1>1. off' => "disabled" \in fs'.flags
  BY FlagsGo DEF LoginInv
<1>2. engine'.at \in {"unhook", "tree"} => ~off'
  BY RemovalIsOn DEF LoginInv
<1>3. DisabledStays'
  BY <1>1, <1>2, LoginStep DEF DisabledStays
<1> QED  BY <1>3, LoginStep, TypeOKStep DEF LoginInv

(* A login runs one list: everything it launches holds the bytes signed in *)
(* one document, one not replaced or revoked when the login began, and a   *)
(* login that began when boot was disabled launches nothing.               *)
(* load_verified, verify.rs:47; decide, launch.rs:66; boot.rs:163.         *)
THEOREM SpecLoginRunsOneList == Spec => []LoginRunsOneList
<1>1. LoginInv => LoginRunsOneList
  BY DEF LoginInv
<1> QED  BY <1>1, LoginInvInit, LoginInvStep, PTL DEF Spec

-----------------------------------------------------------------------------
(* Installing.                                                             *)

Installing == {"launchers", "syncLauncher", "syncConfig", "collect"}
Writing == {"launchers", "syncLauncher"}

(* Documents are installed in the order they were signed, each once: what  *)
(* is in place or may come back is older than what is still to come.       *)
QueueInOrder ==
  /\ published \in {0, Len(docs)}
  /\ \A d \in disk : d.config <= Len(docs)
  /\ \A i \in DOMAIN queue, d \in disk : d.config < queue[i]
  /\ \A i, j \in DOMAIN queue : i < j => queue[i] < queue[j]

EngineInOrder ==
  /\ engine.at \in Installing =>
       /\ \A i \in DOMAIN queue : engine.doc < queue[i]
       /\ \A d \in disk : d.config <= engine.doc
  /\ engine.at \in Writing => \A d \in disk : d.config < engine.doc
  /\ engine.at \in {"unhook", "tree"} => published = 0

(* A capture finds nothing being installed, and knows the list in place.   *)
CaptureKnows ==
  /\ capture.on => queue = <<>> /\ engine.at \notin Installing
  /\ capture.on /\ published # 0 /\ fs.config = published => Named(published) \subseteq capture.live

(* Only what a read sees can be the published list.                        *)
InPlaceIsSeen ==
  published # 0 => \A d \in disk : d.config = published => fs.config = published

(* The launchers written so far hold what was signed, and are on disk once *)
(* the directory is synced.                                                *)
WrittenSoFar ==
  engine.at \in Writing => \A id \in Named(engine.doc) \ engine.todo :
    /\ fs.launchers[id] = docs[engine.doc][id]
    /\ engine.at = "launchers" /\ ~unsynced =>
         \A d \in disk : d.launchers[id] = docs[engine.doc][id]

OrderInv == QueueInOrder /\ EngineInOrder /\ CaptureKnows /\ InPlaceIsSeen
InstallInv == TypeOK /\ OrderInv /\ WrittenSoFar /\ InstalledIsWhole

(* The types an order is about.                                            *)
LEMMA Numbers ==
  ASSUME TypeOK
  PROVE  /\ Len(docs) \in Nat /\ published \in Nat /\ engine.doc \in Nat
         /\ published <= Len(docs) /\ engine.doc <= Len(docs)
         /\ fs \in disk /\ \A d \in disk : d.config \in Nat
         /\ \A i \in DOMAIN queue : queue[i] \in Nat /\ queue[i] # 0 /\ queue[i] <= Len(docs)
<1>1. \A d \in disk : d.config \in Nat
  BY LimitsAssumption DEF TypeOK, FilesOK, Files
<1>2. engine.doc \in Nat /\ engine.doc <= Len(docs)
  BY LimitsAssumption DEF TypeOK, EngineOK, Engines
<1>3. \A i \in DOMAIN queue : queue[i] \in Nat /\ queue[i] # 0 /\ queue[i] <= Len(docs)
  BY DEF TypeOK, ListsOK
<1> QED  BY <1>1, <1>2, <1>3 DEF TypeOK, FilesOK, ListsOK

(* A step that leaves every list as it was and lets an engine, a capture   *)
(* or what waits at most stop.                                             *)
Calm ==
  /\ SameLists /\ fs' \in disk'
  /\ docs' = docs /\ published' \in {0, published} /\ UNCHANGED <<unsynced, losses>>
  /\ queue' \in {<<>>, queue}
  /\ \/ engine' = engine
     \/ engine'.at \notin Installing /\ (engine'.at \in {"unhook", "tree"} => published' = 0)
  /\ capture' \in {capture, NoCapture}

LEMMA CalmKeeps ==
  ASSUME InstallInv, Calm
  PROVE  OrderInv' /\ WrittenSoFar' /\ InstalledIsWhole'
<1>1. /\ TypeOK /\ QueueInOrder /\ EngineInOrder /\ CaptureKnows /\ InPlaceIsSeen
      /\ WrittenSoFar /\ InstalledIsWhole
  BY DEF InstallInv, OrderInv
<1>2. \A d \in disk' : \E e \in disk : d.config = e.config /\ d.launchers = e.launchers
  BY DEF Calm, SameLists
<1>3. fs'.config = fs.config /\ fs'.launchers = fs.launchers
  BY DEF Calm, SameLists
<1>4. QueueInOrder'
  <2>1. published' \in {0, Len(docs)} /\ docs' = docs
    BY <1>1 DEF Calm, QueueInOrder
  <2>2. \A d \in disk' : d.config <= Len(docs) /\ \A i \in DOMAIN queue : d.config < queue[i]
    BY <1>1, <1>2 DEF QueueInOrder
  <2>3. CASE queue' = queue
    BY <1>1, <2>1, <2>2, <2>3 DEF QueueInOrder
  <2>4. CASE queue' = <<>>
    BY <2>1, <2>2, <2>4 DEF QueueInOrder
  <2> QED  BY <2>3, <2>4 DEF Calm
<1>5. EngineInOrder'
  <2>1. CASE engine' = engine
    <3>1. engine.at \in Installing => \A i \in DOMAIN queue' : engine.doc < queue'[i]
      BY <1>1 DEF Calm, EngineInOrder
    <3>2. engine.at \in Installing => \A d \in disk' : d.config <= engine.doc
      BY <1>1, <1>2 DEF EngineInOrder
    <3>3. engine.at \in Writing => \A d \in disk' : d.config < engine.doc
      BY <1>1, <1>2 DEF EngineInOrder
    <3>4. engine.at \in {"unhook", "tree"} => published' = 0
      BY <1>1 DEF Calm, EngineInOrder
    <3> QED  BY <2>1, <3>1, <3>2, <3>3, <3>4 DEF EngineInOrder
  <2>2. CASE engine'.at \notin Installing /\ (engine'.at \in {"unhook", "tree"} => published' = 0)
    BY <2>2 DEF EngineInOrder, Writing, Installing
  <2> QED  BY <2>1, <2>2 DEF Calm
<1>6. CaptureKnows'
  <2>1. CASE capture' = capture
    BY <1>1, <1>3, <2>1 DEF Calm, CaptureKnows, Named
  <2>2. CASE capture' = NoCapture
    BY <2>2 DEF NoCapture, CaptureKnows
  <2> QED  BY <2>1, <2>2 DEF Calm
<1>7. InPlaceIsSeen'
  BY <1>1, <1>2, <1>3 DEF Calm, InPlaceIsSeen
<1>8. WrittenSoFar'
  <2>1. CASE engine' = engine
    <3>1. Named(engine.doc)' = Named(engine.doc)
      BY <2>1 DEF Calm, Named
    <3> QED  BY <1>1, <1>2, <1>3, <2>1, <3>1 DEF Calm, WrittenSoFar
  <2>2. CASE engine'.at \notin Installing
    BY <2>2 DEF WrittenSoFar, Writing, Installing
  <2> QED  BY <2>1, <2>2 DEF Calm
<1>9. InstalledIsWhole'
  <2>1. Whole(fs) => Whole(fs)'
    BY <1>3 DEF Calm, Whole, Named
  <2>2. ASSUME ~unsynced PROVE \A d \in disk' : Whole(d)'
    BY <1>1, <1>2, <2>2 DEF Calm, InstalledIsWhole, Whole, Named
  <2> QED  BY <1>1, <2>1, <2>2 DEF Calm, InstalledIsWhole
<1> QED  BY <1>4, <1>5, <1>6, <1>7, <1>8, <1>9 DEF OrderInv

LEMMA CalmStep ==
  ASSUME InstallInv,
         \/ Rehook \/ Installed \/ CaptureCollected \/ FlagCommands
         \/ Uninstall \/ Unhook \/ Uninstalled \/ EngineStops \/ ShellDies
         \/ Login \/ UNCHANGED vars
  PROVE  Calm
<1>1. TypeOK /\ EngineInOrder
  BY DEF InstallInv, OrderInv
<1>2. FilesOK
  BY <1>1 DEF TypeOK
<1>3. CASE FlagCommands \/ (ReadSkip /\ "skip" \in fs.flags)
  <2>1. FilesOK' /\ SameLists
    BY <1>2, <1>3, FlagsChange DEF FlagCommands, BootSkip, BootDisable, BootEnable, DropSkip, ReadSkip
  <2>2. engine' = engine \/ engine'.at \in {"dropSkip", "idle"}
    BY <1>3 DEF FlagCommands, BootSkip, BootDisable, BootEnable, DropSkip, ReadSkip, Idle
  <2>3. UNCHANGED <<docs, published, unsynced, losses, queue, capture>>
    BY <1>3 DEF FlagCommands, BootSkip, BootDisable, BootEnable, DropSkip, ReadSkip, authority, counters
  <2> QED  BY <2>1, <2>2, <2>3 DEF Calm, FilesOK, Installing
<1>4. CASE UNCHANGED <<fs, disk>>
  <2>1. SameLists /\ fs' \in disk'
    BY <1>2, <1>4 DEF SameLists, FilesOK
  <2>2. CASE Rehook \/ Installed \/ CaptureCollected \/ UNCHANGED vars
    BY <2>1, <2>2
    DEF Calm, Rehook, Installed, CaptureCollected, vars, files, authority, counters, Idle, Installing
  <2>3. CASE Uninstall \/ Unhook \/ Uninstalled
    <3>1. engine'.at \in {"unhook", "tree", "idle"} /\ (engine'.at # "idle" => published' = 0)
      BY <1>1, <2>3
      DEF Uninstall, Unhook, Uninstalled, Idle, TypeOK, EngineOK, Engines, EngineInOrder, authority
    <3>2. /\ published' \in {0, published}
          /\ UNCHANGED <<docs, unsynced, losses, queue, capture>>
      BY <2>3 DEF Uninstall, Unhook, Uninstalled, files, authority, counters
    <3> QED  BY <2>1, <3>1, <3>2 DEF Calm, Installing
  <2>4. CASE EngineStops \/ ShellDies
    BY <2>1, <2>4 DEF Calm, EngineStops, ShellDies, files, authority, Idle, Installing
  <2>5. CASE Login
    BY <2>1, <2>5
    DEF Calm, Login, LogIn, ReadPublic, ReadConfig, ReadDisabled, ReadSkip, Launch, LoginEnds, files, authority, counters
  <2> QED
    BY <1>3, <2>2, <2>3, <2>4, <2>5, <1>4
<1> QED
  BY <1>3, <1>4
  DEF Rehook, Installed, CaptureCollected, Uninstall, Unhook, Uninstalled, EngineStops, ShellDies, Login,
      LogIn, ReadPublic, ReadConfig, ReadDisabled, ReadSkip, Launch, LoginEnds, vars, files

LEMMA SignKeeps ==
  ASSUME InstallInv, Sign
  PROVE  OrderInv' /\ WrittenSoFar' /\ InstalledIsWhole'
<1>1. /\ TypeOK /\ QueueInOrder /\ EngineInOrder /\ CaptureKnows /\ InPlaceIsSeen
      /\ WrittenSoFar /\ InstalledIsWhole
  BY DEF InstallInv, OrderInv
<1> DEFINE n == Len(docs) + 1
<1>2. /\ ~capture.on /\ engine.at \notin {"unhook", "tree"}
      /\ published' = n /\ queue' = Append(queue, n)
      /\ UNCHANGED <<fs, disk, unsynced, losses, engine, capture>>
  BY DEF Sign, files, counters
<1>3. /\ n \in Nat /\ Len(docs') = n
      /\ \A g \in 1 .. Len(docs) : docs'[g] = docs[g] /\ Named(g)' = Named(g)
  BY <1>1 DEF Sign, TypeOK, ListsOK, Named
<1>4. \A i \in DOMAIN queue' : queue'[i] = n \/ (i \in DOMAIN queue /\ queue'[i] = queue[i])
  BY <1>1, <1>2 DEF TypeOK, ListsOK
<1>5. \A i, j \in DOMAIN queue' : i < j => i \in DOMAIN queue /\ queue'[i] = queue[i]
  BY <1>1, <1>2 DEF TypeOK, ListsOK
<1>6. /\ Len(docs) < n /\ engine.doc < n
      /\ \A i \in DOMAIN queue : queue[i] < n
      /\ \A d \in disk : d.config < n
  BY <1>1, Numbers DEF QueueInOrder
<1>7. fs \in disk /\ n # 0
  BY <1>1, <1>3, Numbers
<1> HIDE DEF n
<1>8. QueueInOrder'
  <2>1. \A d \in disk : d.config <= n
    BY <1>1, <1>3, <1>6, Numbers
  <2>2. \A i \in DOMAIN queue', d \in disk : d.config < queue'[i]
    BY <1>1, <1>4, <1>6 DEF QueueInOrder
  <2>3. \A i, j \in DOMAIN queue' : i < j => queue'[i] < queue'[j]
    BY <1>1, <1>4, <1>5, <1>6 DEF QueueInOrder
  <2> QED  BY <1>2, <1>3, <2>1, <2>2, <2>3 DEF QueueInOrder
<1>9. EngineInOrder'
  <2>1. engine.at \in Installing => \A i \in DOMAIN queue' : engine.doc < queue'[i]
    BY <1>1, <1>4, <1>6 DEF EngineInOrder
  <2> QED  BY <1>1, <1>2, <2>1 DEF EngineInOrder
<1>10. CaptureKnows'
  BY <1>2 DEF CaptureKnows
<1>11. InPlaceIsSeen'
  BY <1>2, <1>3, <1>6, Numbers, <1>1 DEF InPlaceIsSeen
<1>12. WrittenSoFar'
  <2>1. CASE engine.at \in Writing
    <3>1. engine.doc \in 1 .. Len(docs)
      BY <1>1, <2>1, Numbers DEF TypeOK, EngineOK, Writing
    <3>2. docs'[engine.doc] = docs[engine.doc] /\ Named(engine.doc)' = Named(engine.doc)
      BY <1>2, <1>3, <3>1 DEF Named
    <3> QED  BY <1>1, <1>2, <3>2 DEF WrittenSoFar
  <2> QED  BY <1>2, <2>1 DEF WrittenSoFar
<1>13. InstalledIsWhole'
  <2>1. \A d \in disk : d.config # n
    BY <1>1, <1>6, <1>3, Numbers
  <2> QED  BY <1>2, <1>7, <2>1 DEF InstalledIsWhole, Whole
<1> QED  BY <1>8, <1>9, <1>10, <1>11, <1>12, <1>13 DEF OrderInv

LEMMA StartInstallKeeps ==
  ASSUME InstallInv, StartInstall
  PROVE  OrderInv' /\ WrittenSoFar' /\ InstalledIsWhole'
<1>1. /\ TypeOK /\ QueueInOrder /\ EngineInOrder /\ CaptureKnows /\ InPlaceIsSeen
      /\ WrittenSoFar /\ InstalledIsWhole
  BY DEF InstallInv, OrderInv
<1> DEFINE g == Head(queue)
<1>2. /\ queue # <<>> /\ queue' = Tail(queue)
      /\ UNCHANGED <<docs, published, fs, disk, unsynced, losses, capture>>
  BY DEF StartInstall, files, authority, counters
<1>3. /\ engine' = Idle \/ (engine'.at = "launchers" /\ engine'.doc = g /\ engine'.todo = Named(g))
  BY DEF StartInstall
<1>4. 1 \in DOMAIN queue /\ g = queue[1]
  BY <1>1, <1>2 DEF TypeOK, ListsOK
<1>5. \A i \in DOMAIN queue' : i + 1 \in DOMAIN queue /\ queue'[i] = queue[i + 1] /\ i \in Nat /\ 1 < i + 1
  BY <1>1, <1>2 DEF TypeOK, ListsOK
<1> HIDE DEF g
<1>6. \A i \in DOMAIN queue' : g < queue'[i]
  BY <1>1, <1>4, <1>5 DEF QueueInOrder
<1>7. QueueInOrder'
  <2>1. \A i \in DOMAIN queue', d \in disk : d.config < queue'[i]
    BY <1>1, <1>5 DEF QueueInOrder
  <2>2. \A i, j \in DOMAIN queue' : i < j => queue'[i] < queue'[j]
    BY <1>1, <1>5 DEF QueueInOrder
  <2> QED  BY <1>1, <1>2, <2>1, <2>2 DEF QueueInOrder
<1>8. \A d \in disk : d.config < g
  BY <1>1, <1>4 DEF QueueInOrder
<1>9. EngineInOrder'
  <2>1. CASE engine' = Idle
    BY <2>1 DEF EngineInOrder, Idle, Installing, Writing
  <2>2. CASE engine'.at = "launchers" /\ engine'.doc = g
    <3>1. \A d \in disk : d.config <= g
      BY <1>1, <1>4, <1>8, Numbers
    <3> QED  BY <1>2, <1>6, <1>8, <2>2, <3>1 DEF EngineInOrder
  <2> QED  BY <1>3, <2>1, <2>2
<1>10. CaptureKnows' /\ InPlaceIsSeen' /\ InstalledIsWhole'
  <2>1. ~capture.on
    BY <1>1, <1>2 DEF CaptureKnows
  <2> QED  BY <1>1, <1>2, <2>1 DEF CaptureKnows, InPlaceIsSeen, InstalledIsWhole, Whole, Named
<1>11. WrittenSoFar'
  BY <1>2, <1>3 DEF WrittenSoFar, Idle, Writing, Named
<1> QED  BY <1>7, <1>9, <1>10, <1>11 DEF OrderInv

LEMMA WriteLauncherKeeps ==
  ASSUME InstallInv, WriteLauncher
  PROVE  OrderInv' /\ WrittenSoFar' /\ InstalledIsWhole'
<1>1. /\ TypeOK /\ QueueInOrder /\ EngineInOrder /\ CaptureKnows /\ InPlaceIsSeen
      /\ WrittenSoFar /\ InstalledIsWhole
  BY DEF InstallInv, OrderInv
<1>2. PICK id \in engine.todo :
        /\ Change(LAMBDA d : [d EXCEPT !.launchers[id] = docs[engine.doc][id]])
        /\ engine' = [engine EXCEPT !.at = "syncLauncher", !.todo = @ \ {id}]
  BY DEF WriteLauncher
<1>3. /\ engine.at = "launchers"
      /\ engine'.at = "syncLauncher" /\ engine'.doc = engine.doc /\ engine'.todo = engine.todo \ {id}
      /\ UNCHANGED <<docs, published, queue, unsynced, losses, capture>>
  BY <1>1, <1>2 DEF WriteLauncher, TypeOK, EngineOK, Engines, authority, counters
<1>4. OneLauncher(id, docs[engine.doc][id]) /\ FilesOK'
  <2>1. engine.doc \in 1 .. Len(docs) /\ id \in Ids
    BY <1>1, <1>3 DEF TypeOK, EngineOK, ListsOK, Engines
  <2>2. docs[engine.doc][id] \in Contents \cup {Absent}
    BY <1>1, <2>1 DEF TypeOK, ListsOK, Pins
  <2> QED  BY <1>1, <1>2, <2>1, <2>2, LauncherChange DEF TypeOK
<1>5. \A d \in disk' : \E e \in disk : d.config = e.config
  BY <1>4 DEF OneLauncher
<1>6. QueueInOrder'
  BY <1>1, <1>3, <1>5 DEF QueueInOrder
<1>7. \A d \in disk' : d.config < engine.doc /\ d.config <= engine.doc
  BY <1>1, <1>3, <1>5, Numbers DEF EngineInOrder, Writing, Installing
<1>8. EngineInOrder'
  BY <1>1, <1>3, <1>7 DEF EngineInOrder, Installing
<1>9. ~capture.on
  BY <1>1, <1>3 DEF CaptureKnows, Installing
<1>10. published # 0 => \A d \in disk' : d.config # published
  BY <1>1, <1>7, Numbers DEF QueueInOrder
<1>11. CaptureKnows' /\ InPlaceIsSeen'
  BY <1>3, <1>9, <1>10 DEF CaptureKnows, InPlaceIsSeen
<1>12. WrittenSoFar'
  <2>1. Named(engine.doc)' = Named(engine.doc) /\ \A g : Named(g) \in SUBSET Ids
    BY <1>3 DEF Named
  <2>2. \A x \in Named(engine.doc) \ (engine.todo \ {id}) : fs'.launchers[x] = docs[engine.doc][x]
    BY <1>1, <1>3, <1>4, <2>1 DEF OneLauncher, WrittenSoFar, Writing
  <2> QED  BY <1>3, <2>1, <2>2 DEF WrittenSoFar
<1>13. InstalledIsWhole'
  <2>1. fs' \in disk'
    BY <1>4 DEF FilesOK
  <2> QED  BY <1>3, <1>10, <2>1 DEF InstalledIsWhole, Whole
<1> QED  BY <1>6, <1>8, <1>11, <1>12, <1>13 DEF OrderInv

LEMMA SyncKeeps ==
  ASSUME InstallInv, SyncLauncher \/ SyncConfig
  PROVE  OrderInv' /\ WrittenSoFar' /\ InstalledIsWhole'
<1>1. /\ TypeOK /\ QueueInOrder /\ EngineInOrder /\ CaptureKnows /\ InPlaceIsSeen
      /\ WrittenSoFar /\ InstalledIsWhole
  BY DEF InstallInv, OrderInv
<1>2. /\ UNCHANGED <<docs, published, queue, fs, losses, capture>>
      /\ disk' \subseteq disk /\ fs' \in disk'
  BY <1>1 DEF SyncLauncher, SyncConfig, Synced, SyncLaunchers, SyncConfigDir, authority, TypeOK, FilesOK
<1>3. UNCHANGED unsynced \/ unsynced'
  BY DEF SyncLauncher, SyncConfig, Synced
<1>4. /\ engine.at \in Installing
      /\ engine'.doc = engine.doc /\ engine'.todo = engine.todo
      /\ \/ SyncLauncher /\ engine.at = "syncLauncher" /\ engine'.at = "launchers"
         \/ engine'.at = "collect"
  BY <1>1 DEF SyncLauncher, SyncConfig, Synced, TypeOK, EngineOK, Engines, Installing
<1>5. QueueInOrder'
  BY <1>1, <1>2 DEF QueueInOrder
<1>6. EngineInOrder'
  BY <1>1, <1>2, <1>4 DEF EngineInOrder, Installing, Writing
<1>7. CaptureKnows' /\ InPlaceIsSeen'
  BY <1>1, <1>2, <1>4 DEF CaptureKnows, InPlaceIsSeen
<1>8. WrittenSoFar'
  <2>1. CASE SyncLauncher /\ engine.at = "syncLauncher" /\ engine'.at = "launchers"
    <3>1. ~unsynced' => \A d \in disk' : d.launchers = fs.launchers
      BY <2>1 DEF SyncLauncher, Synced, SyncLaunchers
    <3>2. Named(engine.doc)' = Named(engine.doc)
      BY <1>2, <1>4 DEF Named
    <3> QED  BY <1>1, <1>2, <1>4, <2>1, <3>1, <3>2 DEF WrittenSoFar, Writing
  <2>2. CASE engine'.at = "collect"
    BY <2>2 DEF WrittenSoFar, Writing
  <2> QED  BY <1>4, <2>1, <2>2
<1>9. InstalledIsWhole'
  <2>1. \A d \in disk : Whole(d)' <=> Whole(d)
    BY <1>2 DEF Whole, Named
  <2>2. Whole(fs) => Whole(fs)'
    BY <1>2 DEF Whole, Named
  <2>3. ~unsynced => Whole(fs)
    BY <1>1, <1>2 DEF InstalledIsWhole
  <2>4. CASE UNCHANGED unsynced
    BY <1>1, <1>2, <2>1, <2>2, <2>4 DEF InstalledIsWhole
  <2>5. CASE unsynced'
    BY <1>1, <1>2, <2>2, <2>3, <2>5 DEF InstalledIsWhole
  <2> QED  BY <1>3, <2>4, <2>5
<1> QED  BY <1>5, <1>6, <1>7, <1>8, <1>9 DEF OrderInv

LEMMA WriteConfigKeeps ==
  ASSUME InstallInv, WriteConfig
  PROVE  OrderInv' /\ WrittenSoFar' /\ InstalledIsWhole'
<1>1. /\ TypeOK /\ QueueInOrder /\ EngineInOrder /\ CaptureKnows /\ InPlaceIsSeen
      /\ WrittenSoFar /\ InstalledIsWhole
  BY DEF InstallInv, OrderInv
<1>2. /\ engine.at = "launchers" /\ engine.todo = {}
      /\ engine'.at = "syncConfig" /\ engine'.doc = engine.doc
      /\ UNCHANGED <<docs, published, queue, unsynced, losses, capture>>
  BY <1>1 DEF WriteConfig, TypeOK, EngineOK, Engines, authority, counters
<1>3. /\ FilesOK' /\ SameLaunchers(engine.doc)
      /\ \A d \in disk' : d \in disk \/ d.config = engine.doc
  BY <1>1, ConfigChange DEF WriteConfig, TypeOK, EngineOK, Engines
<1>4. /\ fs'.config = engine.doc /\ fs'.launchers = fs.launchers
      /\ \A d \in disk' : \E e \in disk : d.launchers = e.launchers
  BY <1>3 DEF SameLaunchers
<1>5. \A d \in disk : d.config < engine.doc
  BY <1>1, <1>2 DEF EngineInOrder, Writing
<1>6. \A d \in disk' : d.config <= engine.doc
  BY <1>1, <1>3, <1>5, Numbers
<1>7. QueueInOrder'
  <2>1. \A i \in DOMAIN queue : engine.doc < queue[i]
    BY <1>1, <1>2 DEF EngineInOrder, Installing
  <2>2. \A i \in DOMAIN queue, d \in disk' : d.config < queue[i]
    BY <1>1, <1>3, <2>1 DEF QueueInOrder
  <2>3. \A d \in disk' : d.config <= Len(docs)
    BY <1>1, <1>3, Numbers DEF QueueInOrder
  <2> QED  BY <1>1, <1>2, <2>2, <2>3 DEF QueueInOrder
<1>8. EngineInOrder'
  BY <1>1, <1>2, <1>6 DEF EngineInOrder, Installing, Writing
<1>9. CaptureKnows'
  BY <1>1, <1>2 DEF CaptureKnows, Installing
<1>10. \A d \in disk' : published # 0 /\ d.config = published => engine.doc = published
  BY <1>1, <1>3, <1>5, Numbers DEF QueueInOrder
<1>11. InPlaceIsSeen'
  BY <1>2, <1>4, <1>10 DEF InPlaceIsSeen
<1>12. WrittenSoFar'
  BY <1>2 DEF WrittenSoFar, Writing
<1>13. InstalledIsWhole'
  <2>1. \A id \in Named(engine.doc) :
          /\ fs'.launchers[id] = docs[engine.doc][id]
          /\ ~unsynced => \A d \in disk' : d.launchers[id] = docs[engine.doc][id]
    BY <1>1, <1>2, <1>4 DEF WrittenSoFar, Writing
  <2>2. \A g : Named(g)' = Named(g)
    BY <1>2 DEF Named
  <2>3. fs' \in disk'
    BY <1>3 DEF FilesOK
  <2> QED  BY <1>2, <1>10, <2>1, <2>2, <2>3 DEF InstalledIsWhole, Whole
<1> QED  BY <1>7, <1>8, <1>9, <1>11, <1>12, <1>13 DEF OrderInv

(* A launcher that the list in place does not name is removed.             *)
LEMMA RemovalKeeps ==
  ASSUME InstallInv, Collect \/ CaptureRemoves
  PROVE  OrderInv' /\ WrittenSoFar' /\ InstalledIsWhole'
<1>1. /\ TypeOK /\ QueueInOrder /\ EngineInOrder /\ CaptureKnows /\ InPlaceIsSeen
      /\ WrittenSoFar /\ InstalledIsWhole
  BY DEF InstallInv, OrderInv
<1>2. PICK id \in Ids :
        /\ Change(LAMBDA d : [d EXCEPT !.launchers[id] = Absent])
        /\ \/ engine.at = "collect" /\ id \notin Named(engine.doc)
           \/ capture.on /\ id \notin capture.live
  BY DEF Collect, CaptureRemoves, Strays
<1>3. UNCHANGED <<docs, published, queue, unsynced, losses, capture, engine>>
  BY DEF Collect, CaptureRemoves, authority, counters
<1>4. engine.at \notin Writing
  BY <1>1, <1>2 DEF CaptureKnows, Installing, Writing
<1>5. FilesOK' /\ OneLauncher(id, Absent)
  BY <1>1, <1>2, LauncherChange DEF TypeOK
<1>6. /\ fs'.config = fs.config /\ fs' \in disk'
      /\ \A d \in disk' : \E e \in disk : d.config = e.config
  BY <1>5 DEF OneLauncher, FilesOK
<1>7. QueueInOrder'
  BY <1>1, <1>3, <1>6 DEF QueueInOrder
<1>8. EngineInOrder'
  BY <1>1, <1>3, <1>4, <1>6 DEF EngineInOrder
<1>9. CaptureKnows'
  BY <1>1, <1>3, <1>6 DEF CaptureKnows, Named
<1>10. InPlaceIsSeen'
  BY <1>1, <1>3, <1>6 DEF InPlaceIsSeen
<1>11. WrittenSoFar'
  BY <1>3, <1>4 DEF WrittenSoFar
<1>12. ASSUME published # 0, NEW d \in disk, d.config = published
       PROVE  id \notin Named(published)
  <2>1. CASE engine.at = "collect" /\ id \notin Named(engine.doc)
    <3>1. published <= engine.doc
      BY <1>1, <1>12, <2>1 DEF EngineInOrder, Installing
    <3>2. engine.doc = published
      BY <1>1, <1>12, <3>1, Numbers DEF QueueInOrder
    <3> QED  BY <2>1, <3>2
  <2>2. CASE capture.on /\ id \notin capture.live
    BY <1>1, <1>12, <2>2 DEF InPlaceIsSeen, CaptureKnows
  <2> QED  BY <1>2, <2>1, <2>2
<1>13. \A g : Named(g) \in SUBSET Ids /\ Named(g)' = Named(g)
  BY <1>3 DEF Named
<1>14. ASSUME Whole(fs) PROVE Whole(fs)'
  <2>1. fs \in disk
    BY <1>1, Numbers
  <2> QED  BY <1>3, <1>5, <1>12, <1>13, <1>14, <2>1 DEF OneLauncher, Whole
<1>15. ASSUME \A d \in disk : Whole(d) PROVE \A d \in disk' : Whole(d)'
  BY <1>3, <1>5, <1>12, <1>13, <1>15 DEF OneLauncher, Whole
<1>16. InstalledIsWhole'
  BY <1>1, <1>3, <1>14, <1>15 DEF InstalledIsWhole
<1> QED  BY <1>7, <1>8, <1>9, <1>10, <1>11, <1>16 DEF OrderInv

LEMMA CaptureReadsKeeps ==
  ASSUME InstallInv, CaptureReads
  PROVE  OrderInv' /\ WrittenSoFar' /\ InstalledIsWhole'
<1>1. /\ TypeOK /\ QueueInOrder /\ EngineInOrder /\ CaptureKnows /\ InPlaceIsSeen
      /\ WrittenSoFar /\ InstalledIsWhole
  BY DEF InstallInv, OrderInv
<1>2. /\ UNCHANGED <<docs, published, queue, fs, disk, unsynced, losses, engine>>
      /\ queue = <<>> /\ engine.at = "idle"
      /\ fs.config # 0 => capture'.live = Named(fs.config)
  BY DEF CaptureReads, authority, files, Idle
<1>3. CaptureKnows'
  BY <1>2 DEF CaptureKnows, Named, Installing
<1>4. QueueInOrder' /\ EngineInOrder' /\ InPlaceIsSeen'
  BY <1>1, <1>2 DEF QueueInOrder, EngineInOrder, InPlaceIsSeen
<1>5. WrittenSoFar' /\ InstalledIsWhole'
  BY <1>1, <1>2 DEF WrittenSoFar, InstalledIsWhole, Whole, Named
<1> QED  BY <1>3, <1>4, <1>5 DEF OrderInv

(* The files of a list that is no longer published go in any order.        *)
LEMMA RemoveTreeKeeps ==
  ASSUME InstallInv, RemoveTree
  PROVE  OrderInv' /\ WrittenSoFar' /\ InstalledIsWhole'
<1>1. /\ TypeOK /\ QueueInOrder /\ EngineInOrder /\ CaptureKnows
  BY DEF InstallInv, OrderInv
<1>2. /\ UNCHANGED <<docs, published, queue, unsynced, losses, engine, capture>>
      /\ engine.at = "tree" /\ published = 0
  BY <1>1 DEF RemoveTree, authority, counters, EngineInOrder
<1>3. \A d \in disk' : d.config = 0 \/ \E e \in disk : d.config = e.config
  <2>1. FilesOK /\ 0 \in 0 .. MaxDocs
    BY <1>1, LimitsAssumption DEF TypeOK
  <2>2. CASE Change(LAMBDA d : [d EXCEPT !.config = 0])
    BY <2>1, <2>2, ConfigChange DEF SameLaunchers
  <2>3. CASE Change(LAMBDA d : [d EXCEPT !.flags = {}])
    BY <2>1, <2>3, FlagsChange DEF SameLists
  <2>4. ASSUME NEW id \in Ids, Change(LAMBDA d : [d EXCEPT !.launchers[id] = Absent])
        PROVE  \A d \in disk' : \E e \in disk : d.config = e.config
    BY <2>1, <2>4, LauncherChange DEF OneLauncher
  <2> QED  BY <2>2, <2>3, <2>4 DEF RemoveTree
<1>4. QueueInOrder'
  <2>1. \A i \in DOMAIN queue, d \in disk' : d.config < queue[i]
    BY <1>1, <1>3, Numbers DEF QueueInOrder
  <2>2. \A d \in disk' : d.config <= Len(docs)
    BY <1>1, <1>3, Numbers DEF QueueInOrder
  <2> QED  BY <1>1, <1>2, <2>1, <2>2 DEF QueueInOrder
<1>5. EngineInOrder' /\ WrittenSoFar'
  BY <1>2 DEF EngineInOrder, WrittenSoFar, Installing, Writing
<1>6. CaptureKnows' /\ InPlaceIsSeen' /\ InstalledIsWhole'
  BY <1>1, <1>2 DEF CaptureKnows, InPlaceIsSeen, InstalledIsWhole, Whole
<1> QED  BY <1>4, <1>5, <1>6 DEF OrderInv

LEMMA PowerLossKeeps ==
  ASSUME InstallInv, PowerLoss
  PROVE  OrderInv' /\ WrittenSoFar' /\ InstalledIsWhole'
<1>1. /\ TypeOK /\ QueueInOrder /\ InstalledIsWhole
  BY DEF InstallInv, OrderInv
<1>2. PICK d \in disk : fs' = d /\ disk' = {d}
  BY DEF PowerLoss
<1>3. /\ UNCHANGED <<docs, published, unsynced>> /\ losses' = losses + 1
      /\ queue' = <<>> /\ engine' = Idle /\ capture' = NoCapture
  BY DEF PowerLoss, authority
<1>4. QueueInOrder'
  BY <1>1, <1>2, <1>3 DEF QueueInOrder
<1>5. EngineInOrder' /\ CaptureKnows' /\ InPlaceIsSeen' /\ WrittenSoFar'
  BY <1>2, <1>3
  DEF EngineInOrder, CaptureKnows, InPlaceIsSeen, WrittenSoFar, Idle, NoCapture, Installing, Writing
<1>6. losses' > 0
  BY <1>1, <1>3, LimitsAssumption DEF TypeOK, CountersOK
<1>7. InstalledIsWhole'
  BY <1>1, <1>2, <1>3, <1>6 DEF InstalledIsWhole, Whole, Named
<1> QED  BY <1>4, <1>5, <1>7 DEF OrderInv

LEMMA InstallInvInit == Init => InstallInv
<1> SUFFICES ASSUME Init PROVE InstallInv
  OBVIOUS
<1>1. OrderInv
  BY LimitsAssumption
  DEF Init, OrderInv, QueueInOrder, EngineInOrder, CaptureKnows, InPlaceIsSeen, Installing, Writing, Idle,
      NoCapture, NoFiles
<1>2. WrittenSoFar /\ InstalledIsWhole
  BY DEF Init, WrittenSoFar, InstalledIsWhole, Whole, Writing, Idle
<1> QED  BY <1>1, <1>2, TypeOKInit DEF InstallInv

LEMMA InstallInvStep == InstallInv /\ [Next]_vars => InstallInv'
<1> SUFFICES ASSUME InstallInv, [Next]_vars PROVE InstallInv'
  OBVIOUS
<1>1. TypeOK'
  BY TypeOKStep DEF InstallInv
<1>2. OrderInv' /\ WrittenSoFar' /\ InstalledIsWhole'
  BY CalmStep, CalmKeeps, SignKeeps, StartInstallKeeps, WriteLauncherKeeps, SyncKeeps, WriteConfigKeeps,
     RemovalKeeps, CaptureReadsKeeps, RemoveTreeKeeps, PowerLossKeeps
  DEF Next, Work, Captures, Removal, Trouble
<1> QED  BY <1>1, <1>2 DEF InstallInv

(* A config.json that verifies has every launcher, as it was signed, after *)
(* any engine, shell or power failure (if no fsync was refused) and beside *)
(* any capture.  install_signed, cli.rs:286-323; hooks.rs:276.             *)
THEOREM SpecInstalledIsWhole == Spec => []InstalledIsWhole
<1>1. InstallInv => InstalledIsWhole
  BY DEF InstallInv
<1> QED  BY <1>1, InstallInvInit, InstallInvStep, PTL DEF Spec

-----------------------------------------------------------------------------
(* The files: a walk along a path, step by step.                           *)

(* A walk with no limit on its links: where it is, and every place it gets  *)
(* to from there.                                                           *)
Walks == [at : Seq(Names), rest : Seq(Names \cup {Up}), links : Nat]
Goes(tree, w) == Halt(tree, -1, w) = "going"

Reach(tree, w) ==
  {t \in Walks : \A R \in SUBSET Walks :
     (w \in R /\ \A v \in R : Goes(tree, v) => Onward(tree, v) \in R) => t \in R}

Solid(tree, at) == NodeAt(tree, at).kind \in {"dir", "file"}

LEMMA GoesIs ==
  ASSUME NEW tree, NEW w \in Walks
  PROVE  Goes(tree, w) <=>
           /\ w.rest # <<>> /\ NodeAt(tree, w.at).kind = "dir"
           /\ Head(w.rest) = Up \/ Ahead(tree, w).kind # "none"
<1> w.links # -1
  BY DEF Walks
<1> QED  BY DEF Goes, Halt

LEMMA RestIs ==
  ASSUME NEW w \in Walks, w.rest # <<>>
  PROVE  /\ Head(w.rest) \in Names \cup {Up} /\ Tail(w.rest) \in Seq(Names \cup {Up})
         /\ w.rest = <<Head(w.rest)>> \o Tail(w.rest)
         /\ Head(w.rest) # Up => Append(w.at, Head(w.rest)) \in Seq(Names)
<1>1. w.rest \in Seq(Names \cup {Up}) /\ w.at \in Seq(Names)
  BY DEF Walks
<1> HIDE DEF Up
<1> QED  BY <1>1

LEMMA OnwardIs ==
  ASSUME NEW tree, NEW w \in Walks
  PROVE  LET name == Head(w.rest)
             node == Ahead(tree, w)
         IN  /\ name = Up =>
                  Onward(tree, w) = [at |-> Above(w.at), rest |-> Tail(w.rest), links |-> w.links]
             /\ name # Up /\ node.kind # "link" =>
                  Onward(tree, w) = [at |-> Append(w.at, name), rest |-> Tail(w.rest), links |-> w.links]
             /\ name # Up /\ node.kind = "link" =>
                  Onward(tree, w) = [at |-> IF node.abs THEN <<>> ELSE w.at,
                                     rest |-> node.to \o Tail(w.rest), links |-> w.links + 1]
  BY DEF Onward, Walks

LEMMA UpParts ==
  ASSUME NEW tree, NEW w \in Walks, Head(w.rest) = Up
  PROVE  /\ Onward(tree, w).at = Above(w.at) /\ Onward(tree, w).rest = Tail(w.rest)
         /\ Onward(tree, w).links = w.links
<1>1. Onward(tree, w) = [at |-> Above(w.at), rest |-> Tail(w.rest), links |-> w.links]
  BY OnwardIs
<1> QED  BY <1>1

LEMMA DownParts ==
  ASSUME NEW tree, NEW w \in Walks, Head(w.rest) # Up, Ahead(tree, w).kind # "link"
  PROVE  /\ Onward(tree, w).at = Append(w.at, Head(w.rest)) /\ Onward(tree, w).rest = Tail(w.rest)
         /\ Onward(tree, w).links = w.links
<1>1. Onward(tree, w) = [at |-> Append(w.at, Head(w.rest)), rest |-> Tail(w.rest), links |-> w.links]
  BY OnwardIs
<1> QED  BY <1>1

LEMMA LinkParts ==
  ASSUME NEW tree, NEW w \in Walks, Head(w.rest) # Up, Ahead(tree, w).kind = "link"
  PROVE  /\ Onward(tree, w).at = (IF Ahead(tree, w).abs THEN <<>> ELSE w.at)
         /\ Onward(tree, w).rest = Ahead(tree, w).to \o Tail(w.rest)
         /\ Onward(tree, w).links = w.links + 1
<1> DEFINE at == IF Ahead(tree, w).abs THEN <<>> ELSE w.at
           rest == Ahead(tree, w).to \o Tail(w.rest)
<1>1. Onward(tree, w) = [at |-> at, rest |-> rest, links |-> w.links + 1]
  BY OnwardIs
<1> HIDE DEF at, rest
<1>2. Onward(tree, w).at = at /\ Onward(tree, w).rest = rest /\ Onward(tree, w).links = w.links + 1
  BY <1>1
<1> QED  BY <1>2 DEF at, rest

LEMMA SameWalk ==
  ASSUME NEW v \in Walks, NEW w \in Walks, v.at = w.at, v.rest = w.rest, v.links = w.links
  PROVE  v = w
  BY DEF Walks

LEMMA NodeIs ==
  ASSUME NEW tree, WellFormed(tree), NEW at
  PROVE  /\ NodeAt(tree, at).kind \in {"dir", "file", "link", "none"}
         /\ NodeAt(tree, at).kind # "none" =>
              at = <<>> \/ (at \in DOMAIN tree /\ NodeAt(tree, at) = tree[at])
         /\ at \in DOMAIN tree => NodeAt(tree, at) = tree[at] /\ at # <<>> /\ NodeAt(tree, at).kind # "none"
         /\ NodeAt(tree, at).kind = "link" => NodeAt(tree, at).to \in Seq(Names \cup {Up})
         /\ NodeAt(tree, at).kind # "none" => at \in Seq(Names)
<1>1. CASE at = <<>>
  <2>1. NodeAt(tree, at) = Dir("umask") /\ at \notin DOMAIN tree /\ at \in Seq(Names)
    BY <1>1 DEF NodeAt, WellFormed
  <2>2. NodeAt(tree, at).kind = "dir"
    BY <2>1 DEF Dir
  <2> QED  BY <1>1, <2>1, <2>2
<1>2. CASE at \in DOMAIN tree
  <2>1. NodeAt(tree, at) = tree[at] /\ at # <<>> /\ at \in Seq(Names)
    BY <1>2 DEF NodeAt, WellFormed
  <2>2. tree[at].kind \in {"dir", "file", "link"}
    BY <1>2 DEF WellFormed
  <2>3. tree[at].kind = "link" => tree[at].to \in Seq(Names \cup {Up})
    BY <1>2 DEF WellFormed, LinksOf
  <2> QED  BY <1>2, <2>1, <2>2, <2>3
<1>3. CASE at # <<>> /\ at \notin DOMAIN tree
  <2>1. NodeAt(tree, at).kind = "none"
    BY <1>3 DEF NodeAt, Nothing
  <2> QED  BY <1>3, <2>1
<1> QED  BY <1>1, <1>2, <1>3

LEMMA RootIs ==
  ASSUME NEW tree
  PROVE  NodeAt(tree, <<>>).kind = "dir" /\ NodeAt(tree, <<>>).trusted = TRUE
  BY DEF NodeAt, Dir

LEMMA AboveIs ==
  ASSUME NEW tree, WellFormed(tree), NEW at, NodeAt(tree, at).kind # "none"
  PROVE  Above(at) \in Seq(Names) /\ NodeAt(tree, Above(at)).kind = "dir"
<1>1. CASE at = <<>>
  <2>1. Above(at) = <<>> /\ <<>> \in Seq(Names)
    BY <1>1 DEF Above
  <2> QED  BY <2>1, RootIs
<1>2. CASE at # <<>>
  <2>1. at \in DOMAIN tree /\ at \in Seq(Names)
    BY <1>2, NodeIs
  <2>2. Above(at) = Front(at) /\ Front(at) \in Seq(Names)
    BY <1>2, <2>1 DEF Above, Front
  <2>3. NodeAt(tree, Front(at)).kind = "dir"
    BY <2>1 DEF WellFormed
  <2> QED  BY <2>2, <2>3
<1> QED  BY <1>1, <1>2

LEMMA OnwardTyped ==
  ASSUME NEW tree, WellFormed(tree), NEW w \in Walks, Goes(tree, w)
  PROVE  /\ Onward(tree, w) \in Walks
         /\ w.links <= Onward(tree, w).links
         /\ Solid(tree, Onward(tree, w).at)
<1> DEFINE name == Head(w.rest)
           node == Ahead(tree, w)
           o == Onward(tree, w)
<1>1. w.rest # <<>> /\ NodeAt(tree, w.at).kind = "dir" /\ (name = Up \/ node.kind # "none")
  BY GoesIs
<1>2. w.at \in Seq(Names) /\ w.links \in Nat
  BY DEF Walks
<1>3. Tail(w.rest) \in Seq(Names \cup {Up}) /\ (name # Up => Append(w.at, name) \in Seq(Names))
  BY <1>1, RestIs
<1> HIDE DEF name, node, o
<1>4. CASE name = Up
  <2>1. o = [at |-> Above(w.at), rest |-> Tail(w.rest), links |-> w.links]
    BY <1>4, OnwardIs DEF name, o
  <2>2. Above(w.at) \in Seq(Names) /\ NodeAt(tree, Above(w.at)).kind = "dir"
    BY <1>1, AboveIs
  <2> QED  BY <1>2, <1>3, <2>1, <2>2 DEF Walks, Solid, o
<1>5. CASE name # Up /\ node.kind # "link"
  <2>1. o = [at |-> Append(w.at, name), rest |-> Tail(w.rest), links |-> w.links]
    BY <1>5, OnwardIs DEF name, o, node
  <2>2. NodeAt(tree, Append(w.at, name)).kind \in {"dir", "file"}
    BY <1>1, <1>5, NodeIs DEF node, Ahead, name
  <2> QED  BY <1>2, <1>3, <1>5, <2>1, <2>2 DEF Walks, Solid, o
<1>6. CASE name # Up /\ node.kind = "link"
  <2>1. o = [at |-> IF node.abs THEN <<>> ELSE w.at, rest |-> node.to \o Tail(w.rest), links |-> w.links + 1]
    BY <1>6, OnwardIs DEF name, o, node
  <2>2. node.to \in Seq(Names \cup {Up})
    BY <1>6, NodeIs DEF node, Ahead
  <2>3. node.to \o Tail(w.rest) \in Seq(Names \cup {Up})
    BY ONLY <1>3, <2>2, ConcatProperties
  <2>4. o.at \in Seq(Names) /\ NodeAt(tree, o.at).kind = "dir"
    <3>1. o.at = <<>> \/ o.at = w.at
      BY <2>1
    <3>2. <<>> \in Seq(Names)
      OBVIOUS
    <3>3. NodeAt(tree, <<>>).kind = "dir"
      BY RootIs
    <3> QED  BY ONLY <1>1, <1>2, <3>1, <3>2, <3>3
  <2>5. o \in Walks
    BY <1>2, <2>1, <2>3, <2>4 DEF Walks
  <2> QED  BY <1>2, <2>1, <2>4, <2>5 DEF Solid, o
<1> QED  BY <1>4, <1>5, <1>6

-----------------------------------------------------------------------------
(* What it gets to.                                                         *)

LEMMA ReachFromHere ==
  ASSUME NEW tree, NEW w \in Walks
  PROVE  w \in Reach(tree, w)
  BY DEF Reach

LEMMA ReachOnward ==
  ASSUME NEW tree, WellFormed(tree), NEW w, NEW t \in Reach(tree, w), Goes(tree, t)
  PROVE  Onward(tree, t) \in Reach(tree, w)
<1>1. t \in Walks
  BY DEF Reach
<1>2. Onward(tree, t) \in Walks
  BY <1>1, OnwardTyped
<1> QED  BY <1>2 DEF Reach

(* What holds here and stays true of every step holds wherever it gets to.  *)
LEMMA ReachIn ==
  ASSUME NEW tree, NEW w, NEW R \in SUBSET Walks, w \in R,
         \A v \in R : Goes(tree, v) => Onward(tree, v) \in R
  PROVE  Reach(tree, w) \subseteq R
  BY DEF Reach

LEMMA ReachTyped ==
  ASSUME NEW tree, NEW w, NEW t \in Reach(tree, w)
  PROVE  t \in Walks
  BY DEF Reach

LEMMA ReachFurther ==
  ASSUME NEW tree, WellFormed(tree), NEW w \in Walks, NEW t \in Reach(tree, w),
         NEW u \in Reach(tree, t)
  PROVE  u \in Reach(tree, w)
<1> DEFINE R == Reach(tree, w)
<1>1. R \in SUBSET Walks
  BY DEF Reach
<1>2. \A v \in R : Goes(tree, v) => Onward(tree, v) \in R
  BY ReachOnward
<1>3. Reach(tree, t) \subseteq R
  <2> HIDE DEF R
  <2>1. t \in R
    BY DEF R
  <2> QED  BY <1>1, <1>2, <2>1, ReachIn
<1> QED  BY <1>3

LEMMA FirstStep ==
  ASSUME NEW tree, WellFormed(tree), NEW w \in Walks, NEW t \in Reach(tree, w), t # w
  PROVE  Goes(tree, w) /\ t \in Reach(tree, Onward(tree, w))
<1> DEFINE o == Onward(tree, w)
           R == {v \in Walks : v = w \/ (Goes(tree, w) /\ v \in Reach(tree, o))}
<1>1. R \in SUBSET Walks /\ w \in R
  OBVIOUS
<1>2. ASSUME NEW v \in R, Goes(tree, v) PROVE Onward(tree, v) \in R
  <2>1. Onward(tree, v) \in Walks
    BY <1>2, OnwardTyped
  <2>2. CASE v = w
    <3>1. Onward(tree, v) \in Reach(tree, o)
      BY <2>1, <2>2, ReachFromHere
    <3> QED  BY <1>2, <2>1, <2>2, <3>1
  <2>3. CASE Goes(tree, w) /\ v \in Reach(tree, o)
    <3>1. Onward(tree, v) \in Reach(tree, o)
      BY <1>2, <2>3, ReachOnward
    <3> QED  BY <2>1, <2>3, <3>1
  <2> QED  BY <1>2, <2>2, <2>3
<1>3. Reach(tree, w) \subseteq R
  <2> HIDE DEF R
  <2> QED  BY <1>1, <1>2, ReachIn
<1> QED  BY <1>3

(* A walk does not branch: whatever it passes, it ends where it ends.       *)
LEMMA PassedOnTheWay ==
  ASSUME NEW tree, WellFormed(tree), NEW w \in Walks, NEW t \in Reach(tree, w), ~Goes(tree, t),
         NEW v \in Reach(tree, w)
  PROVE  t \in Reach(tree, v)
<1> DEFINE R == {u \in Walks : t \in Reach(tree, u)}
<1>1. R \in SUBSET Walks /\ w \in R
  OBVIOUS
<1>2. ASSUME NEW u \in R, Goes(tree, u) PROVE Onward(tree, u) \in R
  BY <1>2, OnwardTyped, FirstStep
<1>3. Reach(tree, w) \subseteq R
  <2> HIDE DEF R
  <2> QED  BY <1>1, <1>2, ReachIn
<1> QED  BY <1>3

LEMMA OneEnd ==
  ASSUME NEW tree, WellFormed(tree), NEW w \in Walks, NEW t \in Reach(tree, w), ~Goes(tree, t),
         NEW u \in Reach(tree, w), ~Goes(tree, u)
  PROVE  t = u
<1>1. t \in Reach(tree, u) /\ u \in Walks
  BY PassedOnTheWay, ReachTyped
<1> QED  BY <1>1, FirstStep

LEMMA LinksGrow ==
  ASSUME NEW tree, WellFormed(tree), NEW w \in Walks, NEW t \in Reach(tree, w)
  PROVE  w.links <= t.links /\ (Solid(tree, w.at) => Solid(tree, t.at))
<1> DEFINE R == {v \in Walks : w.links <= v.links /\ (Solid(tree, w.at) => Solid(tree, v.at))}
<1>1. R \in SUBSET Walks /\ w \in R
  BY DEF Walks
<1>2. ASSUME NEW v \in R, Goes(tree, v) PROVE Onward(tree, v) \in R
  <2>1. /\ Onward(tree, v) \in Walks /\ v.links <= Onward(tree, v).links
        /\ Solid(tree, Onward(tree, v).at)
    BY <1>2, OnwardTyped
  <2> QED  BY <2>1 DEF Walks
<1>3. Reach(tree, w) \subseteq R
  <2> HIDE DEF R
  <2> QED  BY <1>1, <1>2, ReachIn
<1> QED  BY <1>3

LEMMA HeadTail ==
  ASSUME NEW S, NEW r \in Seq(S), r # <<>>, NEW x \in Seq(S)
  PROVE  /\ r \o x # <<>> /\ Head(r \o x) = Head(r)
         /\ Tail(r \o x) = Tail(r) \o x
<1>1. /\ r \o x \in Seq(S) /\ Len(r \o x) = Len(r) + Len(x)
      /\ \A i \in 1 .. Len(r) : (r \o x)[i] = r[i]
      /\ \A i \in 1 .. Len(x) : (r \o x)[Len(r) + i] = x[i]
  OBVIOUS
<1>2. Len(r) \in Nat /\ Len(r) >= 1 /\ Len(x) \in Nat
  OBVIOUS
<1>3. Tail(r) \in Seq(S) /\ Len(Tail(r)) = Len(r) - 1
      /\ \A i \in 1 .. Len(r) - 1 : Tail(r)[i] = r[i + 1]
  OBVIOUS
<1>4. /\ Tail(r) \o x \in Seq(S) /\ Len(Tail(r) \o x) = Len(r) - 1 + Len(x)
      /\ \A i \in 1 .. Len(r) - 1 : (Tail(r) \o x)[i] = Tail(r)[i]
      /\ \A i \in 1 .. Len(x) : (Tail(r) \o x)[Len(r) - 1 + i] = x[i]
  BY <1>2, <1>3
<1> DEFINE y == r \o x
           z == Tail(r) \o x
<1>5. y \in Seq(S) /\ Len(y) = Len(r) + Len(x) /\ y # <<>>
  BY <1>1, <1>2
<1>6. \A i \in 1 .. Len(y) - 1 : y[i + 1] = z[i]
  <2> SUFFICES ASSUME NEW i \in 1 .. Len(y) - 1 PROVE y[i + 1] = z[i]
    OBVIOUS
  <2>1. CASE i <= Len(r) - 1
    <3>1. i \in 1 .. Len(r) - 1 /\ i + 1 \in 1 .. Len(r)
      BY <1>2, <1>5, <2>1
    <3> QED  BY <1>1, <1>3, <1>4, <3>1
  <2>2. CASE i > Len(r) - 1
    <3> DEFINE j == i - (Len(r) - 1)
    <3>1. j \in 1 .. Len(x) /\ i = Len(r) - 1 + j /\ i + 1 = Len(r) + j
      BY <1>2, <1>5, <2>2
    <3> HIDE DEF j
    <3> QED  BY <1>1, <1>4, <3>1
  <2> QED  BY <1>2, <2>1, <2>2
<1> HIDE DEF y, z
<1>7. /\ Head(y) = y[1] /\ Tail(y) \in Seq(S) /\ Len(Tail(y)) = Len(y) - 1
      /\ \A i \in 1 .. Len(y) - 1 : Tail(y)[i] = y[i + 1]
  BY <1>5
<1>8. Head(y) = Head(r)
  <2>1. Head(r) = r[1] /\ 1 \in 1 .. Len(r)
    BY <1>2
  <2> QED  BY <1>1, <1>7, <2>1 DEF y
<1>9. Tail(y) = z
  <2>1. z \in Seq(S) /\ Len(z) = Len(y) - 1
    BY <1>4, <1>5, <1>2 DEF z
  <2> QED  BY <1>6, <1>7, <2>1
<1> QED  BY <1>5, <1>8, <1>9 DEF y, z

Joined3(x, y, z, S) == x \in Seq(S) /\ y \in Seq(S) /\ z \in Seq(S)
SameText(x, y) == x = y
LEMMA Regroup ==
  ASSUME NEW S, NEW x, NEW y, NEW z, Joined3(x, y, z, S)
  PROVE  SameText((x \o y) \o z, x \o (y \o z))
  BY ConcatAssociative DEF Joined3, SameText

-----------------------------------------------------------------------------
(* The same way with more of the path to go, counted from elsewhere, or in  *)
(* a tree that has grown.                                                   *)
Longer(w, x) == [at |-> w.at, rest |-> w.rest \o x, links |-> w.links]
Counted(w, k) == [at |-> w.at, rest |-> w.rest, links |-> k]
Grown(tree, more) ==
  \A at : NodeAt(tree, at).kind # "none" =>
    /\ NodeAt(more, at).kind = NodeAt(tree, at).kind
    /\ NodeAt(tree, at).kind = "link" => NodeAt(more, at) = NodeAt(tree, at)

LEMMA LongerParts ==
  ASSUME NEW w, NEW x
  PROVE  Longer(w, x).at = w.at /\ Longer(w, x).rest = w.rest \o x /\ Longer(w, x).links = w.links
  BY DEF Longer

LEMMA LongerTyped ==
  ASSUME NEW w \in Walks, NEW x \in Seq(Names \cup {Up})
  PROVE  Longer(w, x) \in Walks
<1>1. w.rest \o x \in Seq(Names \cup {Up})
  BY ConcatProperties DEF Walks
<1> QED  BY <1>1 DEF Walks, Longer

LEMMA CountedParts ==
  ASSUME NEW w, NEW k
  PROVE  Counted(w, k).at = w.at /\ Counted(w, k).rest = w.rest /\ Counted(w, k).links = k
  BY DEF Counted

LEMMA LongerStep ==
  ASSUME NEW tree, WellFormed(tree), NEW v \in Walks, NEW x \in Seq(Names \cup {Up}), Goes(tree, v)
  PROVE  /\ Longer(v, x) \in Walks /\ Goes(tree, Longer(v, x))
         /\ Onward(tree, Longer(v, x)) = Longer(Onward(tree, v), x)
<1> DEFINE u == Longer(v, x)
           o == Onward(tree, v)
           y == Longer(o, x)
           z == Onward(tree, u)
           N == Names \cup {Up}
           name == Head(v.rest)
           node == Ahead(tree, v)
<1>1. v.rest \in Seq(N) /\ v.rest # <<>>
  BY GoesIs DEF Walks
<1>2. /\ u.at = v.at /\ u.rest = v.rest \o x /\ u.links = v.links
      /\ u \in Walks
  BY LongerParts, LongerTyped
<1>3. u.rest # <<>> /\ Head(u.rest) = name /\ Tail(u.rest) = Tail(v.rest) \o x
  <2>1. x \in Seq(N)
    OBVIOUS
  <2>2. v.rest \o x # <<>> /\ Head(v.rest \o x) = Head(v.rest) /\ Tail(v.rest \o x) = Tail(v.rest) \o x
    BY ONLY <1>1, <2>1, HeadTail
  <2> QED  BY <1>2, <2>2
<1>4. Ahead(tree, u) = node
  BY <1>2, <1>3 DEF Ahead
<1>5. Goes(tree, u)
  BY <1>2, <1>3, <1>4, GoesIs
<1>6. Tail(v.rest) \in Seq(N)
  BY <1>1
<1>7. y \in Walks /\ z \in Walks
  BY <1>2, <1>5, OnwardTyped, LongerTyped
<1>8. y.at = o.at /\ y.rest = o.rest \o x /\ y.links = o.links
  BY LongerParts
<1> HIDE DEF u, o, y, z, N, name, node
<1>9. z.at = y.at /\ z.rest = y.rest /\ z.links = y.links
  <2>1. CASE name = Up
    <3>1. o.at = Above(v.at) /\ o.rest = Tail(v.rest) /\ o.links = v.links
      BY <2>1, UpParts DEF name, o
    <3>2. z.at = Above(u.at) /\ z.rest = Tail(u.rest) /\ z.links = u.links
      BY <1>2, <1>3, <2>1, UpParts DEF z
    <3> QED  BY <1>2, <1>3, <1>8, <3>1, <3>2
  <2>2. CASE name # Up /\ node.kind # "link"
    <3>1. o.at = Append(v.at, name) /\ o.rest = Tail(v.rest) /\ o.links = v.links
      BY <2>2, DownParts DEF name, o, node
    <3>2. z.at = Append(u.at, name) /\ z.rest = Tail(u.rest) /\ z.links = u.links
      BY <1>2, <1>3, <1>4, <2>2, DownParts DEF z
    <3> QED  BY <1>2, <1>3, <1>8, <3>1, <3>2
  <2>3. CASE name # Up /\ node.kind = "link"
    <3> DEFINE at == IF node.abs THEN <<>> ELSE v.at
    <3>1. o.at = at /\ o.rest = node.to \o Tail(v.rest) /\ o.links = v.links + 1
      BY <2>3, LinkParts DEF name, o, node
    <3>2. z.at = at /\ z.rest = node.to \o Tail(u.rest) /\ z.links = u.links + 1
      BY <1>2, <1>3, <1>4, <2>3, LinkParts DEF z
    <3> HIDE DEF at
    <3>3. SameText((node.to \o Tail(v.rest)) \o x, node.to \o (Tail(v.rest) \o x))
      <4>1. node.to \in Seq(N)
        BY <2>3, NodeIs DEF node, Ahead, N
      <4>2. Joined3(node.to, Tail(v.rest), x, N)
        BY <1>6, <4>1 DEF Joined3, N
      <4> QED  BY ONLY <4>2, Regroup, Zenon
    <3> QED  BY <1>2, <1>3, <1>8, <3>1, <3>2, <3>3 DEF SameText
  <2> QED  BY <2>1, <2>2, <2>3
<1>10. z = y
  BY <1>7, <1>9, SameWalk
<1> QED  BY <1>2, <1>5, <1>10 DEF u, o, y, z

LEMMA ReachLonger ==
  ASSUME NEW tree, WellFormed(tree), NEW w \in Walks, NEW x \in Seq(Names \cup {Up}),
         NEW t \in Reach(tree, w)
  PROVE  Longer(t, x) \in Reach(tree, Longer(w, x))
<1> DEFINE W == Longer(w, x)
           R == {v \in Walks : Longer(v, x) \in Reach(tree, W)}
<1>1. W \in Walks
  BY LongerTyped
<1>2. R \in SUBSET Walks /\ w \in R
  BY <1>1, ReachFromHere
<1>3. ASSUME NEW v \in R, Goes(tree, v) PROVE Onward(tree, v) \in R
  <2>1. Onward(tree, v) \in Walks
    BY <1>3, OnwardTyped
  <2>2. Goes(tree, Longer(v, x)) /\ Onward(tree, Longer(v, x)) = Longer(Onward(tree, v), x)
    BY <1>3, LongerStep
  <2>3. Onward(tree, Longer(v, x)) \in Reach(tree, W)
    BY <2>2, ReachOnward
  <2> QED  BY <2>1, <2>2, <2>3
<1>4. Reach(tree, w) \subseteq R
  <2> HIDE DEF R
  <2> QED  BY <1>2, <1>3, ReachIn
<1> QED  BY <1>4

LEMMA CountedStep ==
  ASSUME NEW tree, WellFormed(tree), NEW v \in Walks, NEW k \in Nat, Goes(tree, v)
  PROVE  /\ Counted(v, k) \in Walks /\ Goes(tree, Counted(v, k))
         /\ Onward(tree, v).links - v.links \in Nat
         /\ Onward(tree, Counted(v, k)) = Counted(Onward(tree, v), k + (Onward(tree, v).links - v.links))
<1> DEFINE u == Counted(v, k)
           o == Onward(tree, v)
           z == Onward(tree, u)
           d == o.links - v.links
           y == Counted(o, k + d)
           name == Head(v.rest)
           node == Ahead(tree, v)
<1>1. u.at = v.at /\ u.rest = v.rest /\ u.links = k /\ u \in Walks /\ v.links \in Nat
  BY CountedParts DEF Counted, Walks
<1>2. Ahead(tree, u) = node /\ Head(u.rest) = name /\ Tail(u.rest) = Tail(v.rest)
  BY <1>1 DEF Ahead
<1>3. Goes(tree, u)
  BY <1>1, <1>2, GoesIs
<1>4. o \in Walks /\ z \in Walks
  BY <1>1, <1>3, OnwardTyped
<1>5. y.at = o.at /\ y.rest = o.rest /\ y.links = k + d
  BY CountedParts
<1> HIDE DEF u, o, y, z, name, node
<1>6. z.at = o.at /\ z.rest = o.rest /\ d \in {0, 1} /\ z.links = k + d
  <2>1. CASE name = Up
    <3>1. o.at = Above(v.at) /\ o.rest = Tail(v.rest) /\ o.links = v.links
      BY <2>1, UpParts DEF name, o
    <3>2. z.at = Above(v.at) /\ z.rest = Tail(v.rest) /\ z.links = k
      BY <1>1, <1>2, <2>1, UpParts DEF z
    <3> QED  BY <1>1, <3>1, <3>2
  <2>2. CASE name # Up /\ node.kind # "link"
    <3>1. o.at = Append(v.at, name) /\ o.rest = Tail(v.rest) /\ o.links = v.links
      BY <2>2, DownParts DEF name, o, node
    <3>2. z.at = Append(v.at, name) /\ z.rest = Tail(v.rest) /\ z.links = k
      BY <1>1, <1>2, <2>2, DownParts DEF z
    <3> QED  BY <1>1, <3>1, <3>2
  <2>3. CASE name # Up /\ node.kind = "link"
    <3> DEFINE at == IF node.abs THEN <<>> ELSE v.at
               rest == node.to \o Tail(v.rest)
    <3>1. o.at = at /\ o.rest = rest /\ o.links = v.links + 1
      BY <2>3, LinkParts DEF name, o, node
    <3>2. z.at = at /\ z.rest = rest /\ z.links = k + 1
      BY <1>1, <1>2, <2>3, LinkParts DEF z
    <3> HIDE DEF at, rest
    <3> QED  BY <1>1, <3>1, <3>2
  <2> QED  BY <2>1, <2>2, <2>3
<1>7. y \in Walks
  <2>1. k + d \in Nat
    BY <1>6
  <2> HIDE DEF d
  <2> QED  BY <1>4, <2>1 DEF y, Counted, Walks
<1>8. z = y
  BY <1>4, <1>5, <1>6, <1>7, SameWalk
<1>9. d \in Nat
  BY <1>6
<1> QED  BY <1>1, <1>3, <1>8, <1>9 DEF u, o, y, z

LEMMA ReachCounted ==
  ASSUME NEW tree, WellFormed(tree), NEW w \in Walks, NEW k \in Nat, NEW t \in Reach(tree, w)
  PROVE  t.links - w.links \in Nat /\ Counted(t, k + (t.links - w.links)) \in Reach(tree, Counted(w, k))
<1> DEFINE W == Counted(w, k)
           R == {v \in Walks : v.links - w.links \in Nat /\ Counted(v, k + (v.links - w.links)) \in Reach(tree, W)}
<1>1. W \in Walks /\ W = Counted(w, k + (w.links - w.links)) /\ w.links - w.links \in Nat
  BY DEF Walks, Counted
<1>2. R \in SUBSET Walks /\ w \in R
  <2>1. W \in Reach(tree, W)
    BY <1>1, ReachFromHere
  <2> HIDE DEF W
  <2> QED  BY <1>1, <2>1
<1>3. ASSUME NEW v \in R, Goes(tree, v) PROVE Onward(tree, v) \in R
  <2> DEFINE o == Onward(tree, v)
             j == k + (v.links - w.links)
  <2>1. o \in Walks
    BY <1>3, OnwardTyped
  <2>2. j \in Nat /\ v \in Walks /\ Counted(v, j) \in Reach(tree, W)
    OBVIOUS
  <2>3. Goes(tree, Counted(v, j)) /\ o.links - v.links \in Nat
        /\ Onward(tree, Counted(v, j)) = Counted(o, j + (o.links - v.links))
    <3> HIDE DEF j, R, W
    <3> QED  BY <1>3, <2>2, CountedStep DEF o
  <2>4. Onward(tree, Counted(v, j)) \in Reach(tree, W)
    <3> HIDE DEF j, W, R
    <3> QED  BY <2>2, <2>3, ReachOnward
  <2>5. v.links \in Nat /\ w.links \in Nat /\ o.links \in Nat /\ v.links - w.links \in Nat
    BY <2>1, <2>2 DEF Walks
  <2>6. j + (o.links - v.links) = k + (o.links - w.links) /\ o.links - w.links \in Nat
    BY <2>3, <2>5
  <2> QED  BY <2>1, <2>3, <2>4, <2>6
<1>4. Reach(tree, w) \subseteq R
  <2> HIDE DEF R
  <2> QED  BY <1>2, <1>3, ReachIn
<1> QED  BY <1>4

LEMMA GrownStep ==
  ASSUME NEW tree, WellFormed(tree), NEW more, WellFormed(more), Grown(tree, more), NEW v \in Walks, Goes(tree, v)
  PROVE  Goes(more, v) /\ Onward(more, v) = Onward(tree, v)
<1> DEFINE name == Head(v.rest)
<1>1. v.rest # <<>> /\ NodeAt(tree, v.at).kind = "dir" /\ (name = Up \/ Ahead(tree, v).kind # "none")
  BY GoesIs
<1>2. NodeAt(more, v.at).kind = "dir"
  BY <1>1 DEF Grown
<1>3. name # Up => /\ Ahead(more, v).kind = Ahead(tree, v).kind
                   /\ Ahead(tree, v).kind = "link" => Ahead(more, v) = Ahead(tree, v)
  BY <1>1 DEF Grown, Ahead
<1>4. Goes(more, v)
  BY <1>1, <1>2, <1>3, GoesIs
<1> HIDE DEF name
<1>5. Onward(tree, v) \in Walks /\ Onward(more, v) \in Walks
  BY <1>4, OnwardTyped
<1> DEFINE o == Onward(tree, v)
           z == Onward(more, v)
<1> HIDE DEF o, z
<1>6. z.at = o.at /\ z.rest = o.rest /\ z.links = o.links
  <2>1. CASE name = Up
    <3>1. o.at = Above(v.at) /\ o.rest = Tail(v.rest) /\ o.links = v.links
      BY <2>1, UpParts DEF name, o
    <3>2. z.at = Above(v.at) /\ z.rest = Tail(v.rest) /\ z.links = v.links
      BY <2>1, UpParts DEF name, z
    <3> QED  BY <3>1, <3>2
  <2>2. CASE name # Up /\ Ahead(tree, v).kind # "link"
    <3>1. o.at = Append(v.at, name) /\ o.rest = Tail(v.rest) /\ o.links = v.links
      BY <2>2, DownParts DEF name, o
    <3>2. z.at = Append(v.at, name) /\ z.rest = Tail(v.rest) /\ z.links = v.links
      BY <1>3, <2>2, DownParts DEF name, z
    <3> QED  BY <3>1, <3>2
  <2>3. CASE name # Up /\ Ahead(tree, v).kind = "link"
    <3> DEFINE node == Ahead(tree, v)
               at == IF node.abs THEN <<>> ELSE v.at
               rest == node.to \o Tail(v.rest)
    <3>1. o.at = at /\ o.rest = rest /\ o.links = v.links + 1
      BY <2>3, LinkParts DEF name, o
    <3>2. z.at = at /\ z.rest = rest /\ z.links = v.links + 1
      BY <1>3, <2>3, LinkParts DEF name, z
    <3> HIDE DEF at, rest
    <3> QED  BY <3>1, <3>2
  <2> QED  BY <2>1, <2>2, <2>3
<1> QED  BY <1>4, <1>5, <1>6, SameWalk DEF o, z

LEMMA ReachGrown ==
  ASSUME NEW tree, WellFormed(tree), NEW more, WellFormed(more), Grown(tree, more),
         NEW w \in Walks, NEW t \in Reach(tree, w)
  PROVE  t \in Reach(more, w)
<1> DEFINE R == Reach(more, w)
<1>1. R \in SUBSET Walks /\ w \in R
  BY ReachFromHere DEF Reach
<1>2. ASSUME NEW v \in R, Goes(tree, v) PROVE Onward(tree, v) \in R
  <2>1. Goes(more, v) /\ Onward(more, v) = Onward(tree, v)
    BY <1>1, <1>2, GrownStep
  <2> QED  BY <2>1, ReachOnward
<1>3. Reach(tree, w) \subseteq R
  <2> HIDE DEF R
  <2> QED  BY <1>1, <1>2, ReachIn
<1> QED  BY <1>3

LEMMA NatInSet ==
  ASSUME NEW S, 0 \in S, \A i \in Nat : i \in S => i + 1 \in S
  PROVE  \A i \in Nat : i \in S
<1> DEFINE Out == {i \in Nat : i \notin S}
<1> SUFFICES ASSUME Out # {} PROVE FALSE
  OBVIOUS
<1>1. PICK m \in Out : \A i \in Out : ~(<<i, m>> \in OpToRel(<, Nat))
  BY NatLessThanWellFounded, WFMin
<1>2. m \in Nat /\ m \notin S
  OBVIOUS
<1> HIDE DEF Out
<1>3. m - 1 \in Nat /\ m - 1 + 1 = m /\ m - 1 < m
  BY <1>2
<1>4. m - 1 \in Out
  BY <1>2, <1>3 DEF Out
<1>5. <<m - 1, m>> \in OpToRel(<, Nat)
  BY <1>2, <1>3, Zenon DEF OpToRel
<1> QED  BY <1>1, <1>4, <1>5

(* A finite set of numbers has a greatest.                                 *)
LEMMA GreatestNat ==
  ASSUME NEW S, IsFiniteSet(S), S \subseteq Nat, S # {}
  PROVE  Max(S) \in S /\ \A y \in S : Max(S) >= y
<1> DEFINE HasTop(T) == \E x \in T : \A y \in T : x >= y
           Good == {n \in Nat : \A T : IsFiniteSet(T) /\ T \subseteq Nat /\ T # {} /\ Cardinality(T) = n
                                        => HasTop(T)}
<1>1. 0 \in Good
  <2>1. \A T : IsFiniteSet(T) /\ Cardinality(T) = 0 => T = {}
    BY FS_EmptySet
  <2> HIDE DEF HasTop
  <2> QED  BY <2>1
<1>2. ASSUME NEW n \in Nat, n \in Good PROVE n + 1 \in Good
  <2> SUFFICES ASSUME NEW T, IsFiniteSet(T), T \subseteq Nat, T # {}, Cardinality(T) = n + 1
               PROVE  HasTop(T)
    OBVIOUS
  <2>1. PICK t \in T : TRUE
    OBVIOUS
  <2> DEFINE R == T \ {t}
  <2>2. IsFiniteSet(R) /\ Cardinality(R) = n
    <3>1. IsFiniteSet(R) /\ Cardinality(R) = Cardinality(T) - 1
      BY FS_RemoveElement
    <3> QED  BY <3>1
  <2>3. R \subseteq Nat /\ t \in Nat /\ T = R \cup {t}
    OBVIOUS
  <2> HIDE DEF R
  <2>4. CASE R = {}
    <3>1. \A y \in T : t >= y
      BY <2>3, <2>4
    <3> QED  BY <3>1
  <2>5. CASE R # {}
    <3>1. HasTop(R)
      <4> HIDE DEF HasTop
      <4> QED  BY <1>2, <2>2, <2>3, <2>5
    <3>2. PICK x \in R : \A y \in R : x >= y
      BY <3>1
    <3>3. x \in Nat /\ R \subseteq Nat
      BY <2>3
    <3>4. CASE x >= t
      <4>1. \A y \in T : x >= y
        BY <2>3, <3>2, <3>4
      <4> QED  BY <2>3, <4>1
    <3>5. CASE ~(x >= t)
      <4>1. \A y \in R : y \in Nat /\ t >= y
        BY <2>3, <3>2, <3>3, <3>5
      <4>2. \A y \in T : t >= y
        BY <2>3, <4>1
      <4> QED  BY <4>2
    <3> QED  BY <3>4, <3>5
  <2> QED  BY <2>4, <2>5
<1>3. \A n \in Nat : n \in Good
  <2> HIDE DEF Good
  <2> QED  BY <1>1, <1>2, NatInSet
<1>4. HasTop(S)
  <2>1. Cardinality(S) \in Nat
    BY FS_CardinalityType
  <2> HIDE DEF HasTop
  <2> QED  BY <1>3, <2>1
<1> QED  BY <1>4 DEF Max

-----------------------------------------------------------------------------
(* Down through directories, name by name.                                  *)
Part(z, i) == SubSeq(z, 1, i)
Rest(z, i) == SubSeq(z, i + 1, Len(z))

LEMMA PartsAre ==
  ASSUME NEW S, NEW z \in Seq(S)
  PROVE  /\ Part(z, 0) = <<>> /\ Rest(z, 0) = z /\ Part(z, Len(z)) = z /\ Rest(z, Len(z)) = <<>>
         /\ \A i \in 0 .. Len(z) : Part(z, i) \in Seq(S) /\ Len(Part(z, i)) = i /\ Rest(z, i) \in Seq(S)
                                   /\ Len(Rest(z, i)) = Len(z) - i
  BY DEF Part, Rest

LEMMA SameTexts ==
  ASSUME NEW S, NEW x \in Seq(S), NEW y \in Seq(S), Len(x) = Len(y), \A i \in 1 .. Len(x) : x[i] = y[i]
  PROVE  x = y
  OBVIOUS

LEMMA NextPart ==
  ASSUME NEW S, NEW z \in Seq(S), NEW i \in Nat, i < Len(z)
  PROVE  /\ Rest(z, i) # <<>> /\ Head(Rest(z, i)) = z[i + 1] /\ z[i + 1] \in S
         /\ Tail(Rest(z, i)) = Rest(z, i + 1)
         /\ Part(z, i + 1) = Append(Part(z, i), z[i + 1])
<1>1. Rest(z, i) \in Seq(S) /\ Len(Rest(z, i)) = Len(z) - i /\ Rest(z, i)[1] = z[i + 1]
      /\ \A j \in 1 .. Len(z) - i : Rest(z, i)[j] = z[i + j]
  BY DEF Rest
<1>2. Rest(z, i + 1) \in Seq(S) /\ Len(Rest(z, i + 1)) = Len(z) - i - 1
      /\ \A j \in 1 .. Len(z) - i - 1 : Rest(z, i + 1)[j] = z[i + 1 + j]
  BY DEF Rest
<1>3. Part(z, i) \in Seq(S) /\ Len(Part(z, i)) = i /\ \A j \in 1 .. i : Part(z, i)[j] = z[j]
  BY DEF Part
<1>4. Part(z, i + 1) \in Seq(S) /\ Len(Part(z, i + 1)) = i + 1
      /\ \A j \in 1 .. i + 1 : Part(z, i + 1)[j] = z[j]
  BY DEF Part
<1>5. z[i + 1] \in S /\ Len(z) \in Nat
  OBVIOUS
<1>6. Tail(Rest(z, i)) = Rest(z, i + 1)
  <2> DEFINE r == Rest(z, i)
  <2> HIDE DEF r
  <2>1. r \in Seq(S) /\ Len(r) = Len(z) - i /\ Len(r) >= 1
    BY <1>1, <1>5 DEF r
  <2>2. Tail(r) \in Seq(S) /\ Len(Tail(r)) = Len(r) - 1 /\ \A j \in 1 .. Len(r) - 1 : Tail(r)[j] = r[j + 1]
    BY <2>1
  <2>3. \A j \in 1 .. Len(r) - 1 : r[j + 1] = z[i + 1 + j]
    <3> SUFFICES ASSUME NEW j \in 1 .. Len(r) - 1 PROVE r[j + 1] = z[i + 1 + j]
      OBVIOUS
    <3>1. j + 1 \in 1 .. Len(z) - i /\ i + (j + 1) = i + 1 + j
      BY <1>5, <2>1
    <3> QED  BY <1>1, <3>1 DEF r
  <2> DEFINE y == Rest(z, i + 1)
             x == Tail(r)
  <2>4. y \in Seq(S) /\ Len(y) = Len(r) - 1 /\ \A j \in 1 .. Len(r) - 1 : y[j] = z[i + 1 + j]
    BY <1>2, <1>5, <2>1
  <2> HIDE DEF x, y
  <2>5. x \in Seq(S) /\ Len(x) = Len(y) /\ \A j \in 1 .. Len(x) : x[j] = y[j]
    BY <2>2, <2>3, <2>4 DEF x
  <2>6. x = y
    BY <2>4, <2>5, SameTexts
  <2> QED  BY <2>6 DEF x, y, r
<1>7. Part(z, i + 1) = Append(Part(z, i), z[i + 1])
  <2> DEFINE p == Part(z, i)
  <2> HIDE DEF p
  <2>1. Append(p, z[i + 1]) \in Seq(S) /\ Len(Append(p, z[i + 1])) = i + 1
        /\ Append(p, z[i + 1])[i + 1] = z[i + 1] /\ \A j \in 1 .. i : Append(p, z[i + 1])[j] = p[j]
    BY <1>3, <1>5 DEF p
  <2> QED  BY <1>3, <1>4, <2>1 DEF p
<1> QED  BY <1>1, <1>5, <1>6, <1>7

LEMMA AppendJoin ==
  ASSUME NEW S, NEW x \in Seq(S), NEW y \in Seq(S), NEW e \in S
  PROVE  SameText(Append(x \o y, e), x \o Append(y, e))
  BY DEF SameText

LEMMA PlainWalk ==
  ASSUME NEW tree, WellFormed(tree), NEW base \in Seq(Names), NEW z \in Seq(Names), NEW l \in Nat,
         \A i \in 0 .. Len(z) - 1 : NodeAt(tree, base \o Part(z, i)).kind = "dir",
         Solid(tree, base \o z)
  PROVE  [at |-> base \o z, rest |-> <<>>, links |-> l]
           \in Reach(tree, [at |-> base, rest |-> z, links |-> l])
<1> DEFINE w == [at |-> base, rest |-> z, links |-> l]
           now(i) == [at |-> base \o Part(z, i), rest |-> Rest(z, i), links |-> l]
           S == {i \in Nat : i <= Len(z) => now(i) \in Reach(tree, w)}
<1>0. Len(z) \in Nat /\ z \in Seq(Names \cup {Up}) /\ Up \notin Names
  BY NamesAssumption
<1>1. now(0) = w
  <2>1. Part(z, 0) = <<>> /\ Rest(z, 0) = z
    BY PartsAre
  <2>2. base \o <<>> = base
    OBVIOUS
  <2> QED  BY <2>1, <2>2
<1>2. w \in Walks
  BY <1>0 DEF Walks
<1>3. \A i \in 0 .. Len(z) : now(i) \in Walks
  <2> SUFFICES ASSUME NEW i \in 0 .. Len(z) PROVE now(i) \in Walks
    OBVIOUS
  <2>1. Part(z, i) \in Seq(Names)
    BY PartsAre
  <2>2. Rest(z, i) \in Seq(Names \cup {Up})
    BY <1>0, PartsAre
  <2>3. base \o Part(z, i) \in Seq(Names)
    BY <2>1, ConcatProperties
  <2> QED  BY <2>2, <2>3 DEF Walks
<1>4. 0 \in S
  BY <1>1, <1>2, ReachFromHere
<1>5. ASSUME NEW i \in Nat, i \in S PROVE i + 1 \in S
  <2> SUFFICES ASSUME i + 1 <= Len(z) PROVE now(i + 1) \in Reach(tree, w)
    OBVIOUS
  <2>1. i < Len(z) /\ i \in 0 .. Len(z) - 1 /\ i \in 0 .. Len(z) /\ now(i) \in Reach(tree, w) /\ i + 1 \in 0 .. Len(z)
    BY <1>0, <1>5
  <2>2. Rest(z, i) # <<>> /\ Head(Rest(z, i)) = z[i + 1] /\ z[i + 1] \in Names
        /\ Tail(Rest(z, i)) = Rest(z, i + 1) /\ Part(z, i + 1) = Append(Part(z, i), z[i + 1])
    BY <2>1, NextPart
  <2>3. Append(base \o Part(z, i), z[i + 1]) = base \o Part(z, i + 1)
    <3>1. Part(z, i) \in Seq(Names)
      BY <2>1, PartsAre
    <3>2. SameText(Append(base \o Part(z, i), z[i + 1]), base \o Append(Part(z, i), z[i + 1]))
      BY ONLY <2>2, <3>1, AppendJoin, base \in Seq(Names), Zenon
    <3> QED  BY <2>2, <3>2 DEF SameText
  <2>4. NodeAt(tree, base \o Part(z, i)).kind = "dir"
    BY <2>1
  <2>5. Solid(tree, base \o Part(z, i + 1))
    <3>1. CASE i + 1 = Len(z)
      <4>1. Part(z, i + 1) = z
        BY <3>1, PartsAre
      <4> QED  BY <4>1
    <3>2. CASE i + 1 # Len(z)
      <4>1. i + 1 \in 0 .. Len(z) - 1
        BY <1>0, <2>1, <3>2
      <4> QED  BY <4>1 DEF Solid
    <3> QED  BY <3>1, <3>2
  <2> DEFINE v == now(i)
             o == Onward(tree, v)
             u == now(i + 1)
  <2>6. /\ v.at = base \o Part(z, i) /\ v.rest = Rest(z, i) /\ v.links = l /\ v \in Walks
        /\ u.at = base \o Part(z, i + 1) /\ u.rest = Rest(z, i + 1) /\ u.links = l /\ u \in Walks
        /\ v \in Reach(tree, w)
    BY <1>3, <2>1
  <2> HIDE DEF u, v, o, w, now, S
  <2>7. Head(v.rest) # Up /\ Ahead(tree, v).kind \in {"dir", "file"}
    BY <1>0, <2>2, <2>3, <2>5, <2>6 DEF Ahead, Solid
  <2>8. Goes(tree, v)
    BY <2>2, <2>4, <2>6, <2>7, GoesIs
  <2>9. o.at = u.at /\ o.rest = u.rest /\ o.links = u.links
    <3>1. o.at = Append(v.at, Head(v.rest)) /\ o.rest = Tail(v.rest) /\ o.links = v.links
      BY <2>6, <2>7, DownParts DEF o
    <3> QED  BY <2>2, <2>3, <2>6, <3>1
  <2>10. o \in Walks /\ o \in Reach(tree, w)
    BY <2>6, <2>8, OnwardTyped, ReachOnward DEF o
  <2>11. o = u
    BY <2>6, <2>9, <2>10, SameWalk
  <2> QED  BY <2>10, <2>11 DEF u
<1> HIDE DEF S, now
<1>6. Len(z) \in S
  BY <1>0, <1>4, <1>5, NatInSet
<1>7. now(Len(z)) \in Reach(tree, w)
  BY <1>0, <1>6 DEF S
<1>8. Part(z, Len(z)) = z /\ Rest(z, Len(z)) = <<>>
  BY PartsAre
<1> QED  BY <1>7, <1>8 DEF now

-----------------------------------------------------------------------------
(* What a walk with a limit comes to.                                       *)

LEMMA LongestIs ==
  ASSUME NEW tree, WellFormed(tree)
  PROVE  /\ LongestLink(tree) \in Nat
         /\ \A p \in LinksOf(tree) : tree[p].to \in Seq(Names \cup {Up}) /\ Len(tree[p].to) <= LongestLink(tree)
<1> DEFINE K == LinksOf(tree)
           T == {Len(tree[p].to) : p \in K}
           f == [p \in K |-> Len(tree[p].to)]
<1>1. IsFiniteSet(K)
  BY FS_Subset DEF WellFormed, LinksOf
<1>2. \A p \in K : tree[p].to \in Seq(Names \cup {Up}) /\ Len(tree[p].to) \in Nat
  BY DEF WellFormed
<1>3. f \in Surjection(K, T)
  BY DEF Surjection
<1>4. IsFiniteSet(T)
  BY <1>1, <1>3, FS_Surjection
<1>5. IsFiniteSet({0} \cup T) /\ {0} \cup T \subseteq Nat /\ {0} \cup T # {}
  <2>1. T \subseteq Nat
    BY <1>2
  <2> HIDE DEF T
  <2>2. IsFiniteSet({0} \cup T)
    BY <1>4, FS_Singleton, FS_Union
  <2> QED  BY <2>1, <2>2
<1>6. Max({0} \cup T) \in {0} \cup T /\ \A y \in {0} \cup T : Max({0} \cup T) >= y
  <2> HIDE DEF T
  <2> QED  BY <1>5, GreatestNat
<1>7. LongestLink(tree) = Max({0} \cup T)
  BY DEF LongestLink
<1>8. LongestLink(tree) \in Nat
  <2> HIDE DEF T
  <2> QED  BY <1>5, <1>6, <1>7
<1>9. ASSUME NEW p \in K PROVE Len(tree[p].to) <= LongestLink(tree)
  <2>1. Len(tree[p].to) \in {0} \cup T
    OBVIOUS
  <2> HIDE DEF T
  <2> QED  BY <1>2, <1>6, <1>7, <1>8, <2>1
<1> QED  BY <1>2, <1>8, <1>9

LEMMA StepsAre ==
  ASSUME NEW tree, NEW limit, NEW path, Len(path) + limit * LongestLink(tree) \in Nat
  PROVE  LET last == Len(path) + limit * LongestLink(tree)
         IN  \E after :
               /\ after[0] = Start(path)
               /\ \A i \in 1 .. last : after[i] = Step(tree, limit, after[i - 1])
               /\ WalkEnd(tree, limit, path) = after[last]
<1> DEFINE start == Start(path)
           last == Len(path) + limit * LongestLink(tree)
           Is(h, n) == h = [i \in 0 .. n |-> IF i = 0 THEN start ELSE Step(tree, limit, h[i - 1])]
           S == {n \in Nat : \E h : Is(h, n)}
<1>1. WalkEnd(tree, limit, path) = (CHOOSE h : Is(h, last))[last]
  BY DEF WalkEnd
<1>0. last \in Nat
  OBVIOUS
<1> HIDE DEF last, start
<1>2. 0 \in S
  <2>1. Is([i \in 0 .. 0 |-> start], 0)
    OBVIOUS
  <2> QED  BY <2>1
<1>3. ASSUME NEW n \in Nat, n \in S PROVE n + 1 \in S
  <2>1. PICK h : Is(h, n)
    BY <1>3
  <2> DEFINE next == Step(tree, limit, h[n])
             g == [i \in 0 .. n + 1 |-> IF i = n + 1 THEN next ELSE h[i]]
  <2>2. ASSUME NEW i \in 0 .. n + 1
        PROVE  g[i] = IF i = 0 THEN start ELSE Step(tree, limit, g[i - 1])
    <3>1. CASE i = n + 1
      <4>1. g[i] = next /\ i # 0 /\ i - 1 = n /\ g[n] = h[n]
        BY <3>1
      <4> QED  BY <3>1, <4>1
    <3>2. CASE i # n + 1
      <4>1. i \in 0 .. n /\ g[i] = h[i] /\ (i # 0 => i - 1 \in 0 .. n /\ g[i - 1] = h[i - 1])
        BY <3>2
      <4> HIDE DEF g
      <4> QED  BY <2>1, <4>1
    <3> QED  BY <3>1, <3>2
  <2>3. g = [i \in 0 .. n + 1 |-> g[i]]
    OBVIOUS
  <2> HIDE DEF g
  <2>4. Is(g, n + 1)
    BY <2>2, <2>3
  <2> QED  BY <2>4
<1>4. \E h : Is(h, last)
  <2> HIDE DEF S, Is
  <2>1. last \in S
    BY <1>0, <1>2, <1>3, NatInSet
  <2> QED  BY <2>1 DEF S
<1>5. PICK h : Is(h, last) /\ WalkEnd(tree, limit, path) = h[last]
  <2> HIDE DEF Is
  <2> QED  BY <1>1, <1>4
<1>6. h[0] = start /\ \A i \in 1 .. last : h[i] = Step(tree, limit, h[i - 1])
  <2>1. 0 \in 0 .. last /\ \A i \in 1 .. last : i \in 0 .. last /\ i # 0
    BY <1>0
  <2> QED  BY <1>5, <2>1
<1> QED  BY <1>5, <1>6 DEF last, start

LEMMA HaltIs ==
  ASSUME NEW tree, NEW limit \in Nat, NEW w \in Walks
  PROVE  /\ Halt(tree, limit, w) = "going" =>
              Goes(tree, w) /\ (Head(w.rest) # Up /\ Ahead(tree, w).kind = "link" => w.links # limit)
         /\ Goes(tree, w) /\ Halt(tree, limit, w) # "going" =>
              Head(w.rest) # Up /\ Ahead(tree, w).kind = "link" /\ w.links = limit
         /\ ~Goes(tree, w) => Halt(tree, limit, w) = Halt(tree, -1, w) /\ Halt(tree, limit, w) # "loop"
         /\ Goes(tree, w) => Halt(tree, limit, w) \in {"going", "loop"}
<1> w.links # -1
  BY DEF Walks
<1> QED  BY DEF Goes, Halt

LEMMA StartTyped ==
  ASSUME NEW path \in Seq(Names \cup {Up})
  PROVE  /\ Start(path) \in Walks /\ Start(path).at = <<>> /\ Start(path).rest = path
         /\ Start(path).links = 0
  BY DEF Start, Walks

LEMMA LenOfJoin ==
  ASSUME NEW S, NEW x \in Seq(S), NEW y \in Seq(S)
  PROVE  Len(x \o y) = Len(x) + Len(y)
  OBVIOUS

LEMMA Times ==
  ASSUME NEW k \in Nat, k >= 1, NEW m \in Nat
  PROVE  k * m = (k - 1) * m + m /\ (k - 1) * m \in Nat /\ k * m \in Nat
  OBVIOUS

(* A step leaves less to do.                                                *)
ToDo(tree, limit, w) == Len(w.rest) + (limit - w.links) * LongestLink(tree)

LEMMA StepLess ==
  ASSUME NEW tree, WellFormed(tree), NEW limit \in Nat, NEW w \in Walks, w.links <= limit,
         Halt(tree, limit, w) = "going"
  PROVE  /\ Onward(tree, w).links <= limit
         /\ ToDo(tree, limit, w) \in Nat /\ ToDo(tree, limit, Onward(tree, w)) \in Nat
         /\ ToDo(tree, limit, Onward(tree, w)) + 1 <= ToDo(tree, limit, w)
<1> DEFINE o == Onward(tree, w)
           L == LongestLink(tree)
           k == limit - w.links
           name == Head(w.rest)
           node == Ahead(tree, w)
<1>1. L \in Nat /\ k \in Nat /\ w.links \in Nat
  BY LongestIs DEF Walks
<1>2. k * L \in Nat
  <2> HIDE DEF L, k
  <2> QED  BY <1>1
<1>3. Goes(tree, w) /\ (name # Up /\ node.kind = "link" => w.links # limit)
  BY HaltIs
<1>4. w.rest # <<>> /\ w.rest \in Seq(Names \cup {Up}) /\ Len(w.rest) \in Nat
  BY <1>3, GoesIs DEF Walks
<1>5. Tail(w.rest) \in Seq(Names \cup {Up}) /\ Len(Tail(w.rest)) = Len(w.rest) - 1 /\ Len(w.rest) >= 1
  BY <1>4
<1>6. ToDo(tree, limit, w) = Len(w.rest) + k * L
  BY DEF ToDo
<1>7. ToDo(tree, limit, o) = Len(o.rest) + (limit - o.links) * L
  BY DEF ToDo
<1> HIDE DEF name, node, o
<1>8. CASE ~(name # Up /\ node.kind = "link")
  <2>1. o.rest = Tail(w.rest) /\ o.links = w.links
    <3>1. CASE name = Up
      BY <3>1, UpParts DEF o, name
    <3>2. CASE name # Up /\ node.kind # "link"
      BY <3>2, DownParts DEF o, name, node
    <3> QED  BY <1>8, <3>1, <3>2
  <2>2. ToDo(tree, limit, o) = Len(w.rest) - 1 + k * L
    BY <1>5, <1>7, <2>1
  <2> HIDE DEF L, k
  <2>3. o.links <= limit
    BY <2>1
  <2> QED  BY <1>2, <1>4, <1>5, <1>6, <2>2, <2>3 DEF o
<1>9. CASE name # Up /\ node.kind = "link"
  <2>1. o.rest = node.to \o Tail(w.rest) /\ o.links = w.links + 1
    BY <1>9, LinkParts DEF o, name, node
  <2>2. node.to \in Seq(Names \cup {Up}) /\ Len(node.to) <= L /\ Len(node.to) \in Nat
    <3> DEFINE at == Append(w.at, name)
    <3>1. NodeAt(tree, at).kind = "link" /\ node = NodeAt(tree, at) /\ at # <<>>
      <4>1. w.at \in Seq(Names)
        BY DEF Walks
      <4>2. Append(w.at, name) # <<>>
        BY <4>1
      <4> QED  BY <1>9, <4>2 DEF node, Ahead, name
    <3> HIDE DEF at
    <3>2. at \in DOMAIN tree /\ node = tree[at]
      BY <3>1, NodeIs
    <3>3. at \in LinksOf(tree)
      BY <3>1, <3>2 DEF LinksOf
    <3>4. node.to \in Seq(Names \cup {Up}) /\ Len(node.to) <= L
      BY <3>2, <3>3, LongestIs
    <3> QED  BY <3>4
  <2>3. Len(o.rest) = Len(node.to) + (Len(w.rest) - 1)
    <3> DEFINE x == node.to
               y == Tail(w.rest)
    <3> HIDE DEF x, y
    <3>1. Len(x \o y) = Len(x) + Len(y)
      BY ONLY <1>5, <2>2, LenOfJoin DEF x, y
    <3> QED  BY <1>5, <2>1, <3>1 DEF x, y
  <2>4. k >= 1 /\ limit - o.links = k - 1 /\ o.links <= limit
    BY <1>1, <1>3, <1>9, <2>1
  <2>5. k * L = (k - 1) * L + L /\ (k - 1) * L \in Nat
    <3> HIDE DEF k, L
    <3> QED  BY <1>1, <2>4, Times
  <2>6. ToDo(tree, limit, o) = Len(o.rest) + (k - 1) * L
    BY <1>7, <2>4
  <2> DEFINE less == (k - 1) * L
             all == k * L
  <2> HIDE DEF less, all, k, L
  <2>7. less \in Nat /\ all = less + L /\ all \in Nat
    BY <1>2, <2>5 DEF less, all
  <2>8. ToDo(tree, limit, o) = Len(node.to) + (Len(w.rest) - 1) + less /\ ToDo(tree, limit, w) = Len(w.rest) + all
    BY <1>6, <2>3, <2>6 DEF less, all
  <2> DEFINE now == ToDo(tree, limit, w)
             then == ToDo(tree, limit, o)
             n == Len(node.to)
             m == Len(w.rest)
  <2>9. n \in Nat /\ n <= L /\ L \in Nat /\ m \in Nat /\ m >= 1
    BY <1>1, <1>4, <1>5, <2>2
  <2>10. then = n + (m - 1) + less /\ now = m + all
    BY <2>8
  <2> HIDE DEF now, then, n, m
  <2>11. now \in Nat /\ then \in Nat /\ then + 1 <= now
    BY ONLY <2>7, <2>9, <2>10
  <2> QED  BY <2>4, <2>11 DEF o, now, then
<1> QED  BY <1>8, <1>9

(* Step by step, a walk with a limit is over within the steps WalkEnd takes.*)
LEMMA WalkEnds ==
  ASSUME NEW tree, WellFormed(tree), NEW limit \in Nat, NEW path \in Seq(Names \cup {Up})
  PROVE  LET e == WalkEnd(tree, limit, path)
         IN  e \in Reach(tree, Start(path)) /\ e.links <= limit /\ Halt(tree, limit, e) # "going"
<1> DEFINE s == Start(path)
           L == LongestLink(tree)
           last == Len(path) + limit * L
<1>1. s \in Walks /\ s.at = <<>> /\ s.rest = path /\ s.links = 0
  BY StartTyped
<1>2. L \in Nat /\ Len(path) \in Nat
  BY LongestIs
<1>3. limit * L \in Nat
  <2> HIDE DEF L
  <2> QED  BY <1>2
<1>4. last \in Nat /\ ToDo(tree, limit, s) = last
  <2>1. ToDo(tree, limit, s) = Len(path) + (limit - 0) * L
    BY <1>1 DEF ToDo
  <2>2. limit - 0 = limit
    OBVIOUS
  <2> QED  BY <1>2, <1>3, <2>1, <2>2
<1>5. PICK after :
        /\ after[0] = s
        /\ \A i \in 1 .. last : after[i] = Step(tree, limit, after[i - 1])
        /\ WalkEnd(tree, limit, path) = after[last]
  BY <1>4, StepsAre
<1> HIDE DEF s, L, last
<1> DEFINE OK(i, w) == /\ w \in Reach(tree, s) /\ w.links <= limit
                       /\ Halt(tree, limit, w) = "going" => ToDo(tree, limit, w) <= last - i
           S == {i \in Nat : i <= last => OK(i, after[i])}
<1>6. 0 \in S
  <2>1. OK(0, s)
    <3>1. s \in Reach(tree, s)
      BY <1>1, ReachFromHere
    <3> QED  BY <1>1, <1>4, <3>1
  <2> HIDE DEF OK
  <2> QED  BY <1>5, <2>1
<1>7. ASSUME NEW i \in Nat, i \in S PROVE i + 1 \in S
  <2> SUFFICES ASSUME i + 1 <= last PROVE OK(i + 1, after[i + 1])
    OBVIOUS
  <2> DEFINE w == after[i]
             v == after[i + 1]
  <2>1. OK(i, w) /\ v = Step(tree, limit, w)
    <3>1. i <= last /\ i + 1 \in 1 .. last /\ (i + 1) - 1 = i
      BY <1>4
    <3>2. v = Step(tree, limit, w)
      BY <1>5, <3>1
    <3>3. OK(i, w)
      <4> HIDE DEF OK
      <4> QED  BY <1>7, <3>1
    <3> QED  BY <3>2, <3>3
  <2> HIDE DEF w, v, S
  <2>2. w \in Walks /\ w \in Reach(tree, s) /\ w.links <= limit
    BY <2>1, ReachTyped
  <2>3. CASE Halt(tree, limit, w) = "going"
    <3>1. v = Onward(tree, w) /\ Goes(tree, w)
      BY <2>1, <2>2, <2>3, HaltIs DEF Step
    <3>2. v \in Reach(tree, s)
      BY <1>1, <2>2, <3>1, ReachOnward
    <3>3. /\ v.links <= limit /\ ToDo(tree, limit, w) \in Nat /\ ToDo(tree, limit, v) \in Nat
          /\ ToDo(tree, limit, v) + 1 <= ToDo(tree, limit, w)
      BY <2>2, <2>3, <3>1, StepLess
    <3>4. ToDo(tree, limit, w) <= last - i
      BY <2>1, <2>3
    <3>5. ToDo(tree, limit, v) <= last - (i + 1)
      BY <1>4, <3>3, <3>4
    <3> QED  BY <3>2, <3>3, <3>5 DEF v
  <2>4. CASE Halt(tree, limit, w) # "going"
    <3>1. v = w
      BY <2>1, <2>4 DEF Step
    <3> QED  BY <2>2, <2>4, <3>1 DEF v
  <2> QED  BY <2>3, <2>4
<1>8. OK(last, after[last])
  <2> HIDE DEF OK
  <2>1. last \in S
    <3> HIDE DEF S
    <3> QED  BY <1>4, <1>6, <1>7, NatInSet
  <2> QED  BY <1>4, <2>1
<1> DEFINE e == after[last]
<1> HIDE DEF e
<1>9. e \in Walks /\ e \in Reach(tree, s) /\ e.links <= limit
  BY <1>8, ReachTyped DEF e
<1>10. Halt(tree, limit, e) # "going"
  <2> SUFFICES ASSUME Halt(tree, limit, e) = "going" PROVE FALSE
    OBVIOUS
  <2>1. ToDo(tree, limit, e) <= last - last
    BY <1>8 DEF e
  <2>2. /\ ToDo(tree, limit, e) \in Nat /\ ToDo(tree, limit, Onward(tree, e)) \in Nat
        /\ ToDo(tree, limit, Onward(tree, e)) + 1 <= ToDo(tree, limit, e)
    BY <1>9, StepLess
  <2> QED  BY <1>4, <2>1, <2>2
<1> QED  BY <1>5, <1>9, <1>10 DEF e, s

(* Where a path leads with no limit on its links, if it leads anywhere.     *)
EndsAt(tree, path, e) == e \in Reach(tree, Start(path)) /\ ~Goes(tree, e)

LEMMA EndTyped ==
  ASSUME NEW tree, NEW path, NEW e, EndsAt(tree, path, e)
  PROVE  e \in Walks /\ e.links \in Nat /\ e.at \in Seq(Names) /\ e.rest \in Seq(Names \cup {Up})
<1>1. e \in Walks
  BY ReachTyped DEF EndsAt
<1> QED  BY <1>1 DEF Walks

(* An end of few links is the one WalkEnd comes to.                        *)
LEMMA WalkIs ==
  ASSUME NEW tree, WellFormed(tree), NEW limit \in Nat, NEW path \in Seq(Names \cup {Up}),
         NEW e, EndsAt(tree, path, e), e.links <= limit
  PROVE  WalkEnd(tree, limit, path) = e
<1> DEFINE s == Start(path)
           w == WalkEnd(tree, limit, path)
<1>1. s \in Walks /\ e \in Walks /\ e \in Reach(tree, s) /\ ~Goes(tree, e) /\ e.links \in Nat
  BY StartTyped, EndTyped DEF EndsAt
<1>2. w \in Reach(tree, s) /\ Halt(tree, limit, w) # "going"
  BY WalkEnds
<1> HIDE DEF s, w
<1>3. w \in Walks
  BY <1>2, ReachTyped
<1>4. CASE ~Goes(tree, w)
  <2>1. w = e
    BY <1>1, <1>2, <1>4, OneEnd
  <2> QED  BY <2>1 DEF w
<1>5. CASE Goes(tree, w)
  <2> DEFINE o == Onward(tree, w)
  <2>1. Head(w.rest) # Up /\ Ahead(tree, w).kind = "link" /\ w.links = limit
    BY <1>2, <1>3, <1>5, HaltIs
  <2>2. e \in Reach(tree, w) /\ e # w
    BY <1>1, <1>2, <1>5, PassedOnTheWay
  <2>3. e \in Reach(tree, o) /\ o \in Walks
    BY <1>3, <1>5, <2>2, FirstStep, OnwardTyped
  <2>4. o.links = limit + 1
    BY <1>3, <2>1, LinkParts
  <2> HIDE DEF o
  <2>5. o.links <= e.links
    BY <2>3, LinksGrow
  <2> QED  BY <1>1, <2>4, <2>5
<1> QED  BY <1>4, <1>5

LEMMA ReachedIs ==
  ASSUME NEW tree, NEW limit, NEW w
  PROVE  /\ Reached(tree, limit, w).kind = Halt(tree, limit, w)
         /\ Reached(tree, limit, w).links = w.links
         /\ Reached(tree, limit, w).at = IF Halt(tree, limit, w) \in {"absent", "missing"}
                                         THEN Append(w.at, Head(w.rest)) ELSE w.at
  BY DEF Reached

LEMMA WalkParts ==
  ASSUME NEW tree, NEW limit, NEW path, NEW e, WalkEnd(tree, limit, path) = e
  PROVE  /\ Walk(tree, limit, path).kind = Halt(tree, limit, e)
         /\ Walk(tree, limit, path).links = e.links
         /\ Walk(tree, limit, path).at = IF Halt(tree, limit, e) \in {"absent", "missing"}
                                         THEN Append(e.at, Head(e.rest)) ELSE e.at
  BY ReachedIs DEF Walk

(* Why a walk ends, with no limit or within one.                            *)
LEMMA EndKinds ==
  ASSUME NEW tree, NEW limit \in Nat, NEW e \in Walks, ~Goes(tree, e)
  PROVE  /\ Halt(tree, limit, e) \in {"there", "error", "absent", "missing"}
         /\ Halt(tree, limit, e) = "there" <=> e.rest = <<>>
         /\ Halt(tree, limit, e) = "error" <=> e.rest # <<>> /\ NodeAt(tree, e.at).kind # "dir"
         /\ Halt(tree, limit, e) = "absent" <=>
              /\ e.rest # <<>> /\ NodeAt(tree, e.at).kind = "dir"
              /\ Head(e.rest) # Up /\ Ahead(tree, e).kind = "none" /\ Len(e.rest) = 1
         /\ Halt(tree, limit, e) = "missing" <=>
              /\ e.rest # <<>> /\ NodeAt(tree, e.at).kind = "dir"
              /\ Head(e.rest) # Up /\ Ahead(tree, e).kind = "none" /\ Len(e.rest) # 1
<1>1. Halt(tree, limit, e) = Halt(tree, -1, e)
  BY HaltIs
<1>2. e.links # -1
  BY DEF Walks
<1> QED  BY <1>1, <1>2 DEF Goes, Halt

LEMMA WalkIsNoLoop ==
  ASSUME NEW tree, WellFormed(tree), NEW limit \in Nat, NEW path \in Seq(Names \cup {Up}),
         Walk(tree, limit, path).kind # "loop"
  PROVE  LET e == WalkEnd(tree, limit, path) IN EndsAt(tree, path, e) /\ e.links <= limit
<1> DEFINE e == WalkEnd(tree, limit, path)
<1>1. e \in Reach(tree, Start(path)) /\ e.links <= limit /\ Halt(tree, limit, e) # "going"
  BY WalkEnds
<1>2. Walk(tree, limit, path).kind = Halt(tree, limit, e)
  BY WalkParts
<1> HIDE DEF e
<1>3. e \in Walks
  BY <1>1, ReachTyped
<1>4. ~Goes(tree, e)
  BY <1>1, <1>2, <1>3, HaltIs
<1> QED  BY <1>1, <1>4 DEF EndsAt, e

LEMMA WalkIsLoop ==
  ASSUME NEW tree, WellFormed(tree), NEW limit \in Nat, NEW path \in Seq(Names \cup {Up}),
         Walk(tree, limit, path).kind = "loop"
  PROVE  WalkEnd(tree, limit, path) \in Reach(tree, Start(path)) /\ WalkEnd(tree, limit, path).links = limit
<1> DEFINE e == WalkEnd(tree, limit, path)
<1>1. e \in Reach(tree, Start(path)) /\ e.links <= limit /\ Halt(tree, limit, e) # "going"
  BY WalkEnds
<1>2. Walk(tree, limit, path).kind = Halt(tree, limit, e)
  BY WalkParts
<1> HIDE DEF e
<1>3. e \in Walks
  BY <1>1, ReachTyped
<1>4. Halt(tree, limit, e) = "loop"
  BY <1>2
<1>5. e.links = limit
  BY <1>1, <1>3, <1>4, HaltIs
<1> QED  BY <1>1, <1>5 DEF e

(* A path of few links leads the file system where it leads.                *)
LEMMA FewLinks ==
  ASSUME NEW tree \in Trees, NEW path \in Paths, NEW e, EndsAt(tree, path, e), e.links <= Farthest
  PROVE  e.links < MaxLinks
<1>1. WellFormed(tree) /\ path \in Seq(Names \cup {Up}) /\ Farthest \in Nat /\ MaxLinks \in Nat
  BY TreesAssumption, NamesAssumption, LinksAssumption DEF Farthest
<1>2. e \in Walks /\ ~Goes(tree, e)
  BY EndTyped DEF EndsAt
<1>3. WalkEnd(tree, Farthest, path) = e
  <2> HIDE DEF Farthest
  <2> QED  BY <1>1, WalkIs
<1>4. Walk(tree, Farthest, path).kind = Halt(tree, Farthest, e) /\ Walk(tree, Farthest, path).links = e.links
  BY <1>3, WalkParts
<1>5. Halt(tree, Farthest, e) # "loop"
  BY <1>1, <1>2, EndKinds
<1> QED  BY <1>4, <1>5, FewLinksAssumption

(* What there is of a path that ends within the limit.                      *)
LEMMA CanonicalIs ==
  ASSUME NEW tree, WellFormed(tree), NEW path \in Seq(Names \cup {Up}),
         NEW e, EndsAt(tree, path, e), e.links <= MaxLinks
  PROVE  /\ Canonical(tree, path).kind = Halt(tree, MaxLinks, e)
         /\ Canonical(tree, path).links = e.links
         /\ Canonical(tree, path).at = IF Halt(tree, MaxLinks, e) \in {"absent", "missing"}
                                       THEN Append(e.at, Head(e.rest)) ELSE e.at
<1>1. MaxLinks \in Nat
  BY LinksAssumption
<1>2. WalkEnd(tree, MaxLinks, path) = e
  BY <1>1, WalkIs
<1> QED  BY <1>2, WalkParts DEF Canonical

LEMMA CanonicalEnd ==
  ASSUME NEW tree, WellFormed(tree), NEW path \in Seq(Names \cup {Up}), Canonical(tree, path).kind # "loop"
  PROVE  LET e == WalkEnd(tree, MaxLinks, path)
         IN  /\ EndsAt(tree, path, e) /\ e.links <= MaxLinks /\ e \in Walks
             /\ Canonical(tree, path).kind = Halt(tree, MaxLinks, e)
             /\ Canonical(tree, path).links = e.links
             /\ Canonical(tree, path).at = IF Halt(tree, MaxLinks, e) \in {"absent", "missing"}
                                           THEN Append(e.at, Head(e.rest)) ELSE e.at
<1>1. MaxLinks \in Nat
  BY LinksAssumption
<1> DEFINE e == WalkEnd(tree, MaxLinks, path)
<1>2. EndsAt(tree, path, e) /\ e.links <= MaxLinks
  BY <1>1, WalkIsNoLoop DEF Canonical
<1> HIDE DEF e
<1>3. e \in Walks
  BY <1>2, EndTyped
<1> QED  BY <1>2, <1>3, CanonicalIs DEF e

(* There: it got to [at, nothing left].                                     *)
LEMMA CanonicalThere ==
  ASSUME NEW tree, WellFormed(tree), NEW path \in Seq(Names \cup {Up}), Canonical(tree, path).kind = "there"
  PROVE  LET e == WalkEnd(tree, MaxLinks, path)
         IN  /\ EndsAt(tree, path, e) /\ e.links <= MaxLinks /\ e \in Walks /\ e.links \in Nat
             /\ e.rest = <<>> /\ Canonical(tree, path).at = e.at /\ e.at \in Seq(Names) /\ Solid(tree, e.at)
<1> DEFINE e == WalkEnd(tree, MaxLinks, path)
<1>1. /\ EndsAt(tree, path, e) /\ e.links <= MaxLinks /\ e \in Walks
      /\ Halt(tree, MaxLinks, e) = "there" /\ Canonical(tree, path).at = e.at
  BY CanonicalEnd
<1> HIDE DEF e
<1>2. e.rest = <<>>
  BY <1>1, EndKinds, LinksAssumption DEF EndsAt
<1>3. Solid(tree, Start(path).at) /\ Start(path) \in Walks
  BY StartTyped, RootIs DEF Solid
<1>4. Solid(tree, e.at)
  BY <1>1, <1>3, LinksGrow DEF EndsAt
<1> QED  BY <1>1, <1>2, <1>4 DEF e, Walks

-----------------------------------------------------------------------------
(* The last name of a path, and the link that may stand there.              *)

LEMMA FrontLast ==
  ASSUME NEW S, NEW x \in Seq(S), x # <<>>
  PROVE  /\ Front(x) \in Seq(S) /\ Last(x) \in S /\ Len(Front(x)) = Len(x) - 1
         /\ SameText(Front(x) \o <<Last(x)>>, x)
<1>1. Len(x) \in Nat /\ Len(x) >= 1 /\ Len(x) \in 1 .. Len(x)
  OBVIOUS
<1>2. Front(x) \in Seq(S) /\ Len(Front(x)) = Len(x) - 1 /\ \A i \in 1 .. Len(x) - 1 : Front(x)[i] = x[i]
  <2>1. Front(x) = SubSeq(x, 1, Len(x) - 1) /\ Len(x) - 1 \in 0 .. Len(x)
    BY <1>1 DEF Front
  <2> DEFINE m == Len(x) - 1
  <2> HIDE DEF m
  <2>2. m \in 0 .. Len(x)
    BY <2>1 DEF m
  <2>3. SubSeq(x, 1, m) \in Seq(S) /\ Len(SubSeq(x, 1, m)) = m /\ \A i \in 1 .. m : SubSeq(x, 1, m)[i] = x[i]
    BY <1>1, <2>2
  <2> QED  BY <2>1, <2>3 DEF m
<1>3. Last(x) = x[Len(x)] /\ Last(x) \in S
  BY <1>1 DEF Last
<1> DEFINE y == Front(x) \o <<Last(x)>>
<1>4. y \in Seq(S) /\ Len(y) = Len(x) /\ \A i \in 1 .. Len(x) : y[i] = x[i]
  <2> DEFINE f == Front(x)
             l == Last(x)
  <2> HIDE DEF f, l
  <2>1. /\ f \o <<l>> \in Seq(S) /\ Len(f \o <<l>>) = Len(f) + 1
        /\ \A i \in 1 .. Len(f) : (f \o <<l>>)[i] = f[i]
        /\ (f \o <<l>>)[Len(f) + 1] = l
    BY <1>2, <1>3 DEF f, l
  <2> QED  BY <1>1, <1>2, <1>3, <2>1 DEF f, l
<1> HIDE DEF y
<1>5. y = x
  BY <1>4, SameTexts
<1> QED  BY <1>2, <1>3, <1>5 DEF SameText, y

LEMMA StartLonger ==
  ASSUME NEW x, NEW y
  PROVE  Longer(Start(x), y) = Start(x \o y)
  BY DEF Longer, Start

LEMMA OneName ==
  ASSUME NEW S, NEW n \in S
  PROVE  /\ <<n>> \in Seq(S) /\ <<n>> # <<>> /\ Head(<<n>>) = n /\ Tail(<<n>>) = <<>> /\ Len(<<n>>) = 1
         /\ <<>> \o <<n>> = <<n>>
  OBVIOUS

LEMMA BeforeLast ==
  ASSUME NEW tree, WellFormed(tree), NEW cur \in Seq(Names \cup {Up}), cur # <<>>,
         NEW f \in Reach(tree, Start(Front(cur)))
  PROVE  Longer(f, <<Last(cur)>>) \in Reach(tree, Start(cur))
<1>1. Front(cur) \in Seq(Names \cup {Up}) /\ Last(cur) \in Names \cup {Up}
      /\ SameText(Front(cur) \o <<Last(cur)>>, cur)
  BY FrontLast
<1>2. <<Last(cur)>> \in Seq(Names \cup {Up}) /\ Start(Front(cur)) \in Walks
  BY <1>1, StartTyped
<1>3. Longer(f, <<Last(cur)>>) \in Reach(tree, Longer(Start(Front(cur)), <<Last(cur)>>))
  BY <1>2, ReachLonger
<1>4. Longer(Start(Front(cur)), <<Last(cur)>>) = Start(cur)
  BY <1>1, StartLonger DEF SameText
<1> QED  BY <1>3, <1>4

(* What stops short of the last name stops the whole path there.            *)
LEMMA StuckBefore ==
  ASSUME NEW tree, NEW f \in Walks, ~Goes(tree, f), f.rest # <<>>, NEW n \in Names \cup {Up}
  PROVE  LET v == Longer(f, <<n>>)
         IN  v \in Walks /\ ~Goes(tree, v) /\ v.rest # <<>> /\ Len(v.rest) # 1
             /\ (NodeAt(tree, v.at).kind = "dir" => Head(v.rest) # Up /\ Ahead(tree, v).kind = "none")
<1> DEFINE v == Longer(f, <<n>>)
           x == <<n>>
<1>1. x \in Seq(Names \cup {Up}) /\ Len(x) = 1
  OBVIOUS
<1>2. v.at = f.at /\ v.rest = f.rest \o x /\ v \in Walks
  BY <1>1, LongerParts, LongerTyped
<1>3. f.rest \in Seq(Names \cup {Up}) /\ Len(f.rest) >= 1 /\ Len(f.rest) \in Nat
  BY DEF Walks
<1> HIDE DEF v, x
<1>4. v.rest # <<>> /\ Head(v.rest) = Head(f.rest)
  BY <1>1, <1>2, <1>3, HeadTail
<1>5. Len(v.rest) = Len(f.rest) + 1
  BY <1>1, <1>2, <1>3, LenOfJoin
<1>6. Ahead(tree, v) = Ahead(tree, f)
  BY <1>2, <1>4 DEF Ahead
<1>7. ~Goes(tree, v) /\ (NodeAt(tree, v.at).kind = "dir" => Head(v.rest) # Up /\ Ahead(tree, v).kind = "none")
  BY <1>2, <1>4, <1>6, GoesIs
<1> QED  BY <1>2, <1>3, <1>4, <1>5, <1>7 DEF v, x

(* All but the last name leads to f.                                        *)
LEMMA AtLast ==
  ASSUME NEW f \in Walks, f.rest = <<>>, NEW n \in Names \cup {Up}
  PROVE  LET v == Longer(f, <<n>>)
         IN  /\ v \in Walks /\ v.at = f.at /\ v.rest = <<n>> /\ v.links = f.links
             /\ Head(v.rest) = n /\ Tail(v.rest) = <<>> /\ v.rest # <<>> /\ Len(v.rest) = 1
<1> DEFINE v == Longer(f, <<n>>)
<1>1. <<n>> \in Seq(Names \cup {Up}) /\ Head(<<n>>) = n /\ Tail(<<n>>) = <<>> /\ <<n>> # <<>> /\ Len(<<n>>) = 1
      /\ <<>> \o <<n>> = <<n>>
  BY OneName
<1>2. v \in Walks /\ v.at = f.at /\ v.rest = f.rest \o <<n>> /\ v.links = f.links
  BY <1>1, LongerTyped, LongerParts
<1>3. v.rest = <<n>>
  BY <1>1, <1>2
<1> HIDE DEF v
<1> QED  BY <1>1, <1>2, <1>3 DEF v

LEMMA EntryIs ==
  ASSUME NEW tree, NEW dir, NEW n
  PROVE  /\ Entry(tree, dir, n).kind # "none" => dir.kind = "there" /\ NodeAt(tree, dir.at).kind = "dir"
         /\ dir.kind = "there" /\ NodeAt(tree, dir.at).kind = "dir" /\ n # Up =>
              Entry(tree, dir, n) = NodeAt(tree, Append(dir.at, n))
         /\ dir.kind = "there" /\ NodeAt(tree, dir.at).kind = "dir" /\ n = Up =>
              Entry(tree, dir, n) = NodeAt(tree, Above(dir.at))
         /\ ~(dir.kind = "there" /\ NodeAt(tree, dir.at).kind = "dir") => Entry(tree, dir, n) = Nothing
  BY DEF Entry, Nothing

LEMMA EndThere ==
  ASSUME NEW tree, WellFormed(tree), NEW path \in Seq(Names \cup {Up}),
         NEW f, EndsAt(tree, path, f), f.rest = <<>>, f.links <= MaxLinks
  PROVE  Canonical(tree, path).kind = "there" /\ Canonical(tree, path).at = f.at
         /\ Canonical(tree, path).links = f.links
<1>1. f \in Walks /\ ~Goes(tree, f)
  BY EndTyped DEF EndsAt
<1>2. Halt(tree, MaxLinks, f) = "there"
  BY <1>1, EndKinds, LinksAssumption
<1> QED  BY <1>2, CanonicalIs

LEMMA LStatIs ==
  ASSUME NEW tree, WellFormed(tree), NEW cur \in Seq(Names \cup {Up}), cur # <<>>,
         NEW f, EndsAt(tree, Front(cur), f), f.rest = <<>>, f.links <= MaxLinks,
         NodeAt(tree, f.at).kind = "dir"
  PROVE  LStat(tree, cur) = NodeAt(tree, IF Last(cur) = Up THEN Above(f.at) ELSE Append(f.at, Last(cur)))
<1>1. Front(cur) \in Seq(Names \cup {Up})
  BY FrontLast
<1>2. Canonical(tree, Front(cur)).kind = "there" /\ Canonical(tree, Front(cur)).at = f.at
  BY <1>1, EndThere
<1>3. LStat(tree, cur) = Entry(tree, Canonical(tree, Front(cur)), Last(cur))
  BY DEF LStat
<1> QED  BY <1>2, <1>3, EntryIs

(* What is there of a path, its last name not followed, stands in a         *)
(* directory.                                                               *)
LEMMA LStatThere ==
  ASSUME NEW tree, WellFormed(tree), NEW cur \in Seq(Names \cup {Up}), cur # <<>>, LStat(tree, cur).kind # "none"
  PROVE  LET f == WalkEnd(tree, MaxLinks, Front(cur))
         IN  /\ EndsAt(tree, Front(cur), f) /\ f \in Walks /\ f.rest = <<>> /\ f.links <= MaxLinks
             /\ NodeAt(tree, f.at).kind = "dir"
<1>1. Front(cur) \in Seq(Names \cup {Up})
  BY FrontLast
<1>2. LStat(tree, cur) = Entry(tree, Canonical(tree, Front(cur)), Last(cur))
  BY DEF LStat
<1>3. Canonical(tree, Front(cur)).kind = "there" /\ NodeAt(tree, Canonical(tree, Front(cur)).at).kind = "dir"
  BY <1>2, EntryIs
<1> QED  BY <1>1, <1>3, CanonicalThere

LinkEnd(f, node) == [at |-> IF node.abs THEN <<>> ELSE f.at, rest |-> node.to, links |-> f.links + 1]

LEMMA LinkEndParts ==
  ASSUME NEW f, NEW node
  PROVE  /\ LinkEnd(f, node).at = (IF node.abs THEN <<>> ELSE f.at)
         /\ LinkEnd(f, node).rest = node.to /\ LinkEnd(f, node).links = f.links + 1
  BY DEF LinkEnd

LEMMA EmptyJoin ==
  ASSUME NEW S, NEW x \in Seq(S)
  PROVE  x \o <<>> = x /\ <<>> \o x = x
  OBVIOUS

(* A link is passed by way of what Followed joins it to.                    *)
LEMMA FollowedIs ==
  ASSUME NEW tree, WellFormed(tree), NEW cur \in Seq(Names \cup {Up}), cur # <<>>,
         NEW f, EndsAt(tree, Front(cur), f), f.rest = <<>>, f.links <= MaxLinks,
         NodeAt(tree, f.at).kind = "dir", Last(cur) # Up,
         NodeAt(tree, Append(f.at, Last(cur))).kind = "link"
  PROVE  LET node == NodeAt(tree, Append(f.at, Last(cur)))
             o == LinkEnd(f, node)
             k == IF node.abs THEN 0 ELSE f.links
         IN  /\ LStat(tree, cur) = node /\ Followed(tree, cur) \in Seq(Names \cup {Up})
             /\ o \in Walks /\ o \in Reach(tree, Start(cur)) /\ o.links = f.links + 1
             /\ k \in Nat /\ k <= f.links /\ Counted(o, k) \in Reach(tree, Start(Followed(tree, cur)))
<1> DEFINE n == Last(cur)
           F == Front(cur)
           node == NodeAt(tree, Append(f.at, n))
           o == LinkEnd(f, node)
           v == Longer(f, <<n>>)
           y == Onward(tree, v)
           k == IF node.abs THEN 0 ELSE f.links
           to == node.to
<1>1. F \in Seq(Names \cup {Up}) /\ n \in Names \cup {Up} /\ f \in Walks /\ f \in Reach(tree, Start(F))
      /\ f.links \in Nat /\ f.at \in Seq(Names)
  BY FrontLast, EndTyped DEF EndsAt
<1>2. LStat(tree, cur) = node
  BY LStatIs
<1>3. to \in Seq(Names \cup {Up})
  BY NodeIs
<1>4. v \in Reach(tree, Start(cur))
  BY <1>1, BeforeLast
<1>5. /\ v \in Walks /\ v.at = f.at /\ v.rest = <<n>> /\ v.links = f.links
      /\ Head(v.rest) = n /\ Tail(v.rest) = <<>> /\ v.rest # <<>>
  BY <1>1, AtLast
<1>6. Ahead(tree, v) = node
  BY <1>5 DEF Ahead
<1>7. node.kind = "link" /\ n # Up /\ NodeAt(tree, f.at).kind = "dir"
  OBVIOUS
<1>8. Followed(tree, cur) = IF node.abs THEN to ELSE F \o to
  BY <1>2, <1>7 DEF Followed, Joined
<1>9. o.at = (IF node.abs THEN <<>> ELSE f.at) /\ o.rest = to /\ o.links = f.links + 1
  BY LinkEndParts
<1> HIDE DEF n, F, node, o, v, y, k, to
<1>10. Goes(tree, v)
  BY <1>5, <1>6, <1>7, GoesIs
<1>11. y \in Walks /\ y \in Reach(tree, Start(cur))
  <2>1. Start(cur) \in Walks
    BY StartTyped
  <2> QED  BY <1>4, <1>5, <1>10, <2>1, OnwardTyped, ReachOnward DEF y
<1>12. o \in Walks
  <2>1. <<>> \in Seq(Names)
    OBVIOUS
  <2>2. o.at \in Seq(Names)
    BY <1>1, <1>9, <2>1
  <2> QED  BY <1>1, <1>3, <1>9, <2>2 DEF Walks, LinkEnd, o, to
<1>13. y = o
  <2>1. y.at = (IF node.abs THEN <<>> ELSE v.at) /\ y.rest = node.to \o Tail(v.rest) /\ y.links = v.links + 1
    BY <1>5, <1>6, <1>7, LinkParts DEF y
  <2>2. node.to \o <<>> = to
    BY <1>3, EmptyJoin DEF to
  <2>3. y.at = o.at /\ y.rest = o.rest /\ y.links = o.links
    BY <1>5, <1>9, <2>1, <2>2
  <2> QED  BY <1>11, <1>12, <2>3, SameWalk
<1>14. k \in Nat /\ k <= f.links
  BY <1>1 DEF k
<1>15. Followed(tree, cur) \in Seq(Names \cup {Up})
  <2>1. F \o to \in Seq(Names \cup {Up})
    BY ONLY <1>1, <1>3, ConcatProperties
  <2> QED  BY <1>3, <1>8, <2>1
<1>16. Counted(o, k) \in Reach(tree, Start(Followed(tree, cur)))
  <2> DEFINE c == Counted(o, k)
  <2>1. c.at = o.at /\ c.rest = o.rest /\ c.links = k
    BY CountedParts
  <2>2. c \in Walks
    BY <1>12, <1>14 DEF Counted, Walks
  <2>3. CASE node.abs
    <3>1. Followed(tree, cur) = to /\ o.at = <<>> /\ k = 0
      BY <1>8, <1>9, <2>3 DEF k
    <3> DEFINE s == Start(to)
    <3>2. s \in Walks /\ s.at = <<>> /\ s.rest = to /\ s.links = 0
      BY <1>3, StartTyped
    <3> HIDE DEF c, s
    <3>3. c = s
      BY <1>9, <2>1, <2>2, <3>1, <3>2, SameWalk
    <3>4. s \in Reach(tree, s)
      BY <3>2, ReachFromHere
    <3> QED  BY <3>1, <3>3, <3>4 DEF c, s
  <2>4. CASE ~node.abs
    <3>1. Followed(tree, cur) = F \o to /\ o.at = f.at /\ k = f.links
      BY <1>8, <1>9, <2>4 DEF k
    <3> DEFINE z == Longer(f, to)
    <3>2. z.at = f.at /\ z.rest = f.rest \o to /\ z.links = f.links /\ z \in Walks
      BY <1>1, <1>3, LongerParts, LongerTyped
    <3>3. f.rest \o to = to
      BY <1>3, EmptyJoin
    <3>4. z \in Reach(tree, Longer(Start(F), to))
      <4>1. Start(F) \in Walks
        BY <1>1, StartTyped
      <4> QED  BY <1>1, <1>3, <4>1, ReachLonger
    <3>5. Longer(Start(F), to) = Start(F \o to)
      BY StartLonger
    <3> HIDE DEF c, z
    <3>6. c = z
      BY <1>9, <2>1, <2>2, <3>1, <3>2, <3>3, SameWalk
    <3> QED  BY <3>1, <3>4, <3>5, <3>6 DEF c
  <2> QED  BY <2>3, <2>4
<1> QED  BY <1>2, <1>9, <1>11, <1>12, <1>13, <1>14, <1>15, <1>16 DEF n, node, o, k

-----------------------------------------------------------------------------
(* The directory a file is to be in.                                        *)

LEMMA RootEnds ==
  ASSUME NEW tree, WellFormed(tree)
  PROVE  /\ EndsAt(tree, <<>>, Start(<<>>)) /\ Canonical(tree, <<>>).kind = "there"
         /\ Canonical(tree, <<>>).at = <<>>
<1> DEFINE s == Start(<<>>)
<1>1. <<>> \in Seq(Names \cup {Up})
  OBVIOUS
<1>2. s \in Walks /\ s.rest = <<>> /\ s.links = 0 /\ s.at = <<>>
  BY <1>1, StartTyped
<1>3. s \in Reach(tree, s)
  BY <1>2, ReachFromHere
<1> HIDE DEF s
<1>4. ~Goes(tree, s)
  BY <1>2, GoesIs
<1>5. EndsAt(tree, <<>>, s)
  BY <1>3, <1>4 DEF EndsAt, s
<1>6. 0 <= MaxLinks
  BY LinksAssumption
<1> QED  BY <1>1, <1>2, <1>5, <1>6, EndThere DEF s

LEMMA LongestPartIs ==
  ASSUME NEW tree, WellFormed(tree), NEW dir \in Seq(Names \cup {Up})
  PROVE  /\ LongestPart(tree, dir) \in 0 .. Len(dir)
         /\ ~Missing(Canonical(tree, Part(dir, LongestPart(tree, dir))))
         /\ \A k \in 0 .. Len(dir) : k > LongestPart(tree, dir) => Missing(Canonical(tree, Part(dir, k)))
<1> DEFINE T == {k \in 0 .. Len(dir) : ~Missing(Canonical(tree, Part(dir, k)))}
           m == LongestPart(tree, dir)
<1>1. m = Max(T)
  BY DEF LongestPart, Part
<1>2. Len(dir) \in Nat
  OBVIOUS
<1>3. IsFiniteSet(0 .. Len(dir))
  BY <1>2, FS_Interval
<1>4. IsFiniteSet(T) /\ T \subseteq Nat
  BY <1>3, FS_Subset
<1>5. 0 \in T
  <2>1. Part(dir, 0) = <<>>
    BY PartsAre
  <2>2. ~Missing(Canonical(tree, <<>>))
    BY RootEnds DEF Missing
  <2> QED  BY <1>2, <2>1, <2>2
<1>6. m \in T /\ \A k \in T : m >= k
  <2> HIDE DEF T
  <2> QED  BY <1>1, <1>4, <1>5, GreatestNat
<1>7. m \in 0 .. Len(dir) /\ ~Missing(Canonical(tree, Part(dir, m)))
  <2> HIDE DEF m
  <2> QED  BY <1>6
<1>8. ASSUME NEW k \in 0 .. Len(dir), k > m PROVE Missing(Canonical(tree, Part(dir, k)))
  <2>1. k \notin T
    <3> HIDE DEF m, T
    <3> QED  BY <1>6, <1>7, <1>8
  <2> QED  BY <2>1
<1> QED  BY <1>7, <1>8

LEMMA ResolveIs ==
  ASSUME NEW tree, NEW dir
  PROVE  LET n == LongestPart(tree, dir)
             real == Canonical(tree, Part(dir, n))
         IN  ResolveDir(tree, dir) =
               IF /\ real.kind = "there"
                  /\ \A k \in n + 1 .. Len(dir) : dir[k] # Up /\ LStat(tree, Part(dir, k)) = Nothing
               THEN real.at \o Rest(dir, n) ELSE NoPlace
  BY DEF ResolveDir, ResolveFrom, Extended, Part, Rest

LEMMA ResolveDirThere ==
  ASSUME NEW tree, WellFormed(tree), NEW dir \in Seq(Names \cup {Up}), Canonical(tree, dir).kind = "there"
  PROVE  ResolveDir(tree, dir) = Canonical(tree, dir).at
<1> DEFINE n == LongestPart(tree, dir)
<1>1. n = Len(dir)
  <2>1. Part(dir, Len(dir)) = dir /\ Len(dir) \in 0 .. Len(dir)
    BY PartsAre
  <2>2. ~Missing(Canonical(tree, dir))
    BY DEF Missing
  <2>3. /\ n \in 0 .. Len(dir)
        /\ \A k \in 0 .. Len(dir) : k > n => Missing(Canonical(tree, Part(dir, k)))
    BY LongestPartIs
  <2> HIDE DEF n
  <2> QED  BY <2>1, <2>2, <2>3
<1>2. Part(dir, n) = dir /\ Rest(dir, n) = <<>>
  BY <1>1, PartsAre
<1>3. Canonical(tree, dir).at \in Seq(Names)
  BY CanonicalThere
<1>4. Canonical(tree, dir).at \o <<>> = Canonical(tree, dir).at
  BY <1>3, EmptyJoin
<1>5. \A k \in n + 1 .. Len(dir) : FALSE
  BY <1>1
<1> HIDE DEF n
<1> QED  BY <1>2, <1>4, <1>5, ResolveIs DEF n

-----------------------------------------------------------------------------
(* Where the file system would take a read, the code takes the write.       *)

Leads(tree, path, at, links) ==
  \E e : /\ EndsAt(tree, path, e) /\ e.links = links
         /\ \/ e.rest = <<>> /\ NodeAt(tree, e.at).kind = "file" /\ at = e.at
            \/ Halt(tree, MaxLinks, e) = "absent" /\ at = Append(e.at, Head(e.rest))

NotLink(tree, cur) == LStat(tree, cur).kind # "link"

LEMMA FollowedStays ==
  ASSUME NEW tree, NEW cur, NotLink(tree, cur)
  PROVE  Followed(tree, cur) = cur
  BY DEF NotLink, Followed, Joined

LEMMA NotNoPlace ==
  ASSUME NEW at \in Seq(Names)
  PROVE  at # NoPlace
<1>1. NoPlace[1] = Up /\ Len(NoPlace) = 1
  BY DEF NoPlace
<1> HIDE DEF Up
<1>2. Len(at) = 1 => at[1] \in Names
  OBVIOUS
<1> QED  BY <1>1, <1>2, NamesAssumption

LEMMA ResolvedName ==
  ASSUME NEW tree, WellFormed(tree), NEW cur \in Seq(Names \cup {Up}), cur # <<>>,
         NEW f, EndsAt(tree, Front(cur), f), f.rest = <<>>, f.links <= MaxLinks, Last(cur) # Up
  PROVE  InResolvedDir(tree, cur) = Append(f.at, Last(cur))
<1>1. Front(cur) \in Seq(Names \cup {Up})
  BY FrontLast
<1>2. ResolveDir(tree, Front(cur)) = f.at
  BY <1>1, EndThere, ResolveDirThere
<1>3. f.at \in Seq(Names)
  BY EndTyped
<1>4. f.at # NoPlace
  BY <1>3, NotNoPlace
<1> QED  BY <1>2, <1>4 DEF InResolvedDir, Within

LEMMA LeafLands ==
  ASSUME NEW tree, WellFormed(tree), NEW cur \in Seq(Names \cup {Up}), NEW at, NEW links \in Nat,
         Leads(tree, cur, at, links), links < MaxLinks
  PROVE  /\ NotLink(tree, cur) => InResolvedDir(tree, cur) = at
         /\ ~NotLink(tree, cur) =>
              /\ Followed(tree, cur) \in Seq(Names \cup {Up})
              /\ \E j \in Nat : j < links /\ Leads(tree, Followed(tree, cur), at, j)
<1>1. PICK e : /\ EndsAt(tree, cur, e) /\ e.links = links
               /\ \/ e.rest = <<>> /\ NodeAt(tree, e.at).kind = "file" /\ at = e.at
                  \/ Halt(tree, MaxLinks, e) = "absent" /\ at = Append(e.at, Head(e.rest))
  BY DEF Leads
<1>2. e \in Walks /\ ~Goes(tree, e) /\ MaxLinks \in Nat /\ Start(cur) \in Walks /\ e \in Reach(tree, Start(cur))
  BY <1>1, EndTyped, LinksAssumption, StartTyped DEF EndsAt
<1>3. cur # <<>>
  <2> SUFFICES ASSUME cur = <<>> PROVE FALSE
    OBVIOUS
  <2>1. Start(<<>>) \in Reach(tree, Start(<<>>)) /\ ~Goes(tree, Start(<<>>))
    BY RootEnds DEF EndsAt
  <2>2. e = Start(<<>>)
    BY <1>2, <2>1, OneEnd
  <2>3. e.rest = <<>> /\ e.at = <<>>
    BY <2>2 DEF Start
  <2>4. Halt(tree, MaxLinks, e) = "there"
    BY <1>2, <2>3, EndKinds
  <2> QED  BY <1>1, <2>3, <2>4, RootIs
<1> DEFINE F == Front(cur)
           n == Last(cur)
           f == WalkEnd(tree, MaxLinks, F)
           v == Longer(f, <<n>>)
           y == Onward(tree, v)
<1>4. F \in Seq(Names \cup {Up}) /\ n \in Names \cup {Up}
  BY <1>3, FrontLast
<1>5. f \in Reach(tree, Start(F)) /\ f.links <= MaxLinks /\ Halt(tree, MaxLinks, f) # "going"
  BY <1>2, <1>4, WalkEnds
<1>6. v \in Reach(tree, Start(cur)) /\ f \in Walks
  <2>1. f \in Reach(tree, Start(F))
    BY <1>5
  <2> HIDE DEF f
  <2> QED  BY <1>3, <2>1, BeforeLast, ReachTyped
<1>7. v.links = f.links /\ v \in Walks
  BY <1>6, LongerParts, ReachTyped
<1> HIDE DEF F, n, f, v, y
<1>8. e \in Reach(tree, v)
  BY <1>2, <1>6, PassedOnTheWay
<1>9. f.links <= links /\ f.links \in Nat /\ f.links < MaxLinks
  <2>1. v.links <= e.links
    BY <1>7, <1>8, LinksGrow
  <2>2. f.links \in Nat
    BY <1>6 DEF Walks
  <2> QED  BY <1>1, <1>2, <1>7, <2>1, <2>2
<1>10. ~Goes(tree, f) /\ EndsAt(tree, F, f)
  <2>1. f.links # MaxLinks
    BY <1>2, <1>9
  <2>2. ~Goes(tree, f)
    BY <1>2, <1>5, <1>6, <2>1, HaltIs
  <2> QED  BY <1>5, <2>2 DEF EndsAt
<1>11. f.rest = <<>>
  <2> SUFFICES ASSUME f.rest # <<>> PROVE FALSE
    OBVIOUS
  <2>1. /\ ~Goes(tree, v) /\ v.rest # <<>> /\ Len(v.rest) # 1
    BY <1>4, <1>6, <1>10, StuckBefore DEF v
  <2>2. v = e
    BY <1>2, <1>6, <2>1, OneEnd
  <2>3. e.rest # <<>> /\ Len(e.rest) # 1
    BY <2>1, <2>2
  <2>4. Halt(tree, MaxLinks, e) # "absent"
    BY <1>2, <2>3, EndKinds
  <2>5. e.rest = <<>> \/ Halt(tree, MaxLinks, e) = "absent"
    BY ONLY <1>1, Zenon
  <2> QED  BY ONLY <2>3, <2>4, <2>5
<1>12. /\ v.at = f.at /\ v.rest = <<n>>
       /\ Head(v.rest) = n /\ Tail(v.rest) = <<>> /\ v.rest # <<>> /\ Len(v.rest) = 1
  BY <1>4, <1>6, <1>11, AtLast DEF v
<1>13. NodeAt(tree, f.at).kind = "dir"
  <2> SUFFICES ASSUME NodeAt(tree, f.at).kind # "dir" PROVE FALSE
    OBVIOUS
  <2>1. ~Goes(tree, v)
    BY <1>7, <1>12, GoesIs
  <2>2. v = e
    BY <1>2, <1>6, <2>1, OneEnd
  <2>3. e.rest # <<>> /\ NodeAt(tree, e.at).kind # "dir"
    BY ONLY <1>12, <2>2, NodeAt(tree, f.at).kind # "dir"
  <2>4. Halt(tree, MaxLinks, e) # "absent"
    BY <1>2, <2>3, EndKinds
  <2>5. e.rest = <<>> \/ Halt(tree, MaxLinks, e) = "absent"
    BY ONLY <1>1, Zenon
  <2> QED  BY ONLY <2>3, <2>4, <2>5
<1> DEFINE node == NodeAt(tree, Append(f.at, n))
<1>14. Ahead(tree, v) = node
  BY <1>12 DEF Ahead
<1> HIDE DEF node
<1>15. n # Up
  <2> SUFFICES ASSUME n = Up PROVE FALSE
    OBVIOUS
  <2>1. Goes(tree, v)
    BY <1>7, <1>12, <1>13, GoesIs
  <2>2. y.at = Above(f.at) /\ y.rest = <<>>
    BY <1>7, <1>12, UpParts DEF y
  <2>3. y \in Walks /\ y \in Reach(tree, Start(cur))
    BY <1>2, <1>6, <1>7, <2>1, OnwardTyped, ReachOnward DEF y
  <2>4. ~Goes(tree, y)
    BY <2>2, <2>3, GoesIs
  <2>5. y = e
    BY <1>2, <2>3, <2>4, OneEnd
  <2>6. NodeAt(tree, e.at).kind = "dir"
    <3>1. NodeAt(tree, f.at).kind # "none"
      BY <1>13
    <3> QED  BY <2>2, <2>5, <3>1, AboveIs
  <2>7. Halt(tree, MaxLinks, e) = "there"
    BY <1>2, <2>2, <2>5, EndKinds
  <2> QED  BY <1>1, <2>6, <2>7
<1>16. LStat(tree, cur) = node
  BY <1>2, <1>3, <1>9, <1>10, <1>11, <1>13, <1>15, LStatIs DEF F, n, node
<1>17. InResolvedDir(tree, cur) = Append(f.at, n)
  BY <1>2, <1>3, <1>9, <1>10, <1>11, <1>15, ResolvedName DEF F, n
<1>18. CASE node.kind = "none"
  <2>1. ~Goes(tree, v)
    BY <1>7, <1>12, <1>14, <1>15, <1>18, GoesIs
  <2>2. v = e
    BY <1>2, <1>6, <2>1, OneEnd
  <2>3. Halt(tree, MaxLinks, e) # "there"
    BY <1>2, <1>12, <2>2, EndKinds
  <2>4. at = Append(f.at, n)
    BY <1>1, <1>12, <2>2
  <2> QED  BY <1>16, <1>17, <1>18, <2>4 DEF NotLink
<1>19. CASE node.kind \in {"dir", "file"}
  <2>1. Goes(tree, v)
    BY <1>7, <1>12, <1>13, <1>14, <1>19, GoesIs
  <2>2. y.at = Append(f.at, n) /\ y.rest = <<>>
    BY <1>7, <1>12, <1>14, <1>15, <1>19, DownParts DEF y
  <2>3. y \in Walks /\ y \in Reach(tree, Start(cur))
    BY <1>2, <1>6, <1>7, <2>1, OnwardTyped, ReachOnward DEF y
  <2>4. ~Goes(tree, y)
    BY <2>2, <2>3, GoesIs
  <2>5. y = e
    BY <1>2, <2>3, <2>4, OneEnd
  <2>6. Halt(tree, MaxLinks, e) = "there"
    BY <1>2, <2>2, <2>5, EndKinds
  <2>7. at = Append(f.at, n)
    BY <1>1, <2>2, <2>5, <2>6
  <2> QED  BY <1>16, <1>17, <1>19, <2>7 DEF NotLink
<1>20. CASE node.kind = "link"
  <2> DEFINE o == LinkEnd(f, node)
             k == IF node.abs THEN 0 ELSE f.links
             G == Followed(tree, cur)
             j == k + (links - (f.links + 1))
             d == Counted(e, j)
  <2>1. /\ G \in Seq(Names \cup {Up}) /\ o \in Walks /\ o \in Reach(tree, Start(cur)) /\ o.links = f.links + 1
        /\ k \in Nat /\ k <= f.links /\ Counted(o, k) \in Reach(tree, Start(G))
    BY <1>3, <1>2, <1>9, <1>10, <1>11, <1>13, <1>15, <1>20, FollowedIs DEF F, n, node
  <2> HIDE DEF o, k, G
  <2>2. e \in Reach(tree, o)
    BY <1>2, <2>1, PassedOnTheWay
  <2>3. links - (f.links + 1) \in Nat /\ d \in Reach(tree, Counted(o, k))
    BY <1>1, <2>1, <2>2, ReachCounted
  <2>4. d \in Reach(tree, Start(G))
    <3>1. Start(G) \in Walks
      BY <2>1, StartTyped
    <3> HIDE DEF d
    <3> QED  BY <2>1, <2>3, <3>1, ReachFurther
  <2>5. d \in Walks /\ d.at = e.at /\ d.rest = e.rest /\ d.links = j
    BY <2>4, ReachTyped, CountedParts
  <2>6. j \in Nat /\ j < links
    BY <1>9, <2>1, <2>3
  <2> HIDE DEF d, j
  <2>7. Ahead(tree, d) = Ahead(tree, e)
    BY <2>5 DEF Ahead
  <2>8. ~Goes(tree, d)
    BY <1>2, <2>5, <2>7, GoesIs
  <2>9. Halt(tree, MaxLinks, e) = "absent" => Halt(tree, MaxLinks, d) = "absent"
    BY <1>2, <2>5, <2>7, <2>8, EndKinds
  <2>10. EndsAt(tree, G, d)
    BY <2>4, <2>8 DEF EndsAt
  <2>11. Leads(tree, G, at, j)
    BY <1>1, <2>5, <2>9, <2>10 DEF Leads
  <2>12. ~NotLink(tree, cur)
    BY <1>16, <1>20 DEF NotLink
  <2> QED  BY <2>1, <2>6, <2>11, <2>12 DEF G
<1>21. node.kind \in {"dir", "file", "link", "none"}
  BY NodeIs DEF node
<1> QED  BY <1>18, <1>19, <1>20, <1>21

FollowedInTurn(tree, path, cur) ==
  /\ cur[0] = path /\ LeafOf(tree, path) = cur[MaxLinks - 1]
  /\ \A i \in Nat : i + 1 <= MaxLinks - 1 => cur[i + 1] = Followed(tree, cur[i])

(* Following the last name, the path still leads where it led, by fewer    *)
(* links each time.                                                        *)
LEMMA LeafSteps ==
  ASSUME NEW tree, NEW path
  PROVE  \E cur : FollowedInTurn(tree, path, cur)
<1> DEFINE last == MaxLinks - 1
           Is(h, n) == h = [i \in 0 .. n |-> IF i = 0 THEN path ELSE Followed(tree, h[i - 1])]
           S == {n \in Nat : \E h : Is(h, n)}
<1>0. last \in Nat
  BY LinksAssumption
<1>1. LeafOf(tree, path) = (CHOOSE h : Is(h, last))[last]
  BY DEF LeafOf
<1> HIDE DEF last
<1>2. 0 \in S
  <2>1. Is([i \in 0 .. 0 |-> path], 0)
    OBVIOUS
  <2> QED  BY <2>1
<1>3. ASSUME NEW n \in Nat, n \in S PROVE n + 1 \in S
  <2>1. PICK h : Is(h, n)
    BY <1>3
  <2> DEFINE next == Followed(tree, h[n])
             g == [i \in 0 .. n + 1 |-> IF i = n + 1 THEN next ELSE h[i]]
  <2>2. ASSUME NEW i \in 0 .. n + 1
        PROVE  g[i] = IF i = 0 THEN path ELSE Followed(tree, g[i - 1])
    <3>1. CASE i = n + 1
      <4>1. g[i] = next /\ i # 0 /\ i - 1 = n /\ g[n] = h[n]
        BY <3>1
      <4> QED  BY <3>1, <4>1
    <3>2. CASE i # n + 1
      <4>1. i \in 0 .. n /\ g[i] = h[i] /\ (i # 0 => i - 1 \in 0 .. n /\ g[i - 1] = h[i - 1])
        BY <3>2
      <4> HIDE DEF g
      <4> QED  BY <2>1, <4>1
    <3> QED  BY <3>1, <3>2
  <2>3. g = [i \in 0 .. n + 1 |-> g[i]]
    OBVIOUS
  <2> HIDE DEF g
  <2>4. Is(g, n + 1)
    BY <2>2, <2>3
  <2> QED  BY <2>4
<1>4. \E h : Is(h, last)
  <2> HIDE DEF S, Is
  <2>1. last \in S
    BY <1>0, <1>2, <1>3, NatInSet
  <2> QED  BY <2>1 DEF S
<1>5. PICK h : Is(h, last) /\ LeafOf(tree, path) = h[last]
  <2> HIDE DEF Is
  <2> QED  BY <1>1, <1>4
<1>6. h[0] = path
  <2>1. 0 \in 0 .. last
    BY <1>0
  <2> QED  BY <1>5, <2>1
<1>7. ASSUME NEW i \in Nat, i + 1 <= last PROVE h[i + 1] = Followed(tree, h[i])
  <2>1. i + 1 \in 0 .. last /\ i + 1 # 0 /\ (i + 1) - 1 = i
    BY <1>0, <1>7
  <2> QED  BY <1>5, <2>1
<1>8. FollowedInTurn(tree, path, h)
  BY <1>5, <1>6, <1>7 DEF last, FollowedInTurn
<1> QED  BY <1>8

(* Where a read of the path goes, and a name may be put, is the place a    *)
(* write of it is given.                                                   *)
LEMMA LeadsTarget ==
  ASSUME NEW tree, WellFormed(tree), NEW path \in Seq(Names \cup {Up}), NEW at, NEW links \in Nat,
         Leads(tree, path, at, links), links < MaxLinks
  PROVE  ResolveWriteTarget(tree, path) = at
<1> DEFINE last == MaxLinks - 1
<1>0. PICK cur : FollowedInTurn(tree, path, cur)
  BY LeafSteps
<1>1. /\ cur[0] = path /\ LeafOf(tree, path) = cur[last]
      /\ \A i \in Nat : i + 1 <= last => cur[i + 1] = Followed(tree, cur[i])
  BY <1>0 DEF FollowedInTurn
<1>2. last \in Nat /\ links <= last
  BY LinksAssumption
<1> HIDE DEF last
<1> DEFINE Settled(c) == NotLink(tree, c) /\ InResolvedDir(tree, c) = at
           Nears(c, i) == c \in Seq(Names \cup {Up}) /\ \E j \in Nat : j + i <= last /\ Leads(tree, c, at, j)
           S == {i \in Nat : i <= last => Settled(cur[i]) \/ Nears(cur[i], i)}
<1>3. 0 \in S
  <2>1. links + 0 <= last
    BY <1>2
  <2> QED  BY <1>1, <2>1
<1>4. ASSUME NEW i \in Nat, i \in S PROVE i + 1 \in S
  <2> DEFINE c == cur[i]
             d == cur[i + 1]
  <2> SUFFICES ASSUME i + 1 <= last PROVE Settled(d) \/ Nears(d, i + 1)
    OBVIOUS
  <2>1. d = Followed(tree, c) /\ (Settled(c) \/ Nears(c, i))
    <3>1. i <= last
      BY <1>2
    <3> HIDE DEF Settled, Nears
    <3> QED  BY <1>1, <1>4, <3>1
  <2> HIDE DEF c, d, S
  <2>2. CASE Settled(c)
    <3>1. d = c
      BY <2>1, <2>2, FollowedStays
    <3> QED  BY <2>2, <3>1
  <2>3. CASE Nears(c, i)
    <3>1. PICK j \in Nat : j + i <= last /\ Leads(tree, c, at, j)
      BY <2>3
    <3>2. j < MaxLinks /\ c \in Seq(Names \cup {Up})
      BY <2>3, <3>1, LinksAssumption DEF last
    <3>3. CASE NotLink(tree, c)
      <4>1. d = c /\ InResolvedDir(tree, c) = at
        BY <2>1, <3>1, <3>2, <3>3, FollowedStays, LeafLands
      <4> QED  BY <3>3, <4>1
    <3>4. CASE ~NotLink(tree, c)
      <4>1. d \in Seq(Names \cup {Up}) /\ \E k \in Nat : k < j /\ Leads(tree, d, at, k)
        BY <2>1, <3>1, <3>2, <3>4, LeafLands
      <4>2. PICK k \in Nat : k < j /\ Leads(tree, d, at, k)
        BY <4>1
      <4>3. k + (i + 1) <= last
        BY <1>2, <3>1, <4>2
      <4>4. Nears(d, i + 1)
        BY <4>1, <4>2, <4>3
      <4> QED  BY <4>4
    <3> QED  BY <3>3, <3>4
  <2> QED  BY <2>1, <2>2, <2>3
<1>5. last \in S
  <2> HIDE DEF S
  <2> QED  BY <1>2, <1>3, <1>4, NatInSet
<1> DEFINE leaf == cur[last]
<1>6. Settled(leaf) \/ Nears(leaf, last)
  <2> HIDE DEF Settled, Nears
  <2> QED  BY <1>2, <1>5
<1> HIDE DEF leaf
<1>7. Settled(leaf)
  <2> SUFFICES ASSUME Nears(leaf, last) PROVE Settled(leaf)
    BY <1>6
  <2>1. PICK j \in Nat : j + last <= last /\ Leads(tree, leaf, at, j)
    OBVIOUS
  <2>2. j = 0 /\ leaf \in Seq(Names \cup {Up}) /\ j < MaxLinks
    BY <1>2, <2>1, LinksAssumption
  <2>3. ~NotLink(tree, leaf) => \E k \in Nat : k < j
    BY <2>1, <2>2, LeafLands
  <2>4. NotLink(tree, leaf)
    BY <2>2, <2>3
  <2>5. InResolvedDir(tree, leaf) = at
    BY <2>1, <2>2, <2>4, LeafLands
  <2> QED  BY <2>4, <2>5
<1>8. LeafTarget(tree, leaf) = at
  BY <1>7 DEF LeafTarget, NotLink
<1>9. ResolveWriteTarget(tree, path) = LeafTarget(tree, leaf)
  BY <1>1 DEF ResolveWriteTarget, leaf
<1> QED  BY <1>8, <1>9

-----------------------------------------------------------------------------
(* A tree a file is put in, and the directories made for it.                *)

LEMMA AbovePart ==
  ASSUME NEW S, NEW d \in Seq(S), NEW i \in Nat, i < Len(d)
  PROVE  /\ Part(d, i + 1) \in Seq(S) /\ Part(d, i + 1) # <<>>
         /\ Front(Part(d, i + 1)) = Part(d, i)
<1> DEFINE x == Part(d, i + 1)
           y == Front(x)
           z == Part(d, i)
<1>1. Len(d) \in Nat /\ i + 1 \in 0 .. Len(d) /\ i \in 0 .. Len(d)
  OBVIOUS
<1>2. x \in Seq(S) /\ Len(x) = i + 1 /\ \A j \in 1 .. i + 1 : x[j] = d[j]
  BY <1>1 DEF Part
<1>3. z \in Seq(S) /\ Len(z) = i /\ \A j \in 1 .. i : z[j] = d[j]
  BY <1>1 DEF Part
<1> HIDE DEF x, z
<1>4. y \in Seq(S) /\ Len(y) = i /\ \A j \in 1 .. i : y[j] = x[j]
  <2>1. y = SubSeq(x, 1, i)
    BY <1>2 DEF Front
  <2>2. SubSeq(x, 1, i) \in Seq(S) /\ Len(SubSeq(x, 1, i)) = i /\ \A j \in 1 .. i : SubSeq(x, 1, i)[j] = x[j]
    BY <1>2
  <2> QED  BY <2>1, <2>2
<1> HIDE DEF y
<1>5. y = z
  <2>1. \A j \in 1 .. i : y[j] = z[j]
    BY <1>2, <1>3, <1>4
  <2> QED  BY <1>3, <1>4, <2>1, SameTexts
<1>6. x # <<>>
  BY <1>2
<1> QED  BY <1>2, <1>5, <1>6 DEF x, y, z

LEMMA PartOfPart ==
  ASSUME NEW S, NEW d \in Seq(S), NEW j \in 0 .. Len(d), NEW i \in 0 .. j
  PROVE  Part(Part(d, j), i) = Part(d, i)
<1> DEFINE x == Part(d, j)
           y == Part(x, i)
           z == Part(d, i)
<1>1. Len(d) \in Nat /\ j \in Nat /\ i \in 0 .. Len(d)
  OBVIOUS
<1>2. x \in Seq(S) /\ Len(x) = j /\ \A k \in 1 .. j : x[k] = d[k]
  BY <1>1 DEF Part
<1>3. z \in Seq(S) /\ Len(z) = i /\ \A k \in 1 .. i : z[k] = d[k]
  BY <1>1 DEF Part
<1> HIDE DEF x, z
<1>4. y \in Seq(S) /\ Len(y) = i /\ \A k \in 1 .. i : y[k] = x[k]
  BY <1>1, <1>2 DEF Part
<1> HIDE DEF y
<1>5. \A k \in 1 .. i : y[k] = z[k]
  BY <1>1, <1>2, <1>3, <1>4
<1>6. y = z
  BY <1>3, <1>4, <1>5, SameTexts
<1> QED  BY <1>6 DEF x, y, z

LEMMA PartsThere ==
  ASSUME NEW tree, WellFormed(tree), NEW d \in Seq(Names), NodeAt(tree, d).kind # "none"
  PROVE  \A i \in 0 .. Len(d) : NodeAt(tree, Part(d, i)).kind # "none" /\ (i < Len(d) => NodeAt(tree, Part(d, i)).kind = "dir")
<1> DEFINE n == Len(d)
           S == {j \in Nat : j <= n => NodeAt(tree, Part(d, n - j)).kind # "none"
                                       /\ (j > 0 => NodeAt(tree, Part(d, n - j)).kind = "dir")}
<1>1. n \in Nat /\ Part(d, n) = d
  BY PartsAre
<1> HIDE DEF n
<1>2. 0 \in S
  <2>1. n - 0 = n
    BY <1>1
  <2> QED  BY <1>1, <2>1
<1>3. ASSUME NEW j \in Nat, j \in S PROVE j + 1 \in S
  <2> SUFFICES ASSUME j + 1 <= n
               PROVE  NodeAt(tree, Part(d, n - (j + 1))).kind = "dir"
    BY <1>1
  <2> DEFINE i == n - (j + 1)
  <2>1. i \in Nat /\ i < n /\ i + 1 = n - j /\ j <= n
    BY <1>1
  <2> HIDE DEF i
  <2>2. NodeAt(tree, Part(d, i + 1)).kind # "none"
    BY <1>3, <2>1
  <2>3. Part(d, i + 1) # <<>> /\ Front(Part(d, i + 1)) = Part(d, i)
    BY <2>1, AbovePart DEF n
  <2>4. Above(Part(d, i + 1)) = Part(d, i)
    BY <2>3 DEF Above
  <2>5. NodeAt(tree, Part(d, i)).kind = "dir"
    BY <2>2, <2>4, AboveIs
  <2> QED  BY <2>5 DEF i
<1>4. \A j \in Nat : j \in S
  <2> HIDE DEF S
  <2> QED  BY <1>2, <1>3, NatInSet
<1>5. ASSUME NEW i \in 0 .. n
      PROVE  NodeAt(tree, Part(d, i)).kind # "none" /\ (i < n => NodeAt(tree, Part(d, i)).kind = "dir")
  <2>1. n - i \in Nat /\ n - (n - i) = i /\ n - i <= n /\ (i < n => n - i > 0)
    BY <1>1
  <2>2. n - i \in S
    <3> HIDE DEF S
    <3> QED  BY <1>4, <2>1
  <2> QED  BY <2>1, <2>2
<1> QED  BY <1>5 DEF n

Clear(tree, d) == \A i \in 0 .. Len(d) : NodeAt(tree, Part(d, i)).kind \in {"dir", "none"}

LEMMA NothingIs ==
  ASSUME NEW tree, WellFormed(tree), NEW p
  PROVE  NodeAt(tree, p) = Nothing <=> NodeAt(tree, p).kind = "none"
<1>1. CASE p = <<>>
  BY <1>1 DEF NodeAt, Nothing, Dir
<1>2. CASE p # <<>> /\ p \in DOMAIN tree
  <2>1. NodeAt(tree, p) = tree[p] /\ tree[p].kind \in {"dir", "file", "link"}
    BY <1>2 DEF NodeAt, WellFormed
  <2>2. Nothing.kind = "none"
    BY DEF Nothing
  <2> QED  BY <2>1, <2>2
<1>3. CASE p # <<>> /\ p \notin DOMAIN tree
  BY <1>3 DEF NodeAt, Nothing
<1> QED  BY <1>1, <1>2, <1>3

New(tree, d) == {p \in Prefixes(d) : NodeAt(tree, p) = Nothing}
Made(tree, d, mode, more) ==
  /\ more = [p \in DOMAIN tree \cup New(tree, d) |-> IF p \in DOMAIN tree THEN tree[p] ELSE Dir(mode)]
  /\ DOMAIN more = DOMAIN tree \cup New(tree, d)
  /\ \A p \in DOMAIN tree : more[p] = tree[p]
  /\ \A p \in New(tree, d) : more[p] = Dir(mode)
DirMode(tree, d) == IF d \in {Private, ResolveDir(tree, Private)} THEN "0700" ELSE "umask"

LEMMA NewIs ==
  ASSUME NEW tree, WellFormed(tree), NEW d \in Seq(Names)
  PROVE  LET new == New(tree, d)
         IN  /\ IsFiniteSet(new) /\ <<>> \notin new
             /\ \A p \in new : p \notin DOMAIN tree /\ \E i \in 0 .. Len(d) : p = Part(d, i)
             /\ \A i \in 0 .. Len(d) : NodeAt(tree, Part(d, i)).kind = "none" => Part(d, i) \in new
<1> DEFINE P == Prefixes(d)
           new == New(tree, d)
           f == [i \in 0 .. Len(d) |-> Part(d, i)]
<1>1. P = {Part(d, i) : i \in 0 .. Len(d)}
  BY DEF Prefixes, Part
<1>2. IsFiniteSet(0 .. Len(d))
  <2>1. Len(d) \in Nat
    OBVIOUS
  <2> QED  BY <2>1, FS_Interval
<1>3. f \in Surjection(0 .. Len(d), P)
  BY <1>1 DEF Surjection
<1>4. IsFiniteSet(new)
  <2> HIDE DEF P
  <2>1. IsFiniteSet(P)
    BY <1>2, <1>3, FS_Surjection
  <2> QED  BY <2>1, FS_Subset DEF New, P
<1>5. \A p \in new : p \notin DOMAIN tree /\ \E i \in 0 .. Len(d) : p = Part(d, i)
  <2> SUFFICES ASSUME NEW p \in new PROVE p \notin DOMAIN tree /\ \E i \in 0 .. Len(d) : p = Part(d, i)
    OBVIOUS
  <2>1. NodeAt(tree, p).kind = "none" /\ p \in P
    BY NothingIs DEF New
  <2>2. p \notin DOMAIN tree
    BY <2>1, NodeIs
  <2> QED  BY <1>1, <2>1, <2>2
<1>6. <<>> \notin new
  BY RootIs, NothingIs DEF New
<1>7. ASSUME NEW i \in 0 .. Len(d), NodeAt(tree, Part(d, i)).kind = "none" PROVE Part(d, i) \in new
  BY <1>1, <1>7, NothingIs DEF New
<1> QED  BY <1>4, <1>5, <1>6, <1>7

LEMMA MadeIs ==
  ASSUME NEW tree, WellFormed(tree), NEW d \in Seq(Names)
  PROVE  Made(tree, d, DirMode(tree, d), EnsureParent(tree, d))
<1> DEFINE new == New(tree, d)
           mode == DirMode(tree, d)
           made == [p \in DOMAIN tree \cup new |-> IF p \in DOMAIN tree THEN tree[p] ELSE Dir(mode)]
<1>1. EnsureParent(tree, d) = made
  BY DEF EnsureParent, New, DirMode
<1>2. \A p \in new : p \notin DOMAIN tree
  BY NewIs
<1> HIDE DEF new, mode
<1>3. /\ DOMAIN made = DOMAIN tree \cup new /\ \A p \in DOMAIN tree : made[p] = tree[p]
      /\ \A p \in new : made[p] = Dir(mode)
  BY <1>2
<1> QED  BY <1>1, <1>3 DEF new, mode, Made

LEMMA DirIs ==
  ASSUME NEW mode
  PROVE  Dir(mode).kind = "dir" /\ Dir(mode).trusted = TRUE
  BY DEF Dir

LEMMA FileIs ==
  ASSUME NEW data, NEW mode
  PROVE  File(data, mode).kind = "file" /\ File(data, mode).data = data
  BY DEF File

LEMMA EnsureIs ==
  ASSUME NEW tree, WellFormed(tree), NEW d \in Seq(Names), Clear(tree, d)
  PROVE  LET more == EnsureParent(tree, d)
         IN  /\ WellFormed(more) /\ Grown(tree, more)
             /\ \A i \in 0 .. Len(d) : NodeAt(more, Part(d, i)).kind = "dir"
<1> DEFINE new == New(tree, d)
           more == EnsureParent(tree, d)
           mode == DirMode(tree, d)
<1>1. /\ more = [p \in DOMAIN tree \cup new |-> IF p \in DOMAIN tree THEN tree[p] ELSE Dir(mode)]
      /\ DOMAIN more = DOMAIN tree \cup new
      /\ \A p \in DOMAIN tree : more[p] = tree[p]
      /\ \A p \in new : more[p] = Dir(mode)
  BY MadeIs DEF Made
<1>2. /\ IsFiniteSet(new) /\ <<>> \notin new
      /\ \A p \in new : p \notin DOMAIN tree /\ \E i \in 0 .. Len(d) : p = Part(d, i)
      /\ \A i \in 0 .. Len(d) : NodeAt(tree, Part(d, i)).kind = "none" => Part(d, i) \in new
  BY NewIs
<1> HIDE DEF new, more, mode
<1>3. \A p : NodeAt(tree, p).kind # "none" => NodeAt(more, p) = NodeAt(tree, p)
  <2> SUFFICES ASSUME NEW p, NodeAt(tree, p).kind # "none" PROVE NodeAt(more, p) = NodeAt(tree, p)
    OBVIOUS
  <2>1. CASE p = <<>>
    BY <2>1 DEF NodeAt
  <2>2. CASE p # <<>>
    <3>1. p \in DOMAIN tree /\ NodeAt(tree, p) = tree[p]
      BY <2>2, NodeIs
    <3> QED  BY <1>1, <2>2, <3>1 DEF NodeAt
  <2> QED  BY <2>1, <2>2
<1>4. Grown(tree, more)
  BY <1>3 DEF Grown
<1>5. ASSUME NEW i \in 0 .. Len(d) PROVE NodeAt(more, Part(d, i)).kind = "dir"
  <2>1. NodeAt(tree, Part(d, i)).kind \in {"dir", "none"}
    BY DEF Clear
  <2>2. CASE NodeAt(tree, Part(d, i)).kind = "none"
    <3>1. Part(d, i) \in new /\ Part(d, i) # <<>>
      BY <1>2, <2>2
    <3>2. NodeAt(more, Part(d, i)) = Dir(mode)
      BY <1>1, <3>1 DEF NodeAt
    <3> QED  BY <3>2, DirIs
  <2>3. CASE NodeAt(tree, Part(d, i)).kind = "dir"
    BY <1>3, <2>3
  <2> QED  BY <2>1, <2>2, <2>3
<1>6. IsFiniteSet(DOMAIN more) /\ more = [p \in DOMAIN more |-> more[p]]
  <2>1. IsFiniteSet(DOMAIN tree)
    BY DEF WellFormed
  <2>2. IsFiniteSet(DOMAIN tree \cup new)
    BY <1>2, <2>1, FS_Union
  <2>3. more = [p \in DOMAIN more |-> more[p]]
    BY <1>1
  <2> QED  BY <1>1, <2>2, <2>3
<1>7. ASSUME NEW p \in DOMAIN more
      PROVE  /\ p \in Seq(Names) /\ p # <<>> /\ NodeAt(more, Front(p)).kind = "dir"
             /\ more[p].kind \in {"dir", "file", "link"}
             /\ more[p].kind = "link" => p \in LinksOf(tree) /\ more[p] = tree[p]
  <2>1. CASE p \in DOMAIN tree
    <3>1. /\ p \in Seq(Names) /\ p # <<>> /\ NodeAt(tree, Front(p)).kind = "dir"
          /\ tree[p].kind \in {"dir", "file", "link"}
      BY <2>1 DEF WellFormed
    <3>2. NodeAt(more, Front(p)).kind = "dir"
      BY <1>3, <3>1
    <3> QED  BY <1>1, <2>1, <3>1, <3>2 DEF LinksOf
  <2>2. CASE p \in new
    <3>1. more[p].kind = "dir"
      BY <1>1, <2>2, DirIs
    <3>2. PICK i \in 0 .. Len(d) : p = Part(d, i)
      BY <1>2, <2>2
    <3>3. i # 0
      <4>1. Part(d, 0) = <<>>
        BY PartsAre
      <4> QED  BY <1>2, <2>2, <3>2, <4>1
    <3> DEFINE j == i - 1
    <3>4. j \in Nat /\ j < Len(d) /\ i = j + 1 /\ j \in 0 .. Len(d)
      BY <3>3
    <3> HIDE DEF j
    <3>5. p \in Seq(Names) /\ p # <<>> /\ Front(p) = Part(d, j)
      BY <3>2, <3>4, AbovePart
    <3>6. NodeAt(more, Front(p)).kind = "dir"
      BY <1>5, <3>4, <3>5
    <3> QED  BY <3>1, <3>5, <3>6
  <2> QED  BY <1>1, <2>1, <2>2
<1>8. \A p \in LinksOf(more) : more[p].to \in Seq(Names \cup {Up})
  <2> SUFFICES ASSUME NEW p \in LinksOf(more) PROVE more[p].to \in Seq(Names \cup {Up})
    OBVIOUS
  <2>1. p \in DOMAIN more /\ more[p].kind = "link"
    BY DEF LinksOf
  <2>2. p \in LinksOf(tree) /\ more[p] = tree[p]
    BY <1>7, <2>1
  <2> QED  BY <2>2 DEF WellFormed
<1>9. WellFormed(more)
  BY <1>6, <1>7, <1>8 DEF WellFormed
<1> QED  BY <1>4, <1>5, <1>9 DEF more

LEMMA EnsureThere ==
  ASSUME NEW tree, WellFormed(tree), NEW d \in Seq(Names), NodeAt(tree, d).kind # "none"
  PROVE  EnsureParent(tree, d) = tree
<1> DEFINE new == New(tree, d)
           more == EnsureParent(tree, d)
           mode == DirMode(tree, d)
<1>1. more = [p \in DOMAIN tree \cup new |-> IF p \in DOMAIN tree THEN tree[p] ELSE Dir(mode)]
  BY MadeIs DEF Made
<1> HIDE DEF mode
<1>2. new = {}
  <2> SUFFICES ASSUME NEW p \in new PROVE FALSE
    OBVIOUS
  <2>1. \E i \in 0 .. Len(d) : p = Part(d, i)
    BY NewIs
  <2>2. PICK i \in 0 .. Len(d) : p = Part(d, i)
    BY <2>1
  <2>3. NodeAt(tree, p).kind = "none"
    BY NothingIs DEF New
  <2> QED  BY <2>2, <2>3, PartsThere
<1> HIDE DEF new
<1>3. tree = [p \in DOMAIN tree |-> tree[p]]
  BY DEF WellFormed
<1>4. more = [p \in DOMAIN tree |-> tree[p]]
  BY <1>1, <1>2
<1> QED  BY <1>3, <1>4

IsPut(tree, at, node, more) ==
  /\ DOMAIN more = DOMAIN tree \cup {at} /\ more = [p \in DOMAIN more |-> more[p]]
  /\ more[at] = node /\ NodeAt(more, at) = node
  /\ \A p \in DOMAIN tree \ {at} : more[p] = tree[p]
  /\ \A p : p # at => NodeAt(more, p) = NodeAt(tree, p)

LEMMA PutIs ==
  ASSUME NEW tree, NEW at, at # <<>>, NEW node
  PROVE  IsPut(tree, at, node, Put(tree, at, node))
<1> DEFINE more == Put(tree, at, node)
<1>1. more = [p \in DOMAIN tree \cup {at} |-> IF p = at THEN node ELSE tree[p]]
  BY DEF Put
<1>2. /\ DOMAIN more = DOMAIN tree \cup {at} /\ more = [p \in DOMAIN more |-> more[p]]
      /\ more[at] = node
      /\ \A p \in DOMAIN tree \ {at} : more[p] = tree[p]
  BY <1>1
<1> HIDE DEF more
<1>3. NodeAt(more, at) = node /\ \A p : p # at => NodeAt(more, p) = NodeAt(tree, p)
  BY <1>2 DEF NodeAt
<1> QED  BY <1>2, <1>3 DEF more, IsPut

(* What EnsureParent and a rename make of a tree is a tree.                *)
LEMMA PutWell ==
  ASSUME NEW tree, WellFormed(tree), NEW at \in Seq(Names), at # <<>>, NodeAt(tree, Front(at)).kind = "dir",
         NodeAt(tree, at).kind # "dir", NEW node, node.kind = "file"
  PROVE  /\ WellFormed(Put(tree, at, node))
         /\ NodeAt(tree, at).kind # "link" => Grown(tree, Put(tree, at, node))
<1> DEFINE more == Put(tree, at, node)
<1>0. IsPut(tree, at, node, more)
  BY PutIs
<1> HIDE DEF more
<1>1. /\ DOMAIN more = DOMAIN tree \cup {at} /\ more = [p \in DOMAIN more |-> more[p]]
      /\ more[at] = node /\ NodeAt(more, at) = node
      /\ \A p \in DOMAIN tree \ {at} : more[p] = tree[p]
      /\ \A p : p # at => NodeAt(more, p) = NodeAt(tree, p)
  BY <1>0 DEF IsPut
<1>2. IsFiniteSet(DOMAIN more)
  <2>1. IsFiniteSet(DOMAIN tree)
    BY DEF WellFormed
  <2>2. IsFiniteSet(DOMAIN tree \cup {at})
    BY <2>1, FS_AddElement
  <2> QED  BY <1>1, <2>2
<1>3. ASSUME NEW p \in DOMAIN more
      PROVE  /\ p \in Seq(Names) /\ p # <<>> /\ NodeAt(tree, Front(p)).kind = "dir"
             /\ more[p].kind \in {"dir", "file", "link"}
             /\ more[p].kind = "link" => p \in LinksOf(tree) /\ more[p] = tree[p]
  <2>1. CASE p = at
    BY <1>1, <2>1
  <2>2. CASE p # at
    <3>1. p \in DOMAIN tree /\ more[p] = tree[p]
      BY <1>1, <2>2
    <3>2. /\ p \in Seq(Names) /\ p # <<>> /\ NodeAt(tree, Front(p)).kind = "dir"
          /\ tree[p].kind \in {"dir", "file", "link"}
      BY <3>1 DEF WellFormed
    <3> QED  BY <3>1, <3>2 DEF LinksOf
  <2> QED  BY <2>1, <2>2
<1>4. ASSUME NEW p \in DOMAIN more PROVE NodeAt(more, Front(p)).kind = "dir"
  <2>1. NodeAt(tree, Front(p)).kind = "dir"
    BY <1>3
  <2>2. Front(p) # at
    BY <2>1
  <2> QED  BY <1>1, <2>1, <2>2
<1>5. \A p \in LinksOf(more) : more[p].to \in Seq(Names \cup {Up})
  <2> SUFFICES ASSUME NEW p \in LinksOf(more) PROVE more[p].to \in Seq(Names \cup {Up})
    OBVIOUS
  <2>1. p \in DOMAIN more /\ more[p].kind = "link"
    BY DEF LinksOf
  <2>2. p \in LinksOf(tree) /\ more[p] = tree[p]
    BY <1>3, <2>1
  <2> QED  BY <2>2 DEF WellFormed
<1>6. WellFormed(more)
  BY <1>1, <1>2, <1>3, <1>4, <1>5 DEF WellFormed
<1>7. NodeAt(tree, at).kind # "link" => Grown(tree, more)
  <2> SUFFICES ASSUME NodeAt(tree, at).kind # "link", NEW p, NodeAt(tree, p).kind # "none"
               PROVE  /\ NodeAt(more, p).kind = NodeAt(tree, p).kind
                      /\ NodeAt(tree, p).kind = "link" => NodeAt(more, p) = NodeAt(tree, p)
    BY DEF Grown
  <2>1. NodeAt(tree, p).kind \in {"dir", "file", "link", "none"}
    BY NodeIs
  <2> QED  BY <1>1, <2>1
<1> QED  BY <1>6, <1>7 DEF more

LEMMA GrownTwice ==
  ASSUME NEW tree, NEW more, NEW most, Grown(tree, more), Grown(more, most)
  PROVE  Grown(tree, most)
<1> SUFFICES ASSUME NEW p, NodeAt(tree, p).kind # "none"
             PROVE  /\ NodeAt(most, p).kind = NodeAt(tree, p).kind
                    /\ NodeAt(tree, p).kind = "link" => NodeAt(most, p) = NodeAt(tree, p)
  BY DEF Grown
<1>1. /\ NodeAt(more, p).kind = NodeAt(tree, p).kind
      /\ NodeAt(tree, p).kind = "link" => NodeAt(more, p) = NodeAt(tree, p)
  BY DEF Grown
<1>2. /\ NodeAt(most, p).kind = NodeAt(more, p).kind
      /\ NodeAt(more, p).kind = "link" => NodeAt(most, p) = NodeAt(more, p)
  BY <1>1 DEF Grown
<1> QED  BY <1>1, <1>2

-----------------------------------------------------------------------------
(* Where the code takes a write, the file system takes the next read.       *)

LEMMA JoinIs ==
  ASSUME NEW S, NEW x \in Seq(S), NEW y \in Seq(S)
  PROVE  /\ x \o y \in Seq(S) /\ Len(x \o y) = Len(x) + Len(y)
         /\ \A i \in 1 .. Len(x) : (x \o y)[i] = x[i]
         /\ \A i \in 1 .. Len(y) : (x \o y)[Len(x) + i] = y[i]
  OBVIOUS

LEMMA PartOfJoin ==
  ASSUME NEW S, NEW x \in Seq(S), NEW y \in Seq(S)
  PROVE  /\ x \o y \in Seq(S) /\ Len(x \o y) = Len(x) + Len(y)
         /\ \A i \in 0 .. Len(y) : SameText(Part(x \o y, Len(x) + i), x \o Part(y, i))
         /\ \A i \in 0 .. Len(x) : Part(x \o y, i) = Part(x, i)
<1> DEFINE d == x \o y
<1>1. /\ d \in Seq(S) /\ Len(d) = Len(x) + Len(y) /\ Len(x) \in Nat /\ Len(y) \in Nat
      /\ \A i \in 1 .. Len(x) : d[i] = x[i]
      /\ \A i \in 1 .. Len(y) : d[Len(x) + i] = y[i]
  OBVIOUS
<1> HIDE DEF d
<1>2. ASSUME NEW i \in 0 .. Len(y) PROVE SameText(Part(d, Len(x) + i), x \o Part(y, i))
  <2> DEFINE p == Part(d, Len(x) + i)
             q == Part(y, i)
             r == x \o q
  <2>1. Len(x) + i \in 0 .. Len(d)
    BY <1>1
  <2>2. p \in Seq(S) /\ Len(p) = Len(x) + i /\ \A j \in 1 .. Len(x) + i : p[j] = d[j]
    BY <1>1, <2>1 DEF Part
  <2>3. q \in Seq(S) /\ Len(q) = i /\ \A j \in 1 .. i : q[j] = y[j]
    BY <1>1 DEF Part
  <2> HIDE DEF p, q
  <2>4. /\ r \in Seq(S) /\ Len(r) = Len(x) + i
        /\ \A j \in 1 .. Len(x) : r[j] = x[j]
        /\ \A j \in 1 .. i : r[Len(x) + j] = q[j]
    <3>1. /\ x \o q \in Seq(S) /\ Len(x \o q) = Len(x) + Len(q)
          /\ \A j \in 1 .. Len(x) : (x \o q)[j] = x[j]
          /\ \A j \in 1 .. Len(q) : (x \o q)[Len(x) + j] = q[j]
      <4>1. q \in Seq(S)
        BY <2>3
      <4> QED  BY ONLY x \in Seq(S), <4>1, JoinIs
    <3> HIDE DEF r
    <3> QED  BY <2>3, <3>1 DEF r
  <2> HIDE DEF r
  <2>5. ASSUME NEW j \in 1 .. Len(x) + i PROVE p[j] = r[j]
    <3>1. CASE j <= Len(x)
      <4>1. j \in 1 .. Len(x)
        BY <1>1, <3>1
      <4> QED  BY <1>1, <2>2, <2>4, <4>1
    <3>2. CASE j > Len(x)
      <4> DEFINE k == j - Len(x)
      <4>1. k \in 1 .. i /\ k \in 1 .. Len(y) /\ j = Len(x) + k
        BY <1>1, <3>2
      <4> HIDE DEF k
      <4>2. p[j] = d[j] /\ d[j] = y[k]
        BY <1>1, <2>2, <4>1
      <4>3. r[j] = q[k] /\ q[k] = y[k]
        BY <2>3, <2>4, <4>1
      <4> QED  BY <4>2, <4>3
    <3>3. j <= Len(x) \/ j > Len(x)
      BY <1>1
    <3> QED  BY <3>1, <3>2, <3>3
  <2>6. p = r
    BY <2>2, <2>4, <2>5, SameTexts
  <2> QED  BY <2>6 DEF SameText, p, q, r
<1>3. ASSUME NEW i \in 0 .. Len(x) PROVE Part(d, i) = Part(x, i)
  <2> DEFINE p == Part(d, i)
             q == Part(x, i)
  <2>1. i \in 0 .. Len(d)
    BY <1>1
  <2>2. p \in Seq(S) /\ Len(p) = i /\ \A j \in 1 .. i : p[j] = d[j]
    BY <1>1, <2>1 DEF Part
  <2>3. q \in Seq(S) /\ Len(q) = i /\ \A j \in 1 .. i : q[j] = x[j]
    BY <1>1 DEF Part
  <2> HIDE DEF p, q
  <2>4. ASSUME NEW j \in 1 .. i PROVE p[j] = q[j]
    <3>1. j \in 1 .. Len(x)
      BY <1>1
    <3> QED  BY <1>1, <2>2, <2>3, <3>1
  <2>5. p = q
    BY <2>2, <2>3, <2>4, SameTexts
  <2> QED  BY <2>5 DEF p, q
<1> QED  BY <1>1, <1>2, <1>3 DEF d

LEMMA PartRest ==
  ASSUME NEW S, NEW d \in Seq(S), NEW i \in 0 .. Len(d)
  PROVE  SameText(Part(d, i) \o Rest(d, i), d)
<1> DEFINE x == Part(d, i)
           y == Rest(d, i)
           z == x \o y
<1>1. Len(d) \in Nat /\ i \in Nat
  OBVIOUS
<1>2. x \in Seq(S) /\ Len(x) = i /\ \A j \in 1 .. i : x[j] = d[j]
  BY DEF Part
<1>3. y \in Seq(S) /\ Len(y) = Len(d) - i /\ \A j \in 1 .. Len(d) - i : y[j] = d[i + j]
  BY DEF Rest
<1> HIDE DEF x, y
<1>4. /\ z \in Seq(S) /\ Len(z) = Len(d)
      /\ \A j \in 1 .. i : z[j] = x[j]
      /\ \A j \in 1 .. Len(d) - i : z[i + j] = y[j]
  BY <1>1, <1>2, <1>3
<1> HIDE DEF z
<1>5. ASSUME NEW j \in 1 .. Len(d) PROVE z[j] = d[j]
  <2>1. CASE j <= i
    <3>1. j \in 1 .. i
      BY <1>1, <2>1
    <3> QED  BY <1>2, <1>4, <3>1
  <2>2. CASE j > i
    <3> DEFINE k == j - i
    <3>1. k \in 1 .. Len(d) - i /\ j = i + k
      BY <1>1, <2>2
    <3> HIDE DEF k
    <3> QED  BY <1>3, <1>4, <3>1
  <2> QED  BY <1>1, <2>1, <2>2
<1>6. z = d
  BY <1>4, <1>5, SameTexts
<1> QED  BY <1>6 DEF SameText, x, y, z

LEMMA RestPlain ==
  ASSUME NEW d \in Seq(Names \cup {Up}), NEW i \in 0 .. Len(d), \A k \in i + 1 .. Len(d) : d[k] # Up
  PROVE  Rest(d, i) \in Seq(Names)
<1> DEFINE y == Rest(d, i)
<1>1. y \in Seq(Names \cup {Up}) /\ Len(y) = Len(d) - i /\ \A j \in 1 .. Len(d) - i : y[j] = d[i + j]
  BY DEF Rest
<1> HIDE DEF y, Up
<1>2. \A j \in 1 .. Len(y) : y[j] \in Names
  <2> SUFFICES ASSUME NEW j \in 1 .. Len(y) PROVE y[j] \in Names
    OBVIOUS
  <2>1. i + j \in i + 1 .. Len(d) /\ j \in 1 .. Len(d) - i
    BY <1>1
  <2> QED  BY <1>1, <2>1
<1>3. y \in Seq(Names)
  BY <1>1, <1>2
<1> QED  BY <1>3 DEF y

LEMMA LastOfPart ==
  ASSUME NEW S, NEW d \in Seq(S), NEW i \in Nat, i < Len(d)
  PROVE  Last(Part(d, i + 1)) = d[i + 1]
<1>1. Part(d, i + 1) \in Seq(S) /\ Len(Part(d, i + 1)) = i + 1 /\ \A j \in 1 .. i + 1 : Part(d, i + 1)[j] = d[j]
  BY DEF Part
<1> QED  BY <1>1 DEF Last

LEMMA LastAppend ==
  ASSUME NEW S, NEW d \in Seq(S), NEW e \in S
  PROVE  /\ Append(d, e) \in Seq(S) /\ Append(d, e) # <<>> /\ Last(Append(d, e)) = e /\ Front(Append(d, e)) = d
<1> DEFINE a == Append(d, e)
<1>1. a \in Seq(S) /\ Len(a) = Len(d) + 1 /\ a[Len(d) + 1] = e /\ a # <<>> /\ \A j \in 1 .. Len(d) : a[j] = d[j]
  OBVIOUS
<1> HIDE DEF a
<1>2. Last(a) = e
  BY <1>1 DEF Last
<1>3. Front(a) \in Seq(S) /\ Len(Front(a)) = Len(d) /\ \A j \in 1 .. Len(d) : Front(a)[j] = a[j]
  <2>1. Len(d) \in Nat /\ Front(a) = SubSeq(a, 1, Len(d))
    BY <1>1 DEF Front
  <2> DEFINE m == Len(d)
  <2> HIDE DEF m
  <2>2. m \in Nat /\ m \in 0 .. Len(a)
    BY <1>1, <2>1 DEF m
  <2>3. SubSeq(a, 1, m) \in Seq(S) /\ Len(SubSeq(a, 1, m)) = m /\ \A j \in 1 .. m : SubSeq(a, 1, m)[j] = a[j]
    BY <1>1, <2>2
  <2> QED  BY <2>1, <2>3 DEF m
<1>4. Front(a) = d
  <2> DEFINE f == Front(a)
  <2> HIDE DEF f
  <2>1. f \in Seq(S) /\ Len(f) = Len(d) /\ \A j \in 1 .. Len(f) : f[j] = d[j]
    BY <1>1, <1>3 DEF f
  <2>2. f = d
    BY <2>1, SameTexts
  <2> QED  BY <2>2 DEF f
<1> QED  BY <1>1, <1>2, <1>4 DEF a

(* The part of a directory that is there, n names long and leading to f,    *)
(* and the plain names after it.                                            *)
Resolved(tree, dir, n, f) ==
  /\ n \in 0 .. Len(dir) /\ EndsAt(tree, Part(dir, n), f) /\ f.rest = <<>> /\ f.links <= MaxLinks
  /\ Rest(dir, n) \in Seq(Names) /\ SameText(ResolveDir(tree, dir), f.at \o Rest(dir, n))
  /\ n < Len(dir) => /\ NodeAt(tree, f.at).kind = "dir" /\ Missing(Canonical(tree, dir))
                     /\ NodeAt(tree, Append(f.at, dir[n + 1])).kind = "none"
  /\ n = Len(dir) => ~Missing(Canonical(tree, dir))

LEMMA ResolvedIs ==
  ASSUME NEW tree, WellFormed(tree), NEW dir \in Seq(Names \cup {Up}), ResolveDir(tree, dir) # NoPlace
  PROVE  \E n : \E f : Resolved(tree, dir, n, f)
<1> DEFINE n == LongestPart(tree, dir)
           real == Canonical(tree, Part(dir, n))
           part == Part(dir, n)
           f == WalkEnd(tree, MaxLinks, part)
<1>1. /\ n \in 0 .. Len(dir) /\ ~Missing(real)
      /\ \A k \in 0 .. Len(dir) : k > n => Missing(Canonical(tree, Part(dir, k)))
  BY LongestPartIs
<1>2. /\ real.kind = "there"
      /\ \A k \in n + 1 .. Len(dir) : dir[k] # Up /\ LStat(tree, Part(dir, k)) = Nothing
      /\ SameText(ResolveDir(tree, dir), real.at \o Rest(dir, n))
  <2>1. ResolveDir(tree, dir) =
          IF /\ real.kind = "there"
             /\ \A k \in n + 1 .. Len(dir) : dir[k] # Up /\ LStat(tree, Part(dir, k)) = Nothing
          THEN real.at \o Rest(dir, n) ELSE NoPlace
    BY ResolveIs
  <2> HIDE DEF n, real
  <2> QED  BY <2>1 DEF SameText
<1>3. n \in Nat /\ Len(dir) \in Nat
  <2> HIDE DEF n
  <2> QED  BY <1>1
<1> HIDE DEF n
<1>4. part \in Seq(Names \cup {Up})
  BY <1>1, PartsAre
<1>5. Rest(dir, n) \in Seq(Names)
  BY <1>1, <1>2, RestPlain
<1> HIDE DEF part
<1>6. /\ EndsAt(tree, part, f) /\ f.links <= MaxLinks /\ f \in Walks
      /\ f.rest = <<>> /\ real.at = f.at
  <2>1. Canonical(tree, part).kind = "there"
    BY <1>2 DEF part
  <2> QED  BY <1>4, <2>1, CanonicalThere DEF part
<1> HIDE DEF real, f
<1>7. ASSUME n < Len(dir)
      PROVE  /\ NodeAt(tree, f.at).kind = "dir" /\ Missing(Canonical(tree, dir))
             /\ NodeAt(tree, Append(f.at, dir[n + 1])).kind = "none"
  <2> DEFINE p == Part(dir, n + 1)
             name == dir[n + 1]
             v == Longer(f, <<name>>)
  <2>1. n + 1 \in 0 .. Len(dir) /\ n + 1 > n /\ n + 1 \in n + 1 .. Len(dir)
    BY <1>3, <1>7
  <2>2. Missing(Canonical(tree, p)) /\ dir[n + 1] # Up /\ LStat(tree, p) = Nothing
    BY <1>1, <1>2, <2>1
  <2>3. p \in Seq(Names \cup {Up}) /\ p # <<>> /\ Front(p) = part /\ Last(p) = name
    BY <1>3, <1>7, AbovePart, LastOfPart DEF part
  <2>4. name \in Names \cup {Up}
    BY <1>3, <1>7, NextPart
  <2> HIDE DEF p, name, v
  <2>5. v \in Reach(tree, Start(p))
    BY <1>6, <2>3, BeforeLast DEF EndsAt, v
  <2>6. v \in Walks /\ v.at = f.at /\ v.rest # <<>>
    BY <1>6, <2>4, AtLast DEF v
  <2> DEFINE e == WalkEnd(tree, MaxLinks, p)
  <2>7. EndsAt(tree, p, e) /\ e \in Walks /\ Halt(tree, MaxLinks, e) \in {"absent", "missing"}
    <3>1. Canonical(tree, p).kind \in {"absent", "missing"}
      BY <2>2 DEF Missing
    <3> QED  BY <2>3, <3>1, CanonicalEnd
  <2> HIDE DEF e
  <2>8. NodeAt(tree, f.at).kind = "dir"
    <3> SUFFICES ASSUME NodeAt(tree, f.at).kind # "dir" PROVE FALSE
      OBVIOUS
    <3>1. ~Goes(tree, v)
      BY <2>6, GoesIs
    <3>2. Start(p) \in Walks
      BY <2>3, StartTyped
    <3>3. v = e
      BY <2>5, <2>7, <3>1, <3>2, OneEnd DEF EndsAt
    <3>4. NodeAt(tree, e.at).kind # "dir"
      BY <2>6, <3>3
    <3> QED  BY <2>7, <3>4, EndKinds, LinksAssumption DEF EndsAt
  <2>9. LStat(tree, p) = NodeAt(tree, Append(f.at, name))
    BY <1>6, <2>2, <2>3, <2>8, LStatIs DEF name
  <2>10. NodeAt(tree, Append(f.at, name)).kind = "none"
    BY <2>2, <2>9 DEF Nothing
  <2>11. Missing(Canonical(tree, dir))
    <3>1. Part(dir, Len(dir)) = dir /\ Len(dir) \in 0 .. Len(dir) /\ Len(dir) > n
      BY <1>3, <1>7, PartsAre
    <3> QED  BY <1>1, <3>1
  <2> QED  BY <2>8, <2>10, <2>11 DEF name
<1>8. n = Len(dir) => ~Missing(Canonical(tree, dir))
  <2>1. Part(dir, Len(dir)) = dir
    BY PartsAre
  <2> QED  BY <1>1, <2>1 DEF real
<1>9. SameText(ResolveDir(tree, dir), f.at \o Rest(dir, n))
  BY <1>2, <1>6 DEF SameText
<1>10. Resolved(tree, dir, n, f)
  BY <1>1, <1>5, <1>6, <1>7, <1>8, <1>9 DEF Resolved, part
<1> QED  BY <1>10

LEMMA PlaceClear ==
  ASSUME NEW tree, WellFormed(tree), NEW base \in Seq(Names), NEW z \in Seq(Names),
         NodeAt(tree, base).kind = "dir",
         z # <<>> => NodeAt(tree, Append(base, z[1])).kind = "none"
  PROVE  /\ Clear(tree, base \o z)
         /\ z # <<>> => \A at \in Seq(Names) : \A i \in 0 .. Len(at) :
                          Part(at, i) = Append(base, z[1]) => NodeAt(tree, at).kind = "none"
<1> DEFINE d == base \o z
           b == Len(base)
<1>1. /\ d \in Seq(Names) /\ Len(d) = b + Len(z) /\ b \in Nat /\ Len(z) \in Nat
      /\ \A i \in 0 .. Len(z) : SameText(Part(d, b + i), base \o Part(z, i))
      /\ \A i \in 0 .. b : Part(d, i) = Part(base, i)
  BY PartOfJoin
<1>2. \A i \in 0 .. b : NodeAt(tree, Part(base, i)).kind = "dir"
  <2>1. \A i \in 0 .. b : i < b => NodeAt(tree, Part(base, i)).kind = "dir"
    BY PartsThere
  <2>2. Part(base, b) = base
    BY PartsAre
  <2> QED  BY <1>1, <2>1, <2>2
<1> HIDE DEF d, b
<1>3. ASSUME z # <<>>, NEW at \in Seq(Names), NEW i \in 0 .. Len(at), Part(at, i) = Append(base, z[1])
      PROVE  NodeAt(tree, at).kind = "none"
  BY <1>3, PartsThere
<1>4. ASSUME NEW i \in 0 .. Len(d) PROVE NodeAt(tree, Part(d, i)).kind \in {"dir", "none"}
  <2>1. CASE i <= b
    <3>1. i \in 0 .. b
      BY <1>1, <2>1
    <3> QED  BY <1>1, <1>2, <3>1
  <2>2. CASE i > b
    <3>1. 1 \in 0 .. Len(z) /\ b + 1 \in 0 .. i /\ z # <<>> /\ 0 < Len(z) /\ b + 1 \in 0 .. Len(d)
      BY <1>1, <2>2
    <3>2. Part(z, 1) = <<z[1]>> /\ z[1] \in Names
      <4>1. Part(z, 0 + 1) = Append(Part(z, 0), z[0 + 1]) /\ z[0 + 1] \in Names
        BY <3>1, NextPart
      <4>2. Part(z, 0) = <<>> /\ 0 + 1 = 1
        BY PartsAre
      <4>3. Append(<<>>, z[1]) = <<z[1]>>
        OBVIOUS
      <4> QED  BY <4>1, <4>2, <4>3
    <3>3. Part(d, b + 1) = base \o <<z[1]>>
      BY <1>1, <3>1, <3>2 DEF SameText
    <3>4. base \o <<z[1]>> = Append(base, z[1])
      BY <3>2
    <3>5. Part(Part(d, i), b + 1) = Part(d, b + 1)
      BY <1>1, <3>1, PartOfPart
    <3>6. Part(d, i) \in Seq(Names) /\ Len(Part(d, i)) = i
      BY <1>1, PartsAre
    <3>7. NodeAt(tree, Part(d, i)).kind = "none"
      BY <1>3, <3>1, <3>3, <3>4, <3>5, <3>6
    <3> QED  BY <3>7
  <2> QED  BY <1>1, <2>1, <2>2
<1>5. Clear(tree, d)
  BY <1>4 DEF Clear
<1> QED  BY <1>3, <1>5 DEF d

(* The path leads to where the file is put, in the tree with it, and comes  *)
(* to an end by as many links in the tree without it.                       *)
Twin(tree, more, path, at, links) ==
  /\ links \in Nat
  /\ \E e : EndsAt(tree, path, e) /\ e.links = links
  /\ \E e : EndsAt(more, path, e) /\ e.links = links /\ e.rest = <<>> /\ e.at = at

LEMMA AppendIs ==
  ASSUME NEW S, NEW x \in Seq(S), NEW e \in S
  PROVE  /\ SameText(x \o <<e>>, Append(x, e)) /\ Append(x, e) \in Seq(S) /\ Len(Append(x, e)) = Len(x) + 1
         /\ Append(x, e) # <<>>
         /\ \A i \in 0 .. Len(x) : Part(Append(x, e), i) = Part(x, i)
         /\ x # <<>> => Head(Append(x, e)) = Head(x)
<1>1. <<e>> \in Seq(S) /\ Len(<<e>>) = 1
  OBVIOUS
<1>2. x \o <<e>> = Append(x, e)
  OBVIOUS
<1>3. \A i \in 0 .. Len(x) : Part(x \o <<e>>, i) = Part(x, i)
  BY <1>1, PartOfJoin
<1>4. /\ Append(x, e) \in Seq(S) /\ Len(Append(x, e)) = Len(x) + 1 /\ Append(x, e) # <<>>
      /\ x # <<>> => Head(Append(x, e)) = Head(x)
  <2> DEFINE a == Append(x, e)
  <2>1. a \in Seq(S) /\ Len(a) = Len(x) + 1 /\ \A i \in 1 .. Len(x) : a[i] = x[i]
    OBVIOUS
  <2> HIDE DEF a
  <2>2. Len(x) \in Nat /\ a # <<>>
    BY <2>1
  <2>3. ASSUME x # <<>> PROVE Head(a) = Head(x)
    <3>1. 1 \in 1 .. Len(x) /\ Head(x) = x[1]
      BY <2>3
    <3>2. Head(a) = a[1]
      BY <2>1, <2>2
    <3> QED  BY <2>1, <3>1, <3>2
  <2> QED  BY <2>1, <2>2, <2>3 DEF a
<1> QED  BY <1>2, <1>3, <1>4 DEF SameText

(* From where all but the last names led, with those names before it.       *)
LEMMA LeafWalk ==
  ASSUME NEW tree, WellFormed(tree), NEW leaf \in Seq(Names \cup {Up}), leaf # <<>>, Last(leaf) # Up,
         NEW n, NEW f, Resolved(tree, Front(leaf), n, f)
  PROVE  LET z == Rest(Front(leaf), n)
             v == [at |-> f.at, rest |-> Append(z, Last(leaf)), links |-> f.links]
         IN  /\ z \in Seq(Names) /\ Last(leaf) \in Names /\ f \in Walks /\ f.at \in Seq(Names) /\ f.links \in Nat
             /\ v \in Walks /\ v \in Reach(tree, Start(leaf))
<1> DEFINE F == Front(leaf)
           name == Last(leaf)
           z == Rest(F, n)
           p == Part(F, n)
           y == Append(z, name)
           v == [at |-> f.at, rest |-> y, links |-> f.links]
           N == Names \cup {Up}
<1>1. F \in Seq(N) /\ name \in N /\ SameText(F \o <<name>>, leaf)
  BY FrontLast
<1>2. n \in 0 .. Len(F) /\ EndsAt(tree, p, f) /\ f.rest = <<>> /\ z \in Seq(Names)
  BY DEF Resolved
<1>3. p \in Seq(N) /\ z \in Seq(N)
  BY <1>1, <1>2, PartsAre
<1>4. f \in Walks /\ f.at \in Seq(Names) /\ f.links \in Nat /\ name \in Names /\ f \in Reach(tree, Start(p))
  BY <1>1, <1>2, EndTyped DEF EndsAt
<1>5. /\ SameText(z \o <<name>>, y) /\ y \in Seq(N)
  BY <1>1, <1>3, AppendIs
<1>6. SameText(p \o z, F)
  BY <1>1, <1>2, PartRest
<1> HIDE DEF F, name, z, p, y
<1>7. SameText((p \o z) \o <<name>>, p \o (z \o <<name>>))
  <2>1. <<name>> \in Seq(N)
    BY <1>1
  <2>2. Joined3(p, z, <<name>>, N)
    BY <1>3, <2>1 DEF Joined3
  <2> QED  BY ONLY <2>2, Regroup, Zenon
<1>8. p \o y = leaf
  BY <1>1, <1>5, <1>6, <1>7 DEF SameText
<1> DEFINE u == Longer(f, y)
<1>9. Start(p) \in Walks
  BY <1>3, StartTyped
<1>10. u \in Reach(tree, Longer(Start(p), y))
  BY <1>4, <1>5, <1>9, ReachLonger DEF N
<1>11. Longer(Start(p), y) = Start(leaf)
  BY <1>8, StartLonger
<1>12. u = v
  <2>1. <<>> \o y = y
    BY <1>5
  <2> QED  BY <1>2, <2>1 DEF Longer
<1>13. v \in Walks /\ v \in Reach(tree, Start(leaf))
  <2> HIDE DEF u, v
  <2> QED  BY <1>10, <1>11, <1>12, ReachTyped
<1> QED  BY <1>2, <1>4, <1>13 DEF F, name, z, y

LEMMA LeafTwin ==
  ASSUME NEW tree, WellFormed(tree), NEW more, WellFormed(more), Grown(tree, more),
         NEW leaf \in Seq(Names \cup {Up}), leaf # <<>>, Last(leaf) # Up,
         NEW n, NEW f, Resolved(tree, Front(leaf), n, f), NodeAt(tree, f.at).kind = "dir",
         NEW place \in Seq(Names), SameText(place, f.at \o Rest(Front(leaf), n)),
         NEW at, at = Append(place, Last(leaf)),
         NotLink(tree, leaf), NodeAt(tree, at).kind # "dir",
         \A i \in 0 .. Len(place) : NodeAt(more, Part(place, i)).kind = "dir",
         NodeAt(more, at).kind = "file"
  PROVE  Twin(tree, more, leaf, at, f.links)
<1> DEFINE F == Front(leaf)
           name == Last(leaf)
           z == Rest(F, n)
           y == Append(z, name)
           base == f.at
           l == f.links
           v == [at |-> base, rest |-> y, links |-> l]
           u == [at |-> base \o y, rest |-> <<>>, links |-> l]
<1>1. /\ z \in Seq(Names) /\ name \in Names /\ base \in Seq(Names) /\ l \in Nat
      /\ v \in Walks /\ v \in Reach(tree, Start(leaf)) /\ f \in Walks
  BY LeafWalk
<1>2. /\ y \in Seq(Names) /\ Len(y) = Len(z) + 1 /\ y # <<>>
      /\ \A i \in 0 .. Len(z) : Part(y, i) = Part(z, i)
      /\ z # <<>> => Head(y) = Head(z)
  BY <1>1, AppendIs
<1>3. /\ n \in 0 .. Len(F) /\ EndsAt(tree, Part(F, n), f) /\ f.rest = <<>> /\ l <= MaxLinks
      /\ n < Len(F) => NodeAt(tree, Append(base, F[n + 1])).kind = "none"
  BY DEF Resolved
<1>4. F \in Seq(Names \cup {Up}) /\ Len(F) \in Nat
  <2>1. F \in Seq(Names \cup {Up})
    BY FrontLast
  <2> HIDE DEF F
  <2> QED  BY <2>1
<1>5. Start(leaf) \in Walks
  BY StartTyped
<1>6. SameText(place, base \o z)
  OBVIOUS
<1>7. base \o y = at
  <2>1. SameText(Append(base \o z, name), base \o Append(z, name))
    BY ONLY <1>1, AppendJoin
  <2> QED  BY <1>6, <2>1 DEF SameText
<1>8. v.at = base /\ v.rest = y /\ v.links = l /\ u.at = base \o y /\ u.rest = <<>> /\ u.links = l
  OBVIOUS
<1> HIDE DEF F, name, z, y, base, l
(* With the file: down through directories.                                 *)
<1>9. EndsAt(more, leaf, u)
  <2>1. \A i \in 0 .. Len(y) - 1 : NodeAt(more, base \o Part(y, i)).kind = "dir"
    <3> SUFFICES ASSUME NEW i \in 0 .. Len(y) - 1 PROVE NodeAt(more, base \o Part(y, i)).kind = "dir"
      OBVIOUS
    <3>1. Len(z) \in Nat /\ Len(base) \in Nat
      BY <1>1
    <3>2. i \in 0 .. Len(z) /\ Part(y, i) = Part(z, i)
      BY <1>2, <3>1
    <3>3. /\ Len(base \o z) = Len(base) + Len(z)
          /\ SameText(Part(base \o z, Len(base) + i), base \o Part(z, i))
      BY ONLY <1>1, <3>2, PartOfJoin
    <3>4. Len(place) = Len(base) + Len(z) /\ Part(place, Len(base) + i) = base \o Part(y, i)
      BY <1>6, <3>2, <3>3 DEF SameText
    <3>5. Len(base) + i \in 0 .. Len(place)
      BY <3>1, <3>2, <3>4
    <3>6. NodeAt(more, Part(place, Len(base) + i)).kind = "dir"
      BY <3>5
    <3> QED  BY <3>4, <3>6
  <2>2. Solid(more, base \o y)
    BY <1>7 DEF Solid
  <2>3. u \in Reach(more, v)
    <3> HIDE DEF u, v
    <3> QED  BY <1>1, <1>2, <2>1, <2>2, PlainWalk DEF u, v
  <2> HIDE DEF u, v
  <2>4. v \in Reach(more, Start(leaf))
    BY <1>1, <1>5, ReachGrown
  <2>5. u \in Reach(more, Start(leaf)) /\ u \in Walks
    BY <1>5, <2>3, <2>4, ReachFurther, ReachTyped
  <2>6. ~Goes(more, u)
    BY <1>8, <2>5, GoesIs
  <2> QED  BY <2>5, <2>6 DEF EndsAt
(* Without it: a name on the way is missing, or only the last is left.      *)
<1> HIDE DEF u, v
<1>10. CASE n < Len(F)
  <2>1. z # <<>> /\ Head(z) = F[n + 1]
    <3>1. n \in Nat
      BY <1>3
    <3> QED  BY <1>4, <1>10, <3>1, NextPart DEF z
  <2>2. Head(v.rest) = F[n + 1] /\ F[n + 1] \in Names
    <3>1. Head(z) \in Names
      BY <1>1, <2>1
    <3> QED  BY <1>2, <1>8, <2>1, <3>1
  <2>3. Ahead(tree, v).kind = "none"
    BY <1>3, <1>8, <1>10, <2>2 DEF Ahead
  <2>4. ~Goes(tree, v)
    BY <1>1, <2>2, <2>3, GoesIs, NamesAssumption
  <2>5. EndsAt(tree, leaf, v)
    BY <1>1, <2>4 DEF EndsAt
  <2> QED  BY <1>1, <1>7, <1>8, <1>9, <2>5 DEF Twin, l
<1>11. CASE n = Len(F)
  <2>1. z = <<>> /\ Part(F, n) = F
    BY <1>4, <1>11, PartsAre DEF z
  <2>2. y = <<name>> /\ at = Append(base, name)
    <3>1. base \o <<>> = base
      BY <1>1
    <3>2. place = base
      BY <1>6, <2>1, <3>1 DEF SameText
    <3> QED  BY <2>1, <3>2 DEF y, name
  <2>3. Head(v.rest) = name /\ Tail(v.rest) = <<>> /\ name # Up
    <3>1. v.rest = <<name>>
      BY <1>8, <2>2
    <3> HIDE DEF Up
    <3> QED  BY <1>1, <3>1, NamesAssumption
  <2>4. Ahead(tree, v) = NodeAt(tree, at)
    BY <1>8, <2>2, <2>3 DEF Ahead
  <2>5. LStat(tree, leaf) = NodeAt(tree, at)
    <3>1. EndsAt(tree, Front(leaf), f) /\ f.links <= MaxLinks
      BY <1>3, <2>1 DEF F, l
    <3>2. LStat(tree, leaf) = NodeAt(tree, Append(f.at, Last(leaf)))
      BY <1>3, <3>1, LStatIs
    <3> QED  BY <2>2, <3>2 DEF base, name
  <2>6. NodeAt(tree, at).kind \in {"none", "file"}
    BY <2>5, NodeIs DEF NotLink
  <2>7. CASE NodeAt(tree, at).kind = "none"
    <3>1. ~Goes(tree, v)
      BY <1>1, <2>3, <2>4, <2>7, GoesIs
    <3>2. EndsAt(tree, leaf, v)
      BY <1>1, <3>1 DEF EndsAt
    <3> QED  BY <1>1, <1>7, <1>8, <1>9, <3>2 DEF Twin, l
  <2>8. CASE NodeAt(tree, at).kind = "file"
    <3> DEFINE o == Onward(tree, v)
    <3>1. Goes(tree, v)
      BY <1>1, <1>2, <1>8, <2>4, <2>8, GoesIs DEF base
    <3>2. o.rest = <<>> /\ o.links = l
      BY <1>1, <1>8, <2>3, <2>4, <2>8, DownParts
    <3>3. o \in Walks /\ o \in Reach(tree, Start(leaf))
      BY <1>1, <1>5, <3>1, OnwardTyped, ReachOnward
    <3> HIDE DEF o
    <3>4. ~Goes(tree, o)
      BY <3>2, <3>3, GoesIs
    <3>5. EndsAt(tree, leaf, o)
      BY <3>3, <3>4 DEF EndsAt
    <3> QED  BY <1>1, <1>7, <1>8, <1>9, <3>2, <3>5 DEF Twin, l
  <2> QED  BY <2>6, <2>7, <2>8
<1> QED  BY <1>3, <1>4, <1>10, <1>11

-----------------------------------------------------------------------------
(* From the last link back to the path.                                     *)

LEMMA EndCounted ==
  ASSUME NEW tree, WellFormed(tree), NEW path \in Seq(Names \cup {Up}), NEW G \in Seq(Names \cup {Up}),
         NEW o \in Walks, o \in Reach(tree, Start(path)), NEW k \in Nat,
         Counted(o, k) \in Reach(tree, Start(G)), NEW e, EndsAt(tree, G, e)
  PROVE  /\ e.links - k \in Nat
         /\ EndsAt(tree, path, Counted(e, o.links + (e.links - k)))
<1> DEFINE c == Counted(o, k)
           d == Counted(e, o.links + (e.links - k))
<1>1. c \in Walks /\ c.at = o.at /\ c.rest = o.rest /\ c.links = k /\ o.links \in Nat /\ Start(G) \in Walks
      /\ Start(path) \in Walks
  BY CountedParts, StartTyped DEF Counted, Walks
<1>2. e \in Walks /\ e \in Reach(tree, Start(G)) /\ ~Goes(tree, e)
  BY EndTyped DEF EndsAt
<1>3. Counted(c, o.links) = o
  <2>1. Counted(c, o.links) \in Walks
    BY <1>1 DEF Counted, Walks
  <2>2. Counted(c, o.links).at = o.at /\ Counted(c, o.links).rest = o.rest /\ Counted(c, o.links).links = o.links
    BY <1>1, CountedParts
  <2> HIDE DEF c
  <2> QED  BY <2>1, <2>2, SameWalk
<1> HIDE DEF c
<1>4. e \in Reach(tree, c)
  BY <1>1, <1>2, PassedOnTheWay DEF c
<1>5. e.links - c.links \in Nat /\ Counted(e, o.links + (e.links - c.links)) \in Reach(tree, Counted(c, o.links))
  BY <1>1, <1>4, ReachCounted
<1>6. e.links - k \in Nat /\ d \in Reach(tree, o)
  BY <1>1, <1>3, <1>5
<1>7. d.at = e.at /\ d.rest = e.rest
  BY CountedParts
<1> HIDE DEF d
<1>8. d \in Reach(tree, Start(path)) /\ d \in Walks
  BY <1>1, <1>6, ReachFurther, ReachTyped
<1>9. ~Goes(tree, d)
  <2>1. Ahead(tree, d) = Ahead(tree, e)
    BY <1>7 DEF Ahead
  <2> QED  BY <1>2, <1>7, <1>8, <2>1, GoesIs
<1> QED  BY <1>6, <1>8, <1>9 DEF EndsAt, d

LEMMA LinkNamed ==
  ASSUME NEW tree, WellFormed(tree), NEW cur \in Seq(Names \cup {Up}), ~NotLink(tree, cur)
  PROVE  LET f == WalkEnd(tree, MaxLinks, Front(cur))
         IN  /\ cur # <<>> /\ Last(cur) # Up /\ EndsAt(tree, Front(cur), f) /\ f.rest = <<>> /\ f.links <= MaxLinks
             /\ NodeAt(tree, f.at).kind = "dir" /\ NodeAt(tree, Append(f.at, Last(cur))).kind = "link"
<1>1. LStat(tree, cur).kind = "link"
  BY DEF NotLink
<1>2. cur # <<>>
  <2>1. LStat(tree, <<>>) = NodeAt(tree, <<>>)
    BY DEF LStat
  <2> QED  BY <1>1, <2>1, RootIs
<1> DEFINE f == WalkEnd(tree, MaxLinks, Front(cur))
<1>3. /\ EndsAt(tree, Front(cur), f) /\ f \in Walks /\ f.rest = <<>> /\ f.links <= MaxLinks
      /\ NodeAt(tree, f.at).kind = "dir"
  BY <1>1, <1>2, LStatThere
<1> HIDE DEF f
<1>4. LStat(tree, cur) = NodeAt(tree, IF Last(cur) = Up THEN Above(f.at) ELSE Append(f.at, Last(cur)))
  BY <1>2, <1>3, LStatIs
<1>5. Last(cur) # Up
  <2> SUFFICES ASSUME Last(cur) = Up PROVE FALSE
    OBVIOUS
  <2>1. NodeAt(tree, Above(f.at)).kind = "dir"
    BY <1>3, AboveIs
  <2> QED  BY <1>1, <1>4, <2>1
<1> QED  BY <1>1, <1>2, <1>3, <1>4, <1>5 DEF f

LEMMA FollowedTyped ==
  ASSUME NEW tree, WellFormed(tree), NEW cur \in Seq(Names \cup {Up})
  PROVE  Followed(tree, cur) \in Seq(Names \cup {Up})
<1>1. CASE NotLink(tree, cur)
  BY <1>1, FollowedStays
<1>2. CASE ~NotLink(tree, cur)
  BY <1>2, LinkNamed, FollowedIs
<1> QED  BY <1>1, <1>2

LEMMA TwinBack ==
  ASSUME NEW tree, WellFormed(tree), NEW more, WellFormed(more), Grown(tree, more),
         NEW cur \in Seq(Names \cup {Up}), NEW at, NEW l, Twin(tree, more, Followed(tree, cur), at, l)
  PROVE  \E j : Twin(tree, more, cur, at, j) /\ j <= l + (MaxLinks + 1)
<1> DEFINE G == Followed(tree, cur)
<1>0. l \in Nat /\ MaxLinks \in Nat
  BY LinksAssumption DEF Twin
<1>1. CASE NotLink(tree, cur)
  <2>1. G = cur
    BY <1>1, FollowedStays
  <2>2. l <= l + (MaxLinks + 1)
    BY <1>0
  <2> QED  BY <2>1, <2>2
<1>2. CASE ~NotLink(tree, cur)
  <2> DEFINE f == WalkEnd(tree, MaxLinks, Front(cur))
             node == NodeAt(tree, Append(f.at, Last(cur)))
             o == LinkEnd(f, node)
             k == IF node.abs THEN 0 ELSE f.links
             j == o.links + (l - k)
  <2>1. /\ cur # <<>> /\ Last(cur) # Up /\ EndsAt(tree, Front(cur), f) /\ f.rest = <<>> /\ f.links <= MaxLinks
        /\ NodeAt(tree, f.at).kind = "dir" /\ node.kind = "link"
    BY <1>2, LinkNamed
  <2> HIDE DEF f
  <2>2. /\ G \in Seq(Names \cup {Up}) /\ o \in Walks /\ o \in Reach(tree, Start(cur)) /\ o.links = f.links + 1
        /\ k \in Nat /\ k <= f.links /\ Counted(o, k) \in Reach(tree, Start(G)) /\ f.links \in Nat
    BY <2>1, FollowedIs, EndTyped
  <2> HIDE DEF node, o, k, G
  <2>3. o \in Reach(more, Start(cur)) /\ Counted(o, k) \in Reach(more, Start(G))
    <3>1. Start(cur) \in Walks /\ Start(G) \in Walks
      BY <2>2, StartTyped
    <3> QED  BY <2>2, <3>1, ReachGrown
  <2>4. PICK e : EndsAt(tree, G, e) /\ e.links = l
    BY DEF Twin, G
  <2>5. PICK g : EndsAt(more, G, g) /\ g.links = l /\ g.rest = <<>> /\ g.at = at
    BY DEF Twin, G
  <2>6. l - k \in Nat /\ EndsAt(tree, cur, Counted(e, j))
    BY <2>2, <2>4, EndCounted
  <2>7. EndsAt(more, cur, Counted(g, j))
    BY <2>2, <2>3, <2>5, EndCounted
  <2>8. j \in Nat /\ j <= l + (MaxLinks + 1)
    BY <1>0, <2>1, <2>2, <2>6
  <2> HIDE DEF j
  <2>9. Counted(e, j).links = j /\ Counted(g, j).links = j /\ Counted(g, j).rest = <<>> /\ Counted(g, j).at = at
    BY <2>5, CountedParts
  <2>10. Twin(tree, more, cur, at, j)
    BY <2>6, <2>7, <2>8, <2>9 DEF Twin
  <2> QED  BY <2>8, <2>10
<1> QED  BY <1>1, <1>2

LEMMA LeafTyped ==
  ASSUME NEW tree, WellFormed(tree), NEW path \in Seq(Names \cup {Up})
  PROVE  \E cur : /\ FollowedInTurn(tree, path, cur)
                  /\ \A i \in Nat : i <= MaxLinks - 1 => cur[i] \in Seq(Names \cup {Up})
<1>1. PICK cur : FollowedInTurn(tree, path, cur)
  BY LeafSteps
<1>2. cur[0] = path /\ \A i \in Nat : i + 1 <= MaxLinks - 1 => cur[i + 1] = Followed(tree, cur[i])
  BY <1>1 DEF FollowedInTurn
<1> DEFINE S == {i \in Nat : i <= MaxLinks - 1 => cur[i] \in Seq(Names \cup {Up})}
<1>3. 0 \in S
  BY <1>2
<1>4. ASSUME NEW i \in Nat, i \in S PROVE i + 1 \in S
  <2> SUFFICES ASSUME i + 1 <= MaxLinks - 1 PROVE cur[i + 1] \in Seq(Names \cup {Up})
    OBVIOUS
  <2>1. i <= MaxLinks - 1
    BY LinksAssumption
  <2>2. cur[i] \in Seq(Names \cup {Up})
    BY <1>4, <2>1
  <2> HIDE DEF S
  <2> QED  BY <1>2, <2>2, FollowedTyped
<1>5. \A i \in Nat : i \in S
  <2> HIDE DEF S
  <2> QED  BY <1>3, <1>4, NatInSet
<1> QED  BY <1>1, <1>5

LEMMA OneMore ==
  ASSUME NEW m \in Nat, NEW k \in Nat
  PROVE  (m + 1) * k = m * k + k /\ m * k \in Nat /\ (m + 1) * k \in Nat
  OBVIOUS

(* From what the last link led to, back to the path itself.                *)
LEMMA TwinPath ==
  ASSUME NEW tree, WellFormed(tree), NEW more, WellFormed(more), Grown(tree, more),
         NEW path \in Seq(Names \cup {Up}), NEW at, NEW l, l <= MaxLinks,
         Twin(tree, more, LeafOf(tree, path), at, l)
  PROVE  \E j : Twin(tree, more, path, at, j) /\ j <= Farthest
<1> DEFINE last == MaxLinks - 1
           K == MaxLinks + 1
<1>0. last \in Nat /\ MaxLinks \in Nat /\ MaxLinks = last + 1 /\ K \in Nat /\ l \in Nat
  BY LinksAssumption DEF Twin
<1>1. PICK cur : /\ FollowedInTurn(tree, path, cur)
                 /\ \A i \in Nat : i <= MaxLinks - 1 => cur[i] \in Seq(Names \cup {Up})
  BY LeafTyped
<1>2. /\ cur[0] = path /\ LeafOf(tree, path) = cur[last]
      /\ \A i \in Nat : i + 1 <= last => cur[i + 1] = Followed(tree, cur[i])
  BY <1>1 DEF FollowedInTurn
<1>3. \A i \in Nat : i <= last => cur[i] \in Seq(Names \cup {Up})
  BY <1>1
<1>4. Farthest = MaxLinks * K
  BY DEF Farthest
<1> HIDE DEF last, K
<1> DEFINE Near(m) == \E j : Twin(tree, more, cur[last - m], at, j) /\ j <= MaxLinks + m * K
           S == {m \in Nat : m <= last => Near(m)}
<1>5. 0 \in S
  <2>1. last - 0 = last /\ 0 * K = 0 /\ l <= MaxLinks + 0
    BY <1>0
  <2>2. l <= MaxLinks + 0 * K
    BY <2>1
  <2> QED  BY <1>2, <2>1, <2>2
<1>6. ASSUME NEW m \in Nat, m \in S PROVE m + 1 \in S
  <2> SUFFICES ASSUME m + 1 <= last PROVE Near(m + 1)
    OBVIOUS
  <2> DEFINE i == last - (m + 1)
  <2>1. i \in Nat /\ i + 1 = last - m /\ i + 1 <= last /\ m <= last /\ i <= last
    BY <1>0
  <2> HIDE DEF i
  <2>2. PICK j : Twin(tree, more, cur[last - m], at, j) /\ j <= MaxLinks + m * K
    BY <1>6, <2>1
  <2>3. cur[last - m] = Followed(tree, cur[i]) /\ cur[i] \in Seq(Names \cup {Up})
    BY <1>2, <1>3, <2>1
  <2>4. PICK h : Twin(tree, more, cur[i], at, h) /\ h <= j + K
    BY <2>2, <2>3, TwinBack DEF K
  <2>5. j \in Nat /\ h \in Nat
    BY <2>2, <2>4 DEF Twin
  <2>6. (m + 1) * K = m * K + K /\ m * K \in Nat
    BY <1>0, OneMore
  <2> DEFINE p == m * K
             q == (m + 1) * K
  <2>7. p \in Nat /\ q = p + K /\ j <= MaxLinks + p
    BY <2>2, <2>6
  <2> HIDE DEF p, q
  <2>8. h <= MaxLinks + q
    BY <1>0, <2>4, <2>5, <2>7
  <2> QED  BY <2>4, <2>8 DEF i, q
<1>7. Near(last)
  <2> HIDE DEF Near
  <2>1. last \in S
    <3> HIDE DEF S
    <3> QED  BY <1>0, <1>5, <1>6, NatInSet
  <2> QED  BY <1>0, <2>1
<1>8. PICK j : Twin(tree, more, cur[last - last], at, j) /\ j <= MaxLinks + last * K
  BY <1>7
<1>9. last - last = 0
  BY <1>0
<1>10. j \in Nat
  BY <1>8 DEF Twin
<1>11. MaxLinks * K = last * K + K /\ last * K \in Nat
  BY <1>0, OneMore
<1> DEFINE p == last * K
           q == MaxLinks * K
<1>12. p \in Nat /\ q = p + K /\ j <= MaxLinks + p
  BY <1>8, <1>11
<1> HIDE DEF p, q
<1>13. j <= q
  BY <1>0, <1>10, <1>12 DEF K
<1> QED  BY <1>2, <1>4, <1>8, <1>9, <1>13 DEF q

-----------------------------------------------------------------------------
(* What a writer leaves behind.                                             *)

LEMMA EnsureNode ==
  ASSUME NEW tree, WellFormed(tree), NEW d \in Seq(Names), NEW p
  PROVE  /\ NodeAt(tree, p).kind # "none" => NodeAt(EnsureParent(tree, d), p) = NodeAt(tree, p)
         /\ NodeAt(tree, p).kind = "none" => NodeAt(EnsureParent(tree, d), p).kind \in {"none", "dir"}
<1> DEFINE new == New(tree, d)
           more == EnsureParent(tree, d)
           mode == DirMode(tree, d)
<1>1. /\ DOMAIN more = DOMAIN tree \cup new
      /\ \A q \in DOMAIN tree : more[q] = tree[q]
      /\ \A q \in new : more[q] = Dir(mode)
  BY MadeIs DEF Made
<1> HIDE DEF new, more, mode
<1>2. CASE p = <<>>
  <2>1. NodeAt(tree, p).kind = "dir" /\ NodeAt(more, p) = NodeAt(tree, p)
    BY <1>2, RootIs DEF NodeAt
  <2> QED  BY <2>1 DEF more
<1>3. CASE p # <<>> /\ p \in DOMAIN tree
  <2>1. NodeAt(more, p) = tree[p] /\ NodeAt(tree, p) = tree[p]
    BY <1>1, <1>3 DEF NodeAt
  <2>2. NodeAt(tree, p).kind # "none"
    BY <1>3, NodeIs
  <2> QED  BY <2>1, <2>2 DEF more
<1>4. CASE p # <<>> /\ p \notin DOMAIN tree
  <2>1. NodeAt(tree, p).kind = "none"
    BY <1>4 DEF NodeAt, Nothing
  <2>2. CASE p \in new
    <3>1. NodeAt(more, p) = Dir(mode)
      BY <1>1, <1>4, <2>2 DEF NodeAt
    <3> QED  BY <2>1, <3>1, DirIs DEF more
  <2>3. CASE p \notin new
    <3>1. NodeAt(more, p) = Nothing
      BY <1>1, <1>4, <2>3 DEF NodeAt
    <3> QED  BY <2>1, <3>1 DEF more, Nothing
  <2> QED  BY <2>2, <2>3
<1> QED  BY <1>2, <1>3, <1>4

ReplaceParts(tree, target, node, w) ==
  /\ w.ok <=> NodeAt(tree, Front(target)).kind = "dir" /\ NodeAt(tree, target).kind # "dir"
  /\ w.ok => w = Done(Put(tree, target, node)) /\ w.fs = Put(tree, target, node)
  /\ ~w.ok => w.fs = tree

LEMMA ReplaceIs ==
  ASSUME NEW tree, NEW target, NEW node
  PROVE  ReplaceParts(tree, target, node, ReplaceAtomically(tree, target, node))
<1>1. CASE NodeAt(tree, Front(target)).kind = "dir" /\ NodeAt(tree, target).kind # "dir"
  <2> DEFINE put == Put(tree, target, node)
  <2>1. ReplaceAtomically(tree, target, node) = Done(put)
    BY <1>1 DEF ReplaceAtomically
  <2> HIDE DEF put
  <2>2. Done(put).ok = TRUE /\ Done(put).fs = put
    BY DEF Done
  <2> QED  BY <1>1, <2>1, <2>2 DEF ReplaceParts, put
<1>2. CASE ~(NodeAt(tree, Front(target)).kind = "dir" /\ NodeAt(tree, target).kind # "dir")
  <2>1. ReplaceAtomically(tree, target, node) = Failed(tree)
    BY <1>2 DEF ReplaceAtomically
  <2>2. Failed(tree).ok = FALSE /\ Failed(tree).fs = tree
    BY DEF Failed
  <2> QED  BY <1>2, <2>1, <2>2 DEF ReplaceParts
<1> QED  BY <1>1, <1>2

LEMMA WriteIs ==
  ASSUME NEW tree, NEW target, NEW data
  PROVE  LET w == PutPrivate(tree, target, data)
             m == EnsureParent(tree, Front(target))
         IN  /\ target = NoPlace => ~w.ok /\ w.fs = tree
             /\ target # NoPlace => ReplaceParts(m, target, File(data, "0600"), w)
<1>1. CASE target = NoPlace
  <2>1. PutPrivate(tree, target, data) = Failed(tree)
    BY <1>1 DEF PutPrivate
  <2>2. Failed(tree).ok = FALSE /\ Failed(tree).fs = tree
    BY DEF Failed
  <2> QED  BY <1>1, <2>1, <2>2
<1>2. CASE target # NoPlace
  BY <1>2, ReplaceIs DEF PutPrivate
<1> QED  BY <1>1, <1>2

LEMMA WroteIs ==
  ASSUME NEW tree, WellFormed(tree), NEW target \in Seq(Names), target # <<>>, NEW data,
         PutPrivate(tree, target, data).ok
  PROVE  WroteOnly(tree, PutPrivate(tree, target, data), target, File(data, "0600"))
<1> DEFINE w == PutPrivate(tree, target, data)
           d == Front(target)
           m == EnsureParent(tree, d)
           node == File(data, "0600")
           mode == DirMode(tree, d)
<1>0. target # NoPlace /\ d \in Seq(Names)
  BY NotNoPlace, FrontLast
<1>1. w.fs = Put(m, target, node)
  BY <1>0, WriteIs DEF ReplaceParts
<1>2. IsPut(m, target, node, w.fs)
  <2>1. IsPut(m, target, node, Put(m, target, node))
    BY PutIs
  <2> QED  BY <1>1, <2>1
<1>3. Made(tree, d, mode, m)
  BY <1>0, MadeIs
<1> HIDE DEF w, d, m, node, mode
<1>4. /\ DOMAIN m = DOMAIN tree \cup New(tree, d)
      /\ \A p \in DOMAIN tree : m[p] = tree[p]
      /\ \A p \in New(tree, d) : m[p] = Dir(mode)
  BY <1>3 DEF Made
<1>5. /\ DOMAIN w.fs = DOMAIN m \cup {target}
      /\ NodeAt(w.fs, target) = node
      /\ \A p \in DOMAIN m \ {target} : w.fs[p] = m[p]
  BY <1>2 DEF IsPut
<1>6. \A p \in DOMAIN tree \ {target} : w.fs[p] = tree[p]
  BY <1>4, <1>5
<1>7. \A p \in DOMAIN w.fs \ (DOMAIN tree \cup {target}) : w.fs[p].kind = "dir"
  <2> SUFFICES ASSUME NEW p \in DOMAIN w.fs, p \notin DOMAIN tree, p # target PROVE w.fs[p].kind = "dir"
    OBVIOUS
  <2>1. p \in New(tree, d) /\ p \in DOMAIN m \ {target}
    BY ONLY <1>4, <1>5, p \in DOMAIN w.fs, p \notin DOMAIN tree, p # target
  <2>2. w.fs[p] = Dir(mode)
    BY ONLY <2>1, <1>4, <1>5
  <2> QED  BY <2>2, DirIs
<1> QED  BY <1>5, <1>6, <1>7 DEF WroteOnly, w, node

LEMMA WriteFailed ==
  ASSUME NEW tree, WellFormed(tree), NEW target, target = NoPlace \/ (target \in Seq(Names) /\ target # <<>>), NEW data,
         ~PutPrivate(tree, target, data).ok
  PROVE  \A p \in DOMAIN tree : PutPrivate(tree, target, data).fs[p] = tree[p]
<1> DEFINE w == PutPrivate(tree, target, data)
           d == Front(target)
           m == EnsureParent(tree, d)
<1>1. CASE target = NoPlace
  <2>1. w.fs = tree
    BY <1>1, WriteIs
  <2> QED  BY <2>1
<1>2. CASE target # NoPlace
  <2>1. w.fs = m
    BY <1>2, WriteIs DEF ReplaceParts
  <2>2. d \in Seq(Names)
    BY <1>2, FrontLast
  <2>3. \A p \in DOMAIN tree : m[p] = tree[p]
    BY <2>2, MadeIs DEF Made
  <2> QED  BY <2>1, <2>3
<1> QED  BY <1>1, <1>2

(* The directory of what could be put there.                                *)
LEMMA PlaceOk ==
  ASSUME NEW tree, WellFormed(tree), NEW dir \in Seq(Names \cup {Up}), NEW n, NEW f, Resolved(tree, dir, n, f),
         NEW place, place = ResolveDir(tree, dir), NodeAt(EnsureParent(tree, place), place).kind = "dir"
  PROVE  /\ place \in Seq(Names) /\ f.at \in Seq(Names) /\ NodeAt(tree, f.at).kind = "dir" /\ Clear(tree, place)
         /\ n < Len(dir) => NodeAt(tree, place).kind = "none"
                            /\ \A name \in Names : NodeAt(tree, Append(place, name)).kind = "none"
         /\ n = Len(dir) => place = f.at
<1> DEFINE z == Rest(dir, n)
           base == f.at
<1>1. /\ n \in 0 .. Len(dir) /\ EndsAt(tree, Part(dir, n), f) /\ f.rest = <<>> /\ f.links <= MaxLinks
      /\ z \in Seq(Names) /\ SameText(place, base \o z)
      /\ n < Len(dir) => NodeAt(tree, base).kind = "dir" /\ NodeAt(tree, Append(base, dir[n + 1])).kind = "none"
  BY DEF Resolved
<1>2. base \in Seq(Names) /\ n \in Nat /\ Len(dir) \in Nat
  BY <1>1, EndTyped
<1>3. Solid(tree, base)
  <2>1. Part(dir, n) \in Seq(Names \cup {Up})
    BY <1>1, PartsAre
  <2>2. Start(Part(dir, n)) \in Walks /\ Solid(tree, Start(Part(dir, n)).at)
    BY <2>1, StartTyped, RootIs DEF Solid
  <2> QED  BY <1>1, <2>2, LinksGrow DEF EndsAt
<1> HIDE DEF z, base
<1>4. place \in Seq(Names)
  <2>1. base \o z \in Seq(Names)
    BY ONLY <1>1, <1>2, ConcatProperties
  <2> QED  BY <1>1, <2>1 DEF SameText
<1>5. n = Len(dir) => z = <<>> /\ place = base
  <2> SUFFICES ASSUME n = Len(dir) PROVE z = <<>> /\ place = base
    OBVIOUS
  <2>1. z = <<>>
    BY PartsAre DEF z
  <2>2. base \o <<>> = base
    BY <1>2
  <2> QED  BY <1>1, <2>1, <2>2 DEF SameText
<1>6. NodeAt(tree, base).kind = "dir"
  <2>1. CASE n < Len(dir)
    BY <1>1, <2>1
  <2>2. CASE n = Len(dir)
    <3>1. place = base /\ NodeAt(tree, place).kind # "none"
      BY <1>3, <1>5, <2>2 DEF Solid
    <3>2. EnsureParent(tree, place) = tree
      BY <1>4, <3>1, EnsureThere
    <3> QED  BY <3>1, <3>2
  <2> QED  BY <1>1, <1>2, <2>1, <2>2
<1>7. n < Len(dir) => z # <<>> /\ NodeAt(tree, Append(base, z[1])).kind = "none"
  <2> SUFFICES ASSUME n < Len(dir) PROVE z # <<>> /\ NodeAt(tree, Append(base, z[1])).kind = "none"
    OBVIOUS
  <2>1. z # <<>> /\ Head(z) = dir[n + 1]
    BY <1>2, NextPart DEF z
  <2>2. Head(z) = z[1]
    BY <1>1, <2>1
  <2> QED  BY <1>1, <2>1, <2>2
<1>8. z # <<>> => NodeAt(tree, Append(base, z[1])).kind = "none"
  BY <1>1, <1>2, <1>5, <1>7
<1>9. /\ Clear(tree, base \o z)
      /\ z # <<>> => \A at \in Seq(Names) : \A i \in 0 .. Len(at) :
                       Part(at, i) = Append(base, z[1]) => NodeAt(tree, at).kind = "none"
  BY <1>1, <1>2, <1>6, <1>8, PlaceClear
<1>10. Clear(tree, place)
  BY <1>1, <1>9 DEF SameText
<1>11. ASSUME n < Len(dir)
       PROVE  NodeAt(tree, place).kind = "none"
              /\ \A name \in Names : NodeAt(tree, Append(place, name)).kind = "none"
  <2> DEFINE b == Len(base) + 1
  <2>1. z # <<>> /\ z[1] \in Names /\ Len(z) \in Nat /\ Len(z) >= 1 /\ Len(base) \in Nat
    BY <1>1, <1>2, <1>7, <1>11
  <2>2. Part(z, 1) = <<z[1]>>
    <3>1. Part(z, 0 + 1) = Append(Part(z, 0), z[0 + 1])
      BY <1>1, <2>1, NextPart
    <3>2. Part(z, 0) = <<>> /\ 0 + 1 = 1
      BY <1>1, PartsAre
    <3>3. Append(<<>>, z[1]) = <<z[1]>>
      OBVIOUS
    <3> QED  BY <3>1, <3>2, <3>3
  <2>3. /\ Len(base \o z) = Len(base) + Len(z)
        /\ SameText(Part(base \o z, b), base \o Part(z, 1))
    <3>1. 1 \in 0 .. Len(z)
      BY <2>1
    <3> QED  BY ONLY <1>1, <1>2, <3>1, PartOfJoin
  <2>4. base \o <<z[1]>> = Append(base, z[1])
    BY <1>2, <2>1
  <2>5. Part(place, b) = Append(base, z[1]) /\ b \in 0 .. Len(place)
    <3>1. Len(place) = Len(base) + Len(z)
      BY <1>1, <2>3 DEF SameText
    <3>2. b \in 0 .. Len(place)
      BY <2>1, <3>1
    <3> HIDE DEF b
    <3> QED  BY <1>1, <2>2, <2>3, <2>4, <3>2 DEF SameText
  <2> HIDE DEF b
  <2>6. NodeAt(tree, place).kind = "none"
    BY <1>4, <1>9, <2>1, <2>5
  <2>7. ASSUME NEW name \in Names PROVE NodeAt(tree, Append(place, name)).kind = "none"
    <3> DEFINE a == Append(place, name)
    <3>1. a \in Seq(Names) /\ Len(a) = Len(place) + 1 /\ \A i \in 0 .. Len(place) : Part(a, i) = Part(place, i)
      BY <1>4, AppendIs
    <3> HIDE DEF a
    <3>2. Len(place) \in Nat
      BY <1>4
    <3>3. b \in 0 .. Len(a) /\ Part(a, b) = Append(base, z[1])
      BY <2>5, <3>1, <3>2
    <3>4. NodeAt(tree, a).kind = "none"
      BY <1>9, <2>1, <3>1, <3>3
    <3> QED  BY <3>4 DEF a
  <2> QED  BY <2>6, <2>7
<1> QED  BY <1>2, <1>4, <1>5, <1>6, <1>10, <1>11 DEF base

(* What a write that is not refused is given for a place.                  *)
LEMMA TargetIs ==
  ASSUME NEW tree, WellFormed(tree), NEW path \in Seq(Names \cup {Up}),
         NEW target, target = ResolveWriteTarget(tree, path), target # NoPlace
  PROVE  LET leaf == LeafOf(tree, path)
             dir == Front(leaf)
             place == ResolveDir(tree, dir)
         IN  /\ leaf \in Seq(Names \cup {Up}) /\ leaf # <<>> /\ Last(leaf) \in Names /\ Last(leaf) # Up
             /\ NotLink(tree, leaf) /\ dir \in Seq(Names \cup {Up})
             /\ target = Append(place, Last(leaf)) /\ place \in Seq(Names)
             /\ \E n : \E f : Resolved(tree, dir, n, f)
<1> DEFINE leaf == LeafOf(tree, path)
           dir == Front(leaf)
           place == ResolveDir(tree, dir)
<1>1. leaf \in Seq(Names \cup {Up})
  <2>1. PICK cur : /\ FollowedInTurn(tree, path, cur)
                   /\ \A i \in Nat : i <= MaxLinks - 1 => cur[i] \in Seq(Names \cup {Up})
    BY LeafTyped
  <2>2. leaf = cur[MaxLinks - 1] /\ MaxLinks - 1 \in Nat /\ MaxLinks - 1 <= MaxLinks - 1
    BY <2>1, LinksAssumption DEF FollowedInTurn
  <2> HIDE DEF leaf
  <2> QED  BY <2>1, <2>2
<1>2. target = LeafTarget(tree, leaf)
  BY DEF ResolveWriteTarget
<1> HIDE DEF leaf, place
<1>3. NotLink(tree, leaf) /\ target = InResolvedDir(tree, leaf)
  BY <1>2 DEF LeafTarget, NotLink
<1>4. leaf # <<>> /\ Last(leaf) # Up /\ target = Within(place, Last(leaf))
  BY <1>3 DEF InResolvedDir, place
<1>5. dir \in Seq(Names \cup {Up}) /\ Last(leaf) \in Names
  <2>1. Last(leaf) \in Names \cup {Up} /\ dir \in Seq(Names \cup {Up})
    BY <1>1, <1>4, FrontLast
  <2> QED  BY <1>4, <2>1
<1>6. place # NoPlace /\ target = Append(place, Last(leaf))
  BY <1>4 DEF Within
<1> HIDE DEF dir
<1>7. \E n : \E f : Resolved(tree, dir, n, f)
  BY <1>5, <1>6, ResolvedIs DEF place
<1>8. place \in Seq(Names)
  <2>1. PICK n : \E f : Resolved(tree, dir, n, f)
    BY <1>7
  <2>2. PICK f : Resolved(tree, dir, n, f)
    BY <2>1
  <2>3. EndsAt(tree, Part(dir, n), f) /\ Rest(dir, n) \in Seq(Names) /\ SameText(place, f.at \o Rest(dir, n))
    BY <2>2 DEF Resolved, place
  <2>4. f.at \in Seq(Names)
    BY <2>3, EndTyped
  <2>5. f.at \o Rest(dir, n) \in Seq(Names)
    BY ONLY <2>3, <2>4, ConcatProperties
  <2> QED  BY <2>3, <2>5 DEF SameText
<1> QED  BY <1>1, <1>3, <1>4, <1>5, <1>6, <1>7, <1>8 DEF leaf, dir, place

(* A write that succeeds is read back, by way of what the last link led to.*)
LEMMA LandsOk ==
  ASSUME NEW tree, WellFormed(tree), NEW path \in Seq(Names \cup {Up}), NEW data,
         NEW target, target = ResolveWriteTarget(tree, path), PutPrivate(tree, target, data).ok
  PROVE  LET more == PutPrivate(tree, target, data).fs
         IN  /\ target \in Seq(Names) /\ target # <<>> /\ WellFormed(more)
             /\ \E j : Twin(tree, more, path, target, j) /\ j <= Farthest
<1> DEFINE w == PutPrivate(tree, target, data)
           leaf == LeafOf(tree, path)
           dir == Front(leaf)
           place == ResolveDir(tree, dir)
           name == Last(leaf)
           m == EnsureParent(tree, place)
           node == File(data, "0600")
           more == Put(m, target, node)
<1>1. target # NoPlace
  BY WriteIs
<1>2. /\ leaf \in Seq(Names \cup {Up}) /\ leaf # <<>> /\ name \in Names /\ name # Up
      /\ NotLink(tree, leaf) /\ dir \in Seq(Names \cup {Up})
      /\ target = Append(place, name) /\ place \in Seq(Names)
      /\ \E n : \E f : Resolved(tree, dir, n, f)
  BY <1>1, TargetIs
<1> HIDE DEF leaf
<1>3. PICK n : \E f : Resolved(tree, dir, n, f)
  BY <1>2
<1>4. PICK f : Resolved(tree, dir, n, f)
  BY <1>3
<1> HIDE DEF dir, name, place, node
<1>5. target \in Seq(Names) /\ target # <<>> /\ Front(target) = place
  BY <1>2, LastAppend
<1>6. NodeAt(m, place).kind = "dir" /\ NodeAt(m, target).kind # "dir" /\ w.fs = more
  <2>1. ReplaceParts(EnsureParent(tree, Front(target)), target, node, w)
    BY <1>1, WriteIs DEF node
  <2>2. ReplaceParts(m, target, node, w)
    BY <1>5, <2>1
  <2>3. w.ok
    OBVIOUS
  <2> HIDE DEF w, m
  <2> QED  BY <1>5, <2>2, <2>3 DEF ReplaceParts
<1>7. /\ NodeAt(tree, f.at).kind = "dir" /\ Clear(tree, place)
      /\ n < Len(dir) => NodeAt(tree, target).kind = "none"
      /\ n = Len(dir) => place = f.at
  <2>1. place = ResolveDir(tree, dir) /\ NodeAt(EnsureParent(tree, place), place).kind = "dir"
    BY <1>6 DEF place
  <2>2. dir \in Seq(Names \cup {Up}) /\ name \in Names /\ target = Append(place, name)
    BY <1>2
  <2> HIDE DEF m, w, more
  <2>3. /\ NodeAt(tree, f.at).kind = "dir" /\ Clear(tree, place)
        /\ n < Len(dir) => NodeAt(tree, place).kind = "none"
                           /\ \A x \in Names : NodeAt(tree, Append(place, x)).kind = "none"
        /\ n = Len(dir) => place = f.at
    BY ONLY WellFormed(tree), <2>1, <2>2, <1>4, PlaceOk
  <2> QED  BY <2>2, <2>3
<1>8. WellFormed(m) /\ Grown(tree, m) /\ \A i \in 0 .. Len(place) : NodeAt(m, Part(place, i)).kind = "dir"
  BY <1>2, <1>7, EnsureIs
<1>9. NodeAt(tree, target).kind \in {"none", "file"}
  <2>1. NodeAt(tree, target).kind # "dir"
    BY <1>6, <1>8 DEF Grown
  <2>2. CASE n < Len(dir)
    BY <1>7, <2>2
  <2>3. CASE n = Len(dir)
    <3>1. /\ EndsAt(tree, Part(dir, n), f) /\ f.rest = <<>> /\ f.links <= MaxLinks
      BY <1>4 DEF Resolved
    <3>2. Part(dir, n) = dir
      BY <1>2, <2>3, PartsAre
    <3>3. LStat(tree, leaf) = NodeAt(tree, Append(f.at, name))
      BY <1>2, <1>7, <3>1, <3>2, LStatIs DEF dir, name
    <3>4. NodeAt(tree, target).kind # "link"
      BY <1>2, <1>7, <2>3, <3>3 DEF NotLink
    <3> QED  BY <2>1, <3>4, NodeIs
  <2>4. n \in 0 .. Len(dir) /\ Len(dir) \in Nat
    BY <1>2, <1>4 DEF Resolved
  <2> QED  BY <2>2, <2>3, <2>4
<1>10. NodeAt(m, target).kind \in {"none", "file"}
  BY <1>2, <1>6, <1>9, EnsureNode
<1>11. node.kind = "file"
  BY FileIs DEF node
<1> HIDE DEF m
<1>12. WellFormed(more) /\ Grown(m, more)
  BY <1>5, <1>6, <1>8, <1>10, <1>11, PutWell
<1>13. NodeAt(more, target) = node
  <2>1. IsPut(m, target, node, more)
    BY <1>5, PutIs
  <2> HIDE DEF more
  <2> QED  BY <2>1 DEF IsPut
<1> HIDE DEF more
<1>14. Grown(tree, more)
  BY <1>8, <1>12, GrownTwice
<1>15. \A i \in 0 .. Len(place) : NodeAt(more, Part(place, i)).kind = "dir"
  BY <1>8, <1>12 DEF Grown
<1>16. SameText(place, f.at \o Rest(dir, n)) /\ f.links <= MaxLinks
  BY <1>4 DEF Resolved, place
<1>17. Twin(tree, more, leaf, target, f.links)
  BY <1>2, <1>4, <1>7, <1>9, <1>11, <1>12, <1>13, <1>14, <1>15, <1>16, LeafTwin DEF dir, name
<1>18. \E j : Twin(tree, more, path, target, j) /\ j <= Farthest
  BY <1>12, <1>14, <1>16, <1>17, TwinPath DEF leaf
<1> QED  BY <1>5, <1>6, <1>12, <1>18 DEF w

-----------------------------------------------------------------------------
(* What is promised of one path.                                            *)

(* ... and so by way of the path.                                          *)
LEMMA ReadsBack ==
  ASSUME NEW tree \in Trees, NEW path \in Paths, NEW w, w = WritePrivate(tree, path, "new"), w.ok
  PROVE  /\ WroteOnly(tree, w, Canonical(w.fs, path).at, File("new", "0600"))
         /\ Reads(w.fs, path) = File("new", "0600")
<1> DEFINE target == ResolveWriteTarget(tree, path)
           node == File("new", "0600")
           more == w.fs
<1>1. WellFormed(tree) /\ path \in Seq(Names \cup {Up}) /\ w = PutPrivate(tree, target, "new")
  BY TreesAssumption, NamesAssumption DEF WritePrivate
<1> HIDE DEF target
<1>2. /\ target \in Seq(Names) /\ target # <<>> /\ WellFormed(more)
      /\ \E j : Twin(tree, more, path, target, j) /\ j <= Farthest
  BY <1>1, LandsOk DEF target
<1>3. WroteOnly(tree, w, target, node)
  BY <1>1, <1>2, WroteIs
<1> HIDE DEF node, more
<1>4. PICK j : Twin(tree, more, path, target, j) /\ j <= Farthest
  BY <1>2
<1>5. PICK e : EndsAt(tree, path, e) /\ e.links = j
  BY <1>4 DEF Twin
<1>6. PICK g : EndsAt(more, path, g) /\ g.links = j /\ g.rest = <<>> /\ g.at = target
  BY <1>4 DEF Twin
<1>7. j < MaxLinks /\ j \in Nat
  <2>1. e.links < MaxLinks
    BY <1>4, <1>5, FewLinks
  <2> QED  BY <1>4, <1>5, <2>1 DEF Twin
<1>8. Canonical(more, path).kind = "there" /\ Canonical(more, path).at = target
  <2>1. g.links <= MaxLinks
    BY <1>6, <1>7, LinksAssumption
  <2> QED  BY <1>1, <1>2, <1>6, <2>1, EndThere
<1>9. NodeAt(more, target) = node
  BY <1>3 DEF WroteOnly, more
<1>10. Reads(more, path) = node
  BY <1>8, <1>9 DEF Reads, Found
<1> QED  BY <1>3, <1>8, <1>10 DEF node, more

(* A write that is refused leaves everything as it was.                    *)
LEMMA Refused ==
  ASSUME NEW tree \in Trees, NEW path \in Paths, NEW w, w = WritePrivate(tree, path, "new"), ~w.ok
  PROVE  \A p \in DOMAIN tree : w.fs[p] = tree[p]
<1> DEFINE target == ResolveWriteTarget(tree, path)
<1>1. WellFormed(tree) /\ path \in Seq(Names \cup {Up}) /\ w = PutPrivate(tree, target, "new")
  BY TreesAssumption, NamesAssumption DEF WritePrivate
<1>2. target = NoPlace \/ (target \in Seq(Names) /\ target # <<>>)
  <2> DEFINE place == ResolveDir(tree, Front(LeafOf(tree, path)))
             name == Last(LeafOf(tree, path))
  <2> SUFFICES ASSUME target # NoPlace PROVE target \in Seq(Names) /\ target # <<>>
    OBVIOUS
  <2>1. place \in Seq(Names) /\ name \in Names /\ target = Append(place, name)
    BY <1>1, TargetIs
  <2> HIDE DEF place, name, target
  <2> QED  BY <2>1, LastAppend
<1> DEFINE data == "new"
<1>3. WellFormed(tree) /\ w = PutPrivate(tree, target, data) /\ ~PutPrivate(tree, target, data).ok
  BY <1>1
<1> HIDE DEF target, data
<1>4. \A p \in DOMAIN tree : PutPrivate(tree, target, data).fs[p] = tree[p]
  BY ONLY <1>2, <1>3, WriteFailed
<1> QED  BY <1>3, <1>4

(* A path that leads to a file, or to where one could be, is not refused.  *)
LEMMA LeadsTo ==
  ASSUME NEW tree \in Trees, NEW path \in Paths, NEW was, was = Canonical(tree, path),
         was.kind = "absent" \/ Found(tree, was).kind = "file"
  PROVE  /\ ResolveWriteTarget(tree, path) = was.at /\ was.at \in Seq(Names) /\ was.at # <<>>
         /\ NodeAt(tree, Front(was.at)).kind = "dir"
         /\ was.kind = "absent" => NodeAt(tree, was.at) = Nothing
         /\ was.kind # "absent" => NodeAt(tree, was.at).kind = "file" /\ was.at \in DOMAIN tree
<1>1. WellFormed(tree) /\ path \in Seq(Names \cup {Up}) /\ MaxLinks \in Nat
  BY TreesAssumption, NamesAssumption, LinksAssumption
<1>2. was.kind # "absent" => was.kind = "there" /\ NodeAt(tree, was.at).kind = "file"
  <2> SUFFICES ASSUME was.kind # "absent" PROVE was.kind = "there" /\ NodeAt(tree, was.at).kind = "file"
    OBVIOUS
  <2>1. Nothing.kind # "file"
    BY DEF Nothing
  <2> QED  BY <2>1 DEF Found
<1>3. was.kind # "loop"
  BY <1>2
<1> DEFINE e == WalkEnd(tree, MaxLinks, path)
<1>4. /\ EndsAt(tree, path, e) /\ e.links <= MaxLinks /\ e \in Walks
      /\ was.kind = Halt(tree, MaxLinks, e)
      /\ was.at = IF Halt(tree, MaxLinks, e) \in {"absent", "missing"}
                  THEN Append(e.at, Head(e.rest)) ELSE e.at
  BY <1>1, <1>3, CanonicalEnd
<1> HIDE DEF e
<1>5. e.links < MaxLinks /\ e.links \in Nat /\ ~Goes(tree, e)
  <2>1. MaxLinks <= Farthest
    <3>1. Farthest = MaxLinks * (MaxLinks + 1)
      BY DEF Farthest
    <3>2. (MaxLinks + 1) * MaxLinks = MaxLinks * MaxLinks + MaxLinks /\ MaxLinks * MaxLinks \in Nat
      BY <1>1, OneMore
    <3> QED  BY <1>1, <3>1, <3>2
  <2>2. e.links \in Nat /\ e.links <= Farthest
    <3>1. e.links \in Nat /\ Farthest \in Nat
      BY <1>1, <1>4 DEF Walks, Farthest
    <3> QED  BY <1>1, <1>4, <2>1, <3>1
  <2>3. e.links < MaxLinks
    BY <1>4, <2>2, FewLinks
  <2> QED  BY <1>4, <2>2, <2>3 DEF EndsAt
<1>6. CASE was.kind = "absent"
  <2>1. was.at = Append(e.at, Head(e.rest)) /\ Halt(tree, MaxLinks, e) = "absent"
    BY <1>4, <1>6
  <2>2. /\ e.rest # <<>> /\ NodeAt(tree, e.at).kind = "dir"
        /\ Head(e.rest) # Up /\ Ahead(tree, e).kind = "none"
    BY <1>1, <1>4, <1>5, <2>1, EndKinds
  <2>3. Leads(tree, path, was.at, e.links)
    BY <1>4, <2>1 DEF Leads
  <2>4. ResolveWriteTarget(tree, path) = was.at
    BY <1>1, <1>5, <2>3, LeadsTarget
  <2>5. e.at \in Seq(Names) /\ Head(e.rest) \in Names
    <3>1. Head(e.rest) \in Names \cup {Up}
      BY <1>4, <2>2, RestIs
    <3> QED  BY <1>4, <2>2, <3>1 DEF Walks
  <2>6. was.at \in Seq(Names) /\ was.at # <<>> /\ Front(was.at) = e.at
    BY <2>1, <2>5, LastAppend
  <2>7. NodeAt(tree, was.at) = Nothing
    BY <1>1, <2>1, <2>2, NothingIs DEF Ahead
  <2> QED  BY <1>6, <2>2, <2>4, <2>6, <2>7
<1>7. CASE was.kind # "absent"
  <2>1. Halt(tree, MaxLinks, e) = "there" /\ was.at = e.at /\ NodeAt(tree, e.at).kind = "file"
    BY <1>2, <1>4, <1>7
  <2>2. e.rest = <<>>
    BY <1>1, <1>4, <1>5, <2>1, EndKinds
  <2>3. Leads(tree, path, was.at, e.links)
    BY <1>4, <2>1, <2>2 DEF Leads
  <2>4. ResolveWriteTarget(tree, path) = was.at
    BY <1>1, <1>5, <2>3, LeadsTarget
  <2>5. e.at # <<>>
    BY <2>1, RootIs
  <2>6. e.at \in DOMAIN tree /\ e.at \in Seq(Names)
    BY <1>1, <2>1, <2>5, NodeIs
  <2>7. NodeAt(tree, Front(e.at)).kind = "dir"
    BY <1>1, <2>6 DEF WellFormed
  <2> QED  BY <1>7, <2>1, <2>4, <2>5, <2>6, <2>7
<1> QED  BY <1>6, <1>7

LEMMA DoneIs ==
  ASSUME NEW tree
  PROVE  Done(tree).ok = TRUE /\ Done(tree).fs = tree
  BY DEF Done

(* Into a directory that is there.                                          *)
LEMMA WrittenThere ==
  ASSUME NEW tree, WellFormed(tree), NEW at \in Seq(Names), at # <<>>,
         NodeAt(tree, Front(at)).kind = "dir", NodeAt(tree, at).kind # "dir", NEW node
  PROVE  LET w == ReplaceAtomically(tree, at, node)
         IN  /\ w.ok /\ WroteOnly(tree, w, at, node)
             /\ EnsureParent(tree, Front(at)) = tree /\ at # NoPlace
<1> DEFINE w == ReplaceAtomically(tree, at, node)
           more == Put(tree, at, node)
<1>1. w.ok /\ w.fs = more
  BY ReplaceIs DEF ReplaceParts
<1>2. IsPut(tree, at, node, more)
  BY PutIs
<1> HIDE DEF w, more
<1>3. /\ NodeAt(w.fs, at) = node
      /\ \A p \in DOMAIN tree \ {at} : w.fs[p] = tree[p]
      /\ \A p \in DOMAIN w.fs \ (DOMAIN tree \cup {at}) : FALSE
  BY <1>1, <1>2 DEF IsPut
<1>4. WroteOnly(tree, w, at, node)
  BY <1>3 DEF WroteOnly
<1>5. Front(at) \in Seq(Names)
  BY FrontLast
<1>6. EnsureParent(tree, Front(at)) = tree
  BY <1>5, EnsureThere
<1> QED  BY <1>1, <1>4, <1>6, NotNoPlace DEF w

(* What each writer does with a path: resolve_write_target, fs.rs:112-129. *)
LEMMA PathLandsWell ==
  ASSUME NEW tree \in Trees, NEW path \in Paths
  PROVE  LandsWell(tree, path, Canonical(tree, path), WritePrivate(tree, path, "new"),
                   CreatePrivateIfAbsent(tree, path, "new"), RewriteUserFile(tree, path, "new"))
<1> DEFINE was == Canonical(tree, path)
           at == was.at
           w == WritePrivate(tree, path, "new")
           c == CreatePrivateIfAbsent(tree, path, "new")
           r == RewriteUserFile(tree, path, "new")
           target == ResolveWriteTarget(tree, path)
           node == File("new", "0600")
           mine == File("new", tree[at].mode)
           first ==
             /\ w.ok /\ c.ok /\ r.ok
             /\ WroteOnly(tree, w, at, node)
             /\ IF was.kind = "absent" THEN c = w /\ r.fs = tree
                ELSE /\ c.fs = tree
                     /\ IF tree[at].data = "new" THEN r.fs = tree
                        ELSE WroteOnly(tree, r, at, mine)
<1>0. WellFormed(tree)
  BY TreesAssumption
<1>1. ASSUME was.kind = "absent" \/ Found(tree, was).kind = "file" PROVE first
  <2>1. /\ target = at /\ at \in Seq(Names) /\ at # <<>>
        /\ NodeAt(tree, Front(at)).kind = "dir"
        /\ was.kind = "absent" => NodeAt(tree, at) = Nothing
        /\ was.kind # "absent" => NodeAt(tree, at).kind = "file" /\ at \in DOMAIN tree
    BY <1>1, LeadsTo
  <2>2. Nothing.kind = "none"
    BY DEF Nothing
  <2> DEFINE put == ReplaceAtomically(tree, at, node)
             own == ReplaceAtomically(tree, at, mine)
  <2>3. w = PutPrivate(tree, target, "new") /\ c = CreateAt(tree, target, "new") /\ r = RewriteAt(tree, target, "new")
    BY DEF WritePrivate, CreatePrivateIfAbsent, RewriteUserFile
  <2> HIDE DEF was, target, node, mine, w, c, r
  <2>4. NodeAt(tree, at).kind # "dir"
    BY <2>1, <2>2
  <2>5. /\ put.ok /\ WroteOnly(tree, put, at, node) /\ own.ok /\ WroteOnly(tree, own, at, mine)
        /\ EnsureParent(tree, Front(at)) = tree /\ at # NoPlace
    BY <1>0, <2>1, <2>4, WrittenThere
  <2>6. w = put
    BY <2>1, <2>3, <2>5 DEF PutPrivate, node
  <2>7. c = PutIfAbsent(tree, at, node)
    BY <2>1, <2>3, <2>5 DEF CreateAt, node
  <2>8. CASE was.kind = "absent"
    <3>1. c = put
      BY <2>1, <2>7, <2>8 DEF PutIfAbsent
    <3>2. r = Done(tree)
      BY <2>1, <2>2, <2>3, <2>5, <2>8 DEF RewriteAt
    <3>3. r.ok /\ r.fs = tree
      BY <3>2, DoneIs
    <3> HIDE DEF put, own
    <3> QED  BY <2>5, <2>6, <2>8, <3>1, <3>3
  <2>9. CASE was.kind # "absent"
    <3>1. NodeAt(tree, at) # Nothing
      BY <2>1, <2>2, <2>9
    <3>2. c = Done(tree)
      BY <2>7, <3>1 DEF PutIfAbsent
    <3>3. c.ok /\ c.fs = tree
      BY <3>2, DoneIs
    <3>4. CASE tree[at].data = "new"
      <4>1. r = Done(tree)
        BY <2>1, <2>3, <2>5, <3>4 DEF RewriteAt
      <4>2. r.ok /\ r.fs = tree
        BY <4>1, DoneIs
      <4> HIDE DEF put, own
      <4> QED  BY <2>5, <2>6, <2>9, <3>3, <3>4, <4>2
    <3>5. CASE tree[at].data # "new"
      <4>1. r = own
        BY <2>1, <2>3, <2>5, <2>9, <3>5 DEF RewriteAt, mine
      <4> HIDE DEF put, own
      <4> QED  BY <2>5, <2>6, <2>9, <3>3, <3>5, <4>1
    <3> QED  BY <3>4, <3>5
  <2> QED  BY <2>8, <2>9
<1>2. ASSUME w.ok
      PROVE  WroteOnly(tree, w, Canonical(w.fs, path).at, node) /\ Reads(w.fs, path) = node
  BY <1>2, ReadsBack
<1>3. ASSUME ~w.ok PROVE \A p \in DOMAIN tree : w.fs[p] = tree[p]
  BY <1>3, Refused
<1>4. (was.kind = "absent" \/ Found(tree, was).kind = "file") => first
  BY <1>1
<1>5. w.ok => WroteOnly(tree, w, Canonical(w.fs, path).at, node) /\ Reads(w.fs, path) = node
  BY <1>2
<1>6. ~w.ok => \A p \in DOMAIN tree : w.fs[p] = tree[p]
  BY <1>3
<1> HIDE DEF was, w, c, r
<1>7. LandsWell(tree, path, was, w, c, r)
  BY <1>4, <1>5, <1>6 DEF LandsWell
<1> QED  BY <1>7 DEF was, w, c, r

-----------------------------------------------------------------------------
(* Our own file, in our own directory.                                      *)
LEMMA ArtifactInside ==
  ASSUME NEW tree \in Trees
  PROVE  StaysInside(tree, WritePrivateArtifact(tree, Artifact, "new"))
<1> DEFINE w == WritePrivateArtifact(tree, Artifact, "new")
           was == Canonical(tree, Private)
           place == ResolveDir(tree, Private)
           target == Append(place, Artifact)
           m == EnsureParent(tree, place)
           node == File("new", "0600")
           more == Put(m, target, node)
           dir == IF Missing(was) THEN Canonical(w.fs, Private) ELSE was
           good == /\ dir.kind = "there"
                   /\ WroteOnly(tree, w, Append(dir.at, Artifact), node)
                   /\ Missing(was) => NodeAt(w.fs, dir.at) = Dir("0700")
<1>0. WellFormed(tree) /\ Private \in Seq(Names) /\ Private \in Seq(Names \cup {Up}) /\ Artifact \in Names
      /\ MaxLinks \in Nat
  BY TreesAssumption, NamesAssumption, LinksAssumption
<1>1. ASSUME w.ok PROVE good
  <2>1. w = PutPrivate(tree, Within(place, Artifact), "new")
    BY DEF WritePrivateArtifact
  <2>2. Within(place, Artifact) # NoPlace
    <3> HIDE DEF place
    <3> QED  BY <1>1, <2>1, WriteIs
  <2>3. place # NoPlace
    BY <2>2 DEF Within
  <2>4. w = PutPrivate(tree, target, "new")
    BY <2>1, <2>3 DEF Within
  <2>5. \E n : \E f : Resolved(tree, Private, n, f)
    BY <1>0, <2>3, ResolvedIs
  <2>6. PICK n : \E f : Resolved(tree, Private, n, f)
    BY <2>5
  <2>7. PICK f : Resolved(tree, Private, n, f)
    BY <2>6
  <2> DEFINE z == Rest(Private, n)
             base == f.at
  <2>8. /\ n \in 0 .. Len(Private) /\ EndsAt(tree, Part(Private, n), f) /\ f.rest = <<>> /\ f.links <= MaxLinks
        /\ z \in Seq(Names) /\ SameText(place, base \o z)
        /\ n < Len(Private) => Missing(was)
        /\ n = Len(Private) => ~Missing(was)
    BY <2>7 DEF Resolved
  <2>9. base \in Seq(Names) /\ f \in Walks /\ f.links \in Nat /\ Len(Private) \in Nat /\ n \in Nat
    BY <1>0, <2>8, EndTyped
  <2> HIDE DEF w, was, place, target, m, node, more, z, base
  <2>10. place \in Seq(Names)
    <3>1. base \o z \in Seq(Names)
      BY ONLY <2>8, <2>9, ConcatProperties
    <3> QED  BY <2>8, <3>1 DEF SameText
  <2>11. target \in Seq(Names) /\ target # <<>> /\ Front(target) = place
    BY <1>0, <2>10, LastAppend DEF target
  <2>12. NodeAt(m, place).kind = "dir" /\ NodeAt(m, target).kind # "dir" /\ w.fs = more
    <3>1. target # NoPlace
      BY <2>11, NotNoPlace
    <3>2. ReplaceParts(m, target, node, w)
      BY <2>4, <2>11, <3>1, WriteIs DEF node, m
    <3> QED  BY <1>1, <2>11, <3>2 DEF ReplaceParts, more
  <2>13. WroteOnly(tree, w, target, node)
    BY <1>0, <1>1, <2>4, <2>11, WroteIs DEF node
  <2>14. /\ NodeAt(tree, base).kind = "dir" /\ Clear(tree, place)
         /\ n < Len(Private) => NodeAt(tree, place).kind = "none" /\ NodeAt(tree, target).kind = "none"
         /\ n = Len(Private) => place = base
    BY <1>0, <2>7, <2>12, PlaceOk DEF base, place, target, m
  <2>15. CASE n = Len(Private)
    <3>1. ~Missing(was) /\ place = base
      BY <2>8, <2>14, <2>15
    <3>2. Part(Private, n) = Private
      BY <1>0, <2>15, PartsAre
    <3>3. was.kind = "there" /\ was.at = base
      BY <1>0, <2>8, <3>2, EndThere DEF was, base
    <3>4. Append(dir.at, Artifact) = target /\ dir.kind = "there"
      BY <3>1, <3>3 DEF target
    <3> QED  BY <2>13, <3>1, <3>4
  <2>16. CASE n < Len(Private)
    <3>1. Missing(was) /\ NodeAt(tree, place).kind = "none" /\ NodeAt(tree, target).kind = "none"
      BY <2>8, <2>14, <2>16
    <3>2. WellFormed(m) /\ Grown(tree, m) /\ \A i \in 0 .. Len(place) : NodeAt(m, Part(place, i)).kind = "dir"
      BY <1>0, <2>10, <2>14, EnsureIs DEF m
    <3>3. NodeAt(m, target).kind = "none"
      BY <1>0, <2>10, <2>12, <3>1, EnsureNode DEF m
    <3>4. WellFormed(more) /\ Grown(m, more)
      <4>1. node.kind = "file"
        BY FileIs DEF node
      <4> QED  BY <2>11, <2>12, <3>2, <3>3, <4>1, PutWell DEF more
    <3>5. Grown(tree, more)
      BY <3>2, <3>4, GrownTwice
    <3>6. IsPut(m, target, node, more)
      BY <2>11, PutIs DEF more
    <3>7. place # target /\ NodeAt(more, place) = NodeAt(m, place)
      <4>1. place # target
        BY <2>12
      <4> QED  BY <3>6, <4>1 DEF IsPut
(* The directory itself is new, and ours.                                   *)
    <3>8. NodeAt(m, place) = Dir("0700")
      <4>1. Part(place, Len(place)) = place /\ Len(place) \in 0 .. Len(place)
        BY <2>10, PartsAre
      <4>2. place \in New(tree, place) /\ <<>> \notin New(tree, place)
        BY <1>0, <2>10, <3>1, <4>1, NewIs
      <4>3. Made(tree, place, DirMode(tree, place), m)
        BY <1>0, <2>10, MadeIs DEF m
      <4>4. DirMode(tree, place) = "0700"
        BY DEF DirMode, place
      <4>5. place \in DOMAIN m /\ m[place] = Dir("0700") /\ place # <<>>
        BY <4>2, <4>3, <4>4 DEF Made
      <4> QED  BY <4>5 DEF NodeAt
(* The path now leads there.                                                *)
    <3> DEFINE v == [at |-> base, rest |-> z, links |-> f.links]
               u == [at |-> base \o z, rest |-> <<>>, links |-> f.links]
               p == Part(Private, n)
    <3>9. p \in Seq(Names \cup {Up}) /\ SameText(p \o z, Private) /\ z \in Seq(Names \cup {Up})
      BY <1>0, <2>8, PartsAre, PartRest DEF z
    <3>10. v \in Reach(more, Start(Private)) /\ v \in Walks
      <4>1. f \in Reach(tree, Start(p))
        BY <2>8 DEF EndsAt
      <4> HIDE DEF v, p
      <4>2. Start(p) \in Walks /\ Start(Private) \in Walks
        BY <1>0, <3>9, StartTyped
      <4>3. Longer(f, z) \in Reach(tree, Longer(Start(p), z))
        BY <1>0, <3>9, <4>1, <4>2, ReachLonger
      <4>4. Longer(Start(p), z) = Start(Private)
        BY <3>9, StartLonger DEF SameText
      <4>5. Longer(f, z) = v
        <5>1. <<>> \o z = z
          BY <3>9, EmptyJoin
        <5> QED  BY <2>8, <5>1 DEF Longer, v, base
      <4>6. v \in Reach(tree, Start(Private))
        BY <4>3, <4>4, <4>5
      <4> QED  BY <1>0, <3>4, <3>5, <4>2, <4>6, ReachGrown, ReachTyped
    <3>11. u \in Reach(more, v)
      <4>1. ASSUME NEW i \in 0 .. Len(z) - 1 PROVE NodeAt(more, base \o Part(z, i)).kind = "dir"
        <5>1. Len(z) \in Nat /\ Len(base) \in Nat /\ i \in 0 .. Len(z)
          BY <2>8, <2>9
        <5>2. /\ Len(base \o z) = Len(base) + Len(z)
              /\ SameText(Part(base \o z, Len(base) + i), base \o Part(z, i))
          BY ONLY <2>8, <2>9, <5>1, PartOfJoin
        <5>3. Len(place) = Len(base) + Len(z) /\ Part(place, Len(base) + i) = base \o Part(z, i)
          BY <2>8, <5>2 DEF SameText
        <5>4. Len(base) + i \in 0 .. Len(place)
          BY <5>1, <5>3
        <5>5. NodeAt(m, Part(place, Len(base) + i)).kind = "dir"
          BY <3>2, <5>4
        <5>6. NodeAt(more, Part(place, Len(base) + i)).kind = "dir"
          BY <3>4, <5>5 DEF Grown
        <5> QED  BY <5>3, <5>6
      <4>2. Solid(more, base \o z)
        BY <2>8, <2>12, <3>7 DEF Solid, SameText
      <4> HIDE DEF u, v
      <4> QED  BY <2>8, <2>9, <3>4, <4>1, <4>2, PlainWalk DEF u, v
    <3>12. u.rest = <<>> /\ u.links = f.links /\ u.at = place
      BY <2>8 DEF SameText
    <3> HIDE DEF u, v, p
    <3>13. Start(Private) \in Walks
      BY <1>0, StartTyped
    <3>14. u \in Reach(more, Start(Private)) /\ u \in Walks
      BY <3>4, <3>10, <3>11, <3>13, ReachFurther, ReachTyped
    <3>15. EndsAt(more, Private, u)
      <4>1. ~Goes(more, u)
        BY <3>12, <3>14, GoesIs
      <4> QED  BY <3>14, <4>1 DEF EndsAt
    <3>16. Canonical(more, Private).kind = "there" /\ Canonical(more, Private).at = place
      BY <1>0, <2>8, <3>4, <3>12, <3>15, EndThere
    <3>17. dir.kind = "there" /\ dir.at = place
      BY <2>12, <3>1, <3>16
    <3>18. Append(dir.at, Artifact) = target
      BY <3>17 DEF target
    <3>19. NodeAt(w.fs, dir.at) = Dir("0700")
      BY <2>12, <3>7, <3>8, <3>17
    <3> HIDE DEF dir
    <3> QED  BY <2>13, <3>17, <3>18, <3>19
  <2> QED  BY <2>8, <2>9, <2>15, <2>16
<1>2. w.ok => good
  BY <1>1
<1> HIDE DEF w
<1>3. StaysInside(tree, w)
  BY <1>2 DEF StaysInside
<1> QED  BY <1>3 DEF w

-----------------------------------------------------------------------------
(* A trusted chain.                                                         *)

LEMMA LastStep ==
  ASSUME NEW tree, WellFormed(tree), NEW cur \in Seq(Names \cup {Up}), cur # <<>>,
         LStat(tree, cur).kind \in {"dir", "file"}
  PROVE  LET f == WalkEnd(tree, MaxLinks, Front(cur))
         IN  \E g : /\ EndsAt(tree, cur, g) /\ g.rest = <<>> /\ g.links <= MaxLinks /\ g \in Walks
                    /\ EndsAt(tree, Front(cur), f) /\ f.rest = <<>> /\ f.links <= MaxLinks
                    /\ Last(cur) # Up => g.at = Append(f.at, Last(cur))
                    /\ NodeAt(tree, g.at) = LStat(tree, cur)
<1> DEFINE f == WalkEnd(tree, MaxLinks, Front(cur))
           name == Last(cur)
           v == Longer(f, <<name>>)
           g == Onward(tree, v)
<1>1. /\ EndsAt(tree, Front(cur), f) /\ f \in Walks /\ f.rest = <<>> /\ f.links <= MaxLinks
      /\ NodeAt(tree, f.at).kind = "dir"
  BY LStatThere
<1> HIDE DEF f
<1>2. name \in Names \cup {Up} /\ Start(cur) \in Walks
  BY FrontLast, StartTyped
<1>3. LStat(tree, cur) = NodeAt(tree, IF name = Up THEN Above(f.at) ELSE Append(f.at, name))
  BY <1>1, LStatIs
<1>4. v \in Reach(tree, Start(cur))
  BY <1>1, BeforeLast DEF EndsAt
<1> HIDE DEF name
<1>5. /\ v \in Walks /\ v.at = f.at /\ v.rest = <<name>> /\ v.links = f.links
      /\ Head(v.rest) = name /\ Tail(v.rest) = <<>> /\ v.rest # <<>>
  BY <1>1, <1>2, AtLast
<1> HIDE DEF v, g
<1>6. Ahead(tree, v) = NodeAt(tree, Append(f.at, name))
  BY <1>5 DEF Ahead
<1>7. Goes(tree, v)
  BY <1>1, <1>3, <1>5, <1>6, GoesIs
<1>8. g \in Walks /\ g \in Reach(tree, Start(cur))
  BY <1>2, <1>4, <1>5, <1>7, OnwardTyped, ReachOnward DEF g
<1>9. /\ g.rest = <<>> /\ g.links = f.links
      /\ g.at = IF name = Up THEN Above(f.at) ELSE Append(f.at, name)
  <2>1. CASE name = Up
    BY <1>5, <2>1, UpParts DEF g
  <2>2. CASE name # Up
    BY <1>3, <1>5, <1>6, <2>2, DownParts DEF g
  <2> QED  BY <2>1, <2>2
<1>10. EndsAt(tree, cur, g)
  <2>1. ~Goes(tree, g)
    BY <1>8, <1>9, GoesIs
  <2> QED  BY <1>8, <2>1 DEF EndsAt
<1>11. NodeAt(tree, g.at) = LStat(tree, cur)
  BY <1>3, <1>9
<1>12. /\ EndsAt(tree, cur, g) /\ g.rest = <<>> /\ g.links <= MaxLinks /\ g \in Walks
       /\ EndsAt(tree, Front(cur), f) /\ f.rest = <<>> /\ f.links <= MaxLinks
       /\ name # Up => g.at = Append(f.at, name)
       /\ NodeAt(tree, g.at) = LStat(tree, cur)
  BY <1>1, <1>8, <1>9, <1>10, <1>11
<1> QED  BY <1>12 DEF f, name

LEMMA SubSeqGrows ==
  ASSUME NEW S, NEW x \in Seq(S), NEW b \in Nat, NEW k \in Nat, b <= k, k < Len(x)
  PROVE  /\ SubSeq(x, b + 1, k) \in Seq(S) /\ x[k + 1] \in S
         /\ SameText(SubSeq(x, b + 1, k + 1), Append(SubSeq(x, b + 1, k), x[k + 1]))
<1> DEFINE p == SubSeq(x, b + 1, k)
           q == SubSeq(x, b + 1, k + 1)
           e == x[k + 1]
           a == Append(p, e)
<1>1. Len(x) \in Nat /\ e \in S
  OBVIOUS
<1>2. p \in Seq(S) /\ Len(p) = k - b /\ \A j \in 1 .. k - b : p[j] = x[b + j]
  BY <1>1
<1>3. q \in Seq(S) /\ Len(q) = k + 1 - b /\ \A j \in 1 .. k + 1 - b : q[j] = x[b + j]
  BY <1>1
<1> HIDE DEF p, q, e
<1>4. a \in Seq(S) /\ Len(a) = Len(p) + 1 /\ a[Len(p) + 1] = e /\ \A j \in 1 .. Len(p) : a[j] = p[j]
  BY <1>1, <1>2
<1> HIDE DEF a
<1>5. ASSUME NEW j \in 1 .. Len(q) PROVE q[j] = a[j]
  <2>1. CASE j <= k - b
    <3>1. j \in 1 .. k - b
      BY <1>3, <2>1
    <3> QED  BY <1>2, <1>3, <1>4, <3>1
  <2>2. CASE j > k - b
    <3>1. j = k - b + 1 /\ b + j = k + 1 /\ j = Len(p) + 1
      BY <1>2, <1>3, <2>2
    <3> QED  BY <1>3, <1>4, <3>1 DEF e
  <2>3. j \in Nat /\ k - b \in Nat
    BY <1>3
  <2> QED  BY <2>1, <2>2, <2>3
<1>6. q = a
  BY <1>2, <1>3, <1>4, <1>5, SameTexts
<1> QED  BY <1>1, <1>2, <1>6 DEF SameText, p, q, a, e

(* What trusted_chain has looked at is what is read: fs.rs:69-98.          *)
LEMMA ChainReads ==
  ASSUME NEW tree \in Trees, NEW path \in Paths, NEW boundary \in Prefixes(path),
         TrustedChain(tree, path, boundary),
         \A k \in Len(boundary) + 1 .. Len(path) : path[k] # Up
  PROVE  ReadWhereItSays(tree, path, boundary)
<1>0. WellFormed(tree) /\ path \in Seq(Names \cup {Up}) /\ MaxLinks \in Nat /\ Len(path) \in Nat
  BY TreesAssumption, NamesAssumption, LinksAssumption
<1>1. PICK b \in 0 .. Len(path) : boundary = Part(path, b)
  BY DEF Prefixes, Part
<1>2. boundary \in Seq(Names \cup {Up}) /\ Len(boundary) = b /\ b \in Nat
  BY <1>0, <1>1, PartsAre
<1>3. ASSUME NEW k \in 0 .. Len(path), b <= k
      PROVE  LStat(tree, Part(path, k)).kind \in {"dir", "file"} /\ LStat(tree, Part(path, k)).trusted
  <2>1. Part(path, k) \in Prefixes(path) /\ Len(Part(path, k)) = k
    BY <1>0, PartsAre DEF Prefixes, Part
  <2> QED  BY <1>2, <1>3, <2>1 DEF TrustedChain
<1> DEFINE base == Canonical(tree, boundary).at
           There(f, k) == /\ EndsAt(tree, Part(path, k), f) /\ f.rest = <<>> /\ f.links <= MaxLinks
                          /\ SameText(f.at, base \o SubSeq(path, b + 1, k))
                          /\ NodeAt(tree, f.at) = LStat(tree, Part(path, k))
           S == {i \in Nat : b + i <= Len(path) => \E f : There(f, b + i)}
<1>4. PICK g : /\ EndsAt(tree, boundary, g) /\ g.rest = <<>> /\ g.links <= MaxLinks
               /\ NodeAt(tree, g.at) = LStat(tree, boundary)
  <2>1. CASE boundary = <<>>
    <3>1. EndsAt(tree, <<>>, Start(<<>>))
      BY <1>0, RootEnds
    <3>2. Start(<<>>).at = <<>> /\ Start(<<>>).rest = <<>> /\ Start(<<>>).links = 0 /\ 0 <= MaxLinks
      BY <1>0 DEF Start
    <3>3. LStat(tree, <<>>) = NodeAt(tree, <<>>)
      BY DEF LStat
    <3> QED  BY <2>1, <3>1, <3>2, <3>3
  <2>2. CASE boundary # <<>>
    <3>1. LStat(tree, boundary).kind \in {"dir", "file"}
      BY <1>1, <1>2, <1>3
    <3> QED  BY <1>0, <1>2, <2>2, <3>1, LastStep
  <2> QED  BY <2>1, <2>2
<1>5. base = g.at /\ base \in Seq(Names) /\ base \in Seq(Names \cup {Up})
  <2>1. base = g.at
    BY <1>0, <1>2, <1>4, EndThere
  <2>2. g.at \in Seq(Names)
    BY <1>4, EndTyped
  <2> QED  BY <2>1, <2>2
<1> HIDE DEF base
<1>6. 0 \in S
  <2>1. b + 0 = b /\ SubSeq(path, b + 1, b) = <<>>
    BY <1>0, <1>2
  <2>2. base \o <<>> = base
    BY <1>5
  <2>3. There(g, b)
    BY <1>1, <1>4, <1>5, <2>1, <2>2 DEF SameText
  <2> HIDE DEF There
  <2> QED  BY <2>1, <2>3
<1>7. ASSUME NEW i \in Nat, i \in S PROVE i + 1 \in S
  <2> DEFINE k == b + i
             cur == Part(path, k + 1)
             name == path[k + 1]
             f == WalkEnd(tree, MaxLinks, Front(cur))
  <2> SUFFICES ASSUME b + (i + 1) <= Len(path) PROVE \E h : There(h, b + (i + 1))
    OBVIOUS
  <2>1. /\ b + (i + 1) = k + 1 /\ k \in Nat /\ k < Len(path) /\ b + i <= Len(path) /\ b <= k
        /\ k + 1 \in 0 .. Len(path) /\ b <= k + 1 /\ k + 1 \in Len(boundary) + 1 .. Len(path)
    BY <1>0, <1>2
  <2>2. PICK h : There(h, k)
    <3> HIDE DEF There
    <3> QED  BY <1>7, <2>1
  <2> HIDE DEF k, S
  <2>3. cur \in Seq(Names \cup {Up}) /\ cur # <<>> /\ Front(cur) = Part(path, k) /\ Last(cur) = name
    BY <1>0, <2>1, AbovePart, LastOfPart
  <2>4. LStat(tree, cur).kind \in {"dir", "file"} /\ name # Up
    BY <1>3, <2>1
  <2> HIDE DEF cur, name, f
  <2>5. PICK e : /\ EndsAt(tree, cur, e) /\ e.rest = <<>> /\ e.links <= MaxLinks /\ e \in Walks
                 /\ EndsAt(tree, Front(cur), f) /\ f.rest = <<>> /\ f.links <= MaxLinks
                 /\ Last(cur) # Up => e.at = Append(f.at, Last(cur))
                 /\ NodeAt(tree, e.at) = LStat(tree, cur)
    BY <1>0, <2>3, <2>4, LastStep DEF f
  <2>6. f = h
    <3>1. Start(Part(path, k)) \in Walks
      <4>1. Part(path, k) \in Seq(Names \cup {Up})
        <5>1. k \in 0 .. Len(path)
          BY <2>1
        <5> QED  BY <1>0, <5>1, PartsAre
      <4> QED  BY <4>1, StartTyped
    <3>2. EndsAt(tree, Part(path, k), f) /\ EndsAt(tree, Part(path, k), h)
      BY <2>2, <2>3, <2>5
    <3> QED  BY <1>0, <3>1, <3>2, OneEnd DEF EndsAt
  <2>7. e.at = Append(h.at, name) /\ SameText(h.at, base \o SubSeq(path, b + 1, k))
    BY <2>2, <2>3, <2>4, <2>5, <2>6
  <2>8. SameText(e.at, base \o SubSeq(path, b + 1, k + 1))
    <3> DEFINE p == SubSeq(path, b + 1, k)
               q == SubSeq(path, b + 1, k + 1)
    <3>1. p \in Seq(Names \cup {Up}) /\ name \in Names \cup {Up} /\ SameText(q, Append(p, name))
      BY <1>0, <1>2, <2>1, SubSeqGrows DEF name
    <3> HIDE DEF p, q
    <3>2. SameText(Append(base \o p, name), base \o Append(p, name))
      BY ONLY <1>5, <3>1, AppendJoin
    <3>3. h.at = base \o p
      BY <2>7 DEF SameText, p
    <3>4. SameText(e.at, base \o q)
      BY <2>7, <3>1, <3>2, <3>3 DEF SameText
    <3> QED  BY <3>4 DEF q
  <2>9. There(e, k + 1)
    BY <2>5, <2>8 DEF cur
  <2> HIDE DEF There
  <2> QED  BY <2>1, <2>9
<1>8. PICK f : There(f, Len(path))
  <2> DEFINE i == Len(path) - b
  <2>1. i \in Nat /\ b + i = Len(path)
    BY <1>0, <1>2, <1>1
  <2> HIDE DEF There
  <2>2. i \in S
    <3> HIDE DEF S, i
    <3> QED  BY <1>6, <1>7, <2>1, NatInSet
  <2> QED  BY <2>1, <2>2
<1>9. Part(path, Len(path)) = path /\ Len(path) \in 0 .. Len(path) /\ b <= Len(path)
  BY <1>0, <1>1, PartsAre
<1>10. /\ EndsAt(tree, path, f) /\ f.rest = <<>> /\ f.links <= MaxLinks
       /\ SameText(f.at, base \o SubSeq(path, b + 1, Len(path)))
       /\ NodeAt(tree, f.at) = LStat(tree, path)
  BY <1>8, <1>9
<1>11. Canonical(tree, path).kind = "there" /\ Canonical(tree, path).at = f.at
  BY <1>0, <1>10, EndThere
<1>12. Reads(tree, path) = LStat(tree, path)
  BY <1>10, <1>11 DEF Reads, Found
<1>13. LStat(tree, path).trusted
  BY <1>3, <1>9
<1>14. Canonical(tree, path).at = Canonical(tree, boundary).at \o SubSeq(path, Len(boundary) + 1, Len(path))
  BY <1>2, <1>10, <1>11 DEF SameText, base
<1> QED  BY <1>12, <1>13, <1>14 DEF ReadWhereItSays

(* In every tree, each path: where each writer writes, and what is read of *)
(* what it wrote.  fs.rs:112-308.                                          *)
THEOREM EveryWriteLandsOK == EveryWriteLands
  BY PathLandsWell, ArtifactInside, ChainReads DEF EveryWriteLands

(* A write lands exactly where a read of the same path does, whatever      *)
(* links the way to it goes through: it changes that file and no other, or *)
(* nothing at all; what is ours alone stays in our directory, and a file   *)
(* whose chain is trusted is read where it says.  resolve_write_target and *)
(* its writers, fs.rs:112-308; trusted_chain, fs.rs:69-98.                 *)
THEOREM SpecWritesLandWhereRead == Spec => []WritesLandWhereRead
<1>1. WritesLandWhereRead
  BY EveryWriteLandsOK DEF WritesLandWhereRead
<1> QED  BY <1>1, PTL
=============================================================================
