--------------------------- MODULE SignedInstall ---------------------------
(***************************************************************************)
(* How a signed list gets onto the user's disk and off it again, file by   *)
(* file (relaunch-engine: install-signed, uninstall), beside a login that  *)
(* reads the same files (relaunch-anchor: emit-lua, boot).                 *)
(*                                                                         *)
(* A document is its place in `docs', the documents the authority ever     *)
(* signed; `published' is the one public.json vouches for (0: none), so    *)
(* that a document verifies exactly when it is the published one: another  *)
(* generation, or another key, is another place.                           *)
(*                                                                         *)
(* `fs' is what a read sees, `disk' every state a power loss may leave: a  *)
(* rename or removal is added to each of them, the fsync of a directory    *)
(* drops those that disagree about its files.                              *)
(*                                                                         *)
(* One engine works at a time (PanelQueue), on documents in the order they *)
(* were signed; a capture (propose) is a process of its own.  A shell that *)
(* dies takes them with it.                                                *)
(***************************************************************************)
EXTENDS Integers, Sequences, FiniteSets

CONSTANTS
  Ids,         \* pin ids: each names one launcher file
  Contents,    \* what a launcher file may hold
  Odd,         \* signed contents that no entry's own fields rebuild
  Absent,      \* no such file, no such pin
  Lists,       \* the pins a document may sign: id -> content or Absent
  MaxDocs,     \* documents signed (bounds the model)
  MaxFaults,   \* calls that fail and engines that die (bounds the model)
  MaxPower,    \* power losses (bounds the model)
  MaxCommands, \* boot flag commands and captures (bounds the model)
  MaxLogins    \* logins (bounds the model)

ASSUME ContentsAssumption == Odd \subseteq Contents /\ Absent \notin Contents
ASSUME ListsAssumption == Lists \subseteq [Ids -> Contents \cup {Absent}]
ASSUME LimitsAssumption ==
  /\ MaxDocs \in Nat /\ MaxFaults \in Nat /\ MaxPower \in Nat
  /\ MaxCommands \in Nat /\ MaxLogins \in Nat

VARIABLES
  docs,        \* the documents signed so far
  published,   \* the document public.json vouches for, or 0
  queue,       \* documents the panel has yet to hand to an engine
  fs, disk,
  hook,        \* hyprland.lua runs the anchor at login
  capture,     \* [on, live]: a capture collects what `live' does not name
  engine,      \* [at, doc, todo]: the engine's step, document, launchers to do
  login,       \* [at, seen, doc, todo]: the login's step, public.json as read,
               \*   the verified document, the entries still to launch
  floor,       \* history: the oldest document that could verify when it began
  ran,         \* history: [doc, id, content] of everything this login launched
  off,         \* history: the last boot flag command to finish was a disable,
               \*   and no enable or uninstall began and no power was lost since
  barred,      \* history: this login began with `off', and it stayed so
  unsynced,    \* history: a directory fsync failed
  faults, losses, commands, logins

authority == <<docs, published>>
files == <<fs, disk, hook, unsynced>>
boot == <<login, floor, ran, barred, logins>>
counters == <<off, faults, losses, commands>>
vars == <<authority, queue, files, engine, boot, counters, capture>>

Docs == 1 .. MaxDocs
Pins == [Ids -> Contents \cup {Absent}]
Flags == {"skip", "disabled"}
Files == [config : 0 .. MaxDocs, launchers : Pins, flags : SUBSET Flags]
NoFiles == [config |-> 0, launchers |-> [id \in Ids |-> Absent], flags |-> {}]

(* The launchers a document names.                                         *)
Named(g) == {id \in Ids : docs[g][id] # Absent}

NoCapture == [on |-> FALSE, live |-> {}]
Idle == [at |-> "idle", doc |-> 0, todo |-> {}]
LoggedOut == [at |-> "out", seen |-> 0, doc |-> 0, todo |-> {}]

Engines == [at : {"idle", "launchers", "syncLauncher", "syncConfig", "collect",
                  "dropSkip", "unhook", "tree"},
            doc : 0 .. MaxDocs, todo : SUBSET Ids]
Logins == [at : {"out", "public", "config", "bootPublic", "bootConfig", "flags", "skip", "launch"},
           seen : 0 .. MaxDocs, doc : 0 .. MaxDocs, todo : SUBSET Ids]

FilesOK == fs \in Files /\ fs \in disk /\ disk \subseteq Files

ListsOK ==
  /\ docs \in Seq(Pins) /\ Len(docs) <= MaxDocs
  /\ published \in 0 .. Len(docs)
  /\ queue \in Seq(1 .. Len(docs))

EngineOK ==
  /\ engine \in Engines /\ engine.doc <= Len(docs)
  /\ engine.at \in {"launchers", "syncLauncher", "syncConfig", "collect"} => engine.doc # 0

LoginOK ==
  /\ login \in Logins /\ login.seen <= Len(docs) /\ login.doc <= Len(docs)
  /\ login.at \in {"flags", "skip", "launch"} => login.doc # 0

HistoryOK ==
  /\ floor \in 0 .. Len(docs) + 1
  /\ ran \subseteq [doc : 1 .. Len(docs), id : Ids, content : Contents]

CountersOK ==
  /\ hook \in BOOLEAN /\ unsynced \in BOOLEAN /\ off \in BOOLEAN /\ barred \in BOOLEAN
  /\ capture \in [on : BOOLEAN, live : SUBSET Ids]
  /\ commands \in 0 .. MaxCommands /\ faults \in 0 .. MaxFaults
  /\ losses \in 0 .. MaxPower /\ logins \in 0 .. MaxLogins

TypeOK == FilesOK /\ ListsOK /\ EngineOK /\ LoginOK /\ HistoryOK /\ CountersOK

Init ==
  /\ docs = <<>> /\ published = 0 /\ queue = <<>>
  /\ fs = NoFiles /\ disk = {NoFiles}
  /\ hook = TRUE /\ unsynced = FALSE
  /\ engine = Idle /\ capture = NoCapture
  /\ login = LoggedOut /\ floor = 0 /\ ran = {} /\ logins = 0
  /\ off = FALSE /\ barred = FALSE /\ commands = 0
  /\ faults = 0 /\ losses = 0

-----------------------------------------------------------------------------
(* The authority and the panel.                                            *)

(* A change is authorized: the service publishes the generation, the panel *)
(* queues the document for installation.                                   *)
Sign ==
  /\ Len(docs) < MaxDocs
  /\ hook /\ ~capture.on
  /\ engine.at \notin {"unhook", "tree"}
  /\ \E pins \in Lists : docs' = Append(docs, pins)
  /\ published' = Len(docs) + 1
  /\ queue' = Append(queue, Len(docs) + 1)
  /\ UNCHANGED <<files, engine, boot, counters, capture>>

(* The boot tools are wired again (BootTools).                             *)
Rehook ==
  /\ ~hook /\ engine = Idle
  /\ hook' = TRUE
  /\ UNCHANGED <<authority, queue, fs, disk, unsynced, engine, boot, counters, capture>>

-----------------------------------------------------------------------------
(* install-signed.                                                         *)

(* A visible change of the files, durable only once synced.                *)
Change(new(_)) ==
  /\ fs' = new(fs)
  /\ disk' = disk \cup {new(d) : d \in disk}

SyncLaunchers == {d \in disk : d.launchers = fs.launchers}
SyncConfigDir == {d \in disk : d.config = fs.config /\ d.flags = fs.flags}

(* Every launcher is rebuilt from its entry and must hash to what was      *)
(* signed, or nothing at all is written.                                   *)
Matches(g) == \A id \in Named(g) : docs[g][id] \notin Odd

(* Mutant: one install does for all that wait.                             *)
StartLastInstall ==
  /\ engine = Idle /\ queue # <<>>
  /\ queue' = <<>>
  /\ engine' = IF Matches(Head(queue))
               THEN [at |-> "launchers", doc |-> Head(queue), todo |-> Named(Head(queue))]
               ELSE Idle
  /\ UNCHANGED <<authority, files, boot, counters, capture>>

StartInstall ==
  /\ engine = Idle /\ queue # <<>>
  /\ queue' = Tail(queue)
  /\ engine' = IF Matches(Head(queue))
               THEN [at |-> "launchers", doc |-> Head(queue), todo |-> Named(Head(queue))]
               ELSE Idle
  /\ UNCHANGED <<authority, files, boot, counters, capture>>

(* A launcher's temporary file is renamed into place ...                   *)
WriteLauncher ==
  /\ engine.at = "launchers"
  /\ \E id \in engine.todo :
       /\ Change(LAMBDA d : [d EXCEPT !.launchers[id] = docs[engine.doc][id]])
       /\ engine' = [engine EXCEPT !.at = "syncLauncher", !.todo = @ \ {id}]
  /\ UNCHANGED <<authority, queue, hook, unsynced, boot, counters, capture>>

(* ... and the directory synced; a failure is not looked at.               *)
Synced(synced, next) ==
  /\ engine' = next
  /\ \/ /\ disk' = synced
        /\ UNCHANGED <<unsynced, faults>>
     \/ /\ faults < MaxFaults
        /\ faults' = faults + 1
        /\ unsynced' = TRUE
        /\ UNCHANGED disk
  /\ UNCHANGED <<authority, queue, fs, hook, boot, off, losses, commands, capture>>

SyncLauncher ==
  /\ engine.at = "syncLauncher"
  /\ Synced(SyncLaunchers, [engine EXCEPT !.at = "launchers"])

(* config.json only once every launcher is in place.                       *)
WriteConfig ==
  /\ engine.at = "launchers" /\ engine.todo = {}
  /\ Change(LAMBDA d : [d EXCEPT !.config = engine.doc])
  /\ engine' = [engine EXCEPT !.at = "syncConfig"]
  /\ UNCHANGED <<authority, queue, hook, unsynced, boot, counters, capture>>

SyncConfig ==
  /\ engine.at = "syncConfig"
  /\ Synced(SyncConfigDir, [engine EXCEPT !.at = "collect"])

(* Then the launchers the document does not name go; one that cannot be    *)
(* removed is skipped.                                                     *)
Strays == {id \in Ids \ Named(engine.doc) : fs.launchers[id] # Absent}

Collect ==
  /\ engine.at = "collect"
  /\ \E id \in Strays : Change(LAMBDA d : [d EXCEPT !.launchers[id] = Absent])
  /\ UNCHANGED <<authority, queue, hook, unsynced, engine, boot, counters, capture>>

Installed ==
  /\ engine.at = "collect"
  /\ \/ Strays = {} /\ UNCHANGED faults
     \/ Strays # {} /\ faults < MaxFaults /\ faults' = faults + 1
  /\ engine' = Idle
  /\ UNCHANGED <<authority, queue, files, boot, off, losses, commands, capture>>

-----------------------------------------------------------------------------
(* propose: a capture removes the launchers that the config.json it has    *)
(* read does not name.  The panel starts one only while it waits for       *)
(* nothing (busy), and a change is signed only after its capture.          *)

(* Mutant: only a change under way stops a capture.                        *)
CaptureWhileBusy ==
  /\ ~capture.on
  /\ commands < MaxCommands /\ commands' = commands + 1
  /\ capture' = [on |-> TRUE, live |-> IF fs.config = 0 THEN {} ELSE Named(fs.config)]
  /\ UNCHANGED <<authority, queue, files, engine, boot, off, faults, losses>>

CaptureReads ==
  /\ ~capture.on /\ engine = Idle /\ queue = <<>>
  /\ commands < MaxCommands /\ commands' = commands + 1
  /\ capture' = [on |-> TRUE, live |-> IF fs.config = 0 THEN {} ELSE Named(fs.config)]
  /\ UNCHANGED <<authority, queue, files, engine, boot, off, faults, losses>>

CaptureRemoves ==
  /\ capture.on
  /\ \E id \in Ids \ capture.live :
       /\ fs.launchers[id] # Absent
       /\ Change(LAMBDA d : [d EXCEPT !.launchers[id] = Absent])
  /\ UNCHANGED <<authority, queue, hook, unsynced, engine, boot, counters, capture>>

(* A file that cannot be removed is skipped, one that came while the       *)
(* directory was read may not have been seen.                              *)
CaptureCollected ==
  /\ capture.on /\ capture' = NoCapture
  /\ UNCHANGED <<authority, queue, files, engine, boot, counters>>

-----------------------------------------------------------------------------
(* boot-skip, boot-disable, boot-enable: files, made without an fsync.      *)

FlagCommand ==
  /\ engine = Idle /\ queue = <<>>
  /\ commands < MaxCommands /\ commands' = commands + 1

BootSkip ==
  /\ FlagCommand
  /\ Change(LAMBDA d : [d EXCEPT !.flags = @ \cup {"skip"}])
  /\ UNCHANGED <<authority, queue, hook, unsynced, engine, boot, off, faults, losses, capture>>

BootDisable ==
  /\ FlagCommand
  /\ Change(LAMBDA d : [d EXCEPT !.flags = @ \cup {"disabled"}])
  /\ engine' = [Idle EXCEPT !.at = "dropSkip"]
  /\ off' = TRUE
  /\ UNCHANGED <<authority, queue, hook, unsynced, boot, faults, losses, capture>>

BootEnable ==
  /\ FlagCommand
  /\ Change(LAMBDA d : [d EXCEPT !.flags = @ \ {"disabled"}])
  /\ engine' = [Idle EXCEPT !.at = "dropSkip"]
  /\ off' = FALSE /\ barred' = FALSE
  /\ UNCHANGED <<authority, queue, hook, unsynced, login, floor, ran, logins, faults, losses, capture>>

DropSkip ==
  /\ engine.at = "dropSkip"
  /\ Change(LAMBDA d : [d EXCEPT !.flags = @ \ {"skip"}])
  /\ engine' = Idle
  /\ UNCHANGED <<authority, queue, hook, unsynced, boot, counters, capture>>

-----------------------------------------------------------------------------
(* uninstall --yes.                                                        *)

(* The signing state first; if that fails nothing is removed.              *)
Uninstall ==
  /\ engine = Idle /\ queue = <<>> /\ published # 0
  /\ published' = 0
  /\ engine' = [Idle EXCEPT !.at = "unhook"]
  /\ off' = FALSE /\ barred' = FALSE
  /\ UNCHANGED <<docs, queue, files, login, floor, ran, logins, faults, losses, commands, capture>>

Unhook ==
  /\ engine.at = "unhook"
  /\ hook' = FALSE
  /\ engine' = [engine EXCEPT !.at = "tree"]
  /\ UNCHANGED <<authority, queue, fs, disk, unsynced, boot, counters, capture>>

(* remove_dir_all: entry after entry, in no particular order.              *)
RemoveTree ==
  /\ engine.at = "tree"
  /\ \/ /\ fs.config # 0
        /\ Change(LAMBDA d : [d EXCEPT !.config = 0])
     \/ /\ fs.flags # {}
        /\ Change(LAMBDA d : [d EXCEPT !.flags = {}])
     \/ \E id \in Ids :
          /\ fs.launchers[id] # Absent
          /\ Change(LAMBDA d : [d EXCEPT !.launchers[id] = Absent])
  /\ UNCHANGED <<authority, queue, hook, unsynced, engine, boot, counters, capture>>

Uninstalled ==
  /\ engine.at = "tree" /\ fs = NoFiles
  /\ engine' = Idle
  /\ UNCHANGED <<authority, queue, files, boot, counters, capture>>

-----------------------------------------------------------------------------
(* What goes wrong.                                                        *)

(* A call fails: the engine reports it and stops where it is.  Or it is    *)
(* killed, which looks the same from here.                                 *)
EngineStops ==
  /\ engine # Idle
  /\ faults < MaxFaults
  /\ faults' = faults + 1
  /\ engine' = Idle
  /\ UNCHANGED <<authority, queue, files, boot, off, losses, commands, capture>>

(* The shell dies, and with it the documents it was waiting to install.    *)
ShellDies ==
  /\ queue # <<>>
  /\ faults < MaxFaults
  /\ faults' = faults + 1
  /\ queue' = <<>>
  /\ engine' = Idle /\ capture' = NoCapture
  /\ UNCHANGED <<authority, files, boot, off, losses, commands>>

PowerLoss ==
  /\ losses < MaxPower
  /\ losses' = losses + 1
  /\ \E d \in disk : fs' = d /\ disk' = {d}
  /\ queue' = <<>> /\ engine' = Idle /\ capture' = NoCapture
  /\ login' = LoggedOut /\ ran' = {} /\ barred' = FALSE /\ off' = FALSE
  /\ UNCHANGED <<authority, hook, unsynced, floor, logins, faults, commands>>

-----------------------------------------------------------------------------
(* A login.  Hyprland runs the hook, the hook runs emit-lua; if that       *)
(* verifies the list it registers `relaunch-anchor boot', which verifies   *)
(* it again.                                                               *)

LogIn ==
  /\ login.at = "out" /\ logins < MaxLogins
  /\ hook
  /\ logins' = logins + 1
  /\ login' = [LoggedOut EXCEPT !.at = "public"]
  /\ floor' = (IF published = 0 THEN Len(docs) + 1 ELSE published) /\ ran' = {} /\ barred' = off
  /\ UNCHANGED <<authority, queue, files, engine, counters, capture>>

ReadPublic ==
  /\ login.at \in {"public", "bootPublic"}
  /\ login' = IF published = 0 THEN LoggedOut
              ELSE [login EXCEPT !.seen = published,
                                 !.at = IF @ = "public" THEN "config" ELSE "bootConfig"]
  /\ UNCHANGED <<authority, queue, files, engine, floor, ran, barred, logins, counters, capture>>

(* config.json must be the document of the public.json read before.        *)
Verified == fs.config # 0 /\ fs.config = login.seen

ReadConfig ==
  /\ login.at \in {"config", "bootConfig"}
  /\ login' = IF ~Verified THEN LoggedOut
              ELSE IF login.at = "config" THEN [login EXCEPT !.at = "bootPublic"]
              ELSE [login EXCEPT !.at = "flags", !.doc = fs.config]
  /\ UNCHANGED <<authority, queue, files, engine, floor, ran, barred, logins, counters, capture>>

(* The flags once the list is verified: disabled first, and a skip-once is *)
(* used up whether or not it can be removed.                               *)
ReadDisabled ==
  /\ login.at = "flags"
  /\ login' = IF "disabled" \in fs.flags THEN LoggedOut ELSE [login EXCEPT !.at = "skip"]
  /\ UNCHANGED <<authority, queue, files, engine, floor, ran, barred, logins, counters, capture>>

ReadSkip ==
  /\ login.at = "skip"
  /\ IF "skip" \in fs.flags
     THEN /\ login' = LoggedOut
          /\ Change(LAMBDA d : [d EXCEPT !.flags = @ \ {"skip"}])
     ELSE /\ login' = [login EXCEPT !.at = "launch", !.todo = Named(login.doc)]
          /\ UNCHANGED <<fs, disk>>
  /\ UNCHANGED <<authority, queue, hook, unsynced, engine, floor, ran, barred, logins, counters, capture>>

(* Mutant: a launcher is trusted by its name.                              *)
ApprovedByName(id, content) == content # Absent /\ docs[login.doc][id] # Absent

(* The launcher is read once; what those bytes say runs, if they hash to   *)
(* what the verified document signed.                                      *)
Approved(id, content) == content # Absent /\ content = docs[login.doc][id]

Launch ==
  /\ login.at = "launch"
  /\ \E id \in login.todo :
       /\ login' = [login EXCEPT !.todo = @ \ {id}]
       /\ ran' = IF Approved(id, fs.launchers[id])
                 THEN ran \cup {[doc |-> login.doc, id |-> id, content |-> fs.launchers[id]]}
                 ELSE ran
  /\ UNCHANGED <<authority, queue, files, engine, floor, barred, logins, counters, capture>>

LoginEnds ==
  /\ login.at = "launch" /\ login.todo = {}
  /\ login' = LoggedOut
  /\ UNCHANGED <<authority, queue, files, engine, floor, ran, barred, logins, counters, capture>>

-----------------------------------------------------------------------------
Work ==
  \/ StartInstall \/ WriteLauncher \/ SyncLauncher \/ WriteConfig \/ SyncConfig
  \/ Collect \/ Installed
Captures == CaptureReads \/ CaptureRemoves \/ CaptureCollected
FlagCommands == BootSkip \/ BootDisable \/ BootEnable \/ DropSkip
Removal == Uninstall \/ Unhook \/ RemoveTree \/ Uninstalled
Trouble == EngineStops \/ ShellDies \/ PowerLoss
Login == LogIn \/ ReadPublic \/ ReadConfig \/ ReadDisabled \/ ReadSkip \/ Launch \/ LoginEnds

Next == Sign \/ Rehook \/ Work \/ Captures \/ FlagCommands \/ Removal \/ Trouble \/ Login
Spec == Init /\ [][Next]_vars

(* The panel starts the next engine and an engine runs on.                 *)
FairSpec == Spec /\ WF_vars(Work \/ DropSkip)

-----------------------------------------------------------------------------
(* A list in place has its launchers: whatever engine, shell or machine    *)
(* stopped where, a config.json that verifies finds every launcher holding *)
(* the bytes that were signed, also in every state a power loss may leave  *)
(* (of a directory whose fsync failed, which the code ignores, nothing can *)
(* be said after that), and no capture takes away what an install has just *)
(* written.                                                                *)
(* install_signed, cli.rs:286-323; purge before removal, hooks.rs:276.     *)
Whole(d) ==
  published # 0 /\ d.config = published =>
    \A id \in Named(published) : d.launchers[id] = docs[published][id]
InstalledIsWhole ==
  /\ unsynced => losses > 0 \/ Whole(fs)
  /\ ~unsynced => \A d \in disk : Whole(d)

(* A login runs one list: everything it launches holds the bytes signed in *)
(* one document, and that document was not already replaced (or revoked)   *)
(* when the login began, however signing, installing and uninstalling      *)
(* interleave with its reads.  And a login that began when boot was        *)
(* disabled launches nothing.  load_verified, verify.rs:47; decide,        *)
(* launch.rs:66; the flags, boot.rs:163.                                   *)
LoginRunsOneList ==
  /\ \A r \in ran : r.content = docs[r.doc][r.id] /\ r.doc >= floor
  /\ \A r, q \in ran : r.doc = q.doc
  /\ barred => ran = {}

(* An authorized list that nothing prevents gets into place: it is         *)
(* published and waits, then config.json holds it, or it was replaced,     *)
(* refused, or something failed on the way.                                *)
ListLands ==
  \A g \in Docs :
    (\E i \in DOMAIN queue : queue[i] = g) ~>
      (fs.config = g \/ published # g \/ ~Matches(g) \/ faults > 0 \/ losses > 0)
=============================================================================
