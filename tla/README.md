# Relaunch in TLA+

A verification development for Relaunch (`src/`): the authority service that
signs what opens at login, the panel, engine and helper through which a change
reaches it, the files it leaves on disk, and the anchor that launches the
signed list at login. TLA+ modules model these parts, TLC checks them on small
instances, and TLAPS proves central safety properties for every value of the
constants.

Check a run with `tlc -workers 2 -config <run>.cfg <module>`, the proofs with
`tlapm <Module>_proofs.tla`. `PROJECT.json` lists the runs, the source lines
each definition stands for, and for every property a mutated definition that
breaks it. Mutants stand beside the definition they mutate, in comments that
begin "Mutant:"; nothing refers to them.

## 1. The system

```
 user ── Panel.qml / TxnLifecycle.js ──spawns──> relaunch-engine propose
            │   ▲   │                                reads config.json, windows, /proc
   stdin    │   │   └─ request queue ─────────────> relaunch-engine install-signed
 (request,  ▼   │ stdout (one event per line)           writes config.json, launchers
 authorize) relaunchctl commit
                │  D-Bus: Prepare, Authorize, Reduce, Purge
                ▼
            relaunchd ──── polkitd ──── agent ──── human
              Engine, per-uid cell ── KeyStore (signing.key, public.json)
                                            │
 login ──> relaunch-anchor boot <──reads────┘ public.json, config.json
              launches rows, watches hyprctl clients, places windows
```

### Inventory

| Component (source) | State | Operations | Hard behaviour | What makes it correct |
|---|---|---|---|---|
| **authority engine** (`relaunchd/src/engine.rs`, `txn.rs`, `main.rs`) | per uid: one pending transaction behind a mutex; leases | Prepare, Authorize in three phases, Reduce, Purge, `invalidate_sender`, idle exit (`main.rs`) | the lock is free while the human answers; the transaction and the generation may change meanwhile; disconnects race a queued Prepare | an approval is spent at most once and only while its transaction stands; every launch of a document was reviewed; slots of clients that left are freed; every call returns |
| **key store** (`store.rs`) | the uid's directory: `signing.key`, `public.json`; tombstones | enroll, publish a generation, purge | a crash or power loss between any two file-system calls; a failed fsync after a visible rename | no generation is signed twice or comes back; a purged key is gone |
| **polkit checks** (`polkit.rs`) | registered checks, early cancellations, eviction order | register, retire, `cancel_id` | a cancellation before, during or after its check; a full memory | a cancellation ends its check; memory is bounded, and only the oldest is forgotten |
| **review diff** (`diff.rs`) | none | `compute` | two indexes of old and new entries; caps | the review tells the whole difference |
| **signed schema** (`relaunch-core`) | none | validation, canonical form, verification | limits, duplicate ids | a document verifies only at its key and generation, and obeys the rules |
| **anchor boot** (`relaunch-anchor/src/boot.rs`) | rows launched, windows recognised, flags, report | rounds, watch, sweep, claim by pid, settle | windows open, close and move between any two reads; reads fail | a window goes to one launch; old windows are left alone; the report is true; the boot ends |
| **trust chain, launching** (`verify.rs`, `launch.rs`, `report.rs`, `hypr.rs`, `lua.rs`) | none kept | read and verify the list, read a launcher back, spawn, dispatch | `public.json`, `config.json` and launchers change between the reads | a login runs one list, none that was already replaced |
| **relaunchctl driver** (`relaunchctl/src/driver.rs`, `frame.rs`) | where in the dialogue it is | `run_commit`, `run_reduce` | EOF and SIGTERM at any point, also while a call is out | a withdrawn change withdraws its transaction |
| **panel, a change** (`TxnLifecycle.js`, `Panel.qml`) | the attempt and its owner, child, review, question | start, confirm, keep, authorize, cancel, and a handler per process event | exits, stream ends and lines in any order; late events of an old attempt | no check before its review; nothing installed after a cancel; no signed document lost |
| **panel, request queue** (`Panel.qml`) | queued engine requests, the one running, what was seen of it | `run`, `startRequest`, `settle`, the last resort | exit, two stream ends and the next turn in any order; a process that never starts | every request is run once; the panel becomes free again |
| **panel, boot tools** (`CoreInstall.js`) | install/update/remove state | terminals, probes, wiring, update check | probes race exits and package changes; a terminal ends before its work | the panel waits for nothing that cannot come; "ready" means wired |
| **engine, signed list on disk** (`cli.rs`, `launcher.rs`, `hooks.rs`) | `config.json`, launcher files, flags, the login line | install-signed, boot flags, collect, ensure-hooks, uninstall | a kill or power loss between any two files; files the user edits too | the list in place always has its launchers; what the user wrote stays |
| **engine, capture and proposals** (`resolve.rs`, `index.rs`, `webapp.rs`, `propose.rs`, `edit.rs`, `list.rs`, `session.rs`) | none of its own; reads `/proc`, windows, desktop files, the list | Save, merge, import, set-exec, set-delays, drop, list, snapshot and diff | which process a window is; windows to pins one to one; the same again at the next login | what is signed is the user's own command; no pin is doubled, no typed command lost |
| **files** (`relaunch-sys/src/fs.rs`) | none | private, artifact and user writes, create if absent, `trusted_chain` | links on the way, dangling ones and `..` behind them | a write lands where a read of the path does, and nowhere else |
| **command text** (`relaunch-shell`, `launcher.rs`, `relaunch-desktop`) | none | quoting, splitting, program word, `Exec=` | three quotings between the user and `execve` | what is shown, signed and run are the same words |
| bar widget, overlay, shim, packaging | none | | | not modelled |

How they meet: the panel talks to `relaunchctl` over two pipes and to the
engine by spawning it; `relaunchctl` calls `relaunchd` over D-Bus and its
connection *is* its claim on the slot (when it goes, `invalidate_sender`
runs); `relaunchd` shares the check registry with the threads that wait for
polkit; the anchor shares only files with the rest. `hazards` in
`PROJECT.json` lists, line by line, where this is hard to test, and which
property would notice.

## 2. The modules

| Module | Models | State and actions |
|---|---|---|
| `KeyStore` | `store.rs` | `fs` is what a read sees, `disk` every state a power loss may leave, `nextKey` fresh entropy. One operator per file-system call: a change adds a state to `disk`, an fsync removes those that disagree with it. |
| `Authority` (EXTENDS `KeyStore`) | `engine.rs`, `txn.rs`, `main.rs` | `pending` is the slot, `lock` the cell's mutex where it is held across steps, `call[t]` the step the pool thread `t` is at. `Prepare`, `Claim`/`HumanAnswers`/`CheckEnds`/`Revalidate`/`Invalidate` (Authorize), `Reduce`, `PurgeAsks` ... `PurgeSucceeds`, the ten steps of `Commit`, `FireInvalidate` (the hook after the lock), `Disconnect`/`Sweep`/`OwnerCheck` (the watcher and the re-check), `LeaseRunsOut`, `Fails`, `ServiceDies`, `PowerLoss`. `released`, `granted`, `revoked`, `purgedBelow` are histories. |
| `LaunchPromise` | the abstract specification of the above | Documents only grow upwards, and each either spends one standing approval whose review showed what it adds, or takes launches away. `Authority` implements it with documents for documents, `granted` for `approved`, `revoked` for `withdrawn`. |
| `IdleExit` | the main loop of `main.rs` and the `Busy` count | `call` is where each call is between its arrival and the end of its handler, `main` what the loop has read so far of `inflight`, `lease` and `lastDone`. |
| `PolkitChecks` | `polkit.rs` | A check's stages, the registry, the early cancellations `pre` and their `order`; the engine appears as `Claim`, `Take` and `Settle`. `Authority` abstracts it to "a check may end once cancelled or past its lease". |
| `AnchorBoot` | `boot.rs` | The boot's steps (`Begin`, `Baseline`, `LaunchRound`, `ReadWindows`, `Match`, `Wait`, `ReadForPids`, `MatchPid`, `Settle`) beside a desktop (`RowOpens`, `UserOpens`, `UserCloses`, `UserMoves`). `view` is the list a read returned, `windows` the truth: what happens between the two is the point. |
| `PanelChange` | `TxnLifecycle.js`, the processes of `Panel.qml`, `driver.rs` | `s` is the panel's state machine, `engine`, `helper`, `stdin`, `stdout`, `sigterm` the processes and pipes of each attempt, `txn`, `head`, `doc` what a client sees of the service, `queue`, `installed` the installs to come and done. The service's steps are an abstraction of `Authority`'s. |
| `PanelQueue` | `run`, `startRequest`, `settle`, `recoverIfUnsettled` of `Panel.qml` | One action per handler: `Run`, `Exits`, `NeverStarts`, `StreamEnds`, `Recover`, `StartNext`. A signal does not say which request it belongs to, and the model does not know either. |
| `BootTools` | `CoreInstall.js` | `tools` is its state, `world` the machine it cannot see into, `probeOut`, `terminals`, `wiring`, `checkingOp` the processes that answer it, `work` the package changes still under way. |
| `Hooks` | `hooks.rs` | The login line and what earlier versions left in `hyprland.lua`, `hyprland.conf` and two more files, as sequences of lines (`Put` appends the line, `Pass` is the line-by-line pass that drops it); `EnsureStep` and `UninstallStep` are the steps of `ensure_hooks` and `uninstall`, in order, any of which may fail. `BootTools` holds the files. |
| `PanelEngine` | the two together | A request that finds no engine sends the boot tools looking; boot tools that become ready ask for the list. |
| `SignedInstall` | `install_signed`, `reconcile`, flags, `uninstall`; the anchor's reads | `fs` and `disk` as in `KeyStore`, for `config.json`, one launcher per pin and two flags. `engine` is the step the writer is at, `capture` a concurrent collect, `login` the step of a login that reads the same files (`ReadPublic`, `ReadConfig`, ... `Launch`). |
| `PrivateFiles` | `fs.rs` | A tree of directories, files and links; the kernel's path resolution (`Walk`), the code's (`ResolveWriteTarget`, `ResolveDir`) and each writer as an operator on trees. Both resolutions are recursive functions over the steps of a walk, so that they can be proved about. |
| `InstalledFiles` | the two together | An installation, and the files it writes. |
| `Capture` (EXTENDS `WebApps`) | `resolve.rs`, `host.rs`, `index.rs` | A machine is processes, launchers and windows; `CaptureResolve` is what a window is captured as: trust, ancestry, terminals and what runs in them, launchers, web apps. `Index` is what the desktop files of the search path come to. |
| `WebApps`, `Session` | `webapp.rs`, `session.rs` | The identity of a URL; the snapshot of the windows and its diff with a later desktop. |
| `LauncherText`, `CommandText` | `launcher.rs`, `launch.rs`, `shell.rs`, `argv.rs`, `execcheck.rs` | What a command goes through to be launched, and what the user sees and types of it, over words that are sequences of characters. |
| `Readers` | the loops that read those texts: `split_canonical_exec`, `tokenize`, `expand_field_codes` of relaunch-desktop, `words` of `execcheck.rs`, a value of a desktop file | Each reader is what it does with one character in the state it has come to; `Pass` is the loop, a recursive function that can be proved about. |
| `PanelRows`, `Review`, `BootGroups`, `Lists` | `list.rs`, `diff.rs`, `groups` of `boot.rs` | Pure operators; `BootGroups` is the double loop that merges groups by renaming, as two recursive functions; `Lists!Keep` is the filter over a list that `Hooks`, `Session` and `BootList` share. |
| `BootList` (EXTENDS the pure ones above) | `propose.rs`, `edit.rs`, `config.rs` and the signed list over time | `OpenWindow`, `CloseWindow`, `Propose`, `Import`, `SetExec`, `SetDelays`, `Drop`, `Authorize`, `Cancel` over one of several `Machines`. What is captured, chosen and launched is in list order: `Seen`, `Wanted`, `LaunchOrder`. The pure operators are checked on the states this machine reaches. |
| `Authority_proofs`, `PolkitChecks_proofs`, `AnchorBoot_proofs`, `SignedInstall_proofs`, `PanelChange_proofs`, `PanelEngine_proofs`, `BootList_proofs` and, for its texts, `Texts_proofs` | the theorems | section 5 |
| `MC...` | values of the constants for TLC | |

Things to know when reading a module beside its code:

- A sweep (`invalidate_sender`) takes the slot under the lock and fires the
  hook after it. `Authority!Sweep` does both in one step; `PolkitChecks`
  splits `Take` from `CancelId`, which is where their order matters. Reduce and
  Purge are split in both.
- The authority keys everything by uid, so one uid is modelled. An enrollment
  id is a hash of the public key, so a key's number stands for both. A document
  carries what its review showed (`shown`), which the code prints and forgets.
- In `SignedInstall` a document is its place among all documents ever signed,
  so "verifies" is "is the published one". The engine has no lock of its own:
  that captures, flag commands and the uninstall find the queue empty is the
  panel's doing (its `busy` gate), and the model takes it from there.
- `PanelEngine` composes by conjunction of handlers: `decideStatus` is part of
  the handler that settles, `list` of the one that hears the wiring end.
- In `BootList`, pin ids are the smallest unused naturals (`new_id` derives
  them, `propose.rs:299-313`: random in production, from the place in the
  fixtures, ids taken skipped either way), and windows move only while no proposal is under review: a proposal
  is a copy. Words without special characters are single symbols; `Spelled`
  gives the characters of the others. Case folding is ASCII.

## 3. The runs

| Run | Question | Bounds, and why they are enough |
|---|---|---|
| `auth_interleaving` | Do calls of two clients on two threads, in every interleaving, keep `ApprovedOnce`, `OrphanIsNoticed`, `EveryLaunchWasReviewed` and every step of `LaunchPromise`? | Two transactions (one may replace the other while its check is out), three generations (an old document as a base, two back). Threads are symmetric; all four formulas are. |
| `auth_crashes` | Do documents survive a failing call and two service deaths or power losses anywhere: `OneDocPerGeneration`, `NoRollback`, `PurgedIsGone`? | Two keys (a purge and a new enrollment), two commands, a fault. One thread: a commit holds the lock throughout, so the file system sees one call at a time. Two crashes reach a crash during the recovery from a crash; a failed call, unlike a crash, keeps the service's memory. |
| `auth_returns` | Does every call return, and is an orphaned slot freed, with nobody answering? | Two threads so that one is starved of the lock; one fault. `OrphanIsFreed` does not count on leases, `CallsReturn` does (`LeasesEnd =>`). |
| `polkit_registry` | Is an early cancellation forgotten only for as many later ones as the memory holds, and does a cancellation end its check? | Three checks, memory of two: it overflows by one, with an id used up or not. |
| `boot_desktop` | Is no window given twice, no old one taken, is a "landed" that follows a last read true, whichever reads failed before? Does a boot end, whatever the desktop does? When windows come in time, does each launch get its own (`EachGetsItsOwn`)? | Two rows of one class (the case that confuses), three windows, so an old or a foreign one beside them; one act of the user, one failed read, one sleep per watch. Windows may come late or under another class, but the old one is of the rows' class (`OldNames`): no other is ever looked at. `Timings` lets each behaviour be punctual or not. |
| `boot_baseline` | *violation*: see 6. | |
| `panel_changes` | Review before check, nothing after a cancel, no signed document reported as failed; a change lets go of the panel and of the slot (`ChangesLetGo`). | Two attempts: a new one starts while events, a document or an install of the old one are still on their way. Three attempts (1.6 million states) give the same verdicts for the safety properties. |
| `installs` | Does a list in place have its launchers, does a login run one list, does an authorized list land? | Two pins, three lists (one pin changed and one added between two of them, one that must be refused), two documents, a failing call or killed engine or shell, a power loss, a capture or flag command, a login. `WritesLandWhereRead` has no state and is looked at once, in each of 3696 trees of a configuration directory, its file, a link and the files around them, any of them a link to another, dangling or looping; `MaxLinks` is 4, more than any of their paths goes through unless it loops. |
| `panel_engine` | Is no request dropped or run over another, does the panel wait only for what can come, is "ready" wired, is the user's part of the login files kept, do both come to rest? | Three requests (one running, one queued, one in between), two operations, two package changes from outside, three acts of the user in all. |
| `boot_list` | Is what is proposed the desktop, and what is signed what is shown, reviewed and launched? Is a web app its site, and does the diff tell what is gone? | Five machines, each built for one kind of reading: terminals, a browser behind several classes, untrusted guests, odd command lines (with classes that differ in a capital outside ASCII), several instances. The last takes every operation (three changes, so that typed and captured pins, drops and recaptures meet); on the others windows open and are captured. Desktops hold up to one window more than the list has room for. The text operators are tried, beside the words of the lists, on all words of up to three of 13 characters and all pairs of short words; URLs on every path of up to six characters, with every kind of host, user, port, query and fragment; the diff on every desktop the windows of the last machine may come back as. |
| `panel_verdict`, `idle_exit` | *violation*: see 6. | |

The properties, in a few sentences each, stand above their definitions.
Deadlock is checked in the authority and boot runs. The others say
`CHECK_DEADLOCK FALSE`, because there the system really may stop: every check,
attempt, request or change the bounds allow is spent and nothing is under way
(and a panel waits for its user).

All numeric limits (`MaxTx`, `MaxKey`, `MaxGen`, `MaxFaults`, `MaxCrashes`,
`MaxAddr`, `MaxWaits`, `MaxMeddling`, `MaxBlind`, `MaxAttempts`, `MaxDocs`,
`MaxPower`, `MaxCommands`, `MaxLogins`, `MaxRequests`, `MaxOps`, `MaxChanges`,
`MaxChanged`, `MaxActs`) bound a behaviour, not the code, and are named at their
CONSTANT. `MaxCancelledIds` and `MaxEntries` are the code's own
`MAX_CANCELLED_IDS` and `MAX_ENTRIES`, smaller; `MaxLinks` is the 40 of
`fs.rs:116`, which is also the kernel's limit, smaller. A punctual behaviour of
`AnchorBoot` is one whose windows come within their watch: which row a late
window belongs to cannot be told by its class, so `EachGetsItsOwn` is only
claimed there.

### Fairness

- `Authority!ServiceFairness`: queued tasks run (WF); a thread waiting for the
  mutex gets it although others take it in between (SF: the mutex is not held
  across a wait for anything but the file system); a check ends once it is
  cancelled or past its deadline (the `select!` in `polkit.rs`); the Purge
  check has a fixed deadline of its own. No client acts, no human answers and
  nobody disconnects by fairness. `LeasesEnd` says that time passes.
- `PolkitChecks!Fairness`: pool threads run; polkit never has to answer.
- `AnchorBoot!FairSpec`: the anchor itself runs (WF); the desktop need not.
- `PanelChange!Fairness`: processes started run or end, a SIGTERM arrives, the
  panel's event loop delivers, the service answers Prepare and Reduce and sees a
  connection go. The user, the human at the prompt and the lease are not fair:
  the slot's part of `ChangesLetGo` holds without them.
- `SignedInstall!FairSpec`: the panel starts the next install and an engine that
  was started runs on (WF). No login, capture, command or signature is owed.
- `PanelEngine!Spec`: the event loop delivers each kind of signal, the engine and
  probe processes end (none waits for a user), the poll timer ticks (WF each).
  Terminals and packages owe nothing: `PanelComesToRest` asks only that the panel
  leaves a terminal phase once the terminal is gone.

## 4. Properties worth a second look

- `NoRollback` is about `disk`, not `fs`: *no state a power loss could leave*
  makes an older document verify once a newer one was returned. It fails if a
  document is returned before the directory sync (`ReplyUnsynced`).
- `OneDocPerGeneration` is why `ensure_enrolled` fails closed on a key without a
  public state: republishing generation 0 would sign 1 a second time.
- `ErrorMeansNoDocument` needs the panel to hear the end of `relaunchctl` one
  event-loop turn after its last line (`Qt.callLater` in `Panel.qml`). That one
  turn suffices for a line delivered alongside the exit is taken from the
  comment there (`Told`); how Qt orders the two is outside the repository.
- `InstalledIsWhole` holds in every state a power loss may leave, as long as
  every directory fsync succeeded: `replace_atomically` (`fs.rs:217`) does not
  look at a failing one, and after that nothing can be said of the disk.
- `RequestsAreKept` says what the queue promises and no more: the comment
  "FIFO" (`Panel.qml:248-251`) holds among queued requests only. A request made
  between the exit of a process and its settling starts at once (`run` looks at
  `running` and `startingNext`), ahead of those that wait.
- `ReadyIsWired` excepts tools that were found installed when the panel looked
  (`adopted`): a shell that restarts between an installation and its wiring
  takes them for ready.
- `CommandSurvives` leaves out of what may be typed again commands that end in
  a blank, and shell lines with a blank at either end or nothing in them
  (`LosesBlank`): the panel (`Panel.qml:843`) and `cli.rs:258` trim the line
  that is typed. A shell line that reads as plain words comes back as those
  words, and is the same command (`SameCommand`).
- `RelaunchSettles` and `RecaptureSettles` together say that a list saved at
  every login does not drift; each needs windows the engine can tell apart.

## 5. What is proved

For every value of the constants the named assumptions allow. They bound the
limits (naturals), say which constants are finite or sequences, and otherwise
only what the code makes of its own constants; `Senders`, `Threads`, `Class`,
`Command`, check ids, window names, processes and launchers are arbitrary.

| Module, assumptions | Theorem | Statement |
|---|---|---|
| `Authority_proofs` (`BoundsAssumption`, `LimitsAssumption`) | `TypeCorrect` | `Spec => []TypeOK` |
| | `DocumentsInvariant` | `Spec => []DocumentsInv` |
| | `OneDocument` | `Spec => []OneDocPerGeneration` |
| | `NoDocumentRollsBack` | `Spec => []NoRollback` |
| | `PurgeIsFinal` | `Spec => []PurgedIsGone` |
| | `ApprovalsInvariant`, `ReviewsInvariant` | the invariants below |
| | `ApprovalsAreSpentOnce` | `Spec => []ApprovedOnce` |
| | `OrphansAreNoticed` | `Spec => []OrphanIsNoticed` |
| | `LaunchesAreReviewed` | `Spec => []EveryLaunchWasReviewed` |
| | `EngineKeepsPromise` | `Spec => KeepsPromise`: `Authority` implements `LaunchPromise` |
| `PolkitChecks_proofs` (`CapAssumption`) | `RegistryTyped` | types; a check is registered exactly while it runs |
| | `Bounded` | `Spec => []MemoryIsBounded` |
| | `ForgottenLast` | `Spec => []OnlyOldestForgotten` |
| `AnchorBoot_proofs` (`RowsAssumption`, `KnobsAssumption`) | `NoWindowTwice` | `Spec => []OneLaunchPerWindow` |
| | `OldWindowsStay` | `Spec => []OldWindowsAreLeftAlone` |
| | `LandedTheorem` | `Spec => []LandedIsTrue` |
| (and `ClassKeyAssumption`: rows of one class share a class word, `boot.rs:94-101`) | `EachItsOwn` | `Spec => []EachGetsItsOwn` |
| `SignedInstall_proofs` (`ContentsAssumption`, `ListsAssumption`, `LimitsAssumption`) | `SpecTypeOK` | `Spec => []TypeOK` |
| | `SpecLoginRunsOneList` | `Spec => []LoginRunsOneList` |
| | `SpecInstalledIsWhole` | `Spec => []InstalledIsWhole` |
| (and `NamesAssumption`; `TreesAssumption`: a tree is finite, and what is in it stands in a directory; `LinksAssumption`, `FewLinksAssumption`, see below) | `EveryWriteLandsOK` | `EveryWriteLands`, which has no state |
| | `SpecWritesLandWhereRead` | `Spec => []WritesLandWhereRead` |
| `PanelChange_proofs` (`AttemptsAssumption`) | `ReviewedBeforeChecked` | `Spec => []CheckFollowsReview` |
| | `CancelledIsNeverInstalled` | `Spec => []CancelledStaysOut` |
| | `NoDocumentBehindAnError` | `Spec => []ErrorMeansNoDocument` |
| `PanelEngine_proofs` (the bounds; `LuasAssumption`: files are sequences of lines; `HooksAssumption`: which lines hold the hook's text) | `WaitsEnd` | `Spec => []EveryWaitHasAnAnswer` |
| | `NothingIsDiscarded` | `Spec => []RequestsAreKept` |
| | `ReadyMeansWired` | `Spec => []ReadyIsWired`, if no line the user has at the start holds the hook's text without being it |
| | `LoginLineComesAndGoes` | `Spec => []HooksComeAndGo` |
| `BootList_proofs` (`ListAssumption`; `MachinesAssumption`: finitely many processes with positive pids, a parent is one of them or the first process, command lines are lists; `WindowsAssumption`: windows are lists of records; `MaxChangedAssumption`) | `ReviewTells` | `Spec => []ReviewTellsAll` |
| | `TypedStays` | `Spec => TypedCommandStays` |
| | `SaveBrings` | `Spec => []SaveIsTheDesktop` |
| | `RecaptureStays` | `Spec => []RecaptureSettles` |
| | `GateHolds` | `Spec => []TrustGate` |
| | `EachAppShown` | `Spec => []EachAppOnce`, which excepts classes with a capital outside ASCII (section 6) |
| | `GoneIsTold` | `Spec => []DiffTellsWhatIsGone` |
| | `RelaunchStays` | `Spec => []RelaunchSettles`, if what terminals run are programs' own commands (`RunsPrograms`) |
| | `RowsAreGrouped` | `Spec => []GroupsAreComponents` |
| (and `TextsAssumption`: texts are lists of characters; `LaunchersAssumption`: launchers are files in a list of directories) | `CommandIsCarried` | `Spec => []CommandSurvives` |
| (and `LowerAssumption`: no capital's lower case is `_`) | `DotSegmentsAreResolved` | `RemoveDotSegments(path) = Resolved(path)` for any path with a slash at its start |
| | `IdentityIsOfHostAndPath` | `Identity` of a URL is `SiteOf` its host and path, for any parts that meet `IsUrl` |
| | `SpecIdentity` | `Spec => []IdentityIsTheSite` |

**The documents.** None of `OneDocument`, `NoDocumentRollsBack` and
`PurgeIsFinal` is inductive: whether a commit may publish a generation depends
on what the disk could come back as and on where in its sequence the thread
holding the lock is. `DocumentsInv` says both:

- `LockIsHeld`: a thread between the calls of a commit or a purge holds the
  lock, hence is the only one; so the steps of other threads leave the store
  alone (`QuietStep`).
- `DiskIsSound`: in every state the disk may come back in, the public state is
  of the live key, keys are older than `nextKey`, and none is from before the
  last purge.
- `DocumentsAreCovered`: wherever a document's key is live on disk, its public
  state is not behind the document. This gives `NoRollback`.
- `CommitKnows`, `PurgeKnows`: what the holder of the lock has established at
  each step: that the directory exists, that the key has a public state, that the
  published generation is above every document, that before the reply the disk
  has one state only.

Each file-system call is a lemma about `fs` and `disk` (`DiskGrows` for a call
that changes something, `StoreStepSound` for each of them), each group of
actions has a lemma, and the theorem collects them.

**The approvals.** `ApprovalsInv`: transaction numbers are spent once
(`NumbersAreSpent`), a transaction is in one place at a time, in the slot or
with one thread (`OnePlace`), and a thread past its check holds an approval
that was granted and spent by no document (`Approved`). This is what makes the
race of Authorize with Reduce, Purge and a second Prepare harmless, and gives
`ApprovedOnce`. `ReviewsInv` binds the slot and every commit to the head its
review was computed against (`SlotIsReviewed`, `CommitIsReviewed`,
`KeysAdvance`); with `DocumentsInv` it gives `EveryLaunchWasReviewed`. The
refinement then needs one lemma per group of actions: each step that adds a
document is a `Promise` step that spends a standing approval or withdraws, and
every other one a stutter or a grant, a revocation, a purge.

**The checks and the boot.** `PolkitChecks_proofs` follows the queue of early
cancellations: it never outgrows the bound, and what has left it was pushed out
by as many later ones. The invariant of `AnchorBoot_proofs` (`BootInv`)
says that the windows claimed and those from before the boot are all in
`known`, and that a match is only ever taken outside `known`: so windows
recognised are disjoint, at every step of a round and however stale the list it
works from. `EachItsOwn` needs what a punctual desktop adds (`OwnInv`): every
window is some row's, one each; the rows launched are those whose round has
come; and outside a watch no row that was launched waits for its window. A
candidate for a window then belongs to a row of its class that is being
watched for, and rows of one class never share a round: it is the row itself.

**The installs.** `LoginInv` adds two facts about a step to `LoginRunsOneList`:
what was published when a login began only moves forward while it reads
(`LoginGoesOn`), and a disable it has seen stands (`DisabledStays`). With
signatures that bind a launcher to its document, this is all a login needs: it
holds beside installs, captures and power losses alike. `InstallInv` is about
the order of the writer. Documents wait and are installed in the order they
were signed (`QueueInOrder`, `EngineInOrder`), so what is in place or may come
back is older than what is still to come; while launchers are being written no
state of `disk` holds the new `config.json`, and those written so far hold what
was signed, in every state of `disk` once their directory is synced
(`WrittenSoFar`); a capture knows the list in place and so removes nothing it
names (`CaptureKnows`); and only what a read sees can be the published list
(`InPlaceIsSeen`). Together they are inductive, and `InstalledIsWhole` follows.

**The files.** The kernel and the code resolve a path differently: the kernel
goes through it name by name and counts its links, the code follows the last
name of the path, up to `MaxLinks` times, asks the kernel for the directory of
what it comes to, and takes names off until one is there. `FewLinksAssumption`
excludes the only paths on which the counts themselves differ: those that do end,
but after `MaxLinks` links or more (see 6 for what the code does there). The proof
is about `Reach`, the places a walk without a limit gets to. A step changes
nothing in what lies behind the path, so walks compose: the walk to a path is
the walk to its front and then one more name (`EndsAt`), and a walk has one
end. A walk with a limit comes to the same end, when that has few links, by
the time it stops: each step takes a name away and each link adds at most the
longest link's names, so a measure of both falls. Then, by induction over
`LeafOf`, following the last name of a path does not change its end, and ends
with a name that is no link, after fewer links than the path goes through;
and the directory, or the longest part of it that is there, is where the walk
stood. For the read after the write the same induction runs the other way, in
the tree that holds the new file and its new directories (`Twin`): every walk
of the old tree is one of the new, and the one that ended for want of the file
ends at it. All of it is induction over the numbers `0 .. n`, by the least one
that fails, since the library's induction theorems cannot be used.

**The changes.** The three properties of `PanelChange` are about two ends of
two pipes, and no fact about one end is inductive alone. The invariant says:
an attempt that goes on owns the panel and has no outcome (`PanelFits`); a
helper starts after its engine was heard (`EngineFits`); what the service has
of an attempt fits the step its helper is at (`StepFits`); nothing is said or
heard before its time, what may still be read is an `authorize` of a review
that was shown, and an answer is the last word of whoever gave it. An "error"
then means a transaction the service has given up for good.

**The queue and the boot tools.** `WaitsEnd` is inductive once each phase of
`CoreInstall.js` says which processes it may have running: a wait without one
of them cannot arise. For `NothingIsDiscarded` the queue, the request running
and those settled are one line of requests in the order they were made, whose
head is what is running.

**The login line.** A pass over a file keeps exactly the user's own lines, so
taking out what was put in gives back what it was put into, newline and all. A
wiring or an uninstall cut off half-way leaves files that differ from the
finished ones only where the next run writes again. `ReadyMeansWired` has a
condition: a line that holds the hook's text inside something else (a comment,
say) is taken for the hook (`hooks.rs:253`, section 6).

**The boot list.** What is signed is a set of pins with one pin for each id, a
positive number, and finitely many. From this:

- `ReviewTells`: a line of the diff quotes every field of the pins it is about,
  so laying the lines over the old list gives the new one.
- `TypedStays`: the id a new pin takes exists (the k-th number no pin has) and is
  no pin's; a pin that continues a typed one keeps its words; and while a
  proposal waits, every typed pin is spared by it (`Spared`), which is what
  makes the statement, about two steps, inductive.
- `SaveBrings`: the filter picks each chosen place once and in order (`Picks`);
  the chosen windows stand for all that may be signed; a pin whose command is
  not its window's is a typed one, alone at its place.
- `RecaptureStays`: among the pins of a Save, and whatever a merge has left
  beside them, each window takes its own pin again (`TakesItsOwn`): if it and the
  pin are alone at their place, that one; otherwise the pin has the window's
  command, was the first of those alike, and what is left beside it has later
  ids. What the pin then becomes is itself (`PinAgain`).
- `GateHolds`: each hop of `own_process` goes from a host process to its parent
  on the host, so where it stops is a host ancestor; and every command the
  capture assembles from it begins with that process's own words.
- `EachAppShown`: a running row is a function of its class. Of a class of one
  spelling, to be pinned and to be covered by a pin are the same
  (`PinnedIsCovered`); what its row's + adds has a class no pin has, so it is a
  new pin with a fresh id, and over the list with it that row goes and no other.
  Of a class with a capital outside ASCII only that its row's + pins the class on
  the row's workspace is claimed, which is all the code does (section 6).
- `GoneIsTold`: a filter keeps as many elements as it keeps places (`KeepCounts`);
  of a class a record has no match exactly when its window is not back at its
  place (`UnmatchedIsLost`), so the counts of the report are those of the
  windows themselves.
- `RelaunchStays`: in the machine a launch leaves, the launched command is its
  own process (`OwnAt`), what it shows in its foreground is itself or nothing
  (`ForegroundIs`), and the launchers are read as before (`SameLaunchers`); so a
  capture finds the words that were launched (`CapturedAgain`). A terminal's
  command line with what it ran behind the option names what it ran
  (`HostedNames`), so it is not taken for a terminal whose foreground is to be
  looked up. The condition is the boundary the code has: `is_helper_argv` and
  `is_service_argv` look at every word of a command line (`resolve.rs:41-50`),
  so a terminal that was saved running `tool --type=x` comes back with a command
  line that reads as a helper's and is not captured a second time.
- `RowsAreGrouped`: two rows are `Together` when no set closed under sharing a
  key parts them; a rename merges two groups and splits none, and after the
  double loop any two rows that share a key are in one.
- `CommandIsCarried`: every command in the list or a proposal is a list of words
  and not empty (`WordsInv`, inductive beside the invariants above), whatever a
  window, a launcher or a typed line brings. Each layer is a code that
  writes every character as a text of its own (`Codes`), and each has its reader
  in `Readers`. A reader that undoes the code for one character, from any state
  it may be in there, undoes it for every text (an induction on its length), and
  so for the words of a command, one after the other. The layers then compose:
  the value reader undoes `file_escape`, `ExecStep` the quoting of
  `serialize_exec`, and `CodeStep` the doubled percent signs, the only ones it
  ever sees. The shown line has three forms (a word as it is, escaped or in
  single quotes, or in `$'...'`), each read back by its own states of `ReadChar`;
  a shell's own line comes back as itself or as the words it reads as. The
  characters are those of the command's own words, so nothing is assumed of the
  alphabet.

- `DotSegmentsAreResolved`: the table of RFC 3986 reads the input from its head,
  the reference keeps a list of segments. After any number of steps the table is
  at a slash of the path with the segments kept so far put out, at the slash a
  last dot segment leaves, or done (`Reading`); each step but the last two takes
  it to a later slash (`SlashReadsOn`), so after as many steps as the path has
  characters it is done. Popping the output is dropping a segment (`PoppedPath`)
  because no segment holds a slash.
- `IdentityIsOfHostAndPath`: each part of a URL is free of the characters that end
  it (`IsUrl`), so cutting at the first `#`, `?`, `/` and `:` and after the last
  `@` takes the parts apart again (`UptoJoin`, `LastJoin`, `HostIs`); and the host
  is read off the identity as it was put in, since it holds no `_`. A host with
  an underscore is outside `IsUrl`: section 6 says what happens to it.

**Induction without operators.** The library's induction rules take the claim
as an operator, which no installed prover can instantiate. Where a loop's
result is needed for every length (`Keep`, `Grouped`, the hops, a pass over a
file), the set of the numbers the claim holds for is used instead: `NatInSet`
derives from `WFMin` that a set with 0 and closed under successor has all.

**Model-checked only.** Every liveness property (`CallsReturn`,
`OrphanIsFreed`, `CancelEndsCheck`, `BootEnds`, `ChangesLetGo`, `ListLands`,
`PanelComesToRest`): fairness is beyond the prover. Every safety
property the runs check is also proved.

## 6. Where code and comments disagree

- `panel_verdict` (a defect): a typed line that begins with an assignment of a
  path, `LD_LIBRARY_PATH=/opt/lib app`, is taken for plain words, since
  `names_shell_syntax` lets every word with a slash pass as a program
  (`shell.rs:162`). The panel's check skips the assignment and finds `app`; the
  anchor looks for a program of that whole name and launches nothing, although
  the two verdicts "are one" (`launch.rs:89-91`).
- `boot_baseline`: `boot.rs:8-9` says a window is recognised by not having been
  there before. When the very first read of the window list fails it counts as
  empty, and an old window is claimed and moved. `OldWindowsAreLeftAlone` is
  therefore stated for boots whose first read succeeded.

- `idle_exit` (a defect): "the service never exits mid-lease/commit"
  (`engine.rs:552-553`). The loop's three reads (`main.rs:333-336`) are not one
  step. A call counted after the first of them, with no transaction open, passes
  the other two, and the service leaves with the call under way. Documents stay
  sound, since `Authority` lets the service die anywhere; the caller loses a
  document that was committed.

Smaller ones, met while modelling and without a run of their own:

- `polkit.rs:29-31` says that when the memory of early cancellations is full the
  oldest is evicted. The test (`:219`) counts `order`, from which an id that was
  used is never taken out, so a remembered cancellation can go while there is
  room. What does hold is `OnlyOldestForgotten`.
- The comment of `cancel_id` (`polkit.rs:209-210`) says callers skip it for a
  check already returned, but a Reduce, a Purge or a sweep that takes the
  transaction between the return of the check and phase 3 of Authorize cannot
  know. The id is remembered in vain; `PolkitChecks` has this behaviour.
- `README.md:297-298` says a `~` goes through `bash -c`; `words` treats an
  unquoted `~` (and braces) as ordinary, and the command runs with it literally.
- A captured command with an apostrophe (`it's`) reads as an unterminated quote
  in the panel's check of the signed exec, which then says "command not found"
  of a command boot launches.
- The panel's list is to hold "the running windows not yet in Relaunch"
  (`list.rs:1-2`; "that the boot list does not cover", `README.md:150`). But
  `list.rs:124` lowers the pins' classes in full (`to_lowercase`), and `:145` the
  windows' in their ASCII letters only. A pinned class with a capital outside
  ASCII is therefore listed as running too, and its row stays after its +; and a
  window whose class differs from a pin's in such a capital alone is hidden,
  although import (`edit.rs:47`) takes the two for different apps. `PanelRows`
  has both (`FullLower`, `AsciiLower`), and the machine `Oddities` has windows of
  two such classes. `EachAppOnce` excepts them (`OneSpelling`, `OneCase`): TLC
  violates it within four steps without any of the three exceptions.
- `resolve.rs:199-201` says `Capture.class` is the hosted command's class; it is
  the window's.
- Labels of the session snapshot are looked up by `StoredEntry.class`
  (`session.rs:118-123`), which for a signed list is the pin's id and no window
  class: they only ever apply to lists from before signing (the one kind the
  test has).
- A window with an empty class in a snapshot is reported missing whatever is
  open (`session.rs:166`); of two windows recorded at one place, one that has
  moved is not told of (`:208`), and `DiffTellsWhatIsGone` is stated so.
- `ensure_hooks` takes any line of `hyprland.lua` that contains the text of the
  login line for the line, the user's own comment too (`hooks.rs:253`).
- `webapp.rs:74-77` says which hosts are `Uncanonical`; one with an underscore
  before its odd character is cut there first (`:79`) and counts as known.
- `touch_private` does not follow a dangling link and takes it for a flag that
  is set (`fs.rs:317`); the readers of the flag ask `exists`, which says no. A
  chain of exactly 40 links can be read but not written (`fs.rs:116`).
- The probe, install and wiring of the boot tools guard themselves differently:
  `spawnInstall` looks for another install only, `spawnManage` for either
  (`Panel.qml:427-438`); an `engineMissing` that arrives while an older probe is
  out is dropped.

## 7. Not modelled, and why

- Wording, escaping and byte caps of the review, canonical JSON, Lua generation,
  the grammar of desktop files and of `/proc`, bounded reads, child processes with
  deadlines: conversions and I/O without state, covered by unit tests. How the
  desktop-entry library trims the end of a value is not known here: labels and
  directories that end in a blank are not tried.
- Signatures are taken to be unforgeable; polkit and D-Bus to do what the code
  expects of them (a sender is who it says, a name lost is reported).
- `HasPending` changes nothing and is not counted as a call under way. Modes and ownership of files are
  checks on every open and fail the call (`Fails`).
- If `name_has_owner` itself fails (`main.rs:181`) an orphan waits for its
  lease; the model lets the re-check succeed.
- Quota of bytes and rows: a Prepare may refuse for any reason, which opens
  nothing, so only its other effect (dropping an expired lease) is modelled.
- Floating state of windows at boot, and more than one monitor.
- Startup items, legacy rows and guesses of `list.rs`; octal escapes and line
  breaks in typed lines; the "invalid:" reasons of entries that are too long.
- A probe that cannot be started; a second panel on another monitor, and
  commands typed in a terminal beside the panel's engine: the engine has no lock,
  `propose` is not among its `WRITERS` (`cli.rs:48-56`), and a capture run from
  there beside an install would collect what the install has just written. The
  panel's own gate, which the model has, prevents it.
- A document signed just as the shell dies is lost with it (the next change
  goes above it); the boot-disable flag is not synced; both are behaviours of
  `SignedInstall`, and its properties are stated so.
- The bar widget, the overlay, the shim and the packaging: layout, argument
  passing and files.

## 8. Plan

Done, in this order: the authority with its disk, the refinement to
`LaunchPromise` and their proofs; the polkit registry, the boot, the life of a
change; installs beside logins; the panel's queue and boot tools; capture,
proposals and command text; the proofs of the registry, the boot and the
installs; the login files, web apps, the session diff, the writers of files and
the service's idle exit; the proofs of the life of a change, the panel, the
login line, the boot list, the texts of a command, the identity of a web app and
the writers of files.

Left, by what it would add:

1. `SignedInstall` composed with `PanelChange` through the queue they share: at
   present the former takes from the latter that one engine runs at a time.
2. Startup items and the rows of lists from before signing in `PanelRows`.
