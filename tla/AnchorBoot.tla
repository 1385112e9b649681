----------------------------- MODULE AnchorBoot -----------------------------
(***************************************************************************)
(* One `relaunch-anchor boot' (relaunch-anchor/src/boot.rs) beside a live  *)
(* compositor: the anchor launches the verified rows round by round, reads *)
(* the window list again and again, gives each launch a window that was    *)
(* not there before, and moves it to its workspace.  Between any two reads *)
(* and between a read and the move it leads to, windows open, close and    *)
(* are moved by the user.                                                  *)
(*                                                                         *)
(* A row is its place in launch order; the pid of what row e spawned is e. *)
(* Addresses are handed out in the order windows open.  Time is a count of *)
(* reads; floating is left out (it only adds reasons to place a window).   *)
(***************************************************************************)
EXTENDS Integers, FiniteSets

CONSTANTS
  Rows,          \* enabled rows that may be launched: 1 .. n, in launch order
  WindowClass,   \* row -> the window class it was pinned with
  Workspace,     \* row -> the workspace it was pinned to
  GroupKeys,     \* row -> its program key and its class-word key
  Names,         \* window classes a window may carry
  OldNames,      \* those of a window that is there before the boot
  Workspaces,    \* workspaces a window may be on
  MaxAddr,       \* windows a behaviour may show (bounds the model)
  MaxWaits,      \* sleeps a watch may take before its limit (bounds the model)
  Timings,       \* what `punctual' may be
  MaxMeddling,   \* windows the user may open, close or move (bounds the model)
  MaxBlind       \* window reads that may fail (bounds the model)

ASSUME RowsAssumption == IsFiniteSet(Rows) /\ Rows = 1 .. Cardinality(Rows)
ASSUME KnobsAssumption ==
  /\ MaxAddr \in Nat \ {0} /\ MaxWaits \in Nat /\ MaxBlind \in Nat /\ MaxMeddling \in Nat
  /\ Timings \subseteq BOOLEAN /\ OldNames \subseteq Names
(* One class is one class word, whatever else a row's keys are.            *)
ASSUME ClassKeyAssumption ==
  \A e, f \in Rows : WindowClass[e] = WindowClass[f] => GroupKeys[e] \cap GroupKeys[f] # {}

VARIABLES
  punctual,   \* whether, this boot, only the rows' windows appear, each under
              \*   its pinned class and in time; it does not change
  windows,    \* address -> the window there, or NoWindow
  nextAddr,   \* the next window's address
  opened,     \* rows whose window has appeared
  before,     \* history: addresses there when boot began
  missed,     \* history: which of the first and the last read failed
  verified, disabled, skipOnce,   \* the document's verdict and the two flags
  at,         \* the anchor's step
  round,
  status,     \* row -> none, started or failed
  address,    \* row -> the window recognised as its, 0 for none
  outcome,    \* row -> none, no-show, placed or misplaced
  known,      \* addresses never to be recognised again
  waiting,    \* the rows a watch is for
  view, todo, \* the last window list and the rows still to look for in it
  waits,      \* sleeps of the current watch
  sweeping,   \* whether the watch is the final sweep
  blind,      \* failed reads so far
  meddled,    \* what the user has done to windows so far
  result

desktop == <<windows, nextAddr, opened, meddled, punctual>>
flags == <<verified, disabled, skipOnce>>
launched == <<round, status>>
claims == <<address, outcome, known>>
watching == <<waiting, view, todo, waits, sweeping>>
vars == <<desktop, before, missed, flags, at, launched, claims, watching, blind, result>>

Addr == 1 .. MaxAddr
Window == [names : SUBSET Names, workspace : Workspaces, pid : {0} \cup Rows,
           from : {0} \cup Rows]
NoWindow == [names |-> {}]

TypeOK ==
  /\ punctual \in BOOLEAN
  /\ windows \in [Addr -> Window \cup {NoWindow}] /\ nextAddr \in 1 .. MaxAddr + 1
  /\ opened \subseteq Rows /\ before \subseteq Addr /\ missed \subseteq {"first", "last"}
  /\ verified \in {"ok", "schema", "bad"} /\ disabled \in BOOLEAN /\ skipOnce \in BOOLEAN
  /\ at \in {"start", "baseline", "launch", "watch", "match", "wait", "byPid", "matchPid",
             "settle", "done"}
  /\ round \in 1 .. Cardinality(Rows) + 1
  /\ status \in [Rows -> {"none", "started", "failed"}]
  /\ address \in [Rows -> {0} \cup Addr]
  /\ outcome \in [Rows -> {"none", "no-show", "placed", "misplaced"}]
  /\ \A e \in Rows : outcome[e] = "none" <=> status[e] # "started"
  /\ known \subseteq Addr /\ waiting \subseteq Rows /\ todo \subseteq Rows
  /\ view \in [Addr -> Window \cup {NoWindow}]
  /\ waits \in 0 .. MaxWaits /\ sweeping \in BOOLEAN /\ blind \in 0 .. MaxBlind
  /\ meddled \in 0 .. MaxMeddling
  /\ result \in {"running", "landed", "launched", "unverified", "schema-upgrade-needed",
                 "disabled", "skipped"}

Shown(a) == windows[a] # NoWindow
Empty == [a \in Addr |-> NoWindow]

Init ==
  /\ punctual \in Timings
  /\ \E n \in {0} \cup (IF punctual THEN {} ELSE {1}) :
       \E names \in OldNames, ws \in Workspaces :
         /\ windows = [a \in Addr |->
              IF a <= n THEN [names |-> {names}, workspace |-> ws, pid |-> 0, from |-> 0]
              ELSE NoWindow]
         /\ nextAddr = n + 1
         /\ before = 1 .. n
  /\ opened = {} /\ missed = {}
  /\ verified \in {"ok", "schema", "bad"} /\ disabled \in BOOLEAN /\ skipOnce \in BOOLEAN
  /\ at = "start" /\ round = 1
  /\ status = [e \in Rows |-> "none"]
  /\ address = [e \in Rows |-> 0]
  /\ outcome = [e \in Rows |-> "none"]
  /\ known = {} /\ waiting = {} /\ view = Empty /\ todo = {} /\ waits = 0
  /\ sweeping = FALSE /\ blind = 0 /\ meddled = 0 /\ result = "running"

-----------------------------------------------------------------------------
(* The desktop.                                                            *)

Running == at \notin {"start", "done"}

Opens(names, ws, pid, from) ==
  /\ nextAddr <= MaxAddr
  /\ windows' = [windows EXCEPT ![nextAddr] =
       [names |-> names, workspace |-> ws, pid |-> pid, from |-> from]]
  /\ nextAddr' = nextAddr + 1

(* A launched app shows its window, on whatever workspace, from the spawned*)
(* process or another; its class may have changed since it was pinned.     *)
RowOpens(e) ==
  /\ Running
  /\ status[e] = "started" /\ e \notin opened
  /\ \E ws \in Workspaces, pid \in {0, e},
        names \in {{WindowClass[e]}} \cup (IF punctual THEN {} ELSE {{n} : n \in Names}) :
       Opens(names, ws, pid, e)
  /\ opened' = opened \cup {e}
  /\ UNCHANGED <<punctual, meddled, before, missed, flags, at, launched, claims, watching, blind, result>>

(* The user: opens some other window, closes one, moves one.               *)
Meddles ==
  /\ Running /\ ~punctual
  /\ meddled < MaxMeddling
  /\ meddled' = meddled + 1
  /\ UNCHANGED <<punctual, opened, before, missed, flags, at, launched, claims, watching,
                 blind, result>>

UserOpens ==
  /\ Meddles
  /\ \E ws \in Workspaces, n \in Names : Opens({n}, ws, 0, 0)

UserCloses(a) ==
  /\ Meddles
  /\ Shown(a)
  /\ windows' = [windows EXCEPT ![a] = NoWindow]
  /\ UNCHANGED nextAddr

UserMoves(a) ==
  /\ Meddles
  /\ Shown(a)
  /\ \E ws \in Workspaces \ {windows[a].workspace} :
       windows' = [windows EXCEPT ![a].workspace = ws]
  /\ UNCHANGED nextAddr

-----------------------------------------------------------------------------
(* Which rows race: those that share a key, transitively (groups).         *)
Related(e, f) == GroupKeys[e] \cap GroupKeys[f] # {}

(* Mutant: every row is a group of its own.                                *)
NoGroup(e) == {e}

Group(e) ==
  LET Closed(S) == \A f \in S, g \in Rows : Related(f, g) => g \in S
  IN {f \in Rows : \A S \in SUBSET Rows : (e \in S /\ Closed(S)) => f \in S}

(* Round n starts the n-th row of every group.                             *)
InRound(n) == {e \in Rows : Cardinality({f \in Group(e) : f <= e}) = n}

Rounds == Cardinality({n \in Rows : InRound(n) # {}})

Unclaimed(e) == status[e] = "started" /\ address[e] = 0

Lowest(S) == CHOOSE e \in S : \A f \in S : e <= f

(* `hyprctl clients' fails, at most MaxBlind times.                        *)
ReadFails == ~punctual /\ blind < MaxBlind /\ blind' = blind + 1

-----------------------------------------------------------------------------
(* run: the document and the flags first.                                  *)
Begin ==
  /\ at = "start"
  /\ LET over(r) == result' = r /\ at' = "done" IN
       \/ verified = "schema" /\ over("schema-upgrade-needed") /\ UNCHANGED skipOnce
       \/ verified = "bad" /\ over("unverified") /\ UNCHANGED skipOnce
       \/ verified = "ok" /\ disabled /\ over("disabled") /\ UNCHANGED skipOnce
       \/ verified = "ok" /\ ~disabled /\ skipOnce /\ over("skipped") /\ skipOnce' = FALSE
       \/ /\ verified = "ok" /\ ~disabled /\ ~skipOnce
          /\ at' = "baseline"
          /\ UNCHANGED <<skipOnce, result>>
  /\ UNCHANGED <<desktop, before, missed, verified, disabled, launched, claims,
                 watching, blind>>

(* The windows already there; a failed read counts as none.                *)
Baseline ==
  /\ at = "baseline"
  /\ at' = "launch"
  /\ \/ /\ known' = {a \in Addr : Shown(a)}
        /\ UNCHANGED <<blind, missed>>
     \/ ReadFails /\ missed' = {"first"} /\ UNCHANGED known
  /\ UNCHANGED <<desktop, before, flags, launched, address, outcome, watching, result>>

Watch(rows, final) ==
  /\ waiting' = rows /\ waits' = 0 /\ sweeping' = final
  /\ at' = "watch"
  /\ UNCHANGED <<view, todo>>

(* A launch that started has a placement, until then without a window.     *)
NoShowYet(up) == outcome' = [e \in Rows |-> IF e \in up THEN "no-show" ELSE outcome[e]]

(* One round: no window is read between its launches.  A launch may be     *)
(* refused or fail; when every round is done the sweep takes what is left. *)
LaunchRound ==
  /\ at = "launch"
  /\ \/ /\ round <= Rounds
        /\ \E up \in SUBSET InRound(round) :
             /\ status' = [e \in Rows |-> IF e \notin InRound(round) THEN status[e]
                                          ELSE IF e \in up THEN "started" ELSE "failed"]
             /\ NoShowYet(up)
             /\ Watch(up, FALSE)
        /\ round' = round + 1
     \/ /\ round > Rounds
        /\ Watch({e \in Rows : Unclaimed(e)}, TRUE)
        /\ UNCHANGED <<launched, outcome>>
  /\ UNCHANGED <<desktop, before, missed, flags, address, known, blind, result>>

WatchEnds == at' = (IF sweeping THEN "byPid" ELSE "launch")

(* The top of watch's loop: nothing left to wait for, or read the windows. *)
ReadWindows ==
  /\ at = "watch"
  /\ LET left == {e \in waiting : Unclaimed(e)} IN
       \/ left = {} /\ WatchEnds /\ UNCHANGED <<view, todo, blind>>
       \/ left # {} /\ at' = "match" /\ view' = windows /\ todo' = left /\ UNCHANGED blind
       \/ left # {} /\ at' = "wait" /\ ReadFails /\ UNCHANGED <<view, todo>>
  /\ UNCHANGED <<desktop, before, missed, flags, launched, claims, waiting, waits,
                 sweeping, result>>

(* Move a to e's workspace unless the list had it there; the move may fail,*)
(* and does when the window has gone since the list was read.              *)
Place(e, a) ==
  \/ /\ view[a].workspace = Workspace[e]
     /\ outcome' = [outcome EXCEPT ![e] = "placed"]
     /\ UNCHANGED windows
  \/ /\ view[a].workspace # Workspace[e]
     /\ \/ /\ Shown(a)
           /\ windows' = [windows EXCEPT ![a].workspace = Workspace[e]]
           /\ outcome' = [outcome EXCEPT ![e] = "placed"]
        \/ outcome' = [outcome EXCEPT ![e] = "misplaced"] /\ UNCHANGED windows

Claim(e, a) ==
  /\ known' = known \cup {a}
  /\ address' = [address EXCEPT ![e] = a]
  /\ Place(e, a)

(* Mutant: the windows of before are not set aside.                        *)
OfClassAnyAge(e) ==
  {a \in Addr : /\ \A f \in Rows : address[f] # a
               /\ view[a] # NoWindow /\ WindowClass[e] \in view[a].names}

(* Mutant: by pid, a window already recognised is taken again.             *)
OfPidAnyWindow(e) == {a \in Addr : view[a] # NoWindow /\ view[a].pid = e}

(* New windows of e's class, and new windows of e's process, in the list.  *)
OfClass(e) == {a \in Addr \ known : view[a] # NoWindow /\ WindowClass[e] \in view[a].names}
OfPid(e) == {a \in Addr \ known : view[a] # NoWindow /\ view[a].pid = e}

(* Each row in turn gets a candidate, whichever the list has first.        *)
MatchOne(candidates(_)) ==
  /\ todo # {}
  /\ LET e == Lowest(todo) IN
       /\ \/ \E a \in candidates(e) : Claim(e, a)
          \/ candidates(e) = {} /\ UNCHANGED <<claims, windows>>
       /\ todo' = todo \ {e}
  /\ UNCHANGED <<at, view>>

Match ==
  /\ at = "match"
  /\ \/ MatchOne(OfClass)
     \/ todo = {} /\ at' = "wait" /\ view' = Empty /\ UNCHANGED <<claims, windows, todo>>
  /\ UNCHANGED <<punctual, nextAddr, opened, meddled, before, missed, flags, launched, waiting,
                 waits, sweeping, blind, result>>

(* Mutant: the watch sleeps without counting.                              *)
WaitForever ==
  /\ at = "wait"
  /\ at' = "watch"
  /\ UNCHANGED <<desktop, before, missed, flags, launched, claims, watching, blind, result>>

(* The limit is reached after the last read, or the watch sleeps.          *)
Wait ==
  /\ at = "wait"
  /\ \/ waits < MaxWaits /\ waits' = waits + 1 /\ at' = "watch"
     \/ /\ waits = MaxWaits
        /\ punctual => \A e \in waiting : ~Unclaimed(e)
        /\ WatchEnds
        /\ UNCHANGED waits
     \/ /\ punctual /\ waits = MaxWaits    \* time enough for every window
        /\ at' = "watch"
        /\ UNCHANGED waits
  /\ UNCHANGED <<desktop, before, missed, flags, launched, claims, waiting, view, todo,
                 sweeping, blind, result>>

(* After the sweep: one read, and each row still without a window gets the *)
(* one of the very process it spawned, whatever its class.                 *)
ReadForPids ==
  /\ at = "byPid"
  /\ LET left == {e \in Rows : Unclaimed(e)} IN
       \/ left = {} /\ at' = "settle" /\ UNCHANGED <<view, todo, blind>>
       \/ left # {} /\ at' = "settle" /\ ReadFails /\ UNCHANGED <<view, todo>>
       \/ left # {} /\ at' = "matchPid" /\ view' = windows /\ todo' = left /\ UNCHANGED blind
  /\ UNCHANGED <<desktop, before, missed, flags, launched, claims, waiting, waits,
                 sweeping, result>>

MatchPid ==
  /\ at = "matchPid"
  /\ \/ MatchOne(OfPid)
     \/ todo = {} /\ at' = "settle" /\ view' = Empty /\ UNCHANGED <<claims, windows, todo>>
  /\ UNCHANGED <<punctual, nextAddr, opened, meddled, before, missed, flags, launched, waiting,
                 waits, sweeping, blind, result>>

(* Mutant: the report keeps what was true when a window was placed.        *)
AsPlaced(e) == outcome[e]

(* Where a recognised window is now is what the report says.               *)
Whereabouts(e) ==
  IF address[e] = 0 THEN outcome[e]
  ELSE IF ~Shown(address[e]) THEN "no-show"
  ELSE IF windows[address[e]].workspace = Workspace[e] THEN "placed" ELSE "misplaced"

Landed(final) == Rows # {} /\ \A e \in Rows : final[e] = "placed"

Settle ==
  /\ at = "settle"
  /\ at' = "done"
  /\ \/ outcome' = [e \in Rows |-> Whereabouts(e)] /\ UNCHANGED <<blind, missed>>
     \/ ReadFails /\ missed' = missed \cup {"last"} /\ UNCHANGED outcome
  /\ result' = IF Landed(outcome') THEN "landed" ELSE "launched"
  /\ UNCHANGED <<desktop, before, flags, launched, address, known, watching>>

Finished == at = "done" /\ UNCHANGED vars

Anchor ==
  Begin \/ Baseline \/ LaunchRound \/ ReadWindows \/ Match \/ Wait \/ ReadForPids
    \/ MatchPid \/ Settle

Desktop ==
  \/ \E e \in Rows : RowOpens(e)
  \/ UserOpens
  \/ \E a \in Addr : UserCloses(a) \/ UserMoves(a)

Next == Anchor \/ Desktop \/ Finished

Spec == Init /\ [][Next]_vars
FairSpec == Spec /\ WF_vars(Anchor)

-----------------------------------------------------------------------------
(* No window is given to two launches, by class, in the sweep or by pid.   *)
OneLaunchPerWindow ==
  \A e, f \in Rows : (address[e] # 0 /\ address[e] = address[f]) => e = f

(* A window that was there when boot began is recognised for no launch, as *)
(* long as the first read of the window list succeeded.                    *)
OldWindowsAreLeftAlone == "first" \notin missed => \A e \in Rows : address[e] \notin before

(* boot.rs: "A window is recognised by being new (its address was not      *)
(* there before)", whatever the first read returned.                       *)
OnlyNewWindows == \A e \in Rows : address[e] \notin before

(* When every row's window appears under its pinned class before the watch *)
(* of its round ends, each launch gets the window it opened: rows that     *)
(* could be confused are never looked for at the same time.                *)
EachGetsItsOwn == punctual => \A e \in Rows : address[e] # 0 => windows[address[e]].from = e

(* A boot that reports "landed", and whose last read succeeded, was told   *)
(* by it that every row has a window on its own workspace, whichever reads *)
(* failed before.  (After a failed one it reports what it placed.)         *)
LandedIsTrue ==
  (result = "landed" /\ "last" \notin missed) =>
    \A e \in Rows : address[e] # 0 /\ Shown(address[e])
                      /\ windows[address[e]].workspace = Workspace[e]

(* A boot ends whatever windows do, although a read fails.                 *)
BootEnds == ~punctual => <>(at = "done")
=============================================================================
