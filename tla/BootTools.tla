------------------------------ MODULE BootTools ------------------------------
(***************************************************************************)
(* The panel's boot tools (CoreInstall.js and the processes Panel.qml runs *)
(* for it): what is installed is only ever learnt from a probe of the      *)
(* files, while packages change in terminals the panel cannot look into.   *)
(*                                                                         *)
(* `world' is the machine: the package (core, its version and the stamp of *)
(* its files, each a number that changes) and hyprland.lua.  A terminal    *)
(* may hand its work to a running instance and exit at once, so that the   *)
(* work goes on without it.  pacman's own change of the files is one step. *)
(***************************************************************************)
EXTENDS Hooks, FiniteSets

CONSTANTS
  Luas,        \* what hyprland.lua may hold when the panel starts
  LuaLines,    \* the lines, and how many, of every other one that is tried
  MaxLines,
  MaxOps,      \* operations started (bounds the model)
  MaxChanges   \* changes of the package (bounds the model)

ASSUME ToolBoundsAssumption == MaxOps \in Nat /\ MaxChanges \in Nat
ASSUME LuasAssumption == Luas \subseteq [lines : Seq(LuaLines), nl : BOOLEAN]

VARIABLES
  world,       \* [core, version, stamp, lua]
  tools,       \* CoreInstall's own state
  probeOut,    \* the running probe: its op and what it has read, or NoProbe
  terminals,   \* running terminals: [op, kind]
  work,        \* package changes still going on: kinds
  wiring, checkingOp,   \* the op of the running ensure-hooks / update check, or 0
  adopted      \* history: a core was found and taken to be ready

toolVars == <<world, tools, probeOut, terminals, work, wiring, checkingOp, adopted>>

Ops == 0 .. 2 * MaxOps + 1
Kinds == {"install", "update", "reinstall", "uninstall"}
TerminalOf == [installing |-> "install", updating |-> "update",
               reinstalling |-> "reinstall", uninstalling |-> "uninstall"]
PhaseOf == [install |-> "installing", update |-> "updating",
            reinstall |-> "reinstalling", uninstall |-> "uninstalling"]
InTerminal(phase) == phase \in DOMAIN TerminalOf
Phases == {"checking", "missing", "wiring", "unwired", "ready", "checking-updates",
           "update-available"} \cup DOMAIN TerminalOf

(* What a probe reports: no core, no version and no stamp.                 *)
Builds == 0 .. MaxChanges + 1
Package == [core : BOOLEAN, version : Builds, stamp : Builds]
NoPackage == [core |-> FALSE, version |-> 0, stamp |-> 0]
Found == IF world.core
         THEN [core |-> TRUE, version |-> world.version, stamp |-> world.stamp]
         ELSE NoPackage

Files(max) == {f \in UNION {[lines : [1 .. n -> LuaLines], nl : BOOLEAN] : n \in 0 .. max} :
                 f = AsFile(f.lines, f.nl)}
Dirs == {{}, {"relaunch.conf", "relaunch.lua", "config.json"}, {"overrides.json", "rules.lua"}}

NoProbe == [op |-> -1, read |-> FALSE, found |-> NoPackage]

ToolsTypeOK ==
  /\ world \in [core : BOOLEAN, version : Builds, stamp : Builds, lua : Files(MaxLines)]
  /\ tools \in [phase : Phases, op : Ops, probing : BOOLEAN, installEnded : BOOLEAN,
                seen : Package, before : Package, canInstall : BOOLEAN,
                confirm : {"", "reinstall", "uninstall"}]
  /\ probeOut \in [op : Ops \cup {-1}, read : BOOLEAN, found : Package]
  /\ terminals \subseteq [op : Ops, kind : Kinds] /\ work \subseteq Kinds
  /\ wiring \in Ops /\ checkingOp \in Ops /\ adopted \in BOOLEAN

(* The panel starts and looks, whatever is installed.                      *)
ToolsInit ==
  /\ \E core \in BOOLEAN, lua \in Luas :
       /\ Hooked(lua) => core
       /\ world = [core |-> core, version |-> IF core THEN 1 ELSE 0,
                   stamp |-> IF core THEN 1 ELSE 0, lua |-> lua]
  /\ \E canInstall \in BOOLEAN :
       tools = [phase |-> "checking", op |-> 0, probing |-> TRUE, installEnded |-> FALSE,
                seen |-> NoPackage, before |-> NoPackage, canInstall |-> canInstall,
                confirm |-> ""]
  /\ probeOut = [NoProbe EXCEPT !.op = 0]
  /\ terminals = {} /\ work = {} /\ wiring = 0 /\ checkingOp = 0 /\ adopted = FALSE

Busy == \/ tools.probing \/ InTerminal(tools.phase)
        \/ tools.phase \in {"wiring", "checking-updates"}
Manageable == tools.phase \in {"ready", "update-available"} /\ ~Busy

-----------------------------------------------------------------------------
(* What the panel asks for.                                                *)

StartProbe(t) ==
  /\ tools' = [t EXCEPT !.probing = TRUE]
  /\ probeOut' = [NoProbe EXCEPT !.op = t.op]

(* check: on open, and "Check again".                                      *)
Check ==
  /\ ~tools.probing /\ tools.phase \notin {"wiring", "checking-updates"}
  /\ StartProbe([tools EXCEPT !.installEnded = @ \/ InTerminal(tools.phase)])
  /\ UNCHANGED <<world, terminals, work, wiring, checkingOp, adopted>>

(* poll: every three seconds of a terminal phase.                          *)
Poll ==
  /\ InTerminal(tools.phase) /\ ~tools.probing
  /\ StartProbe(tools)
  /\ UNCHANGED <<world, terminals, work, wiring, checkingOp, adopted>>

(* engineMissing, called by the request queue.                             *)
LooksForEngine == tools.phase \in {"ready", "update-available"} /\ ~Busy
EngineIsMissing ==
  IF LooksForEngine
  THEN StartProbe([tools EXCEPT !.phase = "checking"])
  ELSE UNCHANGED <<tools, probeOut>>

Wired(t) ==
  /\ tools' = [t EXCEPT !.op = @ + 1, !.phase = "wiring"]
  /\ wiring' = tools.op + 1

(* A terminal is opened under a new op, or another one is still open: the  *)
(* install looks only for an earlier install.                              *)
Blocks(kind) == {t \in terminals : kind = "install" => t.kind = "install"}

Back(phase) == IF phase = "installing" THEN "missing" ELSE "ready"

Open(kind) ==
  LET t == IF kind = "install"
           THEN [tools EXCEPT !.op = @ + 1, !.installEnded = FALSE]
           ELSE [tools EXCEPT !.op = @ + 1, !.installEnded = FALSE,
                              !.confirm = "", !.before = tools.seen]
  IN /\ tools.op < MaxOps
     /\ IF Blocks(kind) # {}
        THEN tools' = [t EXCEPT !.phase = Back(PhaseOf[kind])] /\ UNCHANGED <<terminals, work>>
        ELSE /\ tools' = [t EXCEPT !.phase = PhaseOf[kind]]
             /\ terminals' = terminals \cup {[op |-> t.op, kind |-> kind]}
             /\ work' = work \cup {kind}
     /\ UNCHANGED <<world, probeOut, wiring, checkingOp, adopted>>

(* Mutant: the button works while a probe is out.                          *)
InstallWhileProbing ==
  /\ tools.phase = "missing" /\ tools.canInstall
  /\ Open("install")

(* install: the button of "missing" and "unwired".                         *)
Install ==
  /\ ~Busy
  /\ \/ /\ tools.phase = "unwired" /\ tools.op < MaxOps
        /\ Wired(tools)
        /\ UNCHANGED <<world, probeOut, terminals, work, checkingOp, adopted>>
     \/ /\ tools.phase = "missing" /\ tools.canInstall
        /\ Open("install")

Update == tools.phase = "update-available" /\ ~Busy /\ Open("update")

(* Reinstall and uninstall ask first.                                      *)
Ask ==
  /\ Manageable
  /\ \E what \in {"reinstall", "uninstall"} :
       tools' = IF tools.seen.version = 0 \/ ~tools.canInstall
                THEN [tools EXCEPT !.phase = "ready"]
                ELSE [tools EXCEPT !.confirm = what]
  /\ UNCHANGED <<world, probeOut, terminals, work, wiring, checkingOp, adopted>>

CancelConfirm ==
  /\ tools.confirm # "" /\ tools' = [tools EXCEPT !.confirm = ""]
  /\ UNCHANGED <<world, probeOut, terminals, work, wiring, checkingOp, adopted>>

Confirm == tools.confirm # "" /\ Manageable /\ Open(tools.confirm)

CheckUpdates ==
  /\ Manageable
  /\ IF tools.seen.version = 0
     THEN tools' = [tools EXCEPT !.phase = "ready"] /\ UNCHANGED checkingOp
     ELSE /\ tools.op < MaxOps
          /\ tools' = [tools EXCEPT !.op = @ + 1, !.phase = "checking-updates", !.confirm = ""]
          /\ checkingOp' = tools.op + 1
  /\ UNCHANGED <<world, probeOut, terminals, work, wiring, adopted>>

-----------------------------------------------------------------------------
(* What its processes report; a report of an op gone by is ignored.        *)

ProbeReads ==
  /\ probeOut # NoProbe /\ ~probeOut.read
  /\ probeOut' = [probeOut EXCEPT !.read = TRUE, !.found = Found]
  /\ UNCHANGED <<world, tools, terminals, work, wiring, checkingOp, adopted>>

Changed(kind, r) ==
  CASE kind = "uninstall" -> ~r.core
    [] kind = "update"    -> r.core /\ r.version # 0 /\ r.version # tools.before.version
    [] kind = "reinstall" -> r.core /\ r.stamp # 0 /\ r.stamp # tools.before.stamp
    [] kind = "install"   -> r.core

(* A probe that ends decides: the phase it leaves, "wire" to wire next.    *)
Verdict(phase, r) ==
  IF InTerminal(phase)
  THEN LET kind == TerminalOf[phase] IN
       IF Changed(kind, r) THEN IF kind = "uninstall" THEN "missing" ELSE "wire"
       ELSE IF ~tools.installEnded THEN phase
       ELSE IF kind = "install" \/ (~r.core /\ kind # "uninstall") THEN "missing" ELSE "ready"
  ELSE IF r.core
  THEN CASE phase = "missing"  -> "wire"
         [] phase = "checking" -> "ready"
         [] OTHER              -> phase
  ELSE "missing"

ProbeEnded ==
  LET r == probeOut.found
      t == [tools EXCEPT !.probing = FALSE, !.seen = r]
      v == Verdict(tools.phase, r)
  IN /\ probeOut.read
     /\ probeOut' = NoProbe
     /\ IF probeOut.op # tools.op \/ ~tools.probing
        THEN UNCHANGED <<tools, wiring, adopted>>
        ELSE IF v = "wire"
        THEN Wired(t) /\ UNCHANGED adopted
        ELSE /\ tools' = [t EXCEPT !.phase = v]
             /\ adopted' = (adopted \/ (tools.phase = "checking" /\ v = "ready" /\ ~Hooked(world.lua)))
             /\ UNCHANGED wiring
     /\ UNCHANGED <<world, terminals, work, checkingOp>>

(* Mutant: the end of a terminal is the end of the attempt.                *)
TerminalEndsUnprobed ==
  \E t \in terminals :
    /\ terminals' = terminals \ {t}
    /\ IF t.op = tools.op /\ InTerminal(tools.phase)
       THEN tools' = [tools EXCEPT !.phase = "ready"]
       ELSE UNCHANGED tools
    /\ UNCHANGED <<world, probeOut, work, wiring, checkingOp, adopted>>

(* A terminal could not be opened after all.                               *)
TerminalFails ==
  \E t \in terminals :
    /\ t.kind \in work
    /\ terminals' = terminals \ {t} /\ work' = work \ {t.kind}
    /\ IF t.op = tools.op /\ InTerminal(tools.phase)
       THEN tools' = [tools EXCEPT !.phase = Back(@)]
       ELSE UNCHANGED tools
    /\ UNCHANGED <<world, probeOut, wiring, checkingOp, adopted>>

(* A terminal exits, its work done or given up or handed on: a probe       *)
(* decides, the one that is out if there is one.                           *)
TerminalEnds ==
  \E t \in terminals :
    /\ terminals' = terminals \ {t}
    /\ IF t.op = tools.op /\ InTerminal(tools.phase)
       THEN IF tools.probing
            THEN tools' = [tools EXCEPT !.installEnded = TRUE] /\ UNCHANGED probeOut
            ELSE StartProbe([tools EXCEPT !.installEnded = TRUE])
       ELSE UNCHANGED <<tools, probeOut>>
    /\ UNCHANGED <<world, work, wiring, checkingOp, adopted>>

(* ensure-hooks ends; it is part of the package it wires.                  *)
WireEnded ==
  /\ wiring # 0 /\ wiring' = 0
  /\ \E ok \in {TRUE, FALSE} :
       /\ ok => world.core
       /\ world' = IF ok THEN [world EXCEPT !.lua = Ensured(@)] ELSE world
       /\ tools' = IF wiring = tools.op /\ tools.phase = "wiring"
                   THEN [tools EXCEPT !.phase = IF ok THEN "ready" ELSE "unwired"]
                   ELSE tools
  /\ UNCHANGED <<probeOut, terminals, work, checkingOp, adopted>>

UpdatesChecked ==
  /\ checkingOp # 0 /\ checkingOp' = 0
  /\ IF checkingOp = tools.op /\ tools.phase = "checking-updates"
     THEN \E phase \in {"update-available", "ready"} : tools' = [tools EXCEPT !.phase = phase]
     ELSE UNCHANGED tools
  /\ UNCHANGED <<world, probeOut, terminals, work, wiring, adopted>>

(* The package manager does what a terminal was opened for, or not.        *)
PackageChanges ==
  \E kind \in work :
    /\ work' = work \ {kind}
    /\ \/ /\ world.stamp < MaxChanges + 1 /\ (kind = "install" \/ world.core)
          /\ world' =
               CASE kind = "uninstall" -> [world EXCEPT !.core = FALSE]
                 [] kind = "reinstall" -> [world EXCEPT !.stamp = @ + 1]
                 [] OTHER -> [world EXCEPT !.core = TRUE, !.stamp = @ + 1, !.version = @ + 1]
       \/ UNCHANGED world
    /\ UNCHANGED <<tools, probeOut, terminals, wiring, checkingOp, adopted>>

UserActs ==
  Check \/ Install \/ Update \/ Ask \/ CancelConfirm \/ Confirm \/ CheckUpdates
Answers == ProbeReads \/ ProbeEnded \/ WireEnded \/ UpdatesChecked
Packages == TerminalFails \/ TerminalEnds \/ PackageChanges

-----------------------------------------------------------------------------
(* The panel waits for nothing that cannot come: while it probes, wires or *)
(* checks, that very process runs, under the current op; in a terminal     *)
(* phase the terminal is open, or it has ended and a probe will decide.    *)
(* The op guards of CoreInstall.js, startCoreProc's refusal to start a     *)
(* running process again (Panel.qml:463).                                  *)
EveryWaitHasAnAnswer ==
  /\ tools.probing <=> probeOut # NoProbe /\ probeOut.op = tools.op
  /\ tools.phase = "wiring" => wiring = tools.op /\ wiring # 0
  /\ tools.phase = "checking-updates" => checkingOp = tools.op /\ checkingOp # 0
  /\ InTerminal(tools.phase) =>
       \/ tools.installEnded
       \/ [op |-> tools.op, kind |-> TerminalOf[tools.phase]] \in terminals
  /\ tools.phase \in {"missing", "ready", "unwired", "update-available"} =>
       wiring = 0 /\ checkingOp = 0

(* "Boot tools installed" means the login step runs: the panel is ready    *)
(* only once ensure-hooks has succeeded, unless it found the tools there   *)
(* when it looked (probeEnded, CoreInstall.js:175).                        *)
ReadyIsWired ==
  tools.phase \in {"ready", "update-available", "checking-updates", "updating",
                   "reinstalling", "uninstalling"} =>
    Hooked(world.lua) \/ adopted

(* An attempt ends: once its terminal is gone the panel leaves the phase,  *)
(* and it leaves "checking", "wiring" and "checking-updates" by itself.    *)
AttemptEnds ==
  /\ []<>(tools.phase \notin {"checking", "wiring", "checking-updates"})
  /\ (InTerminal(tools.phase) /\ terminals = {}) ~> ~InTerminal(tools.phase)
=============================================================================
