----------------------------- MODULE PanelEngine -----------------------------
(***************************************************************************)
(* The panel's request queue and its boot tools together (Panel.qml): a    *)
(* request that finds no engine sends the boot tools looking, and boot     *)
(* tools that are ready again ask for the list.                            *)
(***************************************************************************)
EXTENDS PanelQueue, BootTools

CONSTANT MaxActs      \* requests and operations together (bounds the model)

ASSUME MaxActsAssumption == MaxActs \in Nat

vars == <<queueVars, toolVars>>

Init == QueueInit /\ ToolsInit

(* A click, or the list the open panel asks for.                           *)
Request == requests + tools.op < MaxActs /\ Run /\ UNCHANGED toolVars

(* decideStatus is part of the handler that settles.                       *)
Told(missing) ==
  IF missing
  THEN EngineIsMissing /\ UNCHANGED <<world, terminals, work, wiring, checkingOp, adopted>>
  ELSE UNCHANGED toolVars

(* The shim exits 127 exactly when the engine is not installed.            *)
RequestExits ==
  \E code \in ExitCodes :
    /\ code = "127" <=> ~world.core
    /\ Exits(code)
    /\ Told(EngineMissing(lastExitCode', saw', startFailed'))

StreamReports ==
  \E x \in Streams :
    /\ StreamEnds(x)
    /\ Told(EngineMissing(lastExitCode', saw', startFailed'))

Recovers ==
  /\ Recover
  /\ Told(~settled /\ ~running /\ EngineMissing(lastExitCode', saw', startFailed'))

(* Wired: the boot tools are ready, and the panel lists again.             *)
Wires ==
  /\ WireEnded
  /\ IF tools.phase = "wiring" /\ tools'.phase = "ready" /\ requests < MaxRequests
     THEN Run
     ELSE UNCHANGED queueVars

QueueSteps ==
  \/ StartNext /\ UNCHANGED toolVars
  \/ Recovers \/ StreamReports
QueueProcess == (NeverStarts /\ UNCHANGED toolVars) \/ RequestExits
ToolSteps ==
  \/ (ProbeReads \/ ProbeEnded \/ UpdatesChecked) /\ UNCHANGED queueVars
  \/ Wires
Polls == Poll /\ UNCHANGED queueVars

Next ==
  \/ Request \/ QueueSteps \/ QueueProcess
  \/ UserActs /\ requests + tools'.op <= MaxActs /\ UNCHANGED queueVars
  \/ Packages /\ UNCHANGED queueVars
  \/ ToolSteps \/ Polls

(* The event loop delivers every signal, the processes it waits for end    *)
(* (none of them waits for the user), and the timer ticks; the user and    *)
(* the terminals owe nothing.                                              *)
Spec ==
  /\ Init /\ [][Next]_vars
  /\ WF_vars(QueueSteps) /\ WF_vars(QueueProcess)
  /\ WF_vars(ToolSteps) /\ WF_vars(Polls)

TypeOK == QueueTypeOK /\ ToolsTypeOK

(* The boot wiring comes and goes: whatever hyprland.lua holds when boot   *)
(* tools are wired, the user's lines and the file's last newline are kept, *)
(* one line of ours is left in it, and uninstall restores it byte for byte *)
(* (hooks.rs:11), after a wiring that was cut off as after one that was    *)
(* not.  Every file there may be is tried where the panel starts.          *)
Starts == /\ tools.probing /\ tools.op = 0 /\ tools.canInstall /\ ~probeOut.read
          /\ world.core /\ requests = 0
HooksComeAndGo ==
  /\ ComesAndGoes(world.lua)
  /\ Starts =>
       /\ \A f \in Files(MaxLines) : ComesAndGoes(f)
       /\ \A lua \in Luas, conf \in Files(2), dir \in Dirs, bin \in {"bash engine", "other"} :
            CutOff([lua |-> lua, conf |-> conf, dir |-> dir, bin |-> bin, plugin |-> TRUE])

(* Every wait of the panel's ends: the queue drains, and an attempt of the *)
(* boot tools ends once its terminal is gone.                              *)
PanelComesToRest == QueueDrains /\ AttemptEnds
=============================================================================
