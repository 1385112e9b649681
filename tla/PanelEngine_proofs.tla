------------------------- MODULE PanelEngine_proofs -------------------------
(***************************************************************************)
(* What is proved of PanelEngine: the queue keeps every request, the boot  *)
(* tools wait for nothing that cannot come, they are ready only once they  *)
(* are wired, and the login line comes and goes, for any number of         *)
(* requests, operations and package changes and for every file.            *)
(***************************************************************************)
EXTENDS
  PanelEngine, SequenceTheorems, NaturalsInduction, WellFoundedInduction, TLAPS

Pkg == [core : BOOLEAN, version : Nat, stamp : Nat]
Tools ==
  [phase : Phases, op : Nat, probing : BOOLEAN, installEnded : BOOLEAN, seen : Pkg, before : Pkg,
   canInstall : BOOLEAN, confirm : {"", "reinstall", "uninstall"}]

Types ==
  /\ world \in [core : BOOLEAN, version : Nat, stamp : Nat, lua : {world.lua}]
  /\ tools \in Tools
  /\ probeOut \in [op : Int, read : BOOLEAN, found : Pkg]
  /\ wiring \in Nat /\ checkingOp \in Nat

(* The process of the current op is out exactly while its phase waits for  *)
(* it; no op is older than one that is out.                                *)
WaitsFit ==
  /\ tools.probing <=> probeOut.op = tools.op
  /\ probeOut.op <= tools.op
  /\ tools.phase \in {"wiring", "checking-updates"} => ~tools.probing
  /\ IF tools.phase = "wiring" THEN wiring = tools.op /\ wiring # 0 ELSE wiring = 0
  /\ IF tools.phase = "checking-updates" THEN checkingOp = tools.op /\ checkingOp # 0
     ELSE checkingOp = 0
  /\ InTerminal(tools.phase) =>
       \/ tools.installEnded
       \/ [op |-> tools.op, kind |-> TerminalOf[tools.phase]] \in terminals

ToolsInv == Types /\ WaitsFit

(* The file is as the panel found it, or came from ensure-hooks.           *)
WiredFit(F) == world.lua \in F /\ ReadyIsWired

(* ensure-hooks does what it is for, on the files of F.                    *)
EnsureWires(F) == \A f \in F : Ensured(f) \in F /\ Hooked(Ensured(f))

(* Nothing runs that was settled, and nothing is about to start before     *)
(* the last request was.                                                   *)
QueueTypes ==
  /\ requests \in Nat /\ startingNext \in Nat
  /\ started \in Seq(Nat) /\ requestQueue \in Seq(Nat)
QueueInv ==
  /\ QueueTypes
  /\ RequestsAreKept
  /\ running => lastExitCode = "none"
  /\ startingNext # 0 => settled

-----------------------------------------------------------------------------
LEMMA NoProbeFields ==
  NoProbe \in [op : Int, read : BOOLEAN, found : Pkg] /\ NoProbe.op = -1
<1>1. NoPackage \in Pkg
  BY DEF NoPackage, Pkg
<1>2. NoProbe.op = -1
  BY Zenon DEF NoProbe
<1> QED  BY <1>1, <1>2 DEF NoProbe

LEMMA InitFits == Init => ToolsInv
<1> SUFFICES ASSUME Init PROVE ToolsInv
  OBVIOUS
<1>1. PICK core \in BOOLEAN, lua \in Luas :
        /\ Hooked(lua) => core
        /\ world = [core |-> core, version |-> IF core THEN 1 ELSE 0,
                    stamp |-> IF core THEN 1 ELSE 0, lua |-> lua]
  BY DEF Init, ToolsInit
<1>2. PICK canInstall \in BOOLEAN :
        tools = [phase |-> "checking", op |-> 0, probing |-> TRUE, installEnded |-> FALSE,
                 seen |-> NoPackage, before |-> NoPackage, canInstall |-> canInstall,
                 confirm |-> ""]
  BY DEF Init, ToolsInit
<1>3. /\ probeOut = [NoProbe EXCEPT !.op = 0] /\ terminals = {} /\ wiring = 0 /\ checkingOp = 0
  BY DEF Init, ToolsInit
<1>4. /\ tools \in Tools /\ tools.phase = "checking" /\ tools.op = 0 /\ tools.probing
  <2>1. NoPackage \in Pkg /\ "checking" \in Phases
    BY DEF NoPackage, Pkg, Phases
  <2>2. tools.phase = "checking" /\ tools.op = 0 /\ tools.probing
    BY <1>2, Zenon
  <2> QED  BY <1>2, <2>1, <2>2 DEF Tools
<1>5. probeOut \in [op : Int, read : BOOLEAN, found : Pkg] /\ probeOut.op = 0
  BY <1>3, NoProbeFields
<1>6. world.lua = lua /\ world \in [core : BOOLEAN, version : Nat, stamp : Nat, lua : {lua}]
  <2>1. world.lua = lua
    BY <1>1, Zenon
  <2>2. (IF core THEN 1 ELSE 0) \in Nat
    OBVIOUS
  <2> QED  BY <1>1, <2>1, <2>2
<1>7. Types
  BY <1>3, <1>4, <1>5, <1>6 DEF Types
<1>8. WaitsFit
  BY <1>3, <1>4, <1>5 DEF WaitsFit, InTerminal, TerminalOf
<1> QED  BY <1>7, <1>8 DEF ToolsInv
-----------------------------------------------------------------------------
(* Records, field by field: Tools and Types hold no relation between them. *)

LEMMA FoundIsPackage ==
  ASSUME Types PROVE Found \in Pkg
<1>1. NoPackage \in Pkg
  BY DEF NoPackage, Pkg
<1>2. world.core \in BOOLEAN /\ world.version \in Nat /\ world.stamp \in Nat
  BY DEF Types
<1>3. [core |-> TRUE, version |-> world.version, stamp |-> world.stamp] \in Pkg
  BY <1>2 DEF Pkg
<1> QED  BY <1>1, <1>3 DEF Found

LEMMA ToolFields ==
  ASSUME NEW t \in Tools
  PROVE  /\ t.phase \in Phases /\ t.op \in Nat /\ t.probing \in BOOLEAN
         /\ t.installEnded \in BOOLEAN /\ t.seen \in Pkg /\ t.before \in Pkg
         /\ t.confirm \in {"", "reinstall", "uninstall"}
BY Zenon DEF Tools

LEMMA NewPhase ==
  ASSUME NEW t \in Tools, NEW phase \in Phases
  PROVE  LET u == [t EXCEPT !.phase = phase] IN
         /\ u \in Tools /\ u.phase = phase /\ u.op = t.op /\ u.probing = t.probing
         /\ u.installEnded = t.installEnded
BY DEF Tools

LEMMA ProbeOf ==
  ASSUME NEW op \in Int
  PROVE  LET p == [NoProbe EXCEPT !.op = op] IN
         p \in [op : Int, read : BOOLEAN, found : Pkg] /\ p.op = op
BY NoProbeFields

(* A probe is started by whoever has none out and waits for neither        *)
(* ensure-hooks nor the update check.                                      *)
LEMMA StartProbeFits ==
  ASSUME Types, WaitsFit, NEW t \in Tools, StartProbe(t), t.op = tools.op,
         \/ t.phase = tools.phase /\ (tools.installEnded => t.installEnded)
         \/ t.phase = "checking" /\ ~InTerminal(tools.phase),
         ~tools.probing, tools.phase \notin {"wiring", "checking-updates"},
         UNCHANGED <<terminals, wiring, checkingOp>>
  PROVE  WaitsFit' /\ tools' \in Tools
               /\ probeOut' \in [op : Int, read : BOOLEAN, found : Pkg]
<1>1. t.op \in Int
  <2>1. t.op \in Nat
    BY Zenon, ToolFields
  <2> QED  BY <2>1
<1>2. /\ probeOut' \in [op : Int, read : BOOLEAN, found : Pkg] /\ probeOut'.op = t.op
  BY <1>1, ProbeOf DEF StartProbe
<1>3. /\ tools' \in Tools /\ tools'.probing /\ tools'.phase = t.phase /\ tools'.op = t.op
      /\ tools'.installEnded = t.installEnded
  BY DEF StartProbe, Tools
<1> HIDE DEF StartProbe
<1>4. WaitsFit'
  <2>1. \/ tools'.phase = tools.phase /\ (tools.installEnded => tools'.installEnded)
        \/ tools'.phase = "checking" /\ ~InTerminal(tools.phase)
    BY <1>3
  <2>2. /\ tools'.op = tools.op /\ probeOut'.op = tools'.op /\ tools'.probing
        /\ UNCHANGED <<terminals, wiring, checkingOp>> /\ tools.op \in Int
        /\ tools.phase \notin {"wiring", "checking-updates"} /\ tools' \in Tools
    BY <1>1, <1>2, <1>3
  <2>3. tools'.phase \notin {"wiring", "checking-updates"} /\ ~InTerminal("checking")
    BY <2>1, <2>2 DEF InTerminal, TerminalOf
  <2>4. wiring' = 0 /\ checkingOp' = 0
    BY <2>2 DEF WaitsFit
  <2>5. InTerminal(tools'.phase) =>
          tools'.installEnded \/ [op |-> tools'.op, kind |-> TerminalOf[tools'.phase]] \in terminals'
    BY <2>1, <2>2, <2>3, Zenon DEF WaitsFit
  <2> QED  BY <2>2, <2>3, <2>4, <2>5 DEF WaitsFit
<1> QED  BY <1>2, <1>3, <1>4
-----------------------------------------------------------------------------
(* What the panel asks for.                                                *)

(* A phase that waits for nothing may follow any other one, at the same op *)
(* or the next, once nothing is out.                                       *)
Resting == {"checking", "missing", "unwired", "ready", "update-available"}

LEMMA RestFits ==
  ASSUME Types, WaitsFit, tools' \in Tools, tools'.phase \in Resting,
         \/ tools'.op = tools.op /\ tools'.probing = tools.probing /\ UNCHANGED probeOut
         \/ tools'.op = tools.op + 1 /\ ~tools.probing /\ ~tools'.probing /\ UNCHANGED probeOut
         \/ tools'.op = tools.op /\ ~tools'.probing /\ probeOut' = NoProbe,
         wiring' = 0, checkingOp' = 0
  PROVE  WaitsFit'
<1>1. tools.op \in Nat /\ tools'.op \in Nat
  BY ToolFields, Zenon DEF Types
<1>2. probeOut.op \in Int
  BY DEF Types
<1>3. (tools'.probing <=> probeOut'.op = tools'.op) /\ probeOut'.op <= tools'.op
  <2>1. CASE tools'.op = tools.op /\ tools'.probing = tools.probing /\ UNCHANGED probeOut
    <3>1. (tools.probing <=> probeOut.op = tools.op) /\ probeOut.op <= tools.op
      BY DEF WaitsFit
    <3>2. probeOut'.op = probeOut.op
      BY <2>1
    <3> QED  BY <3>1, <3>2, <2>1
  <2>2. CASE tools'.op = tools.op + 1 /\ ~tools.probing /\ ~tools'.probing /\ UNCHANGED probeOut
    <3>1. probeOut.op # tools.op /\ probeOut.op <= tools.op
      BY <2>2 DEF WaitsFit
    <3>2. probeOut'.op = probeOut.op
      BY <2>2
    <3> QED  BY <3>1, <3>2, <2>2, <1>1, <1>2
  <2>3. CASE tools'.op = tools.op /\ ~tools'.probing /\ probeOut' = NoProbe
    <3>1. probeOut'.op = -1
      BY <2>3, NoProbeFields
    <3> QED  BY <3>1, <2>3, <1>1
  <2> QED  BY <2>1, <2>2, <2>3
<1>4. /\ tools'.phase # "wiring" /\ tools'.phase # "checking-updates"
      /\ ~InTerminal(tools'.phase)
  BY DEF Resting, InTerminal, TerminalOf
<1> QED  BY <1>3, <1>4 DEF WaitsFit

LEMMA NotBusyFacts ==
  ASSUME Types, WaitsFit, ~Busy
  PROVE  /\ ~tools.probing /\ tools.phase \in Resting
         /\ wiring = 0 /\ checkingOp = 0
<1>1. tools.phase \in Phases
  BY ToolFields, Zenon DEF Types
<1>2. /\ ~tools.probing /\ ~InTerminal(tools.phase)
      /\ tools.phase \notin {"wiring", "checking-updates"}
  BY DEF Busy
<1> QED  BY <1>1, <1>2 DEF Phases, InTerminal, TerminalOf, Resting, WaitsFit

LEMMA OpenFits ==
  ASSUME Types, WaitsFit, ~Busy, NEW kind \in Kinds, Open(kind)
  PROVE  Types' /\ WaitsFit'
<1>1. /\ ~tools.probing /\ wiring = 0 /\ checkingOp = 0
  BY NotBusyFacts
<1>2. UNCHANGED <<world, probeOut, wiring, checkingOp>>
  BY DEF Open
<1>3. tools.op \in Nat /\ tools.op + 1 \in Nat
  <2>1. tools.op \in Nat
    BY ToolFields, Zenon DEF Types
  <2> QED  BY <2>1
<1> DEFINE t == IF kind = "install"
                THEN [tools EXCEPT !.op = @ + 1, !.installEnded = FALSE]
                ELSE [tools EXCEPT !.op = @ + 1, !.installEnded = FALSE,
                                   !.confirm = "", !.before = tools.seen]
<1>4. t \in Tools /\ t.op = tools.op + 1 /\ t.probing = tools.probing
  <2>1. tools \in Tools /\ tools.seen \in Pkg
    BY ToolFields, Zenon DEF Types
  <2> QED  BY <1>3, <2>1 DEF Tools
<1>5. \/ tools' = [t EXCEPT !.phase = Back(PhaseOf[kind])]
      \/ /\ tools' = [t EXCEPT !.phase = PhaseOf[kind]]
         /\ terminals' = terminals \cup {[op |-> t.op, kind |-> kind]}
  BY DEF Open
<1> HIDE DEF t
<1>6. /\ PhaseOf[kind] \in Phases /\ InTerminal(PhaseOf[kind]) /\ TerminalOf[PhaseOf[kind]] = kind
      /\ PhaseOf[kind] \notin {"wiring", "checking-updates"}
      /\ Back(PhaseOf[kind]) \in Resting \cap Phases
  BY DEF Kinds, PhaseOf, TerminalOf, InTerminal, Phases, Back, Resting
<1>7. CASE tools' = [t EXCEPT !.phase = Back(PhaseOf[kind])]
  <2>1. /\ tools' \in Tools /\ tools'.phase \in Resting
        /\ tools'.op = tools.op + 1 /\ ~tools'.probing
    BY <1>1, <1>4, <1>6, <1>7, NewPhase
  <2> QED  BY <1>1, <1>2, <2>1, RestFits DEF Types
<1>8. CASE /\ tools' = [t EXCEPT !.phase = PhaseOf[kind]]
           /\ terminals' = terminals \cup {[op |-> t.op, kind |-> kind]}
  <2>1. /\ tools' \in Tools /\ tools'.phase = PhaseOf[kind]
        /\ tools'.op = tools.op + 1 /\ ~tools'.probing
    BY <1>1, <1>4, <1>6, <1>8, NewPhase
  <2>2. probeOut.op <= tools.op /\ probeOut.op \in Int /\ UNCHANGED probeOut
    BY <1>2 DEF WaitsFit, Types
  <2>3. (tools'.probing <=> probeOut'.op = tools'.op) /\ probeOut'.op <= tools'.op
    BY <1>3, <2>1, <2>2
  <2>4. [op |-> tools'.op, kind |-> TerminalOf[tools'.phase]] \in terminals'
    BY <1>4, <1>6, <1>8, <2>1
  <2>5. tools'.phase # "wiring" /\ tools'.phase # "checking-updates"
    BY <1>6, <2>1
  <2> QED  BY <1>1, <1>2, <2>1, <2>3, <2>4, <2>5 DEF Types, WaitsFit
<1> QED  BY <1>5, <1>7, <1>8

LEMMA WiredFits ==
  ASSUME Types, WaitsFit, NEW t \in Tools, Wired(t), t.op = tools.op, ~t.probing,
         \/ ~tools.probing /\ UNCHANGED probeOut
         \/ probeOut' = NoProbe,
         checkingOp = 0, UNCHANGED <<world, checkingOp>>
  PROVE  Types' /\ WaitsFit'
<1>1. tools.op \in Nat /\ tools.op + 1 \in Nat /\ tools.op + 1 # 0
  <2>1. tools.op \in Nat
    BY ToolFields, Zenon DEF Types
  <2> QED  BY <2>1
<1>2. /\ tools' \in Tools /\ tools'.phase = "wiring" /\ tools'.op = tools.op + 1
      /\ ~tools'.probing
  <2>1. "wiring" \in Phases /\ t.op + 1 \in Nat
    BY <1>1 DEF Phases
  <2>2. tools' = [t EXCEPT !.op = t.op + 1, !.phase = "wiring"]
    BY DEF Wired
  <2> HIDE DEF Wired
  <2>3. tools' \in Tools
    BY <2>1, <2>2 DEF Tools
  <2>4. tools'.phase = "wiring" /\ tools'.op = t.op + 1
    BY <2>2, <2>1 DEF Tools
  <2>5. tools'.probing = t.probing
    BY <2>2, <2>1 DEF Tools
  <2> QED  BY <2>3, <2>4, <2>5
<1>3. wiring' = tools.op + 1 /\ checkingOp' = 0
  BY DEF Wired
<1>4. /\ probeOut'.op # tools'.op /\ probeOut'.op <= tools'.op
      /\ probeOut' \in [op : Int, read : BOOLEAN, found : Pkg]
  <2>1. CASE UNCHANGED probeOut
    <3>1. probeOut.op \in Int /\ probeOut.op <= tools.op /\ UNCHANGED probeOut
          /\ probeOut \in [op : Int, read : BOOLEAN, found : Pkg]
      BY <2>1 DEF Types, WaitsFit
    <3> QED  BY <1>1, <1>2, <3>1
  <2>2. CASE probeOut' = NoProbe
    BY <1>1, <1>2, <2>2, NoProbeFields
  <2> QED  BY <2>1, <2>2
<1>5. Types'
  BY <1>1, <1>2, <1>3, <1>4 DEF Types
<1>6. ~InTerminal("wiring")
  BY DEF InTerminal, TerminalOf
<1> QED  BY <1>1, <1>2, <1>3, <1>4, <1>5, <1>6 DEF WaitsFit

LEMMA CheckFits ==
  ASSUME Types, WaitsFit, Check PROVE Types' /\ WaitsFit'
<1> DEFINE t == [tools EXCEPT !.installEnded = @ \/ InTerminal(tools.phase)]
<1>1. /\ ~tools.probing /\ tools.phase \notin {"wiring", "checking-updates"}
      /\ StartProbe(t)
      /\ UNCHANGED <<world, terminals, wiring, checkingOp>>
  BY DEF Check
<1>2. t \in Tools /\ t.op = tools.op /\ t.phase = tools.phase
      /\ (tools.installEnded => t.installEnded)
  <2> DEFINE ended == tools.installEnded \/ InTerminal(tools.phase)
  <2>1. ended \in BOOLEAN /\ (tools.installEnded => ended)
    OBVIOUS
  <2>2. t = [tools EXCEPT !.installEnded = ended]
    OBVIOUS
  <2> HIDE DEF ended
  <2>3. tools \in Tools
    BY DEF Types
  <2> QED  BY <2>1, <2>2, <2>3 DEF Tools
<1> HIDE DEF t
<1>3. WaitsFit' /\ tools' \in Tools /\ probeOut' \in [op : Int, read : BOOLEAN, found : Pkg]
  BY <1>1, <1>2, StartProbeFits
<1> QED  BY <1>1, <1>3 DEF Types

LEMMA PollFits ==
  ASSUME Types, WaitsFit, Poll PROVE Types' /\ WaitsFit'
<1>1. /\ ~tools.probing /\ tools.phase \notin {"wiring", "checking-updates"}
      /\ StartProbe(tools) /\ UNCHANGED <<world, terminals, wiring, checkingOp>>
  BY DEF Poll, InTerminal, TerminalOf
<1>2. tools \in Tools
  BY DEF Types
<1>3. WaitsFit' /\ tools' \in Tools /\ probeOut' \in [op : Int, read : BOOLEAN, found : Pkg]
  BY <1>1, <1>2, StartProbeFits
<1> QED  BY <1>1, <1>3 DEF Types

(* decideStatus sends the boot tools looking, or leaves them alone.        *)
LEMMA ToldFits ==
  ASSUME Types, WaitsFit, NEW missing, Told(missing) PROVE Types' /\ WaitsFit'
<1>1. CASE UNCHANGED toolVars
  BY <1>1 DEF toolVars, Types, WaitsFit
<1>2. CASE /\ LooksForEngine /\ StartProbe([tools EXCEPT !.phase = "checking"])
           /\ UNCHANGED <<world, terminals, wiring, checkingOp>>
  <2> DEFINE t == [tools EXCEPT !.phase = "checking"]
  <2>1. tools \in Tools /\ "checking" \in Phases
    BY DEF Types, Phases
  <2>2. t \in Tools /\ t.op = tools.op /\ t.phase = "checking"
    BY <2>1 DEF Tools
  <2>3. ~tools.probing /\ tools.phase \notin {"wiring", "checking-updates"}
        /\ ~InTerminal(tools.phase)
    BY <1>2 DEF LooksForEngine, Busy
  <2>4. StartProbe(t) /\ UNCHANGED <<world, terminals, wiring, checkingOp>>
    BY <1>2
  <2> HIDE DEF t
  <2>5. WaitsFit' /\ tools' \in Tools /\ probeOut' \in [op : Int, read : BOOLEAN, found : Pkg]
    BY <2>2, <2>3, <2>4, StartProbeFits
  <2> QED  BY <2>4, <2>5 DEF Types
<1> QED  BY <1>1, <1>2 DEF Told, EngineIsMissing, toolVars

LEMMA InstallFits ==
  ASSUME Types, WaitsFit, Install PROVE Types' /\ WaitsFit'
<1>1. ~Busy
  BY DEF Install
<1>2. CASE /\ Wired(tools) /\ UNCHANGED <<world, probeOut, checkingOp>>
  <2>1. ~tools.probing /\ checkingOp = 0 /\ tools \in Tools
    BY <1>1, NotBusyFacts DEF Types
  <2> QED  BY <1>2, <2>1, WiredFits
<1>3. CASE Open("install")
  <2>1. "install" \in Kinds
    BY DEF Kinds
  <2> QED  BY <1>1, <1>3, <2>1, OpenFits
<1> QED  BY <1>2, <1>3 DEF Install

LEMMA UpdateFits ==
  ASSUME Types, WaitsFit, Update PROVE Types' /\ WaitsFit'
<1>1. "update" \in Kinds
  BY DEF Kinds
<1> QED  BY <1>1, OpenFits DEF Update

LEMMA ConfirmFits ==
  ASSUME Types, WaitsFit, Confirm PROVE Types' /\ WaitsFit'
<1>1. tools.confirm \in {"", "reinstall", "uninstall"}
  BY ToolFields, Zenon DEF Types
<1>2. tools.confirm \in Kinds
  BY <1>1 DEF Kinds, Confirm
<1> QED  BY <1>2, OpenFits DEF Confirm, Manageable

(* The questions the panel asks of its user move no process.               *)
LEMMA AsksFit ==
  ASSUME Types, WaitsFit, Ask \/ CancelConfirm PROVE Types' /\ WaitsFit'
<1>1. tools \in Tools /\ "ready" \in Phases
  BY DEF Types, Phases
<1>2. UNCHANGED <<world, probeOut, terminals, wiring, checkingOp>>
  BY DEF Ask, CancelConfirm
<1>3. CASE CancelConfirm
  <2>1. tools' = [tools EXCEPT !.confirm = ""]
    BY <1>3 DEF CancelConfirm
  <2>2. /\ tools' \in Tools /\ tools'.phase = tools.phase /\ tools'.op = tools.op
        /\ tools'.probing = tools.probing /\ tools'.installEnded = tools.installEnded
    BY <1>1, <2>1 DEF Tools
  <2> QED  BY <1>2, <2>2 DEF Types, WaitsFit
<1>4. CASE Ask
  <2>1. ~tools.probing /\ wiring = 0 /\ checkingOp = 0
    BY <1>4, NotBusyFacts DEF Ask, Manageable
  <2>2. tools.phase \in Resting
    BY <1>4 DEF Ask, Manageable, Resting
  <2>3. PICK what \in {"reinstall", "uninstall"} :
          \/ tools' = [tools EXCEPT !.phase = "ready"]
          \/ tools' = [tools EXCEPT !.confirm = what]
    BY <1>4 DEF Ask
  <2>4. /\ tools' \in Tools /\ tools'.phase \in Resting /\ tools'.op = tools.op
        /\ tools'.probing = tools.probing
    BY <1>1, <2>2, <2>3 DEF Tools, Resting
  <2> QED  BY <1>2, <2>1, <2>4, RestFits DEF Types
<1> QED  BY <1>3, <1>4

LEMMA CheckUpdatesFits ==
  ASSUME Types, WaitsFit, CheckUpdates PROVE Types' /\ WaitsFit'
<1>1. tools \in Tools /\ "ready" \in Phases /\ "checking-updates" \in Phases
  BY DEF Types, Phases
<1>2. ~tools.probing /\ wiring = 0 /\ checkingOp = 0
  BY NotBusyFacts DEF CheckUpdates, Manageable
<1>3. UNCHANGED <<world, probeOut, terminals, wiring>>
  BY DEF CheckUpdates
<1>4. CASE tools' = [tools EXCEPT !.phase = "ready"] /\ UNCHANGED checkingOp
  <2>1. /\ tools' \in Tools /\ tools'.phase \in Resting /\ tools'.op = tools.op
        /\ tools'.probing = tools.probing
    BY <1>1, <1>4 DEF Tools, Resting
  <2> QED  BY <1>2, <1>3, <1>4, <2>1, RestFits DEF Types
<1>5. CASE /\ tools' = [tools EXCEPT !.op = @ + 1, !.phase = "checking-updates", !.confirm = ""]
           /\ checkingOp' = tools.op + 1
  <2>1. tools.op \in Nat /\ tools.op + 1 \in Nat /\ tools.op + 1 # 0
    <3>1. tools.op \in Nat
      BY ToolFields, Zenon DEF Types
    <3> QED  BY <3>1
  <2>2. /\ tools' \in Tools /\ tools'.phase = "checking-updates" /\ tools'.op = tools.op + 1
        /\ tools'.probing = tools.probing
    BY <1>1, <1>5, <2>1 DEF Tools
  <2>3. probeOut.op <= tools.op /\ probeOut.op \in Int /\ UNCHANGED probeOut
    BY <1>3 DEF WaitsFit, Types
  <2>4. ~(probeOut'.op = tools'.op) /\ probeOut'.op <= tools'.op
    BY <2>1, <2>2, <2>3
  <2>5. ~InTerminal("checking-updates")
    BY DEF InTerminal, TerminalOf
  <2> QED  BY <1>2, <1>3, <1>5, <2>1, <2>2, <2>4, <2>5 DEF Types, WaitsFit
<1> QED  BY <1>4, <1>5 DEF CheckUpdates

-----------------------------------------------------------------------------
(* What its processes report.                                              *)

LEMMA ProbeReadsFits ==
  ASSUME Types, WaitsFit, ProbeReads PROVE Types' /\ WaitsFit'
<1>1. /\ probeOut' = [probeOut EXCEPT !.read = TRUE, !.found = Found]
      /\ UNCHANGED <<world, tools, terminals, wiring, checkingOp>>
  BY DEF ProbeReads
<1>2. Found \in Pkg
  BY FoundIsPackage
<1>3. probeOut \in [op : Int, read : BOOLEAN, found : Pkg]
  BY DEF Types
<1>4. probeOut' \in [op : Int, read : BOOLEAN, found : Pkg] /\ probeOut'.op = probeOut.op
  BY <1>1, <1>2, <1>3
<1> QED  BY <1>1, <1>4 DEF Types, WaitsFit

(* A verdict keeps a terminal phase, or comes to rest, or asks for wiring. *)
LEMMA VerdictFits ==
  ASSUME Types, WaitsFit, tools.probing, NEW r \in Pkg
  PROVE  \/ Verdict(tools.phase, r) \in Resting
         \/ Verdict(tools.phase, r) = tools.phase /\ InTerminal(tools.phase)
         \/ Verdict(tools.phase, r) = "wire"
<1>1. tools.phase \in Phases
  BY ToolFields, Zenon DEF Types
<1>2. tools.phase \in Resting \cup DOMAIN TerminalOf
  BY <1>1 DEF WaitsFit, Phases, Resting
<1>3. CASE InTerminal(tools.phase)
  BY <1>3 DEF Verdict, Resting
<1>4. CASE ~InTerminal(tools.phase)
  BY <1>2, <1>4 DEF Verdict, Resting, InTerminal
<1> QED  BY <1>3, <1>4

LEMMA ProbeEndedFits ==
  ASSUME Types, WaitsFit, ProbeEnded PROVE Types' /\ WaitsFit'
<1> DEFINE r == probeOut.found
           t == [tools EXCEPT !.probing = FALSE, !.seen = r]
           v == Verdict(tools.phase, r)
<1>1. probeOut' = NoProbe /\ UNCHANGED <<world, terminals, checkingOp>>
  BY DEF ProbeEnded
<1>2. \/ (probeOut.op # tools.op \/ ~tools.probing) /\ UNCHANGED <<tools, wiring>>
      \/ probeOut.op = tools.op /\ tools.probing /\ v = "wire" /\ Wired(t)
      \/ probeOut.op = tools.op /\ tools.probing /\ v # "wire"
         /\ tools' = [t EXCEPT !.phase = v] /\ UNCHANGED wiring
  BY Zenon DEF ProbeEnded
<1>3. r \in Pkg /\ tools \in Tools /\ tools.op \in Nat
  <2>1. probeOut \in [op : Int, read : BOOLEAN, found : Pkg]
    BY DEF Types
  <2>2. tools \in Tools
    BY DEF Types
  <2> QED  BY <2>1, <2>2, ToolFields
<1>4. t \in Tools /\ t.op = tools.op /\ ~t.probing /\ t.phase = tools.phase
      /\ t.installEnded = tools.installEnded
  BY <1>3 DEF Tools
<1>5. probeOut'.op = -1 /\ probeOut' \in [op : Int, read : BOOLEAN, found : Pkg]
  BY <1>1, NoProbeFields
<1>6. CASE (probeOut.op # tools.op \/ ~tools.probing) /\ UNCHANGED <<tools, wiring>>
  <2>1. ~tools.probing
    BY <1>6 DEF WaitsFit
  <2>2. (tools'.probing <=> probeOut'.op = tools'.op) /\ probeOut'.op <= tools'.op
    BY <1>3, <1>5, <1>6, <2>1
  <2> QED  BY <1>1, <1>5, <1>6, <2>2 DEF Types, WaitsFit
<1>7. ASSUME tools.probing PROVE wiring = 0 /\ checkingOp = 0
  BY <1>7 DEF WaitsFit
<1>8. CASE tools.probing /\ v = "wire" /\ Wired(t)
  <2> HIDE DEF t
  <2> QED  BY <1>1, <1>4, <1>7, <1>8, WiredFits
<1>9. CASE tools.probing /\ v # "wire" /\ tools' = [t EXCEPT !.phase = v] /\ UNCHANGED wiring
  <2>1. v \in Resting \/ (v = tools.phase /\ InTerminal(tools.phase))
    BY <1>3, <1>9, VerdictFits
  <2> HIDE DEF t, v
  <2>2. v \in Phases
    BY <2>1 DEF Phases, Resting, InTerminal
  <2>3. /\ tools' \in Tools /\ tools'.phase = v /\ tools'.op = tools.op /\ ~tools'.probing
        /\ tools'.installEnded = tools.installEnded
    BY <1>4, <1>9, <2>2, NewPhase
  <2>4. wiring' = 0 /\ checkingOp' = 0
    BY <1>1, <1>7, <1>9
  <2>5. CASE v \in Resting
    BY <1>1, <1>5, <2>3, <2>4, <2>5, RestFits DEF Types
  <2>6. CASE v = tools.phase /\ InTerminal(tools.phase)
    <3>1. ~(probeOut'.op = tools'.op) /\ probeOut'.op <= tools'.op
      BY <1>3, <1>5, <2>3
    <3>2. tools'.phase # "wiring" /\ tools'.phase # "checking-updates"
      BY <2>3, <2>6 DEF InTerminal, TerminalOf
    <3>3. \/ tools'.installEnded
          \/ [op |-> tools'.op, kind |-> TerminalOf[tools'.phase]] \in terminals'
      BY <1>1, <2>3, <2>6 DEF WaitsFit
    <3> QED  BY <1>1, <1>5, <2>3, <2>4, <3>1, <3>2, <3>3 DEF Types, WaitsFit
  <2> QED  BY <2>1, <2>5, <2>6
<1> QED  BY <1>2, <1>6, <1>8, <1>9

LEMMA TerminalFailsFits ==
  ASSUME Types, WaitsFit, TerminalFails PROVE Types' /\ WaitsFit'
<1>1. PICK t \in terminals :
        /\ terminals' = terminals \ {t}
        /\ IF t.op = tools.op /\ InTerminal(tools.phase)
           THEN tools' = [tools EXCEPT !.phase = Back(@)]
           ELSE UNCHANGED tools
        /\ UNCHANGED <<world, probeOut, wiring, checkingOp>>
  BY DEF TerminalFails
<1>2. CASE t.op = tools.op /\ InTerminal(tools.phase)
  <2>1. tools \in Tools /\ Back(tools.phase) \in Phases /\ Back(tools.phase) \in Resting
    BY DEF Types, Back, Phases, Resting
  <2>2. tools' \in Tools /\ tools'.phase \in Resting /\ tools'.op = tools.op
        /\ tools'.probing = tools.probing
    <3>1. PICK phase \in Phases \cap Resting : tools' = [tools EXCEPT !.phase = phase]
      BY <1>1, <1>2, <2>1
    <3> QED  BY <2>1, <3>1, NewPhase
  <2>3. wiring = 0 /\ checkingOp = 0
    BY <1>2 DEF WaitsFit, InTerminal, TerminalOf
  <2> QED  BY <1>1, <2>2, <2>3, RestFits DEF Types
<1>3. CASE ~(t.op = tools.op /\ InTerminal(tools.phase))
  <2>1. UNCHANGED <<world, probeOut, wiring, checkingOp, tools>>
    BY <1>1, <1>3
  <2>2. InTerminal(tools.phase) =>
          \/ tools.installEnded
          \/ [op |-> tools.op, kind |-> TerminalOf[tools.phase]] \in terminals'
    <3>1. InTerminal(tools.phase) => [op |-> tools.op, kind |-> TerminalOf[tools.phase]] # t
      BY <1>3
    <3> QED  BY <1>1, <3>1 DEF WaitsFit
  <2> QED  BY <2>1, <2>2 DEF Types, WaitsFit
<1> QED  BY <1>2, <1>3

LEMMA TerminalEndsFits ==
  ASSUME Types, WaitsFit, TerminalEnds PROVE Types' /\ WaitsFit'
<1> DEFINE u == [tools EXCEPT !.installEnded = TRUE]
<1>1. PICK t \in terminals :
        /\ terminals' = terminals \ {t}
        /\ IF t.op = tools.op /\ InTerminal(tools.phase)
           THEN IF tools.probing
                THEN tools' = u /\ UNCHANGED probeOut
                ELSE StartProbe(u)
           ELSE UNCHANGED <<tools, probeOut>>
        /\ UNCHANGED <<world, wiring, checkingOp>>
  BY DEF TerminalEnds
<1>2. u \in Tools /\ u.phase = tools.phase /\ u.op = tools.op /\ u.installEnded
      /\ u.probing = tools.probing
  BY DEF Types, Tools
<1> HIDE DEF u
<1>3. CASE t.op = tools.op /\ InTerminal(tools.phase) /\ tools.probing
  <2>1. tools' = u /\ UNCHANGED <<world, probeOut, wiring, checkingOp>>
    BY <1>1, <1>3
  <2> QED  BY <1>2, <2>1 DEF Types, WaitsFit
<1>4. CASE t.op = tools.op /\ InTerminal(tools.phase) /\ ~tools.probing
  <2>1. StartProbe(u)
    BY <1>1, <1>4
  <2>2. wiring = 0 /\ checkingOp = 0 /\ tools.phase \notin {"wiring", "checking-updates"}
    BY <1>4 DEF WaitsFit, InTerminal, TerminalOf
  <2>3. tools.op \in Int
    <3>1. tools.op \in Nat
      BY ToolFields, Zenon DEF Types
    <3> QED  BY <3>1
  <2>4. probeOut' \in [op : Int, read : BOOLEAN, found : Pkg] /\ probeOut'.op = u.op
    BY <1>2, <2>1, <2>3, ProbeOf DEF StartProbe
  <2>5. /\ tools' \in Tools /\ tools'.probing /\ tools'.phase = tools.phase
        /\ tools'.op = tools.op /\ tools'.installEnded
    BY <1>2, <2>1 DEF StartProbe, Tools
  <2> HIDE DEF StartProbe
  <2>6. /\ tools'.probing <=> probeOut'.op = tools'.op
        /\ probeOut'.op <= tools'.op
    BY <1>2, <2>3, <2>4, <2>5
  <2> QED  BY <1>1, <2>2, <2>4, <2>5, <2>6 DEF Types, WaitsFit
<1>5. CASE ~(t.op = tools.op /\ InTerminal(tools.phase))
  <2>1. UNCHANGED <<world, probeOut, wiring, checkingOp, tools>>
    BY <1>1, <1>5
  <2>2. InTerminal(tools.phase) =>
          \/ tools.installEnded
          \/ [op |-> tools.op, kind |-> TerminalOf[tools.phase]] \in terminals'
    <3>1. InTerminal(tools.phase) => [op |-> tools.op, kind |-> TerminalOf[tools.phase]] # t
      BY <1>5
    <3> QED  BY <1>1, <3>1 DEF WaitsFit
  <2> QED  BY <2>1, <2>2 DEF Types, WaitsFit
<1> QED  BY <1>3, <1>4, <1>5

LEMMA WireEndedFits ==
  ASSUME Types, WaitsFit, WireEnded PROVE Types' /\ WaitsFit'
<1>1. wiring # 0 /\ wiring' = 0 /\ UNCHANGED <<probeOut, terminals, checkingOp>>
  BY DEF WireEnded
<1>2. tools.phase = "wiring" /\ wiring = tools.op /\ ~tools.probing /\ checkingOp = 0
  BY <1>1 DEF WaitsFit
<1>3. PICK ok \in {TRUE, FALSE} :
        /\ world' = IF ok THEN [world EXCEPT !.lua = Ensured(@)] ELSE world
        /\ tools' = [tools EXCEPT !.phase = IF ok THEN "ready" ELSE "unwired"]
  BY <1>2 DEF WireEnded
<1>4. world' \in [core : BOOLEAN, version : Nat, stamp : Nat, lua : {world'.lua}]
  <2>1. world \in [core : BOOLEAN, version : Nat, stamp : Nat, lua : {world.lua}]
    BY DEF Types
  <2>2. \/ world' = [world EXCEPT !.lua = Ensured(world.lua)]
        \/ world' = world
    BY <1>3
  <2> QED  BY <2>1, <2>2
<1>5. tools' \in Tools /\ tools'.phase \in Resting /\ tools'.op = tools.op
      /\ tools'.probing = tools.probing
  <2>1. /\ {"ready", "unwired"} \subseteq Phases /\ {"ready", "unwired"} \subseteq Resting
        /\ tools \in Tools
    BY DEF Phases, Resting, Types
  <2>2. PICK phase \in {"ready", "unwired"} : tools' = [tools EXCEPT !.phase = phase]
    BY <1>3
  <2>3. phase \in Phases /\ phase \in Resting
    BY <2>1
  <2> QED  BY <2>1, <2>2, <2>3, NewPhase
<1> QED  BY <1>1, <1>2, <1>4, <1>5, RestFits DEF Types

LEMMA UpdatesCheckedFits ==
  ASSUME Types, WaitsFit, UpdatesChecked PROVE Types' /\ WaitsFit'
<1>1. checkingOp # 0 /\ checkingOp' = 0 /\ UNCHANGED <<world, probeOut, terminals, wiring>>
  BY DEF UpdatesChecked
<1>2. tools.phase = "checking-updates" /\ checkingOp = tools.op /\ ~tools.probing /\ wiring = 0
  BY <1>1 DEF WaitsFit
<1>3. PICK phase \in {"update-available", "ready"} : tools' = [tools EXCEPT !.phase = phase]
  BY <1>2 DEF UpdatesChecked
<1>4. phase \in Phases /\ phase \in Resting /\ tools \in Tools
  BY DEF Phases, Resting, Types
<1>5. tools' \in Tools /\ tools'.phase \in Resting /\ tools'.op = tools.op
      /\ tools'.probing = tools.probing
  BY <1>3, <1>4, NewPhase
<1> QED  BY <1>1, <1>2, <1>5, RestFits DEF Types

LEMMA PackageChangesFits ==
  ASSUME Types, WaitsFit, PackageChanges PROVE Types' /\ WaitsFit'
<1>1. UNCHANGED <<tools, probeOut, terminals, wiring, checkingOp>>
  BY DEF PackageChanges
<1>2. \/ world' = [world EXCEPT !.core = FALSE]
      \/ world' = [world EXCEPT !.stamp = @ + 1]
      \/ world' = [world EXCEPT !.core = TRUE, !.stamp = @ + 1, !.version = @ + 1]
      \/ UNCHANGED world
  BY DEF PackageChanges
<1>3. world \in [core : BOOLEAN, version : Nat, stamp : Nat, lua : {world.lua}]
  BY DEF Types
<1>4. world.stamp + 1 \in Nat /\ world.version + 1 \in Nat
  <2>1. world.stamp \in Nat /\ world.version \in Nat
    BY <1>3
  <2> QED  BY <2>1
<1>5. world' \in [core : BOOLEAN, version : Nat, stamp : Nat, lua : {world'.lua}]
  BY <1>2, <1>3, <1>4
<1> QED  BY <1>1, <1>5 DEF Types, WaitsFit

-----------------------------------------------------------------------------
(* What a step does to the boot tools.                                     *)
LEMMA ToolsMoves ==
  ASSUME [Next]_vars
  PROVE  \/ UNCHANGED toolVars
         \/ \E missing \in BOOLEAN : Told(missing)
         \/ UserActs \/ Packages \/ Answers \/ Poll
<1>1. Request => UNCHANGED toolVars
  BY DEF Request
<1>2. QueueSteps \/ QueueProcess =>
        UNCHANGED toolVars \/ \E missing \in BOOLEAN : Told(missing)
  <2>1. ASSUME NEW code, NEW seen, NEW failed
        PROVE  EngineMissing(code, seen, failed) \in BOOLEAN
    BY DEF EngineMissing
  <2>2. Recovers => \E missing \in BOOLEAN : Told(missing)
    BY <2>1 DEF Recovers
  <2>3. StreamReports => \E missing \in BOOLEAN : Told(missing)
    BY <2>1 DEF StreamReports
  <2>4. RequestExits => \E missing \in BOOLEAN : Told(missing)
    BY <2>1 DEF RequestExits
  <2> QED  BY <2>2, <2>3, <2>4 DEF QueueSteps, QueueProcess
<1>3. ToolSteps \/ Polls => Answers \/ Poll
  BY DEF ToolSteps, Polls, Wires, Answers
<1> QED  BY <1>1, <1>2, <1>3 DEF Next, vars

LEMMA ToolsStep == ToolsInv /\ [Next]_vars => ToolsInv'
<1> SUFFICES ASSUME Types, WaitsFit, [Next]_vars PROVE Types' /\ WaitsFit'
  BY DEF ToolsInv
<1>1. CASE UNCHANGED toolVars
  BY <1>1 DEF toolVars, Types, WaitsFit
<1>2. CASE \E missing \in BOOLEAN : Told(missing)
  BY <1>2, ToldFits
<1>3. CASE UserActs
  BY <1>3, CheckFits, InstallFits, UpdateFits, ConfirmFits, AsksFit, CheckUpdatesFits
     DEF UserActs
<1>4. CASE Packages
  BY <1>4, TerminalFailsFits, TerminalEndsFits, PackageChangesFits DEF Packages
<1>5. CASE Answers \/ Poll
  BY <1>5, ProbeReadsFits, ProbeEndedFits, WireEndedFits, UpdatesCheckedFits, PollFits
     DEF Answers
<1> QED  BY <1>1, <1>2, <1>3, <1>4, <1>5, ToolsMoves

(* The boot tools wait for nothing that cannot come, whatever the user,    *)
(* the terminals and the package manager do.                               *)
THEOREM WaitsEnd == Spec => []EveryWaitHasAnAnswer
<1>1. ToolsInv => EveryWaitHasAnAnswer
  <2> SUFFICES ASSUME Types, WaitsFit PROVE EveryWaitHasAnAnswer
    BY DEF ToolsInv
  <2>1. tools.probing <=> probeOut # NoProbe /\ probeOut.op = tools.op
    <3>1. tools.op \in Nat
      BY ToolFields, Zenon DEF Types
    <3>2. probeOut.op = tools.op => probeOut # NoProbe
      BY <3>1, NoProbeFields
    <3> QED  BY <3>2 DEF WaitsFit
  <2>2. tools.phase = "wiring" => wiring = tools.op /\ wiring # 0
    BY DEF WaitsFit
  <2>3. tools.phase = "checking-updates" => checkingOp = tools.op /\ checkingOp # 0
    BY DEF WaitsFit
  <2>4. tools.phase \in {"missing", "ready", "unwired", "update-available"} =>
          wiring = 0 /\ checkingOp = 0
    BY DEF WaitsFit
  <2> QED  BY <2>1, <2>2, <2>3, <2>4, Zenon DEF EveryWaitHasAnAnswer, WaitsFit
<1> QED  BY <1>1, InitFits, ToolsStep, PTL DEF Spec

-----------------------------------------------------------------------------
(* The login line, for every file.  What a pass computes at each line is   *)
(* an induction over the lines; NatInSet is the form of it that needs no   *)
(* operator.                                                               *)

LEMMA NatInSet ==
  ASSUME NEW S, 0 \in S, \A i \in Nat : i \in S => i + 1 \in S
  PROVE  \A i \in Nat : i \in S
<1> DEFINE Out == {i \in Nat : i \notin S}
<1> SUFFICES ASSUME Out # {} PROVE FALSE
  OBVIOUS
<1>1. PICK m \in Out : \A i \in Out : ~(<<i, m>> \in OpToRel(<, Nat))
  BY NatLessThanWellFounded, WFMin
<1>2. m \in Nat /\ m \notin S
  OBVIOUS
<1> HIDE DEF Out
<1>3. m - 1 \in Nat /\ m - 1 + 1 = m /\ m - 1 < m
  BY <1>2
<1>4. m - 1 \in Out
  BY <1>2, <1>3 DEF Out
<1>5. <<m - 1, m>> \in OpToRel(<, Nat)
  BY <1>2, <1>3, Zenon DEF OpToRel
<1> QED  BY <1>1, <1>4, <1>5

-----------------------------------------------------------------------------
(* Recursive functions are what they say.                                  *)

KeptUpTo(lines, at, n) ==
  CHOOSE kept : kept = [i \in 0 .. n |->
    IF i = 0 THEN <<>> ELSE IF i \in at THEN Append(kept[i - 1], lines[i]) ELSE kept[i - 1]]

LEMMA KeptIs ==
  ASSUME NEW lines, NEW at, NEW n \in Nat
  PROVE  KeptUpTo(lines, at, n) = [i \in 0 .. n |->
           IF i = 0 THEN <<>> ELSE IF i \in at THEN Append(KeptUpTo(lines, at, n)[i - 1], lines[i])
           ELSE KeptUpTo(lines, at, n)[i - 1]]
<1> DEFINE Is(p, k) == p = [i \in 0 .. k |->
             IF i = 0 THEN <<>> ELSE IF i \in at THEN Append(p[i - 1], lines[i]) ELSE p[i - 1]]
           S == {k \in Nat : \E p : Is(p, k)}
<1>1. 0 \in S
  <2>1. Is([i \in 0 .. 0 |-> <<>>], 0)
    OBVIOUS
  <2> QED  BY <2>1
<1>2. ASSUME NEW k \in Nat, k \in S PROVE k + 1 \in S
  <2>1. PICK p : Is(p, k)
    BY <1>2
  <2> DEFINE last == IF k + 1 \in at THEN Append(p[k], lines[k + 1]) ELSE p[k]
             q == [i \in 0 .. k + 1 |-> IF i = k + 1 THEN last ELSE p[i]]
  <2>2. ASSUME NEW i \in 0 .. k + 1
        PROVE  q[i] = IF i = 0 THEN <<>> ELSE IF i \in at THEN Append(q[i - 1], lines[i]) ELSE q[i - 1]
    <3>1. CASE i = k + 1
      <4>1. q[i] = last /\ i # 0 /\ i - 1 = k /\ q[k] = p[k]
        BY <3>1
      <4> QED  BY <3>1, <4>1
    <3>2. CASE i # k + 1
      <4>1. i \in 0 .. k /\ q[i] = p[i] /\ (i # 0 => i - 1 \in 0 .. k /\ q[i - 1] = p[i - 1])
        BY <3>2
      <4> HIDE DEF q
      <4> QED  BY <2>1, <4>1
    <3> QED  BY <3>1, <3>2
  <2>3. q = [i \in 0 .. k + 1 |-> q[i]]
    OBVIOUS
  <2> HIDE DEF q
  <2>4. Is(q, k + 1)
    BY <2>2, <2>3
  <2> QED  BY <2>4
<1> HIDE DEF S
<1>3. n \in S
  BY <1>1, <1>2, NatInSet
<1> QED  BY <1>3 DEF S, KeptUpTo

LEMMA PassIs ==
  ASSUME NEW lines, NEW hooks, Len(lines) \in Nat
  PROVE  Pass(lines, hooks) = [i \in 0 .. Len(lines) |->
           IF i = 0 THEN [out |-> <<>>, held |-> FALSE]
           ELSE PassLine(Pass(lines, hooks)[i - 1], lines[i], hooks)]
<1> DEFINE Is(p, k) == p = [i \in 0 .. k |->
             IF i = 0 THEN [out |-> <<>>, held |-> FALSE] ELSE PassLine(p[i - 1], lines[i], hooks)]
           S == {k \in Nat : \E p : Is(p, k)}
<1>1. 0 \in S
  <2>1. Is([i \in 0 .. 0 |-> [out |-> <<>>, held |-> FALSE]], 0)
    OBVIOUS
  <2> QED  BY <2>1
<1>2. ASSUME NEW k \in Nat, k \in S PROVE k + 1 \in S
  <2>1. PICK p : Is(p, k)
    BY <1>2
  <2> DEFINE last == PassLine(p[k], lines[k + 1], hooks)
             q == [i \in 0 .. k + 1 |-> IF i = k + 1 THEN last ELSE p[i]]
  <2>2. ASSUME NEW i \in 0 .. k + 1
        PROVE  q[i] = IF i = 0 THEN [out |-> <<>>, held |-> FALSE]
                      ELSE PassLine(q[i - 1], lines[i], hooks)
    <3>1. CASE i = k + 1
      <4>1. q[i] = last /\ i # 0 /\ i - 1 = k /\ q[k] = p[k]
        BY <3>1
      <4> QED  BY <3>1, <4>1
    <3>2. CASE i # k + 1
      <4>1. i \in 0 .. k /\ q[i] = p[i] /\ (i # 0 => i - 1 \in 0 .. k /\ q[i - 1] = p[i - 1])
        BY <3>2
      <4> HIDE DEF q
      <4> QED  BY <2>1, <4>1
    <3> QED  BY <3>1, <3>2
  <2>3. q = [i \in 0 .. k + 1 |-> q[i]]
    OBVIOUS
  <2> HIDE DEF q
  <2>4. Is(q, k + 1)
    BY <2>2, <2>3
  <2> QED  BY <2>4
<1> HIDE DEF S
<1>3. Len(lines) \in S
  BY <1>1, <1>2, NatInSet
<1> QED  BY <1>3 DEF S, Pass

LEMMA KeepIs ==
  ASSUME NEW lines, NEW at, Len(lines) \in Nat
  PROVE  Keep(lines, at) = KeptUpTo(lines, at, Len(lines))[Len(lines)]
BY DEF Keep, KeptUpTo

LEMMA KeptSteps ==
  ASSUME NEW lines, NEW at, NEW n \in Nat
  PROVE  /\ KeptUpTo(lines, at, n)[0] = <<>>
         /\ \A i \in 1 .. n : KeptUpTo(lines, at, n)[i] =
              IF i \in at THEN Append(KeptUpTo(lines, at, n)[i - 1], lines[i])
              ELSE KeptUpTo(lines, at, n)[i - 1]
<1> DEFINE kept == KeptUpTo(lines, at, n)
<1>1. kept = [i \in 0 .. n |-> IF i = 0 THEN <<>>
                ELSE IF i \in at THEN Append(kept[i - 1], lines[i]) ELSE kept[i - 1]]
  BY KeptIs
<1> HIDE DEF kept
<1>2. 0 \in 0 .. n /\ \A i \in 1 .. n : i \in 0 .. n /\ i # 0
  OBVIOUS
<1>3. kept[0] = <<>> /\ \A i \in 1 .. n : kept[i] =
        IF i \in at THEN Append(kept[i - 1], lines[i]) ELSE kept[i - 1]
  BY <1>1, <1>2
<1> QED  BY <1>3 DEF kept

(* What is kept of the lines comes from the places they are kept at.       *)
LEMMA KeptTyped ==
  ASSUME NEW lines, NEW at, Len(lines) \in Nat, NEW T,
         \A i \in 1 .. Len(lines) : i \in at => lines[i] \in T
  PROVE  /\ \A i \in 0 .. Len(lines) : KeptUpTo(lines, at, Len(lines))[i] \in Seq(T)
         /\ Keep(lines, at) \in Seq(T)
<1> DEFINE n == Len(lines)
           kept == KeptUpTo(lines, at, n)
           S == {i \in Nat : i <= n => kept[i] \in Seq(T)}
<1>1. n \in Nat
  OBVIOUS
<1>2. kept[0] = <<>> /\ \A i \in 1 .. n : kept[i] =
        IF i \in at THEN Append(kept[i - 1], lines[i]) ELSE kept[i - 1]
  BY <1>1, KeptSteps
<1>3. \A i \in 1 .. n : i \in at => lines[i] \in T
  OBVIOUS
<1> HIDE DEF n, kept
<1>4. 0 \in S
  <2>1. 0 \in Nat /\ <<>> \in Seq(T)
    OBVIOUS
  <2>2. kept[0] \in Seq(T)
    BY <1>2, <2>1
  <2> QED  BY <2>1, <2>2
<1>5. ASSUME NEW i \in Nat, i \in S PROVE i + 1 \in S
  <2>1. CASE i + 1 <= n
    <3>1. i + 1 \in 1 .. n /\ i + 1 - 1 = i /\ i <= n
      BY <1>1, <2>1
    <3>2. kept[i] \in Seq(T)
      BY <1>5, <3>1
    <3>3. kept[i + 1] = IF i + 1 \in at THEN Append(kept[i], lines[i + 1]) ELSE kept[i]
      BY <1>2, <3>1
    <3>4. kept[i + 1] \in Seq(T)
      BY <1>3, <3>1, <3>2, <3>3
    <3> QED  BY <3>4
  <2>2. CASE ~(i + 1 <= n)
    BY <2>2
  <2> QED  BY <2>1, <2>2
<1>6. \A i \in Nat : i \in S
  <2> HIDE DEF S
  <2> QED  BY <1>4, <1>5, NatInSet
<1>7. \A i \in 0 .. n : kept[i] \in Seq(T)
  BY <1>1, <1>6
<1>8. kept[n] \in Seq(T)
  BY <1>1, <1>7
<1>9. Keep(lines, at) = kept[n]
  BY KeepIs DEF kept, n
<1> QED  BY <1>7, <1>8, <1>9 DEF kept, n

LEMMA PassSteps ==
  ASSUME NEW lines, NEW hooks, Len(lines) \in Nat
  PROVE  /\ Pass(lines, hooks)[0] = [out |-> <<>>, held |-> FALSE]
         /\ \A i \in 1 .. Len(lines) :
              Pass(lines, hooks)[i] = PassLine(Pass(lines, hooks)[i - 1], lines[i], hooks)
<1> DEFINE n == Len(lines)
           after == Pass(lines, hooks)
<1>1. after = [i \in 0 .. n |-> IF i = 0 THEN [out |-> <<>>, held |-> FALSE]
                                ELSE PassLine(after[i - 1], lines[i], hooks)]
  BY PassIs
<1>2. n \in Nat
  OBVIOUS
<1> HIDE DEF after, n
<1>3. 0 \in 0 .. n /\ \A i \in 1 .. n : i \in 0 .. n /\ i # 0
  BY <1>2
<1>4. after[0] = [out |-> <<>>, held |-> FALSE]
      /\ \A i \in 1 .. n : after[i] = PassLine(after[i - 1], lines[i], hooks)
  BY <1>1, <1>3
<1> QED  BY <1>4 DEF after, n

(* A pass puts out lines of the file that are no hooks, and markers.       *)
LEMMA PassTyped ==
  ASSUME NEW lines, NEW hooks, Len(lines) \in Nat, NEW T, Marker \in T,
         \A i \in 1 .. Len(lines) : lines[i] \in hooks \/ lines[i] \in T
  PROVE  \A i \in 0 .. Len(lines) :
           /\ Pass(lines, hooks)[i] \in [out : Seq(T), held : BOOLEAN]
           /\ Put(Pass(lines, hooks)[i]) \in Seq(T)
<1> DEFINE n == Len(lines)
           after == Pass(lines, hooks)
           States == [out : Seq(T), held : BOOLEAN]
           S == {i \in Nat : i <= n => after[i] \in States}
<1>1. after[0] = [out |-> <<>>, held |-> FALSE]
      /\ \A i \in 1 .. n : after[i] = PassLine(after[i - 1], lines[i], hooks)
  BY PassSteps
<1>2. n \in Nat /\ \A i \in 1 .. n : lines[i] \in hooks \/ lines[i] \in T
  OBVIOUS
<1>3. \A s \in States : Put(s) \in Seq(T)
  BY DEF Put
<1>4. \A s \in States : \A line : (line \in hooks \/ line \in T) => PassLine(s, line, hooks) \in States
  BY <1>3 DEF PassLine
<1> HIDE DEF n, after
<1>5. 0 \in S
  <2>1. 0 \in Nat /\ [out |-> <<>>, held |-> FALSE] \in States
    OBVIOUS
  <2>2. after[0] \in States
    BY <1>1, <2>1, Zenon
  <2> HIDE DEF States
  <2> QED  BY <2>1, <2>2
<1> HIDE DEF States
<1>6. ASSUME NEW i \in Nat, i \in S PROVE i + 1 \in S
  <2>1. CASE i + 1 <= n
    <3>1. i + 1 \in 1 .. n /\ i + 1 - 1 = i /\ i <= n
      BY <1>2, <2>1
    <3>2. after[i] \in States
      BY <1>6, <3>1
    <3>3. after[i + 1] = PassLine(after[i], lines[i + 1], hooks)
      BY <1>1, <3>1
    <3>4. after[i + 1] \in States
      BY <1>2, <1>4, <3>1, <3>2, <3>3
    <3> QED  BY <3>4
  <2>2. CASE ~(i + 1 <= n)
    BY <2>2
  <2> QED  BY <2>1, <2>2
<1>7. \A i \in Nat : i \in S
  <2> HIDE DEF S
  <2> QED  BY <1>5, <1>6, NatInSet
<1>8. \A i \in 0 .. n : after[i] \in States
  BY <1>2, <1>7
<1>9. \A i \in 0 .. n : after[i] \in States /\ Put(after[i]) \in Seq(T)
  BY <1>3, <1>8
<1> QED  BY <1>9 DEF after, n, States

(* Up to the first hook a pass puts out what it reads.                     *)
LEMMA PassPlain ==
  ASSUME NEW L, NEW lines \in Seq(L), NEW hooks, NEW m \in 0 .. Len(lines), Marker \in L,
         \A i \in 1 .. m : lines[i] \notin hooks
  PROVE  \A i \in 0 .. m : Put(Pass(lines, hooks)[i]) = SubSeq(lines, 1, i)
<1> DEFINE n == Len(lines)
           after == Pass(lines, hooks)
           States == [out : Seq(L), held : BOOLEAN]
           S == {i \in Nat : i <= m => Put(after[i]) = SubSeq(lines, 1, i)}
<1>1. after[0] = [out |-> <<>>, held |-> FALSE]
      /\ \A i \in 1 .. n : after[i] = PassLine(after[i - 1], lines[i], hooks)
  BY PassSteps
<1>2. n \in Nat /\ m \in Nat /\ m <= n /\ \A i \in 1 .. n : lines[i] \in L
  OBVIOUS
<1>3. \A i \in 0 .. n : after[i] \in States
  BY <1>2, PassTyped
<1>4. \A s \in States : \A line : line \notin hooks =>
        Put(PassLine(s, line, hooks)) = Append(Put(s), line)
  BY DEF PassLine, Put
<1>5. \A i \in Nat : i + 1 <= n => SubSeq(lines, 1, i + 1) = Append(SubSeq(lines, 1, i), lines[i + 1])
  OBVIOUS
<1>6. SubSeq(lines, 1, 0) = <<>>
  OBVIOUS
<1> HIDE DEF n, after, States
<1>7. 0 \in S
  <2>1. 0 \in Nat
    OBVIOUS
  <2>2. after[0].out = <<>> /\ after[0].held = FALSE
    BY <1>1
  <2>3. Put(after[0]) = SubSeq(lines, 1, 0)
    BY <1>6, <2>2 DEF Put
  <2> QED  BY <2>1, <2>3
<1>8. ASSUME NEW i \in Nat, i \in S PROVE i + 1 \in S
  <2>1. CASE i + 1 <= m
    <3>1. i + 1 \in 1 .. n /\ i + 1 - 1 = i /\ i \in 0 .. n /\ i <= m /\ i + 1 \in 1 .. m
      BY <1>2, <2>1
    <3>2. Put(after[i]) = SubSeq(lines, 1, i)
      BY <1>8, <3>1
    <3>3. after[i + 1] = PassLine(after[i], lines[i + 1], hooks) /\ lines[i + 1] \notin hooks
      BY <1>1, <3>1
    <3>4. Put(after[i + 1]) = Append(Put(after[i]), lines[i + 1])
      BY <1>3, <1>4, <3>1, <3>3
    <3>5. Put(after[i + 1]) = SubSeq(lines, 1, i + 1)
      BY <1>2, <1>5, <2>1, <3>2, <3>4
    <3> QED  BY <3>5
  <2>2. CASE ~(i + 1 <= m)
    BY <2>2
  <2> QED  BY <2>1, <2>2
<1>9. \A i \in Nat : i \in S
  <2> HIDE DEF S
  <2> QED  BY <1>7, <1>8, NatInSet
<1>10. \A i \in 0 .. m : Put(after[i]) = SubSeq(lines, 1, i)
  BY <1>2, <1>9
<1> QED  BY <1>10 DEF after

Own(lines, hooks) ==
  {i \in DOMAIN lines :
     lines[i] \notin hooks
       /\ ~(lines[i] = Marker /\ i < Len(lines) /\ lines[i + 1] \in hooks)}

(* A pass puts out the user's own lines: a marker is held back until the   *)
(* line under it says whose it is.                                         *)
LEMMA PassKeepsOwn ==
  ASSUME NEW L, NEW lines \in Seq(L), NEW hooks, Marker \notin hooks
  PROVE  Put(Pass(lines, hooks)[Len(lines)]) = Keep(lines, Own(lines, hooks))
<1> DEFINE n == Len(lines)
           own == Own(lines, hooks)
           after == Pass(lines, hooks)
           kept == KeptUpTo(lines, own, n)
           Fits(i) == /\ after[i].held \in BOOLEAN
                      /\ after[i].held => (i # 0 /\ lines[i] = Marker)
                      /\ after[i].out = IF after[i].held THEN kept[i - 1] ELSE kept[i]
           S == {i \in Nat : i <= n => Fits(i)}
<1>1. n \in Nat /\ DOMAIN lines = 1 .. n
  OBVIOUS
<1>2. kept[0] = <<>> /\ \A i \in 1 .. n : kept[i] =
        IF i \in own THEN Append(kept[i - 1], lines[i]) ELSE kept[i - 1]
  BY <1>1, KeptSteps
<1>3. after[0] = [out |-> <<>>, held |-> FALSE]
      /\ \A i \in 1 .. n : after[i] = PassLine(after[i - 1], lines[i], hooks)
  BY <1>1, PassSteps
<1>4. \A i \in 1 .. n : i \in own <=>
        /\ lines[i] \notin hooks
        /\ lines[i] = Marker => ~(i < n /\ lines[i + 1] \in hooks)
  BY <1>1 DEF Own
<1>5. Keep(lines, own) = kept[n]
  BY <1>1, KeepIs
<1> HIDE DEF n, own, after, kept
(* What is held back belongs to the user unless a hook is under it.        *)
<1>6. ASSUME NEW i \in 0 .. n, Fits(i), i = n \/ lines[i + 1] \notin hooks
      PROVE  Put(after[i]) = kept[i]
  <2>1. CASE after[i].held
    <3>1. i \in 1 .. n /\ lines[i] = Marker
      BY <1>1, <1>6, <2>1
    <3>2. ~(i < n /\ lines[i + 1] \in hooks)
      BY <1>1, <1>6
    <3>3. i \in own
      BY <1>4, <3>1, <3>2
    <3>4. kept[i] = Append(kept[i - 1], Marker)
      BY <1>2, <3>1, <3>3
    <3>5. Put(after[i]) = Append(kept[i - 1], Marker)
      BY <1>6, <2>1 DEF Put
    <3> QED  BY <3>4, <3>5
  <2>2. CASE ~after[i].held
    BY <1>6, <2>2 DEF Put
  <2> QED  BY <2>1, <2>2
<1>7. 0 \in S
  <2>1. after[0].out = kept[0] /\ after[0].held = FALSE
    BY <1>2, <1>3
  <2> QED  BY <2>1
<1>8. ASSUME NEW i \in Nat, i \in S PROVE i + 1 \in S
  <2> SUFFICES ASSUME i + 1 <= n PROVE Fits(i + 1)
    OBVIOUS
  <2>1. i \in 0 .. n /\ i + 1 \in 1 .. n /\ i + 1 - 1 = i /\ i + 1 # 0 /\ i < n
    BY <1>1
  <2>2. Fits(i)
    BY <1>8, <2>1
  <2> DEFINE line == lines[i + 1]
  <2>3. after[i + 1] = PassLine(after[i], line, hooks)
    BY <1>3, <2>1
  <2>4. kept[i + 1] = IF i + 1 \in own THEN Append(kept[i], line) ELSE kept[i]
    BY <1>2, <2>1
  <2>5. CASE line \in hooks
    <3>1. after[i + 1].out = after[i].out /\ after[i + 1].held = FALSE
      BY <2>3, <2>5 DEF PassLine
    <3>2. kept[i + 1] = kept[i]
      BY <1>4, <2>1, <2>4, <2>5
    <3>3. after[i].out = kept[i]
      <4>1. CASE after[i].held
        <5>1. i \in 1 .. n /\ lines[i] = Marker
          BY <2>1, <2>2, <4>1
        <5>2. i \notin own
          BY <1>4, <2>1, <2>5, <5>1
        <5>3. kept[i] = kept[i - 1]
          BY <1>2, <5>1, <5>2
        <5> QED  BY <2>2, <4>1, <5>3
      <4> QED  BY <2>2, <4>1
    <3> QED  BY <3>1, <3>2, <3>3
  <2>6. CASE line \notin hooks /\ line = Marker
    <3>1. Put(after[i]) = kept[i]
      BY <1>6, <2>1, <2>2, <2>6
    <3>2. after[i + 1].out = Put(after[i]) /\ after[i + 1].held = TRUE
      BY <2>3, <2>6 DEF PassLine
    <3>3. after[i + 1].out = kept[(i + 1) - 1]
      BY <2>1, <3>1, <3>2
    <3>4. after[i + 1].held /\ i + 1 # 0 /\ lines[i + 1] = Marker /\ after[i + 1].held \in BOOLEAN
      BY <2>1, <2>6, <3>2
    <3> HIDE DEF line
    <3> QED  BY <3>3, <3>4
  <2>7. CASE line \notin hooks /\ line # Marker
    <3>1. Put(after[i]) = kept[i]
      BY <1>6, <2>1, <2>2, <2>7
    <3>2. after[i + 1].out = Append(Put(after[i]), line) /\ after[i + 1].held = FALSE
      BY <2>3, <2>7 DEF PassLine
    <3>3. i + 1 \in own
      BY <1>4, <2>1, <2>7
    <3> QED  BY <2>4, <3>1, <3>2, <3>3
  <2> QED  BY <2>5, <2>6, <2>7
<1>9. \A i \in Nat : i \in S
  <2> HIDE DEF S
  <2> QED  BY <1>7, <1>8, NatInSet
<1>10. Fits(n)
  BY <1>1, <1>9
<1>11. Put(after[n]) = kept[n]
  BY <1>1, <1>6, <1>10
<1> QED  BY <1>5, <1>11 DEF n, own, after

-----------------------------------------------------------------------------
(* Files of lines of L: taking our lines out, and putting them in.         *)

FilesOf(L) == [lines : Seq(L), nl : BOOLEAN]

LEMMA AsFileIs ==
  ASSUME NEW L, NEW lines \in Seq(L), NEW nl \in BOOLEAN
  PROVE  /\ AsFile(lines, nl) \in FilesOf(L)
         /\ AsFile(AsFile(lines, nl).lines, AsFile(lines, nl).nl) = AsFile(lines, nl)
<1>1. CASE lines = <<>>
  BY <1>1 DEF AsFile, NoLines, FilesOf
<1>2. CASE lines # <<>> /\ ~nl /\ lines[Len(lines)] = ""
  <2> DEFINE front == SubSeq(lines, 1, Len(lines) - 1)
  <2>1. front \in Seq(L)
    <3>1. Len(lines) \in Nat /\ Len(lines) # 0
      <4> HIDE DEF front
      <4> QED  BY <1>2, EmptySeq
    <3>2. /\ 1 \in 1 .. Len(lines) + 1
          /\ Len(lines) - 1 \in 0 .. Len(lines)
          /\ \A i \in 1 .. Len(lines) - 1 : i \in 1 .. Len(lines)
      BY <3>1
    <3>3. \A i \in 1 .. Len(lines) - 1 : lines[i] \in L
      BY <3>2
    <3> QED  BY <3>2, <3>3, SubSeqProperties
  <2>2. AsFile(lines, nl) = [lines |-> front, nl |-> TRUE]
    BY <1>2 DEF AsFile
  <2> HIDE DEF front
  <2>3. AsFile(front, TRUE) = [lines |-> front, nl |-> TRUE]
    BY DEF AsFile, NoLines
  <2>4. AsFile(lines, nl) \in FilesOf(L)
    BY <2>1, <2>2 DEF FilesOf
  <2>5. AsFile(lines, nl).lines = front /\ AsFile(lines, nl).nl = TRUE
    BY <2>2
  <2>6. AsFile(AsFile(lines, nl).lines, AsFile(lines, nl).nl) = AsFile(lines, nl)
    BY <2>2, <2>3, <2>5, Zenon
  <2> QED  BY <2>4, <2>6
<1>3. CASE lines # <<>> /\ ~(~nl /\ lines[Len(lines)] = "")
  <2>1. AsFile(lines, nl) = [lines |-> lines, nl |-> nl]
    BY <1>3 DEF AsFile
  <2>2. AsFile(lines, nl) \in FilesOf(L)
    BY <2>1 DEF FilesOf
  <2>3. AsFile(lines, nl).lines = lines /\ AsFile(lines, nl).nl = nl
    BY <2>1
  <2>4. AsFile(AsFile(lines, nl).lines, AsFile(lines, nl).nl) = AsFile(lines, nl)
    BY <2>3, Zenon
  <2> QED  BY <2>2, <2>4
<1> QED  BY <1>1, <1>2, <1>3

(* What is left is a file without our lines, the user's own.               *)
LEMMA RemoveIs ==
  ASSUME NEW L, NEW f \in FilesOf(L), Marker \in L
  PROVE  /\ RemoveBootstrap(f, AllHooks) \in FilesOf(L \ AllHooks)
         /\ AsFile(RemoveBootstrap(f, AllHooks).lines, RemoveBootstrap(f, AllHooks).nl)
              = RemoveBootstrap(f, AllHooks)
         /\ RemoveBootstrap(f, AllHooks) = AsFile(OwnLines(f), f.nl)
<1> DEFINE lines == f.lines
           left == Put(Pass(lines, AllHooks)[Len(lines)])
           T == L \ AllHooks
<1>1. lines \in Seq(L) /\ f.nl \in BOOLEAN /\ Len(lines) \in Nat
      /\ \A i \in 1 .. Len(lines) : lines[i] \in L
  BY DEF FilesOf
<1>2. Marker \in T /\ Marker \notin AllHooks
  BY HooksAssumption DEF AllHooks
<1>3. RemoveBootstrap(f, AllHooks) = AsFile(left, f.nl)
  BY DEF RemoveBootstrap
<1>4. OwnLines(f) = Keep(lines, Own(lines, AllHooks))
  BY DEF OwnLines, Own
<1> HIDE DEF lines
<1>5. left \in Seq(T)
  <2>1. \A i \in 1 .. Len(lines) : lines[i] \in AllHooks \/ lines[i] \in T
    BY <1>1
  <2>2. Len(lines) \in 0 .. Len(lines)
    BY <1>1
  <2> HIDE DEF T
  <2> QED  BY <1>1, <1>2, <2>1, <2>2, PassTyped
<1>6. left = Keep(lines, Own(lines, AllHooks))
  BY <1>1, <1>2, PassKeepsOwn
<1> HIDE DEF left
<1> QED  BY <1>1, <1>3, <1>4, <1>5, <1>6, AsFileIs

(* A file without our lines stays what it is.                              *)
LEMMA RemoveNothing ==
  ASSUME NEW L, NEW f \in FilesOf(L \ AllHooks), Marker \in L, AsFile(f.lines, f.nl) = f
  PROVE  RemoveBootstrap(f, AllHooks) = f
<1> DEFINE lines == f.lines
           n == Len(lines)
           T == L \ AllHooks
<1>1. lines \in Seq(T) /\ n \in Nat /\ \A i \in 1 .. n : lines[i] \notin AllHooks
  BY DEF FilesOf
<1>2. Marker \in T
  BY HooksAssumption DEF AllHooks
<1>3. SubSeq(lines, 1, n) = lines
  BY <1>1
<1>4. RemoveBootstrap(f, AllHooks) = AsFile(Put(Pass(lines, AllHooks)[n]), f.nl)
  BY DEF RemoveBootstrap
<1> HIDE DEF lines, T
<1>5. n \in 0 .. n
  BY <1>1
<1>6. Put(Pass(lines, AllHooks)[n]) = lines
  <2>1. \A i \in 0 .. n : Put(Pass(lines, AllHooks)[i]) = SubSeq(lines, 1, i)
    <3>1. lines \in Seq(T) /\ n \in 0 .. Len(lines) /\ \A i \in 1 .. n : lines[i] \notin AllHooks
      BY <1>1, <1>5
    <3> HIDE DEF n
    <3> QED  BY <1>2, <3>1, PassPlain
  <2> QED  BY <1>3, <1>5, <2>1
<1> QED  BY <1>4, <1>6 DEF lines

(* Taking out what was put in gives back what it was put into.             *)
LEMMA InstallIsTakenBack ==
  ASSUME NEW L, NEW f \in FilesOf(L), Marker \in L
  PROVE  /\ RemoveBootstrap(InstallBootstrap(f, Hook, AllHooks), AllHooks)
              = RemoveBootstrap(f, AllHooks)
         /\ InstallBootstrap(f, Hook, AllHooks) \in FilesOf(L \cup {Hook})
         /\ HookedOnce(InstallBootstrap(f, Hook, AllHooks))
         /\ \A i \in DOMAIN InstallBootstrap(f, Hook, AllHooks).lines :
              InstallBootstrap(f, Hook, AllHooks).lines[i] \notin Legacy
<1> DEFINE kept == RemoveBootstrap(f, AllHooks)
           k == kept.lines
           n == Len(k)
           on == InstallBootstrap(f, Hook, AllHooks)
           all == k \o <<Marker, Hook>>
           LH == L \cup {Hook}
<1>1. kept \in FilesOf(L \ AllHooks) /\ AsFile(kept.lines, kept.nl) = kept
  BY RemoveIs
<1>2. on = [lines |-> all, nl |-> kept.nl]
  BY DEF InstallBootstrap
<1> HIDE DEF kept, on
<1>3. k \in Seq(L \ AllHooks) /\ kept.nl \in BOOLEAN /\ n \in Nat
      /\ \A i \in 1 .. n : k[i] \in L \ AllHooks
  BY <1>1 DEF FilesOf
<1>4. Marker \notin AllHooks /\ Hook \in AllHooks /\ Marker # Hook
      /\ Marker \notin Legacy /\ Hook \notin Legacy /\ Legacy \subseteq AllHooks
  BY HooksAssumption DEF AllHooks
<1> HIDE DEF k
<1>5. /\ Len(all) = n + 2 /\ DOMAIN all = 1 .. n + 2
      /\ \A i \in 1 .. n : all[i] = k[i]
      /\ all[n + 1] = Marker /\ all[n + 2] = Hook
  BY <1>3
<1>6. k \in Seq(LH) /\ <<Marker, Hook>> \in Seq(LH)
  <2>1. k \in Seq(LH)
    BY <1>3
  <2>2. Marker \in LH /\ Hook \in LH
    OBVIOUS
  <2> QED  BY <2>1, <2>2
<1>7. all \in Seq(LH)
  BY <1>6
<1>8. SubSeq(all, 1, n) = k
  BY <1>3, <1>5, <1>7
<1> HIDE DEF all
<1>9. \A i \in 1 .. n + 1 : all[i] \notin AllHooks
  <2>1. \A i \in 1 .. n + 1 : i \in 1 .. n \/ i = n + 1
    BY <1>3
  <2> QED  BY <1>3, <1>4, <1>5, <2>1
<1>10. RemoveBootstrap(on, AllHooks) = kept
  <2> DEFINE after == Pass(all, AllHooks)
  <2>1. \A i \in 1 .. n : all[i] \notin AllHooks
    BY <1>3, <1>9
  <2>2. n \in 0 .. Len(all) /\ n \in 0 .. n /\ Marker \in LH
    BY <1>3, <1>5
  <2>3. Put(after[n]) = k
    <3>1. \A i \in 0 .. n : Put(Pass(all, AllHooks)[i]) = SubSeq(all, 1, i)
      <4> HIDE DEF LH, n, after
      <4> QED  BY <1>7, <2>1, <2>2, PassPlain
    <3> QED  BY <1>8, <2>2, <3>1
  <2>4. after[n + 1] = PassLine(after[n], Marker, AllHooks)
        /\ after[n + 2] = PassLine(after[n + 1], Hook, AllHooks)
    <3>1. n + 1 \in 1 .. Len(all) /\ n + 2 \in 1 .. Len(all) /\ n + 1 - 1 = n /\ n + 2 - 1 = n + 1
          /\ Len(all) \in Nat
      BY <1>3, <1>5
    <3>2. \A i \in 1 .. Len(all) : after[i] = PassLine(after[i - 1], all[i], AllHooks)
      BY <3>1, PassSteps
    <3> HIDE DEF after
    <3> QED  BY <1>5, <3>1, <3>2
  <2> HIDE DEF after
  <2>5. after[n + 1] = [out |-> k, held |-> TRUE]
    BY <1>4, <2>3, <2>4 DEF PassLine
  <2>6. after[n + 2] = [out |-> k, held |-> FALSE]
    <3>1. after[n + 2] = [out |-> after[n + 1].out, held |-> FALSE]
      BY <1>4, <2>4 DEF PassLine
    <3>2. after[n + 1].out = k
      BY <2>5
    <3> QED  BY <3>1, <3>2
  <2>7. Put(after[n + 2]) = k
    BY <2>6 DEF Put
  <2>8. RemoveBootstrap(on, AllHooks) = AsFile(Put(after[Len(all)]), kept.nl)
    BY <1>2 DEF RemoveBootstrap, after
  <2>9. RemoveBootstrap(on, AllHooks) = AsFile(k, kept.nl)
    BY <1>5, <2>7, <2>8
  <2> QED  BY <1>1, <2>9 DEF k
<1>11. on \in FilesOf(LH)
  BY <1>2, <1>3, <1>7 DEF FilesOf
<1>12. on.lines = all
  BY <1>2
<1>13. HookedOnce(on)
  <2>1. \A j \in 1 .. n + 2 : j \in 1 .. n + 1 \/ j = n + 2
    BY <1>3
  <2>2. \A j \in 1 .. n + 2 : all[j] = Hook <=> j = n + 2
    <3>1. n + 2 \notin 1 .. n + 1
      BY <1>3
    <3> QED  BY <1>4, <1>5, <1>9, <2>1, <3>1
  <2>3. n + 2 \in 1 .. n + 2
    BY <1>3
  <2> QED  BY <1>5, <1>12, <2>2, <2>3, SMTT(30) DEF HookedOnce
<1>14. \A i \in DOMAIN on.lines : on.lines[i] \notin Legacy
  <2>1. \A j \in 1 .. n + 2 : j \in 1 .. n + 1 \/ j = n + 2
    BY <1>3
  <2> QED  BY <1>4, <1>5, <1>9, <1>12, <2>1
<1> QED  BY <1>10, <1>11, <1>13, <1>14 DEF on, kept

-----------------------------------------------------------------------------
(* What ensure-hooks does to a file, and what uninstall finds of it.       *)

LEMMA MoreLines ==
  ASSUME NEW L, NEW M, NEW f \in FilesOf(L), L \subseteq M
  PROVE  f \in FilesOf(M)
<1>1. f.lines \in Seq(L) /\ f.nl \in BOOLEAN /\ f = [lines |-> f.lines, nl |-> f.nl]
  BY DEF FilesOf
<1>2. f.lines \in Seq(M)
  <2>1. Len(f.lines) \in Nat /\ \A i \in 1 .. Len(f.lines) : f.lines[i] \in M
    BY <1>1
  <2>2. f.lines \in [1 .. Len(f.lines) -> M]
    BY <1>1, <2>1
  <2> QED  BY <2>1, <2>2
<1> QED  BY <1>1, <1>2 DEF FilesOf

LEMMA OnceIsHooked == ASSUME NEW f, HookedOnce(f) PROVE Hooked(f)
BY DEF HookedOnce, Hooked

LEMMA EnsuredComesAndGoes ==
  ASSUME NEW L, NEW f \in FilesOf(L), Marker \in L
  PROVE  Ensured(f) \in FilesOf(L \cup {Hook}) /\ ComesAndGoes(f)
<1> DEFINE on == Ensured(f)
           LH == L \cup {Hook}
           Bare(e) == RemoveBootstrap(e, AllHooks)
           Installs == ~HoldsText(f, Hook) \/ \E old \in Legacy : HoldsText(f, old)
<1>1. on \in FilesOf(LH) /\ Bare(on) = Bare(f) /\ Ensured(on) = on
      /\ (HookedOnce(on) \/ LooksHooked(f) \/ (on = f /\ Hooked(f)))
      /\ \A i \in DOMAIN on.lines : on.lines[i] \notin Legacy
  <2>1. CASE Installs
    <3> DEFINE in == InstallBootstrap(f, Hook, AllHooks)
    <3>1. on = in
      BY <2>1 DEF Ensured
    <3>2. Bare(in) = Bare(f) /\ in \in FilesOf(LH) /\ HookedOnce(in)
          /\ \A i \in DOMAIN in.lines : in.lines[i] \notin Legacy
      BY InstallIsTakenBack
    <3>3. InstallBootstrap(in, Hook, AllHooks) = in
      BY <3>2 DEF InstallBootstrap
    <3> HIDE DEF in, on
    <3>4. Ensured(in) = InstallBootstrap(in, Hook, AllHooks) \/ Ensured(in) = in
      BY DEF Ensured
    <3> QED  BY <3>1, <3>2, <3>3, <3>4
  <2>2. CASE ~Installs
    <3>1. on = f
      BY <2>2 DEF Ensured
    <3>2. f \in FilesOf(LH)
      BY MoreLines
    <3>3. Hooked(f) \/ LooksHooked(f)
      BY <2>2 DEF HoldsText, Hooked, LooksHooked
    <3>4. \A i \in DOMAIN f.lines : f.lines[i] \notin Legacy
      BY <2>2 DEF HoldsText
    <3> HIDE DEF on
    <3>5. Ensured(f) = f
      BY <3>1 DEF on
    <3> QED  BY <3>1, <3>2, <3>3, <3>4, <3>5
  <2> QED  BY <2>1, <2>2
<1> HIDE DEF on
<1>2. Bare(f) = AsFile(OwnLines(f), f.nl)
  BY RemoveIs
<1>3. Bare(on) = AsFile(OwnLines(on), on.nl)
  <2>1. Marker \in LH
    OBVIOUS
  <2> HIDE DEF LH
  <2> QED  BY <1>1, <2>1, RemoveIs
<1>4. ComesAndGoes(f)
  BY <1>1, <1>2, <1>3 DEF ComesAndGoes, on
<1> QED  BY <1>1, <1>4 DEF on

(* Nothing is left to take out of a file it has been taken out of.         *)
LEMMA RemoveTwice ==
  ASSUME NEW L, NEW f \in FilesOf(L), Marker \in L
  PROVE  /\ RemoveBootstrap(f, AllHooks) \in FilesOf(L)
         /\ RemoveBootstrap(RemoveBootstrap(f, AllHooks), AllHooks) = RemoveBootstrap(f, AllHooks)
<1> DEFINE bare == RemoveBootstrap(f, AllHooks)
<1>1. bare \in FilesOf(L \ AllHooks) /\ AsFile(bare.lines, bare.nl) = bare
  BY RemoveIs
<1> HIDE DEF bare
<1>2. bare \in FilesOf(L)
  <2>1. L \ AllHooks \subseteq L
    OBVIOUS
  <2> QED  BY <1>1, <2>1, MoreLines
<1>3. RemoveBootstrap(bare, AllHooks) = bare
  BY <1>1, RemoveNothing
<1> QED  BY <1>2, <1>3 DEF bare

LEMMA ConfTwice ==
  ASSUME NEW L, NEW f \in FilesOf(L)
  PROVE  WithoutConf(f) \in FilesOf(L) /\ WithoutConf(WithoutConf(f)) = WithoutConf(f)
<1> DEFINE lines == f.lines
           theirs == {i \in DOMAIN f.lines : f.lines[i] \notin ConfLines}
           left == Keep(lines, theirs)
           T == L \ ConfLines
<1>1. lines \in Seq(L) /\ Len(lines) \in Nat /\ DOMAIN lines = 1 .. Len(lines)
      /\ \A i \in 1 .. Len(lines) : lines[i] \in L
  BY DEF FilesOf
<1>2. CASE theirs = DOMAIN f.lines
  <2>1. WithoutConf(f) = f
    BY <1>2 DEF WithoutConf
  <2> QED  BY <2>1
<1>3. CASE theirs # DOMAIN f.lines
  <2> DEFINE g == [lines |-> left, nl |-> TRUE]
  <2>1. WithoutConf(f) = g
    BY <1>3 DEF WithoutConf
  <2>2. left \in Seq(T)
    <3>1. \A i \in 1 .. Len(lines) : i \in theirs => lines[i] \in T
      BY <1>1
    <3> HIDE DEF theirs, T, lines
    <3> QED  BY <1>1, <3>1, KeptTyped
  <2> HIDE DEF left
  <2>3. \A i \in DOMAIN left : left[i] \notin ConfLines
    BY <2>2
  <2>4. g \in FilesOf(L)
    <3>1. g \in FilesOf(T)
      BY <2>2 DEF FilesOf
    <3>2. T \subseteq L
      OBVIOUS
    <3> HIDE DEF g, T
    <3> QED  BY <3>1, <3>2, MoreLines
  <2>5. {i \in DOMAIN g.lines : g.lines[i] \notin ConfLines} = DOMAIN g.lines
    <3>1. g.lines = left
      OBVIOUS
    <3> HIDE DEF g
    <3> QED  BY <2>3, <3>1
  <2>6. WithoutConf(g) = g
    <3> HIDE DEF g
    <3> QED  BY <2>5 DEF WithoutConf
  <2> HIDE DEF g
  <2> QED  BY <2>1, <2>4, <2>6
<1> QED  BY <1>2, <1>3

-----------------------------------------------------------------------------
(* ensure-hooks and uninstall, cut off and run again.  Alike says of a     *)
(* half-done installation what the whole of either makes of it.            *)

EnsuredAfter(d, k) ==
  CHOOSE after : after = [i \in 0 .. k |-> IF i = 0 THEN d ELSE EnsureStep(after[i - 1], i)]
UninstalledAfter(d, k) ==
  CHOOSE after : after = [i \in 0 .. k |-> IF i = 0 THEN d ELSE UninstallStep(after[i - 1], i)]

LEMMA EnsuredSteps ==
  ASSUME NEW d, NEW n \in Nat
  PROVE  /\ EnsuredUpTo(d, n) = EnsuredAfter(d, n)[n]
         /\ EnsuredAfter(d, n)[0] = d
         /\ \A i \in 1 .. n : EnsuredAfter(d, n)[i] = EnsureStep(EnsuredAfter(d, n)[i - 1], i)
<1> DEFINE Is(p, k) == p = [i \in 0 .. k |-> IF i = 0 THEN d ELSE EnsureStep(p[i - 1], i)]
           S == {k \in Nat : \E p : Is(p, k)}
           after == EnsuredAfter(d, n)
<1>1. 0 \in S
  <2>1. Is([i \in 0 .. 0 |-> d], 0)
    OBVIOUS
  <2> QED  BY <2>1
<1>2. ASSUME NEW k \in Nat, k \in S PROVE k + 1 \in S
  <2>1. PICK p : Is(p, k)
    BY <1>2
  <2> DEFINE last == EnsureStep(p[k], k + 1)
             q == [i \in 0 .. k + 1 |-> IF i = k + 1 THEN last ELSE p[i]]
  <2>2. ASSUME NEW i \in 0 .. k + 1
        PROVE  q[i] = IF i = 0 THEN d ELSE EnsureStep(q[i - 1], i)
    <3>1. CASE i = k + 1
      <4>1. q[i] = last /\ i # 0 /\ i - 1 = k /\ q[k] = p[k]
        BY <3>1
      <4> QED  BY <3>1, <4>1
    <3>2. CASE i # k + 1
      <4>1. i \in 0 .. k /\ q[i] = p[i] /\ (i # 0 => i - 1 \in 0 .. k /\ q[i - 1] = p[i - 1])
        BY <3>2
      <4> HIDE DEF q
      <4> QED  BY <2>1, <4>1
    <3> QED  BY <3>1, <3>2
  <2>3. q = [i \in 0 .. k + 1 |-> q[i]]
    OBVIOUS
  <2> HIDE DEF q
  <2>4. Is(q, k + 1)
    BY <2>2, <2>3
  <2> QED  BY <2>4
<1> HIDE DEF S
<1>3. n \in S
  BY <1>1, <1>2, NatInSet
<1>4. after = [i \in 0 .. n |-> IF i = 0 THEN d ELSE EnsureStep(after[i - 1], i)]
  BY <1>3 DEF S, EnsuredAfter
<1>5. EnsuredUpTo(d, n) = after[n]
  BY DEF EnsuredUpTo, EnsuredAfter
<1> HIDE DEF after
<1>6. 0 \in 0 .. n /\ \A i \in 1 .. n : i \in 0 .. n /\ i # 0
  OBVIOUS
<1>7. after[0] = d /\ \A i \in 1 .. n : after[i] = EnsureStep(after[i - 1], i)
  BY <1>4, <1>6
<1> QED  BY <1>5, <1>7 DEF after

LEMMA UninstalledSteps ==
  ASSUME NEW d, NEW n \in Nat
  PROVE  /\ UninstalledUpTo(d, n) = UninstalledAfter(d, n)[n]
         /\ UninstalledAfter(d, n)[0] = d
         /\ \A i \in 1 .. n :
              UninstalledAfter(d, n)[i] = UninstallStep(UninstalledAfter(d, n)[i - 1], i)
<1> DEFINE Is(p, k) == p = [i \in 0 .. k |-> IF i = 0 THEN d ELSE UninstallStep(p[i - 1], i)]
           S == {k \in Nat : \E p : Is(p, k)}
           after == UninstalledAfter(d, n)
<1>1. 0 \in S
  <2>1. Is([i \in 0 .. 0 |-> d], 0)
    OBVIOUS
  <2> QED  BY <2>1
<1>2. ASSUME NEW k \in Nat, k \in S PROVE k + 1 \in S
  <2>1. PICK p : Is(p, k)
    BY <1>2
  <2> DEFINE last == UninstallStep(p[k], k + 1)
             q == [i \in 0 .. k + 1 |-> IF i = k + 1 THEN last ELSE p[i]]
  <2>2. ASSUME NEW i \in 0 .. k + 1
        PROVE  q[i] = IF i = 0 THEN d ELSE UninstallStep(q[i - 1], i)
    <3>1. CASE i = k + 1
      <4>1. q[i] = last /\ i # 0 /\ i - 1 = k /\ q[k] = p[k]
        BY <3>1
      <4> QED  BY <3>1, <4>1
    <3>2. CASE i # k + 1
      <4>1. i \in 0 .. k /\ q[i] = p[i] /\ (i # 0 => i - 1 \in 0 .. k /\ q[i - 1] = p[i - 1])
        BY <3>2
      <4> HIDE DEF q
      <4> QED  BY <2>1, <4>1
    <3> QED  BY <3>1, <3>2
  <2>3. q = [i \in 0 .. k + 1 |-> q[i]]
    OBVIOUS
  <2> HIDE DEF q
  <2>4. Is(q, k + 1)
    BY <2>2, <2>3
  <2> QED  BY <2>4
<1> HIDE DEF S
<1>3. n \in S
  BY <1>1, <1>2, NatInSet
<1>4. after = [i \in 0 .. n |-> IF i = 0 THEN d ELSE UninstallStep(after[i - 1], i)]
  BY <1>3 DEF S, UninstalledAfter
<1>5. UninstalledUpTo(d, n) = after[n]
  BY DEF UninstalledUpTo, UninstalledAfter
<1> HIDE DEF after
<1>6. 0 \in 0 .. n /\ \A i \in 1 .. n : i \in 0 .. n /\ i # 0
  OBVIOUS
<1>7. after[0] = d /\ \A i \in 1 .. n : after[i] = UninstallStep(after[i - 1], i)
  BY <1>4, <1>6
<1> QED  BY <1>5, <1>7 DEF after

(* What every step of a run keeps, the run keeps.                          *)
LEMMA EnsuredKeeps ==
  ASSUME NEW P, NEW d \in P, NEW n \in 0 .. Steps,
         \A e \in P, i \in 1 .. Steps : EnsureStep(e, i) \in P
  PROVE  EnsuredUpTo(d, n) \in P
<1> DEFINE after == EnsuredAfter(d, n)
           S == {i \in Nat : i <= n => after[i] \in P}
<1>1. n \in Nat /\ \A i \in 1 .. n : i \in 1 .. Steps
  BY DEF Steps
<1>2. /\ EnsuredUpTo(d, n) = after[n] /\ after[0] = d
      /\ \A i \in 1 .. n : after[i] = EnsureStep(after[i - 1], i)
  BY <1>1, EnsuredSteps
<1> HIDE DEF after
<1>3. 0 \in S
  BY <1>2
<1>4. ASSUME NEW i \in Nat, i \in S PROVE i + 1 \in S
  <2> SUFFICES ASSUME i + 1 <= n PROVE after[i + 1] \in P
    OBVIOUS
  <2>1. i + 1 \in 1 .. n /\ i + 1 - 1 = i /\ i <= n
    BY <1>1
  <2>2. after[i] \in P /\ after[i + 1] = EnsureStep(after[i], i + 1)
    BY <1>2, <1>4, <2>1
  <2> QED  BY <1>1, <2>1, <2>2
<1>5. \A i \in Nat : i \in S
  <2> HIDE DEF S
  <2> QED  BY <1>3, <1>4, NatInSet
<1>6. after[n] \in P
  BY <1>1, <1>5
<1> QED  BY <1>2, <1>6

LEMMA UninstalledKeeps ==
  ASSUME NEW P, NEW d \in P, NEW n \in 0 .. Steps,
         \A e \in P, i \in 1 .. Steps : UninstallStep(e, i) \in P
  PROVE  UninstalledUpTo(d, n) \in P
<1> DEFINE after == UninstalledAfter(d, n)
           S == {i \in Nat : i <= n => after[i] \in P}
<1>1. n \in Nat /\ \A i \in 1 .. n : i \in 1 .. Steps
  BY DEF Steps
<1>2. /\ UninstalledUpTo(d, n) = after[n] /\ after[0] = d
      /\ \A i \in 1 .. n : after[i] = UninstallStep(after[i - 1], i)
  BY <1>1, UninstalledSteps
<1> HIDE DEF after
<1>3. 0 \in S
  BY <1>2
<1>4. ASSUME NEW i \in Nat, i \in S PROVE i + 1 \in S
  <2> SUFFICES ASSUME i + 1 <= n PROVE after[i + 1] \in P
    OBVIOUS
  <2>1. i + 1 \in 1 .. n /\ i + 1 - 1 = i /\ i <= n
    BY <1>1
  <2>2. after[i] \in P /\ after[i + 1] = UninstallStep(after[i], i + 1)
    BY <1>2, <1>4, <2>1
  <2> QED  BY <1>1, <2>1, <2>2
<1>5. \A i \in Nat : i \in S
  <2> HIDE DEF S
  <2> QED  BY <1>3, <1>4, NatInSet
<1>6. after[n] \in P
  BY <1>1, <1>5
<1> QED  BY <1>2, <1>6

Names == {"config.json", "overrides.json", "relaunch.conf", "relaunch.lua", "rules.lua"}
Ends == {"bash engine", "other", "none"}
Installation(L) ==
  [lua : FilesOf(L), conf : FilesOf(L), dir : SUBSET Names, bin : Ends, plugin : BOOLEAN]
BinAfter(bin) == IF bin = "bash engine" THEN "none" ELSE bin
DirAfter(dir) == (dir \cup {"overrides.json", "rules.lua"}) \ {"relaunch.conf", "relaunch.lua"}

AlikeToEnsure(e, d) ==
  /\ Ensured(e.lua) = Ensured(d.lua) /\ WithoutConf(e.conf) = WithoutConf(d.conf)
  /\ DirAfter(e.dir) = DirAfter(d.dir) /\ e.bin = d.bin /\ e.plugin = d.plugin
AlikeToUninstall(e, d) ==
  /\ RemoveBootstrap(e.lua, AllHooks) = RemoveBootstrap(d.lua, AllHooks)
  /\ WithoutConf(e.conf) = WithoutConf(d.conf) /\ BinAfter(e.bin) = BinAfter(d.bin)

LEMMA FilesAreKept ==
  ASSUME NEW L, NEW f \in FilesOf(L), {Marker, Hook} \subseteq L
  PROVE  /\ Ensured(f) \in FilesOf(L) /\ Ensured(Ensured(f)) = Ensured(f)
         /\ RemoveBootstrap(Ensured(f), AllHooks) = RemoveBootstrap(f, AllHooks)
         /\ RemoveBootstrap(f, AllHooks) \in FilesOf(L)
         /\ RemoveBootstrap(RemoveBootstrap(f, AllHooks), AllHooks) = RemoveBootstrap(f, AllHooks)
         /\ WithoutConf(f) \in FilesOf(L) /\ WithoutConf(WithoutConf(f)) = WithoutConf(f)
<1>1. Ensured(f) \in FilesOf(L \cup {Hook}) /\ ComesAndGoes(f)
  BY EnsuredComesAndGoes
<1>2. L \cup {Hook} = L
  OBVIOUS
<1>3. Ensured(f) \in FilesOf(L)
  BY <1>1, <1>2
<1>4. /\ Ensured(Ensured(f)) = Ensured(f)
      /\ RemoveBootstrap(Ensured(f), AllHooks) = RemoveBootstrap(f, AllHooks)
  BY <1>1 DEF ComesAndGoes
<1> QED  BY <1>3, <1>4, RemoveTwice, ConfTwice

(* What a step changes of the installation e it finds.                     *)
EnsureChanges(s, e, i) ==
  /\ s.lua = IF i = 6 THEN Ensured(e.lua) ELSE e.lua
  /\ s.conf = IF i = 3 THEN WithoutConf(e.conf) ELSE e.conf
  /\ i = 1 => s.dir = e.dir \cup {"overrides.json"}
  /\ i = 2 => s.dir = e.dir \ {"relaunch.conf"}
  /\ i = 4 => s.dir = e.dir \ {"relaunch.lua"}
  /\ i = 5 => s.dir = e.dir \cup {"rules.lua"}
  /\ i \in {3, 6} => s.dir = e.dir
  /\ s.bin = e.bin /\ s.plugin = e.plugin
UninstallChanges(s, e, i) ==
  /\ s.lua = IF i = 1 THEN RemoveBootstrap(e.lua, AllHooks) ELSE e.lua
  /\ s.conf = IF i = 3 THEN WithoutConf(e.conf) ELSE e.conf
  /\ i = 4 => s.dir = {}
  /\ i \in {5, 6} => s.dir = e.dir
  /\ s.bin = IF i = 5 THEN BinAfter(e.bin) ELSE e.bin
  /\ i = 6 => s.plugin = FALSE

LEMMA EnsureStepIs ==
  ASSUME NEW L, NEW e \in Installation(L), NEW i \in 1 .. Steps, {Marker, Hook} \subseteq L
  PROVE  EnsureStep(e, i) \in Installation(L) /\ EnsureChanges(EnsureStep(e, i), e, i)
<1> DEFINE lua == Ensured(e.lua)
           conf == WithoutConf(e.conf)
<1>1. e.lua \in FilesOf(L) /\ e.conf \in FilesOf(L) /\ e.dir \in SUBSET Names
      /\ e.bin \in Ends /\ e.plugin \in BOOLEAN
  BY DEF Installation, EnsureChanges
<1>2. lua \in FilesOf(L) /\ conf \in FilesOf(L)
  BY <1>1, FilesAreKept
<1>3. i \in {1, 2, 3, 4, 5, 6}
  BY DEF Steps
<1>4. EnsureStep(e, i) = CASE i = 1 -> [e EXCEPT !.dir = e.dir \cup {"overrides.json"}]
                           [] i = 2 -> [e EXCEPT !.dir = e.dir \ {"relaunch.conf"}]
                           [] i = 3 -> [e EXCEPT !.conf = conf]
                           [] i = 4 -> [e EXCEPT !.dir = e.dir \ {"relaunch.lua"}]
                           [] i = 5 -> [e EXCEPT !.dir = e.dir \cup {"rules.lua"}]
                           [] i = 6 -> [e EXCEPT !.lua = lua]
  BY DEF EnsureStep
<1> HIDE DEF lua, conf
<1>5. CASE i = 1
  <2> DEFINE s == EnsureStep(e, i)
             more == e.dir \cup {"overrides.json"}
  <2>1. s = [e EXCEPT !.dir = more]
    BY <1>4, <1>5
  <2>5. more \in SUBSET Names
    <3>1. e.dir \subseteq Names
      BY <1>1
    <3>2. "overrides.json" \in Names
      BY DEF Names
    <3>3. more \subseteq Names
      BY <3>1, <3>2
    <3> QED  BY <3>3
  <2> HIDE DEF s, more
  <2>2. s \in Installation(L)
    BY <1>1, <2>1, <2>5 DEF Installation
  <2>3. /\ s.dir = more
        /\ s.lua = e.lua /\ s.conf = e.conf /\ s.bin = e.bin /\ s.plugin = e.plugin
    BY <1>1, <2>1 DEF Installation
  <2>4. EnsureChanges(s, e, i)
    BY <1>5, <2>3 DEF EnsureChanges, more
  <2> QED  BY <2>2, <2>4 DEF s
<1>6. CASE i = 2
  BY <1>1, <1>4, <1>6 DEF Installation, EnsureChanges
<1>7. CASE i = 3
  <2> DEFINE s == EnsureStep(e, i)
  <2>1. s = [e EXCEPT !.conf = conf]
    BY <1>4, <1>7
  <2> HIDE DEF s
  <2>2. s \in Installation(L)
    BY <1>1, <1>2, <2>1 DEF Installation
  <2>3. /\ s.conf = conf
        /\ s.lua = e.lua /\ s.dir = e.dir /\ s.bin = e.bin /\ s.plugin = e.plugin
    BY <1>1, <2>1 DEF Installation
  <2>4. EnsureChanges(s, e, i)
    BY <1>7, <2>3 DEF EnsureChanges, conf
  <2> QED  BY <2>2, <2>4 DEF s
<1>8. CASE i = 4
  BY <1>1, <1>4, <1>8 DEF Installation, EnsureChanges
<1>9. CASE i = 5
  <2> DEFINE s == EnsureStep(e, i)
             more == e.dir \cup {"rules.lua"}
  <2>1. s = [e EXCEPT !.dir = more]
    BY <1>4, <1>9
  <2>5. more \in SUBSET Names
    <3>1. e.dir \subseteq Names
      BY <1>1
    <3>2. "rules.lua" \in Names
      BY DEF Names
    <3>3. more \subseteq Names
      BY <3>1, <3>2
    <3> QED  BY <3>3
  <2> HIDE DEF s, more
  <2>2. s \in Installation(L)
    BY <1>1, <2>1, <2>5 DEF Installation
  <2>3. /\ s.dir = more
        /\ s.lua = e.lua /\ s.conf = e.conf /\ s.bin = e.bin /\ s.plugin = e.plugin
    BY <1>1, <2>1 DEF Installation
  <2>4. EnsureChanges(s, e, i)
    BY <1>9, <2>3 DEF EnsureChanges, more
  <2> QED  BY <2>2, <2>4 DEF s
<1>10. CASE i = 6
  <2> DEFINE s == EnsureStep(e, i)
  <2>1. s = [e EXCEPT !.lua = lua]
    BY <1>4, <1>10
  <2> HIDE DEF s
  <2>2. s \in Installation(L)
    BY <1>1, <1>2, <2>1 DEF Installation
  <2>3. /\ s.lua = lua
        /\ s.conf = e.conf /\ s.dir = e.dir /\ s.bin = e.bin /\ s.plugin = e.plugin
    BY <1>1, <2>1 DEF Installation
  <2>4. EnsureChanges(s, e, i)
    BY <1>10, <2>3 DEF EnsureChanges, lua
  <2> QED  BY <2>2, <2>4 DEF s
<1> QED  BY <1>3, <1>5, <1>6, <1>7, <1>8, <1>9, <1>10

LEMMA UninstallStepIs ==
  ASSUME NEW L, NEW e \in Installation(L), NEW i \in 1 .. Steps, {Marker, Hook} \subseteq L
  PROVE  UninstallStep(e, i) \in Installation(L) /\ UninstallChanges(UninstallStep(e, i), e, i)
<1> DEFINE lua == RemoveBootstrap(e.lua, AllHooks)
           conf == WithoutConf(e.conf)
           bin == BinAfter(e.bin)
<1>1. e.lua \in FilesOf(L) /\ e.conf \in FilesOf(L) /\ e.dir \in SUBSET Names
      /\ e.bin \in Ends /\ e.plugin \in BOOLEAN
  BY DEF Installation, UninstallChanges
<1>2. lua \in FilesOf(L) /\ conf \in FilesOf(L) /\ bin \in Ends
  BY <1>1, FilesAreKept DEF BinAfter, Ends
<1>3. i \in {1, 2, 3, 4, 5, 6}
  BY DEF Steps
<1>4. UninstallStep(e, i) = CASE i = 1 -> [e EXCEPT !.lua = lua]
                              [] i = 2 -> [e EXCEPT !.dir = e.dir \ {"relaunch.conf"}]
                              [] i = 3 -> [e EXCEPT !.conf = conf]
                              [] i = 4 -> [e EXCEPT !.dir = {}]
                              [] i = 5 -> [e EXCEPT !.bin = bin]
                              [] i = 6 -> [e EXCEPT !.plugin = FALSE]
  BY DEF UninstallStep, BinAfter
<1> HIDE DEF lua, conf, bin
<1>5. CASE i = 1
  BY <1>1, <1>2, <1>4, <1>5 DEF Installation, UninstallChanges, lua
<1>6. CASE i = 2
  BY <1>1, <1>4, <1>6 DEF Installation, UninstallChanges
<1>7. CASE i = 3
  BY <1>1, <1>2, <1>4, <1>7 DEF Installation, UninstallChanges, conf
<1>8. CASE i = 4
  BY <1>1, <1>4, <1>8 DEF Installation, UninstallChanges
<1>9. CASE i = 5
  BY <1>1, <1>2, <1>4, <1>9 DEF Installation, UninstallChanges, bin
<1>10. CASE i = 6
  <2> DEFINE s == UninstallStep(e, i)
  <2>1. s = [e EXCEPT !.plugin = FALSE]
    BY <1>4, <1>10
  <2> HIDE DEF s
  <2>2. s \in Installation(L)
    BY <1>1, <2>1 DEF Installation
  <2>3. /\ s.plugin = FALSE
        /\ s.lua = e.lua /\ s.conf = e.conf /\ s.dir = e.dir /\ s.bin = e.bin
    BY <1>1, <2>1 DEF Installation
  <2>4. UninstallChanges(s, e, i)
    BY <1>10, <2>3 DEF UninstallChanges
  <2> QED  BY <2>2, <2>4 DEF s
<1> QED  BY <1>3, <1>5, <1>6, <1>7, <1>8, <1>9, <1>10

(* A whole run makes of an installation what its parts say.                *)
LEMMA EnsuredIs ==
  ASSUME NEW L, NEW e \in Installation(L), {Marker, Hook} \subseteq L
  PROVE  EnsuredUpTo(e, Steps) =
           [lua |-> Ensured(e.lua), conf |-> WithoutConf(e.conf), dir |-> DirAfter(e.dir),
            bin |-> e.bin, plugin |-> e.plugin]
<1> DEFINE a == EnsuredAfter(e, Steps)
           P == Installation(L)
<1>1. Steps = 6 /\ Steps \in Nat
  BY DEF Steps
<1>2. /\ EnsuredUpTo(e, Steps) = a[6] /\ a[0] = e
      /\ \A i \in 1 .. Steps : a[i] = EnsureStep(a[i - 1], i)
  BY <1>1, EnsuredSteps
<1> HIDE DEF a
<1>3. /\ a[1] = EnsureStep(a[0], 1) /\ a[2] = EnsureStep(a[1], 2) /\ a[3] = EnsureStep(a[2], 3)
      /\ a[4] = EnsureStep(a[3], 4) /\ a[5] = EnsureStep(a[4], 5) /\ a[6] = EnsureStep(a[5], 6)
  <2>1. \A i \in {1, 2, 3, 4, 5, 6} : i \in 1 .. Steps
    BY <1>1
  <2>2. 1 - 1 = 0 /\ 2 - 1 = 1 /\ 3 - 1 = 2 /\ 4 - 1 = 3 /\ 5 - 1 = 4 /\ 6 - 1 = 5
    OBVIOUS
  <2> QED  BY <1>2, <2>1, <2>2
<1> HIDE DEF P
<1>4. ASSUME NEW s \in P, NEW i \in 1 .. Steps
      PROVE  EnsureStep(s, i) \in P /\ EnsureChanges(EnsureStep(s, i), s, i)
  BY EnsureStepIs DEF P
<1>13. e \in P
  BY DEF P
<1>14. \A i \in {1, 2, 3, 4, 5, 6} : i \in 1 .. Steps
  BY <1>1
<1>15. a[1] \in P /\ EnsureChanges(a[1], a[0], 1)
  BY <1>2, <1>13, <1>3, <1>4, <1>14
<1>16. a[2] \in P /\ EnsureChanges(a[2], a[1], 2)
  BY <1>3, <1>4, <1>14, <1>15
<1>17. a[3] \in P /\ EnsureChanges(a[3], a[2], 3)
  BY <1>3, <1>4, <1>14, <1>16
<1>18. a[4] \in P /\ EnsureChanges(a[4], a[3], 4)
  BY <1>3, <1>4, <1>14, <1>17
<1>19. a[5] \in P /\ EnsureChanges(a[5], a[4], 5)
  BY <1>3, <1>4, <1>14, <1>18
<1>20. a[6] \in P /\ EnsureChanges(a[6], a[5], 6)
  BY <1>3, <1>4, <1>14, <1>19
<1>5. /\ a[1] \in P /\ a[1].lua = e.lua /\ a[1].conf = e.conf /\ a[1].bin = e.bin
      /\ a[1].plugin = e.plugin /\ a[1].dir = e.dir \cup {"overrides.json"}
  BY <1>2, <1>15 DEF EnsureChanges
<1>6. /\ a[2] \in P /\ a[2].lua = e.lua /\ a[2].conf = e.conf /\ a[2].bin = e.bin
      /\ a[2].plugin = e.plugin /\ a[2].dir = a[1].dir \ {"relaunch.conf"}
  BY <1>16, <1>5 DEF EnsureChanges
<1>7. /\ a[3] \in P /\ a[3].lua = e.lua /\ a[3].conf = WithoutConf(e.conf) /\ a[3].bin = e.bin
      /\ a[3].plugin = e.plugin /\ a[3].dir = a[2].dir
  BY <1>17, <1>6 DEF EnsureChanges
<1>8. /\ a[4] \in P /\ a[4].lua = e.lua /\ a[4].conf = WithoutConf(e.conf) /\ a[4].bin = e.bin
      /\ a[4].plugin = e.plugin /\ a[4].dir = a[3].dir \ {"relaunch.lua"}
  BY <1>18, <1>7 DEF EnsureChanges
<1>9. /\ a[5] \in P /\ a[5].lua = e.lua /\ a[5].conf = WithoutConf(e.conf) /\ a[5].bin = e.bin
      /\ a[5].plugin = e.plugin /\ a[5].dir = a[4].dir \cup {"rules.lua"}
  BY <1>19, <1>8 DEF EnsureChanges
<1>10. /\ a[6] \in P /\ a[6].lua = Ensured(e.lua) /\ a[6].conf = WithoutConf(e.conf)
       /\ a[6].bin = e.bin /\ a[6].plugin = e.plugin /\ a[6].dir = a[5].dir
  BY <1>20, <1>9 DEF EnsureChanges
<1>11. a[6].dir = DirAfter(e.dir)
  BY <1>5, <1>6, <1>7, <1>8, <1>9, <1>10 DEF DirAfter
<1>12. a[6] = [lua |-> a[6].lua, conf |-> a[6].conf, dir |-> a[6].dir, bin |-> a[6].bin,
               plugin |-> a[6].plugin]
  BY <1>10 DEF P, Installation
<1> QED  BY <1>2, <1>10, <1>11, <1>12

LEMMA UninstalledIs ==
  ASSUME NEW L, NEW e \in Installation(L), {Marker, Hook} \subseteq L
  PROVE  UninstalledUpTo(e, Steps) =
           [lua |-> RemoveBootstrap(e.lua, AllHooks), conf |-> WithoutConf(e.conf), dir |-> {},
            bin |-> BinAfter(e.bin), plugin |-> FALSE]
<1> DEFINE a == UninstalledAfter(e, Steps)
           P == Installation(L)
           lua == RemoveBootstrap(e.lua, AllHooks)
<1>1. Steps = 6 /\ Steps \in Nat
  BY DEF Steps
<1>2. /\ UninstalledUpTo(e, Steps) = a[6] /\ a[0] = e
      /\ \A i \in 1 .. Steps : a[i] = UninstallStep(a[i - 1], i)
  BY <1>1, UninstalledSteps
<1> HIDE DEF a
<1>3. /\ a[1] = UninstallStep(a[0], 1) /\ a[2] = UninstallStep(a[1], 2)
      /\ a[3] = UninstallStep(a[2], 3) /\ a[4] = UninstallStep(a[3], 4)
      /\ a[5] = UninstallStep(a[4], 5) /\ a[6] = UninstallStep(a[5], 6)
  <2>1. \A i \in {1, 2, 3, 4, 5, 6} : i \in 1 .. Steps
    BY <1>1
  <2>2. 1 - 1 = 0 /\ 2 - 1 = 1 /\ 3 - 1 = 2 /\ 4 - 1 = 3 /\ 5 - 1 = 4 /\ 6 - 1 = 5
    OBVIOUS
  <2> QED  BY <1>2, <2>1, <2>2
<1> HIDE DEF P
<1>4. ASSUME NEW s \in P, NEW i \in 1 .. Steps
      PROVE  UninstallStep(s, i) \in P /\ UninstallChanges(UninstallStep(s, i), s, i)
  BY UninstallStepIs DEF P
<1>13. e \in P
  BY DEF P
<1>14. \A i \in {1, 2, 3, 4, 5, 6} : i \in 1 .. Steps
  BY <1>1
<1>15. a[1] \in P /\ UninstallChanges(a[1], a[0], 1)
  BY <1>2, <1>13, <1>3, <1>4, <1>14
<1>16. a[2] \in P /\ UninstallChanges(a[2], a[1], 2)
  BY <1>3, <1>4, <1>14, <1>15
<1>17. a[3] \in P /\ UninstallChanges(a[3], a[2], 3)
  BY <1>3, <1>4, <1>14, <1>16
<1>18. a[4] \in P /\ UninstallChanges(a[4], a[3], 4)
  BY <1>3, <1>4, <1>14, <1>17
<1>19. a[5] \in P /\ UninstallChanges(a[5], a[4], 5)
  BY <1>3, <1>4, <1>14, <1>18
<1>20. a[6] \in P /\ UninstallChanges(a[6], a[5], 6)
  BY <1>3, <1>4, <1>14, <1>19
<1>5. a[1] \in P /\ a[1].lua = lua /\ a[1].conf = e.conf /\ a[1].bin = e.bin
  BY <1>2, <1>15 DEF UninstallChanges
<1> HIDE DEF lua
<1>6. a[2] \in P /\ a[2].lua = lua /\ a[2].conf = e.conf /\ a[2].bin = e.bin
  BY <1>16, <1>5 DEF UninstallChanges
<1>7. a[3] \in P /\ a[3].lua = lua /\ a[3].conf = WithoutConf(e.conf) /\ a[3].bin = e.bin
  BY <1>17, <1>6 DEF UninstallChanges
<1>8. /\ a[4] \in P /\ a[4].lua = lua /\ a[4].conf = WithoutConf(e.conf) /\ a[4].bin = e.bin
      /\ a[4].dir = {}
  BY <1>18, <1>7 DEF UninstallChanges
<1>9. /\ a[5] \in P /\ a[5].lua = lua /\ a[5].conf = WithoutConf(e.conf)
      /\ a[5].bin = BinAfter(e.bin) /\ a[5].dir = {}
  BY <1>19, <1>8 DEF UninstallChanges
<1>10. /\ a[6] \in P /\ a[6].lua = lua /\ a[6].conf = WithoutConf(e.conf)
       /\ a[6].bin = BinAfter(e.bin) /\ a[6].dir = {} /\ a[6].plugin = FALSE
  BY <1>20, <1>9 DEF UninstallChanges
<1>12. a[6] = [lua |-> a[6].lua, conf |-> a[6].conf, dir |-> a[6].dir, bin |-> a[6].bin,
               plugin |-> a[6].plugin]
  BY <1>10 DEF P, Installation
<1> QED  BY <1>2, <1>10, <1>12 DEF lua

LEMMA CutOffOK ==
  ASSUME NEW L, NEW d \in Installation(L), {Marker, Hook} \subseteq L
  PROVE  CutOff(d)
<1> DEFINE P == {e \in Installation(L) : AlikeToEnsure(e, d)}
           Q == {e \in Installation(L) : AlikeToUninstall(e, d)}
<1>1. d \in P /\ d \in Q
  BY DEF AlikeToEnsure, AlikeToUninstall
<1>2. ASSUME NEW e \in P, NEW i \in 1 .. Steps PROVE EnsureStep(e, i) \in P
  <2> DEFINE s == EnsureStep(e, i)
  <2>1. e \in Installation(L) /\ e.lua \in FilesOf(L) /\ e.conf \in FilesOf(L)
    BY DEF Installation
  <2>2. s \in Installation(L) /\ EnsureChanges(s, e, i)
    BY <2>1, EnsureStepIs
  <2>3. Ensured(Ensured(e.lua)) = Ensured(e.lua) /\ WithoutConf(WithoutConf(e.conf)) = WithoutConf(e.conf)
    BY <2>1, FilesAreKept
  <2>4. AlikeToEnsure(e, d)
    OBVIOUS
  <2> HIDE DEF s
  <2>5. Ensured(s.lua) = Ensured(d.lua) /\ WithoutConf(s.conf) = WithoutConf(d.conf)
    BY <2>2, <2>3, <2>4 DEF AlikeToEnsure, EnsureChanges
  <2>6. DirAfter(s.dir) = DirAfter(e.dir)
    <3>1. i \in {1, 2, 3, 4, 5, 6}
      BY DEF Steps
    <3>2. CASE i = 1
      BY <2>2, <3>2 DEF DirAfter, EnsureChanges
    <3>3. CASE i = 2
      <4>1. "relaunch.conf" # "overrides.json" /\ "relaunch.conf" # "rules.lua"
        OBVIOUS
      <4> QED  BY <2>2, <3>3, <4>1 DEF DirAfter, EnsureChanges
    <3>4. CASE i = 4
      <4>1. "relaunch.lua" # "overrides.json" /\ "relaunch.lua" # "rules.lua"
        OBVIOUS
      <4> QED  BY <2>2, <3>4, <4>1 DEF DirAfter, EnsureChanges
    <3>5. CASE i = 5
      BY <2>2, <3>5 DEF DirAfter, EnsureChanges
    <3>6. CASE i \in {3, 6}
      BY <2>2, <3>6 DEF EnsureChanges
    <3> QED  BY <3>1, <3>2, <3>3, <3>4, <3>5, <3>6
  <2>7. AlikeToEnsure(s, d)
    BY <2>2, <2>4, <2>5, <2>6 DEF AlikeToEnsure, EnsureChanges
  <2> QED  BY <2>2, <2>7 DEF s
<1>3. ASSUME NEW e \in Q, NEW i \in 1 .. Steps
      PROVE  EnsureStep(e, i) \in Q /\ UninstallStep(e, i) \in Q
  <2>1. e \in Installation(L) /\ e.lua \in FilesOf(L) /\ e.conf \in FilesOf(L)
    BY DEF Installation
  <2>2. AlikeToUninstall(e, d)
    OBVIOUS
  <2>3. /\ RemoveBootstrap(Ensured(e.lua), AllHooks) = RemoveBootstrap(e.lua, AllHooks)
        /\ RemoveBootstrap(RemoveBootstrap(e.lua, AllHooks), AllHooks) = RemoveBootstrap(e.lua, AllHooks)
        /\ WithoutConf(WithoutConf(e.conf)) = WithoutConf(e.conf)
    BY <2>1, FilesAreKept
  <2>4. BinAfter(BinAfter(e.bin)) = BinAfter(e.bin)
    BY DEF BinAfter
  <2>5. EnsureStep(e, i) \in Q
    <3> DEFINE s == EnsureStep(e, i)
    <3>1. s \in Installation(L) /\ EnsureChanges(s, e, i)
      BY <2>1, EnsureStepIs
    <3> HIDE DEF s
    <3>2. AlikeToUninstall(s, d)
      BY <2>2, <2>3, <3>1 DEF AlikeToUninstall, EnsureChanges
    <3> QED  BY <3>1, <3>2 DEF s
  <2>6. UninstallStep(e, i) \in Q
    <3> DEFINE s == UninstallStep(e, i)
    <3>1. s \in Installation(L) /\ UninstallChanges(s, e, i)
      BY <2>1, UninstallStepIs
    <3> HIDE DEF s
    <3>2. AlikeToUninstall(s, d)
      BY <2>2, <2>3, <2>4, <3>1 DEF AlikeToUninstall, UninstallChanges
    <3> QED  BY <3>1, <3>2 DEF s
  <2> QED  BY <2>5, <2>6
<1>4. \A e \in P : EnsuredUpTo(e, Steps) = EnsuredUpTo(d, Steps)
  BY EnsuredIs DEF AlikeToEnsure
<1>5. \A e \in Q : UninstalledUpTo(e, Steps) = UninstalledUpTo(d, Steps)
  BY UninstalledIs DEF AlikeToUninstall
<1> HIDE DEF P, Q
<1>6. \A k \in 0 .. Steps : EnsuredUpTo(d, k) \in P
  BY <1>1, <1>2, EnsuredKeeps
<1>7. \A k, n \in 0 .. Steps : UninstalledUpTo(EnsuredUpTo(d, n), k) \in Q
  <2>1. \A n \in 0 .. Steps : EnsuredUpTo(d, n) \in Q
    BY <1>1, <1>3, EnsuredKeeps
  <2> QED  BY <1>3, <2>1, UninstalledKeeps
<1> QED  BY <1>4, <1>5, <1>6, <1>7 DEF CutOff

-----------------------------------------------------------------------------
(* Ready is wired.                                                         *)

ReadyPhases == {"ready", "update-available", "checking-updates", "updating",
                "reinstalling", "uninstalling"}

LEMMA StillWired ==
  ASSUME NEW F, WiredFit(F), world'.lua = world.lua, adopted' = adopted,
         tools'.phase \in ReadyPhases => tools.phase \in ReadyPhases
  PROVE  WiredFit(F)'
BY DEF WiredFit, ReadyIsWired, ReadyPhases

LEMMA OpenReady ==
  ASSUME Types, NEW kind \in Kinds, Open(kind),
         kind # "install" => tools.phase \in ReadyPhases
  PROVE  tools'.phase \in ReadyPhases => tools.phase \in ReadyPhases
<1>1. tools \in Tools
  BY DEF Types
<1>2. CASE kind = "install"
  <2>1. \/ tools' = [[tools EXCEPT !.op = @ + 1, !.installEnded = FALSE]
                       EXCEPT !.phase = Back(PhaseOf[kind])]
        \/ tools' = [[tools EXCEPT !.op = @ + 1, !.installEnded = FALSE]
                       EXCEPT !.phase = PhaseOf[kind]]
    BY <1>2 DEF Open
  <2>2. tools'.phase \in {Back(PhaseOf[kind]), PhaseOf[kind]}
    BY <1>1, <2>1 DEF Tools
  <2>3. PhaseOf[kind] = "installing"
    BY <1>2 DEF PhaseOf
  <2> QED  BY <2>2, <2>3 DEF Back, ReadyPhases
<1> QED  BY <1>2

LEMMA UserReady ==
  ASSUME Types, UserActs
  PROVE  tools'.phase \in ReadyPhases => tools.phase \in ReadyPhases
<1>1. tools \in Tools
  BY DEF Types
<1>2. CASE Check
  <2> DEFINE ended == tools.installEnded \/ InTerminal(tools.phase)
  <2>1. tools' = [[tools EXCEPT !.installEnded = ended] EXCEPT !.probing = TRUE]
    BY <1>2 DEF Check, StartProbe
  <2> HIDE DEF ended
  <2> QED  BY <1>1, <2>1 DEF Tools
<1>3. CASE Install
  <2>1. CASE Wired(tools)
    <3>1. tools' = [tools EXCEPT !.op = tools.op + 1, !.phase = "wiring"]
      BY <2>1 DEF Wired
    <3>2. tools'.phase = "wiring"
      BY <1>1, <3>1 DEF Tools
    <3> QED  BY <3>2 DEF ReadyPhases
  <2>2. CASE Open("install")
    <3>1. "install" \in Kinds
      BY DEF Kinds
    <3> QED  BY <2>2, <3>1, OpenReady
  <2> QED  BY <1>3, <2>1, <2>2 DEF Install
<1>4. CASE Update \/ Ask \/ CheckUpdates \/ Confirm
  BY <1>4 DEF Update, Ask, CheckUpdates, Confirm, Manageable, ReadyPhases
<1>5. CASE CancelConfirm
  <2>1. tools' = [tools EXCEPT !.confirm = ""]
    BY <1>5 DEF CancelConfirm
  <2> QED  BY <1>1, <2>1 DEF Tools
<1> QED  BY <1>2, <1>3, <1>4, <1>5 DEF UserActs

LEMMA ProbeEndedWired ==
  ASSUME NEW F, Types, WiredFit(F), ProbeEnded PROVE WiredFit(F)'
<1> DEFINE r == probeOut.found
           t == [tools EXCEPT !.probing = FALSE, !.seen = r]
           v == Verdict(tools.phase, r)
<1>1. \/ UNCHANGED <<tools, adopted>>
      \/ Wired(t) /\ UNCHANGED adopted
      \/ /\ v # "wire" /\ tools' = [t EXCEPT !.phase = v]
         /\ adopted' = (adopted \/ (tools.phase = "checking" /\ v = "ready" /\ ~Hooked(world.lua)))
  BY Zenon DEF ProbeEnded
<1>2. world' = world
  BY DEF ProbeEnded
<1>3. t \in Tools
  <2>1. tools \in Tools /\ probeOut \in [op : Int, read : BOOLEAN, found : Pkg]
    BY DEF Types
  <2> QED  BY <2>1 DEF Tools
<1> HIDE DEF t
<1>4. CASE UNCHANGED <<tools, adopted>>
  BY <1>2, <1>4, StillWired
<1>5. CASE Wired(t) /\ UNCHANGED adopted
  <2>1. tools' = [t EXCEPT !.op = t.op + 1, !.phase = "wiring"]
    BY <1>5 DEF Wired
  <2>2. tools'.phase = "wiring"
    BY <1>3, <2>1 DEF Tools
  <2>3. tools'.phase \notin ReadyPhases
    BY <2>2 DEF ReadyPhases
  <2> QED  BY <1>2, <1>5, <2>3, StillWired
<1>6. CASE /\ v # "wire" /\ tools' = [t EXCEPT !.phase = v]
           /\ adopted' = (adopted \/ (tools.phase = "checking" /\ v = "ready" /\ ~Hooked(world.lua)))
  <2>1. tools'.phase = v
    BY <1>3, <1>6 DEF Tools
  <2>2. \/ v = tools.phase
        \/ v = "missing"
        \/ v = "ready" /\ tools.phase = "checking"
        \/ v = "ready" /\ tools.phase \in ReadyPhases
    <3>1. CASE InTerminal(tools.phase)
      <4>1. TerminalOf[tools.phase] # "install" => tools.phase \in ReadyPhases
        BY <3>1 DEF InTerminal, TerminalOf, ReadyPhases
      <4> QED  BY <1>6, <3>1, <4>1 DEF Verdict
    <3>2. CASE ~InTerminal(tools.phase)
      BY <1>6, <3>2 DEF Verdict
    <3> QED  BY <3>1, <3>2
  <2>3. "missing" \notin ReadyPhases
    BY DEF ReadyPhases
  <2> HIDE DEF v
  <2>4. CASE v = "ready" /\ tools.phase = "checking"
    <3>1. Hooked(world.lua)' \/ adopted'
      BY <1>2, <1>6, <2>4, Zenon
    <3> QED  BY <1>2, <3>1 DEF WiredFit, ReadyIsWired
  <2>5. CASE v = tools.phase \/ v = "missing" \/ (v = "ready" /\ tools.phase \in ReadyPhases)
    <3>1. tools'.phase \in ReadyPhases => tools.phase \in ReadyPhases
      BY <2>1, <2>3, <2>5
    <3>2. tools'.phase \in ReadyPhases => Hooked(world.lua) \/ adopted
      BY <3>1 DEF WiredFit, ReadyIsWired, ReadyPhases
    <3>3. adopted => adopted'
      BY <1>6, Zenon
    <3> QED  BY <1>2, <3>2, <3>3 DEF WiredFit, ReadyIsWired, ReadyPhases
  <2> QED  BY <2>2, <2>4, <2>5
<1> QED  BY <1>1, <1>4, <1>5, <1>6

LEMMA WireEndedWired ==
  ASSUME NEW F, EnsureWires(F), Types, WaitsFit, WiredFit(F), WireEnded PROVE WiredFit(F)'
<1>1. PICK ok \in {TRUE, FALSE} :
        /\ world' = IF ok THEN [world EXCEPT !.lua = Ensured(@)] ELSE world
        /\ tools' = IF wiring = tools.op /\ tools.phase = "wiring"
                    THEN [tools EXCEPT !.phase = IF ok THEN "ready" ELSE "unwired"]
                    ELSE tools
  BY DEF WireEnded
<1>2. adopted' = adopted /\ wiring = tools.op /\ tools.phase = "wiring"
  BY DEF WireEnded, WaitsFit
<1>3. world \in [core : BOOLEAN, version : Nat, stamp : Nat, lua : {world.lua}] /\ tools \in Tools
  BY DEF Types
<1>4. CASE ok
  <2>1. world' = [world EXCEPT !.lua = Ensured(world.lua)]
    BY <1>1, <1>4
  <2>2. world'.lua = Ensured(world.lua)
    BY <1>3, <2>1
  <2>3. world'.lua \in F /\ Hooked(world'.lua)
    BY <2>2 DEF EnsureWires, WiredFit
  <2> QED  BY <2>3 DEF WiredFit, ReadyIsWired
<1>5. CASE ~ok
  <2>1. world' = world /\ tools' = [tools EXCEPT !.phase = "unwired"]
    BY <1>1, <1>2, <1>5
  <2>2. tools'.phase = "unwired"
    BY <1>3, <2>1 DEF Tools
  <2> QED  BY <1>2, <2>1, <2>2, StillWired DEF ReadyPhases
<1> QED  BY <1>4, <1>5

LEMMA SameLua ==
  ASSUME Types,
         ProbeReads \/ UpdatesChecked \/ TerminalFails \/ TerminalEnds \/ PackageChanges \/ Poll
  PROVE  world'.lua = world.lua
<1>1. CASE PackageChanges
  <2>1. \/ world' = [world EXCEPT !.core = FALSE]
        \/ world' = [world EXCEPT !.stamp = @ + 1]
        \/ world' = [world EXCEPT !.core = TRUE, !.stamp = @ + 1, !.version = @ + 1]
        \/ UNCHANGED world
    BY <1>1 DEF PackageChanges
  <2>2. world \in [core : BOOLEAN, version : Nat, stamp : Nat, lua : {world.lua}]
    BY DEF Types
  <2> QED  BY <2>1, <2>2
<1>2. CASE ~PackageChanges
  BY <1>2 DEF ProbeReads, UpdatesChecked, TerminalFails, TerminalEnds, Poll
<1> QED  BY <1>1, <1>2

LEMMA OthersWired ==
  ASSUME NEW F, Types, WaitsFit, WiredFit(F),
         ProbeReads \/ UpdatesChecked \/ TerminalFails \/ TerminalEnds \/ PackageChanges \/ Poll
  PROVE  WiredFit(F)'
<1>1. tools \in Tools /\ adopted' = adopted
  BY DEF Types, ProbeReads, UpdatesChecked, TerminalFails, TerminalEnds, PackageChanges, Poll
<1>2. world'.lua = world.lua
  BY SameLua
<1>3. \/ UNCHANGED tools
      \/ tools' = [tools EXCEPT !.probing = TRUE]
      \/ \E phase \in {"update-available", "ready"} :
           tools.phase = "checking-updates" /\ tools' = [tools EXCEPT !.phase = phase]
      \/ tools' = [tools EXCEPT !.installEnded = TRUE]
      \/ tools' = [[tools EXCEPT !.installEnded = TRUE] EXCEPT !.probing = TRUE]
      \/ InTerminal(tools.phase) /\ tools' = [tools EXCEPT !.phase = Back(@)]
  BY DEF ProbeReads, UpdatesChecked, TerminalFails, TerminalEnds, PackageChanges, Poll, StartProbe
<1>4. tools'.phase \in ReadyPhases => tools.phase \in ReadyPhases
  <2>1. CASE tools'.phase = tools.phase
    BY <2>1
  <2>2. CASE tools.phase = "checking-updates"
    BY <2>2 DEF ReadyPhases
  <2>3. CASE InTerminal(tools.phase) /\ tools'.phase = Back(tools.phase)
    BY <2>3 DEF ReadyPhases, Back, InTerminal, TerminalOf
  <2>4. tools'.phase = tools.phase \/ tools.phase = "checking-updates"
        \/ (InTerminal(tools.phase) /\ tools'.phase = Back(tools.phase))
    BY <1>1, <1>3 DEF Tools
  <2> QED  BY <2>1, <2>2, <2>3, <2>4
<1> QED  BY <1>1, <1>2, <1>4, StillWired

LEMMA WiredStep ==
  ASSUME NEW F, EnsureWires(F)
  PROVE  ToolsInv /\ WiredFit(F) /\ [Next]_vars => WiredFit(F)'
<1> SUFFICES ASSUME Types, WaitsFit, WiredFit(F), [Next]_vars PROVE WiredFit(F)'
  BY DEF ToolsInv
<1>1. CASE UNCHANGED toolVars
  BY <1>1 DEF toolVars, WiredFit, ReadyIsWired
<1>2. CASE \E missing \in BOOLEAN : Told(missing)
  <2>1. tools \in Tools
    BY DEF Types
  <2>2. CASE UNCHANGED toolVars
    BY <2>2 DEF toolVars, WiredFit, ReadyIsWired
  <2>3. CASE StartProbe([tools EXCEPT !.phase = "checking"]) /\ UNCHANGED <<world, adopted>>
    <3>1. tools'.phase = "checking"
      BY <2>1, <2>3 DEF StartProbe, Tools
    <3> QED  BY <2>3, <3>1, StillWired DEF ReadyPhases
  <2> QED  BY <1>2, <2>2, <2>3 DEF Told, EngineIsMissing, toolVars
<1>3. CASE UserActs
  <2>1. UNCHANGED <<world, adopted>>
    BY <1>3 DEF UserActs, Check, Install, Update, Ask, CancelConfirm, Confirm, CheckUpdates, Open
  <2> QED  BY <1>3, <2>1, UserReady, StillWired
<1>4. CASE Packages \/ Answers \/ Poll
  BY <1>4, ProbeEndedWired, WireEndedWired, OthersWired DEF Packages, Answers
<1> QED  BY <1>1, <1>2, <1>3, <1>4, ToolsMoves

(* ensure-hooks is the one that writes the file.                           *)
LEMMA LuaMoves ==
  ASSUME Types, [Next]_vars
  PROVE  world'.lua = world.lua \/ world'.lua = Ensured(world.lua)
<1>1. CASE UNCHANGED toolVars
  BY <1>1 DEF toolVars
<1>2. CASE \E missing \in BOOLEAN : Told(missing)
  BY <1>2 DEF Told, EngineIsMissing, toolVars
<1>3. CASE UserActs
  BY <1>3 DEF UserActs, Check, Install, Update, Ask, CancelConfirm, Confirm, CheckUpdates, Open
<1>4. CASE WireEnded
  <2>1. world' = [world EXCEPT !.lua = Ensured(world.lua)] \/ world' = world
    BY <1>4 DEF WireEnded
  <2>2. world \in [core : BOOLEAN, version : Nat, stamp : Nat, lua : {world.lua}]
    BY DEF Types
  <2> QED  BY <2>1, <2>2
<1>5. CASE ProbeEnded
  BY <1>5 DEF ProbeEnded
<1>6. CASE Packages \/ Poll \/ ProbeReads \/ UpdatesChecked
  BY <1>6, SameLua DEF Packages
<1> QED  BY <1>1, <1>2, <1>3, <1>4, <1>5, <1>6, ToolsMoves DEF Answers

LEMMA StartsWithLua == ASSUME Init PROVE world.lua \in Luas /\ tools.phase = "checking"
<1>1. PICK core \in BOOLEAN, lua \in Luas :
        world = [core |-> core, version |-> IF core THEN 1 ELSE 0,
                 stamp |-> IF core THEN 1 ELSE 0, lua |-> lua]
  BY DEF Init, ToolsInit
<1>2. PICK canInstall \in BOOLEAN :
        tools = [phase |-> "checking", op |-> 0, probing |-> TRUE, installEnded |-> FALSE,
                 seen |-> NoPackage, before |-> NoPackage, canInstall |-> canInstall,
                 confirm |-> ""]
  BY DEF Init, ToolsInit
<1>3. world.lua = lua
  BY <1>1, Zenon
<1>4. tools.phase = "checking"
  BY <1>2, Zenon
<1> QED  BY <1>3, <1>4

(* The panel says that the boot tools are installed only while the login   *)
(* runs them, unless it found them there (CoreInstall.js:175), whatever    *)
(* the user does and the packages do: for a user none of whose lines holds *)
(* the hook's text without being the hook.                                 *)
THEOREM ReadyMeansWired ==
  ASSUME \A lua \in Luas : ~LooksHooked(lua)
  PROVE  Spec => []ReadyIsWired
<1> DEFINE Plain == {line \in LuaLines : line \in DOMAIN Holds => Hook \notin Holds[line]}
           L == Plain \cup {Marker, Hook}
           F == FilesOf(L)
<1>1. Luas \subseteq F
  <2> SUFFICES ASSUME NEW lua \in Luas PROVE lua \in F
    OBVIOUS
  <2>1. lua.lines \in Seq(LuaLines) /\ lua.nl \in BOOLEAN
        /\ lua = [lines |-> lua.lines, nl |-> lua.nl]
    BY LuasAssumption
  <2>2. /\ DOMAIN lua.lines = 1 .. Len(lua.lines) /\ Len(lua.lines) \in Nat
        /\ \A i \in 1 .. Len(lua.lines) : lua.lines[i] \in LuaLines
    BY <2>1
  <2>3. \A i \in 1 .. Len(lua.lines) : lua.lines[i] \in Plain
    BY <2>2 DEF LooksHooked
  <2>4. lua.lines \in Seq(Plain)
    <3> HIDE DEF Plain
    <3>1. lua.lines \in [1 .. Len(lua.lines) -> Plain]
      BY <2>1, <2>3
    <3> QED  BY <2>2, <3>1
  <2>5. lua \in FilesOf(Plain)
    BY <2>1, <2>4 DEF FilesOf
  <2> HIDE DEF Plain
  <2>6. Plain \subseteq L
    OBVIOUS
  <2> HIDE DEF L
  <2> QED  BY <2>5, <2>6, MoreLines
<1>2. EnsureWires(F)
  <2> SUFFICES ASSUME NEW f \in F PROVE Ensured(f) \in F /\ Hooked(Ensured(f))
    BY DEF EnsureWires
  <2>1. {Marker, Hook} \subseteq L
    OBVIOUS
  <2>2. ~LooksHooked(f) \/ Hooked(f)
    <3>1. f.lines \in Seq(L)
      BY DEF FilesOf
    <3>2. \A i \in DOMAIN f.lines : f.lines[i] \in L
      <4> HIDE DEF L
      <4> QED  BY <3>1
    <3>3. Marker \notin DOMAIN Holds
      BY HooksAssumption
    <3>4. \A line \in L : line = Hook \/ ~(line \in DOMAIN Holds /\ Hook \in Holds[line])
      BY <3>3
    <3> HIDE DEF L, F
    <3> QED  BY <3>2, <3>4 DEF LooksHooked, Hooked
  <2> HIDE DEF L
  <2>3. Ensured(f) \in F
    BY <2>1, FilesAreKept
  <2>4. ComesAndGoes(f)
    BY <2>1, EnsuredComesAndGoes
  <2>5. HookedOnce(Ensured(f)) \/ LooksHooked(f) \/ (Ensured(f) = f /\ Hooked(f))
    BY <2>4 DEF ComesAndGoes
  <2>7. Ensured(f) = f \/ HookedOnce(Ensured(f))
    BY InstallIsTakenBack, <2>1 DEF Ensured
  <2> HIDE DEF F
  <2> QED  BY <2>2, <2>3, <2>5, <2>7, OnceIsHooked
<1> HIDE DEF F
<1>3. Init => WiredFit(F)
  BY <1>1, StartsWithLua DEF WiredFit, ReadyIsWired
<1>4. ToolsInv /\ WiredFit(F) /\ [Next]_vars => WiredFit(F)'
  BY <1>2, WiredStep
<1>5. WiredFit(F) => ReadyIsWired
  BY DEF WiredFit
<1> QED  BY <1>3, <1>4, <1>5, InitFits, ToolsStep, PTL DEF Spec

-----------------------------------------------------------------------------
(* The login line comes and goes.                                          *)

LuaFits == world.lua \in FilesOf(LuaLines \cup {Marker, Hook})

LEMMA FilesFit == ASSUME NEW max, NEW f \in Files(max) PROVE f \in FilesOf(LuaLines)
<1>1. PICK n \in 0 .. max : f \in [lines : [1 .. n -> LuaLines], nl : BOOLEAN]
  BY DEF Files
<1>2. f.lines \in [1 .. n -> LuaLines] /\ f.nl \in BOOLEAN
      /\ f = [lines |-> f.lines, nl |-> f.nl] /\ n \in Nat
  BY <1>1
<1>3. f.lines \in Seq(LuaLines)
  BY <1>2
<1> QED  BY <1>2, <1>3 DEF FilesOf

(* The boot wiring comes and goes (hooks.rs:11), for every file the user   *)
(* may have: in every state, what ensure-hooks makes of hyprland.lua       *)
(* leaves the user's lines and the last newline alone, a second time does  *)
(* nothing, and uninstall restores it; and a wiring or an uninstall cut    *)
(* off after any of its writes ends, run again, as if it had not been.     *)
THEOREM LoginLineComesAndGoes == Spec => []HooksComeAndGo
<1> DEFINE L == LuaLines \cup {Marker, Hook}
<1>1. LuaLines \subseteq L /\ {Marker, Hook} \subseteq L
  OBVIOUS
<1> HIDE DEF L
<1>2. \A f \in FilesOf(LuaLines) : f \in FilesOf(L)
  BY <1>1, MoreLines
<1>3. \A f \in FilesOf(L) : ComesAndGoes(f) /\ Ensured(f) \in FilesOf(L)
  BY <1>1, EnsuredComesAndGoes, FilesAreKept
<1>4. Init => LuaFits
  <2>1. Luas \subseteq FilesOf(LuaLines)
    BY LuasAssumption DEF FilesOf
  <2> QED  BY <1>2, <2>1, StartsWithLua DEF LuaFits, L
<1>5. ToolsInv /\ LuaFits /\ [Next]_vars => LuaFits'
  <2> SUFFICES ASSUME Types, LuaFits, [Next]_vars PROVE LuaFits'
    BY DEF ToolsInv
  <2>1. world.lua \in FilesOf(L)
    BY DEF LuaFits, L
  <2>2. world'.lua \in FilesOf(L)
    BY <1>3, <2>1, LuaMoves
  <2> QED  BY <2>2 DEF LuaFits, L
<1>6. LuaFits => HooksComeAndGo
  <2> SUFFICES ASSUME LuaFits PROVE HooksComeAndGo
    OBVIOUS
  <2>1. ComesAndGoes(world.lua)
    BY <1>3 DEF LuaFits, L
  <2>2. \A f \in Files(MaxLines) : ComesAndGoes(f)
    BY <1>2, <1>3, FilesFit
  <2>3. ASSUME NEW lua \in Luas, NEW conf \in Files(2), NEW dir \in Dirs,
               NEW bin \in {"bash engine", "other"}
        PROVE  CutOff([lua |-> lua, conf |-> conf, dir |-> dir, bin |-> bin, plugin |-> TRUE])
    <3> DEFINE d == [lua |-> lua, conf |-> conf, dir |-> dir, bin |-> bin, plugin |-> TRUE]
    <3>1. lua \in FilesOf(L)
      BY <1>2, LuasAssumption DEF FilesOf
    <3>2. conf \in FilesOf(L)
      BY <1>2, FilesFit
    <3>3. dir \in SUBSET Names
      <4>1. dir \subseteq {"config.json", "overrides.json", "relaunch.conf", "relaunch.lua", "rules.lua"}
        BY DEF Dirs
      <4> QED  BY <4>1 DEF Names
    <3>4. bin \in Ends
      BY DEF Ends
    <3>5. d \in Installation(L)
      BY <3>1, <3>2, <3>3, <3>4 DEF Installation
    <3> HIDE DEF d
    <3>6. CutOff(d)
      BY <1>1, <3>5, CutOffOK
    <3> QED  BY <3>6 DEF d
  <2> QED  BY <2>1, <2>2, <2>3 DEF HooksComeAndGo
<1> QED  BY <1>4, <1>5, <1>6, InitFits, ToolsStep, PTL DEF Spec

-----------------------------------------------------------------------------
(* The queue.                                                              *)

(* `line' holds the requests 1 .. n, each once, those through the queue in *)
(* order.                                                                  *)
Kept(line, n, jumped) ==
  /\ Len(line) = n /\ {line[k] : k \in DOMAIN line} = 1 .. n
  /\ \A j, k \in DOMAIN line :
       j < k /\ line[j] \notin jumped /\ line[k] \notin jumped => line[j] < line[k]

(* A sequence of n with n + 1 put in behind its first a.                   *)
LEMMA Spliced ==
  ASSUME NEW n \in Nat, NEW a \in 0 .. n, NEW jumped, NEW jumped1,
         NEW line, NEW more, jumped \subseteq jumped1, a = n \/ n + 1 \in jumped1,
         \A k \in 1 .. a : more[k] = line[k],
         more[a + 1] = n + 1,
         \A k \in a + 2 .. n + 1 : more[k] = line[k - 1],
         {line[k] : k \in 1 .. n} = 1 .. n,
         \A j, k \in 1 .. n :
           j < k /\ line[j] \notin jumped /\ line[k] \notin jumped => line[j] < line[k]
  PROVE  /\ {more[k] : k \in 1 .. n + 1} = 1 .. n + 1
         /\ \A j, k \in 1 .. n + 1 :
              j < k /\ more[j] \notin jumped1 /\ more[k] \notin jumped1 => more[j] < more[k]
<1> DEFINE old(m) == IF m <= a THEN m ELSE m - 1
<1>1. ASSUME NEW m \in 1 .. n + 1, m # a + 1
      PROVE  old(m) \in 1 .. n /\ more[m] = line[old(m)]
  <2>1. CASE m <= a
    <3>1. m \in 1 .. a /\ m \in 1 .. n
      BY <2>1
    <3> QED  BY <2>1, <3>1
  <2>2. CASE ~(m <= a)
    <3>1. m \in a + 2 .. n + 1 /\ m - 1 \in 1 .. n
      BY <1>1, <2>2
    <3> QED  BY <2>2, <3>1
  <2> QED  BY <2>1, <2>2
<1>2. \A m \in 1 .. n + 1 : m # a + 1 => more[m] \in 1 .. n
  BY <1>1
<1>3. ASSUME NEW x \in 1 .. n PROVE \E k \in 1 .. n + 1 : more[k] = x
  <2>0. x \in {line[k] : k \in 1 .. n}
    BY <1>3
  <2>1. PICK m \in 1 .. n : line[m] = x
    BY <2>0
  <2>2. CASE m <= a
    <3>1. m \in 1 .. a /\ m \in 1 .. n + 1
      BY <2>2
    <3> QED  BY <2>1, <3>1
  <2>3. CASE ~(m <= a)
    <3>1. m + 1 \in a + 2 .. n + 1 /\ m + 1 \in 1 .. n + 1 /\ (m + 1) - 1 = m
      BY <2>3
    <3>2. more[m + 1] = line[(m + 1) - 1]
      BY <3>1
    <3> QED  BY <2>1, <3>1, <3>2
  <2> QED  BY <2>2, <2>3
<1>4. a + 1 \in 1 .. n + 1 /\ 1 .. n + 1 = (1 .. n) \cup {n + 1}
  OBVIOUS
<1>5. {more[k] : k \in 1 .. n + 1} = 1 .. n + 1
  BY <1>2, <1>3, <1>4
<1>6. ASSUME NEW j \in 1 .. n + 1, NEW k \in 1 .. n + 1,
             j < k, more[j] \notin jumped1, more[k] \notin jumped1
      PROVE  more[j] < more[k]
  <2>1. CASE j = a + 1
    <3>1. a # n
      BY <1>6, <2>1
    <3> QED  BY <1>6, <2>1, <3>1
  <2>2. CASE k = a + 1
    <3>1. j # a + 1
      BY <1>6, <2>2
    <3>2. more[j] \in 1 .. n
      BY <1>2, <3>1
    <3> QED  BY <2>2, <3>2
  <2>3. CASE j # a + 1 /\ k # a + 1
    <3>1. /\ old(j) \in 1 .. n /\ more[j] = line[old(j)]
          /\ old(k) \in 1 .. n /\ more[k] = line[old(k)]
      BY <1>1, <2>3
    <3>2. old(j) < old(k)
      BY <1>6, <2>3
    <3> HIDE DEF old
    <3> QED  BY <1>6, <3>1, <3>2
  <2> QED  BY <2>1, <2>2, <2>3
<1> QED  BY <1>5, <1>6

(* A request put in behind s.                                              *)
LEMMA KeptInserted ==
  ASSUME NEW s \in Seq(Nat), NEW t \in Seq(Nat), NEW n \in Nat, NEW jumped, NEW jumped1,
         Kept(s \o t, n, jumped), jumped \subseteq jumped1,
         t = <<>> \/ n + 1 \in jumped1
  PROVE  Kept(Append(s, n + 1) \o t, n + 1, jumped1)
<1> DEFINE line == s \o t
           a == Append(s, n + 1)
           more == a \o t
<1>1. /\ a \in Seq(Nat) /\ Len(a) = Len(s) + 1 /\ a[Len(s) + 1] = n + 1
      /\ \A k \in 1 .. Len(s) : a[k] = s[k]
  BY AppendProperties
<1>2. Len(s) \in Nat /\ Len(t) \in Nat /\ (t = <<>> => Len(t) = 0)
  BY LenProperties, EmptySeq
<1>3. /\ line \in Seq(Nat) /\ Len(line) = Len(s) + Len(t)
      /\ \A k \in 1 .. Len(s) + Len(t) : line[k] = IF k <= Len(s) THEN s[k] ELSE t[k - Len(s)]
  BY ConcatProperties
<1> HIDE DEF a
<1>4. /\ more \in Seq(Nat) /\ Len(more) = Len(a) + Len(t)
      /\ \A k \in 1 .. Len(a) + Len(t) : more[k] = IF k <= Len(a) THEN a[k] ELSE t[k - Len(a)]
  BY <1>1, ConcatProperties
<1>5. DOMAIN line = 1 .. Len(line) /\ DOMAIN more = 1 .. Len(more)
  BY <1>3, <1>4, LenProperties
<1>6. Len(line) = n /\ Len(more) = n + 1 /\ Len(s) \in 0 .. n /\ (Len(s) = n \/ n + 1 \in jumped1)
  BY <1>1, <1>2, <1>3, <1>4 DEF Kept
<1>7. /\ {line[k] : k \in 1 .. n} = 1 .. n
      /\ \A j, k \in 1 .. n :
           j < k /\ line[j] \notin jumped /\ line[k] \notin jumped => line[j] < line[k]
  BY <1>5, <1>6 DEF Kept
<1> DEFINE l == Len(s)
           m == Len(t)
<1>8. l \in 0 .. n /\ m \in Nat /\ n = l + m
  BY <1>2, <1>3, <1>6
<1> HIDE DEF line, more
<1>9. /\ \A k \in 1 .. n : line[k] = IF k <= l THEN s[k] ELSE t[k - l]
      /\ \A k \in 1 .. n + 1 : more[k] = IF k <= l + 1 THEN a[k] ELSE t[k - (l + 1)]
      /\ a[l + 1] = n + 1 /\ \A k \in 1 .. l : a[k] = s[k]
  BY <1>1, <1>2, <1>3, <1>4, <1>6
<1> HIDE DEF l, m
<1>10. more[l + 1] = n + 1 /\ \A k \in 1 .. l : more[k] = line[k]
  <2>1. l + 1 \in 1 .. n + 1 /\ l + 1 <= l + 1
    BY <1>8
  <2>2. ASSUME NEW k \in 1 .. l PROVE more[k] = line[k]
    <3>1. k \in 1 .. n /\ k \in 1 .. n + 1 /\ k <= l /\ k <= l + 1
      BY <1>8
    <3> QED  BY <1>9, <3>1
  <2> QED  BY <1>9, <2>1, <2>2
<1>11. ASSUME NEW k \in l + 2 .. n + 1 PROVE more[k] = line[k - 1]
  <2>1. /\ k \in 1 .. n + 1 /\ ~(k <= l + 1) /\ k - 1 \in 1 .. n /\ ~(k - 1 <= l)
        /\ k - (l + 1) = (k - 1) - l
    BY <1>8
  <2> QED  BY <1>9, <2>1
<1>12. /\ {more[k] : k \in 1 .. n + 1} = 1 .. n + 1
       /\ \A j, k \in 1 .. n + 1 :
            j < k /\ more[j] \notin jumped1 /\ more[k] \notin jumped1 => more[j] < more[k]
  <2>1. l = n \/ n + 1 \in jumped1
    BY <1>6 DEF l
  <2>2. /\ l \in 0 .. n /\ jumped \subseteq jumped1 /\ more[l + 1] = n + 1
        /\ \A k \in 1 .. l : more[k] = line[k]
        /\ \A k \in l + 2 .. n + 1 : more[k] = line[k - 1]
    BY <1>8, <1>10, <1>11
  <2> QED  BY <1>7, <2>1, <2>2, Spliced, ZenonT(60)
<1> QED  BY <1>5, <1>6, <1>12 DEF Kept, more, a

(* The request the next turn starts, as a sequence.                        *)
Upcoming == IF startingNext = 0 THEN <<>> ELSE <<startingNext>>

LEMMA NextIsSeq == QueueTypes => Upcoming \in Seq(Nat)
BY DEF QueueTypes, Upcoming

LEMMA KeptMeansKept ==
  RequestsAreKept <=> Kept(Line, requests, direct) /\ (running => ~settled /\ startingNext = 0)
BY Zenon DEF RequestsAreKept, Kept

LEMMA QueueStarts == Init => QueueInv
<1> SUFFICES ASSUME QueueInit PROVE QueueInv
  BY DEF Init
<1>1. /\ requests = 0 /\ requestQueue = <<>> /\ startingNext = 0 /\ started = <<>>
      /\ ~running /\ ~settled /\ direct = {}
  BY DEF QueueInit
<1>2. <<>> \in Seq(Nat) /\ Len(<<>>) = 0
  BY EmptySeq
<1>3. QueueTypes
  BY <1>1, <1>2 DEF QueueTypes
<1>4. Line = <<>>
  <2>1. Line = (<<>> \o <<>>) \o <<>>
    BY <1>1 DEF Line
  <2> QED  BY <1>2, <2>1, ConcatEmptySeq
<1>5. DOMAIN Line = {}
  <2>1. DOMAIN <<>> = 1 .. Len(<<>>)
    BY <1>2, LenProperties
  <2> QED  BY <1>2, <1>4, <2>1
<1>6. Kept(Line, requests, direct)
  BY <1>1, <1>2, <1>4, <1>5 DEF Kept
<1> QED  BY <1>1, <1>3, <1>6, KeptMeansKept DEF QueueInv

(* A request is queued or started at once.                                 *)
LEMMA RunKeeps ==
  ASSUME QueueInv, Run PROVE QueueInv'
<1> DEFINE i == requests + 1
           s == started \o Upcoming
<1>1. QueueTypes /\ Kept(Line, requests, direct) /\ i \in Nat
      /\ (running => ~settled /\ startingNext = 0 /\ lastExitCode = "none")
      /\ (startingNext # 0 => settled)
  BY KeptMeansKept DEF QueueInv, QueueTypes
<1>2. Upcoming \in Seq(Nat) /\ s \in Seq(Nat) /\ Line = s \o requestQueue /\ Line \in Seq(Nat)
  <2>1. Upcoming \in Seq(Nat)
    BY <1>1, NextIsSeq
  <2>2. s \in Seq(Nat)
    BY <1>1, <2>1, ConcatProperties DEF QueueTypes
  <2>3. Line = s \o requestQueue
    BY DEF Line, Upcoming
  <2>4. s \o requestQueue \in Seq(Nat)
    BY <1>1, <2>2, ConcatProperties DEF QueueTypes
  <2> QED  BY <2>1, <2>2, <2>3, <2>4
<1>3. requests' = i /\ UNCHANGED startingNext
  BY DEF Run
<1>4. CASE /\ running \/ startingNext # 0
           /\ requestQueue' = Append(requestQueue, i)
           /\ UNCHANGED <<running, started, direct, lastExitCode, settled>>
  <2>1. requestQueue' \in Seq(Nat)
    BY <1>1, <1>4, AppendProperties DEF QueueTypes
  <2>2. Line' = s \o Append(requestQueue, i)
    BY <1>3, <1>4 DEF Line, Upcoming
  <2>3. Line' = Append(Line, i)
    <3>1. <<i>> \in Seq(Nat) /\ requestQueue \in Seq(Nat)
      BY <1>1 DEF QueueTypes
    <3>2. Append(requestQueue, i) = requestQueue \o <<i>>
      BY <1>1, <3>1, AppendIsConcat
    <3>3. s \o (requestQueue \o <<i>>) = (s \o requestQueue) \o <<i>>
      <4> HIDE DEF s, i
      <4> QED  BY <1>2, <3>1, ConcatAssociative
    <3>4. Append(Line, i) = Line \o <<i>>
      BY <1>1, <1>2, AppendIsConcat
    <3> QED  BY <1>2, <2>2, <3>2, <3>3, <3>4
  <2>4. Kept(Line', i, direct)
    <3>1. <<>> \in Seq(Nat) /\ Line \o <<>> = Line
      BY <1>2, EmptySeq, ConcatEmptySeq
    <3>2. Append(Line, i) \in Seq(Nat)
      BY <1>1, <1>2, AppendProperties
    <3>3. Append(Line, i) \o <<>> = Append(Line, i)
      BY <3>2, ConcatEmptySeq
    <3>4. Kept(Line \o <<>>, requests, direct) /\ requests \in Nat
      BY <1>1, <3>1 DEF QueueTypes
    <3>5. Kept(Append(Line, requests + 1) \o <<>>, requests + 1, direct)
      <4> HIDE DEF i
      <4> QED  BY <1>2, <3>1, <3>4, KeptInserted
    <3> QED  BY <2>3, <3>3, <3>5
  <2>5. Kept(Line, requests, direct)'
    BY <1>3, <1>4, <2>4
  <2>6. RequestsAreKept'
    <3>1. (running => ~settled /\ startingNext = 0)'
      BY <1>1, <1>3, <1>4
    <3> QED  BY <2>5, <3>1 DEF RequestsAreKept, Kept
  <2>7. QueueTypes'
    BY <1>1, <1>3, <1>4, <2>1 DEF QueueTypes
  <2>8. (running => lastExitCode = "none")' /\ (startingNext # 0 => settled)'
    BY <1>1, <1>3, <1>4
  <2> QED  BY <2>6, <2>7, <2>8 DEF QueueInv
<1>5. CASE /\ ~running /\ startingNext = 0
           /\ StartRequest(i) /\ direct' = direct \cup {i} /\ UNCHANGED requestQueue
  <2>1. /\ running' /\ started' = Append(started, i)
        /\ lastExitCode' = "none" /\ ~settled'
    BY <1>5 DEF StartRequest
  <2>2. started' \in Seq(Nat)
    BY <1>1, <2>1, AppendProperties DEF QueueTypes
  <2>3. Line = started \o requestQueue /\ Line' = started' \o requestQueue
    <3>1. started \o <<>> = started /\ started' \o <<>> = started'
      BY <1>1, <2>2, ConcatEmptySeq DEF QueueTypes
    <3> QED  BY <1>3, <1>5, <3>1 DEF Line
  <2>4. Kept(started \o requestQueue, requests, direct)
    BY <1>1, <2>3
  <2>5. Kept(Append(started, requests + 1) \o requestQueue, requests + 1, direct')
    <3>1. started \in Seq(Nat) /\ requestQueue \in Seq(Nat) /\ requests \in Nat
      BY <1>1 DEF QueueTypes
    <3>2. direct \subseteq direct' /\ requests + 1 \in direct'
      BY <1>5
    <3> QED  BY <2>4, <3>1, <3>2, KeptInserted
  <2>6. Kept(Line, requests, direct)'
    BY <1>3, <2>1, <2>3, <2>5
  <2>7. RequestsAreKept'
    <3>1. (running => ~settled /\ startingNext = 0)'
      BY <1>3, <1>5, <2>1
    <3> QED  BY <2>6, <3>1 DEF RequestsAreKept, Kept
  <2>8. QueueTypes'
    BY <1>1, <1>3, <1>5, <2>2 DEF QueueTypes
  <2> QED  BY <1>3, <1>5, <2>1, <2>7, <2>8 DEF QueueInv
<1> QED  BY <1>4, <1>5 DEF Run, decision

(* The one that was to start starts.                                       *)
LEMMA StartNextKeeps ==
  ASSUME QueueInv, StartNext PROVE QueueInv'
<1>1. QueueTypes /\ Kept(Line, requests, direct) /\ startingNext # 0
  BY KeptMeansKept DEF QueueInv, StartNext
<1>2. /\ started' = Append(started, startingNext) /\ startingNext' = 0
      /\ running' /\ ~settled' /\ lastExitCode' = "none"
      /\ UNCHANGED <<requests, requestQueue, direct>>
  BY DEF StartNext, StartRequest
<1>3. started' = started \o <<startingNext>> /\ started' \in Seq(Nat)
  BY <1>1, <1>2, AppendIsConcat, AppendProperties DEF QueueTypes
<1>4. Line' = Line
  <2>1. started' \o <<>> = started'
    BY <1>3, ConcatEmptySeq
  <2>2. Line' = started' \o requestQueue
    BY <1>2, <2>1 DEF Line
  <2>3. Line = (started \o <<startingNext>>) \o requestQueue
    BY <1>1 DEF Line
  <2> QED  BY <1>3, <2>2, <2>3
<1>5. Kept(Line, requests, direct)'
  BY <1>1, <1>2, <1>4
<1>6. RequestsAreKept'
  <2>1. (running => ~settled /\ startingNext = 0)'
    BY <1>2
  <2> QED  BY <1>5, <2>1 DEF RequestsAreKept, Kept
<1>7. QueueTypes'
  BY <1>1, <1>2, <1>3 DEF QueueTypes
<1> QED  BY <1>2, <1>6, <1>7 DEF QueueInv

(* Settling moves the head of the queue to the turn that starts it.        *)
LEMMA SettleKeeps ==
  ASSUME QueueInv, NEW code, NEW seen, NEW failed, Settle(code, seen, failed),
         UNCHANGED <<requests, started, direct>>,
         running' => running /\ code = lastExitCode
  PROVE  QueueInv'
<1>1. QueueTypes /\ Kept(Line, requests, direct)
      /\ (running => ~settled /\ startingNext = 0 /\ lastExitCode = "none")
      /\ (startingNext # 0 => settled)
  BY KeptMeansKept DEF QueueInv
<1>2. lastExitCode' = code
  BY DEF Settle
<1>3. CASE UNCHANGED <<settled, requestQueue, startingNext>>
  <2>1. Line' = Line
    BY <1>3 DEF Line
  <2>2. Kept(Line, requests, direct)'
    BY <1>1, <2>1
  <2>3. RequestsAreKept'
    <3>1. (running => ~settled /\ startingNext = 0)'
      BY <1>1, <1>3
    <3> QED  BY <2>2, <3>1 DEF RequestsAreKept, Kept
  <2> QED  BY <1>1, <1>2, <1>3, <2>3 DEF QueueInv, QueueTypes
<1>4. CASE /\ Decides(code, seen) /\ ~settled /\ settled'
           /\ \/ UNCHANGED <<requestQueue, startingNext>>
              \/ /\ requestQueue # <<>> /\ startingNext' = Head(requestQueue)
                 /\ requestQueue' = Tail(requestQueue)
  <2>1. ~running' /\ startingNext = 0
    BY <1>1, <1>4 DEF Decides
  <2>2. QueueTypes' /\ Line' = Line
    <3>1. CASE UNCHANGED <<requestQueue, startingNext>>
      BY <1>1, <3>1 DEF QueueTypes, Line
    <3>2. CASE /\ requestQueue # <<>> /\ startingNext' = Head(requestQueue)
               /\ requestQueue' = Tail(requestQueue)
      <4>1. requestQueue \in Seq(Nat) /\ started \in Seq(Nat)
        BY <1>1 DEF QueueTypes
      <4>2. Head(requestQueue) \in Nat /\ Tail(requestQueue) \in Seq(Nat)
        BY <3>2, <4>1, HeadTailProperties
      <4>3. QueueTypes'
        BY <1>1, <3>2, <4>2 DEF QueueTypes
      <4>4. requestQueue = <<Head(requestQueue)>> \o Tail(requestQueue)
        BY <3>2, <4>1
      <4>5. Line = started \o requestQueue
        BY <2>1, <4>1, ConcatEmptySeq DEF Line
      <4>6. started \o (<<Head(requestQueue)>> \o Tail(requestQueue))
              = (started \o <<Head(requestQueue)>>) \o Tail(requestQueue)
        <5>1. <<Head(requestQueue)>> \in Seq(Nat)
          BY <4>2
        <5> DEFINE head == <<Head(requestQueue)>>
                   tail == Tail(requestQueue)
        <5> HIDE DEF head, tail
        <5>2. head \in Seq(Nat) /\ tail \in Seq(Nat)
          BY <4>2, <5>1 DEF head, tail
        <5>3. (started \o head) \o tail = started \o (head \o tail)
          BY <4>1, <5>2, ConcatAssociative, SMTT(30)
        <5>4. head = <<Head(requestQueue)>> /\ tail = Tail(requestQueue)
          BY DEF head, tail
        <5> QED  BY <5>3, <5>4, Zenon
      <4>7. startingNext' # 0
        <5>1. Len(requestQueue) \in Nat \ {0} /\ Len(started) \in Nat
          BY <3>2, <4>1, EmptySeq, LenProperties
        <5>2. Head(requestQueue) = requestQueue[1]
          BY <3>2, <4>1
        <5>3. Line[Len(started) + 1] = requestQueue[1] /\ Len(started) + 1 \in DOMAIN Line
          <6>1. /\ Line \in Seq(Nat) /\ Len(Line) = Len(started) + Len(requestQueue)
                /\ \A k \in 1 .. Len(started) + Len(requestQueue) :
                     Line[k] = IF k <= Len(started) THEN started[k]
                               ELSE requestQueue[k - Len(started)]
            BY <4>1, <4>5, ConcatProperties
          <6>2. DOMAIN Line = 1 .. Len(Line)
            BY <6>1, LenProperties
          <6> DEFINE l == Len(started)
          <6>3. l + 1 \in 1 .. l + Len(requestQueue) /\ ~(l + 1 <= l) /\ (l + 1) - l = 1
            BY <5>1
          <6> QED  BY <6>1, <6>2, <6>3
        <5>4. requestQueue[1] \in 1 .. requests
          BY <1>1, <5>3 DEF Kept
        <5> QED  BY <3>2, <5>2, <5>4
      <4>8. Line' = (started \o <<Head(requestQueue)>>) \o Tail(requestQueue)
        BY <3>2, <4>7 DEF Line
      <4> QED  BY <4>3, <4>4, <4>5, <4>6, <4>8
    <3> QED  BY <1>4, <3>1, <3>2
  <2>3. Kept(Line, requests, direct)'
    BY <1>1, <2>2
  <2>4. RequestsAreKept'
    BY <2>1, <2>3 DEF RequestsAreKept, Kept
  <2> QED  BY <1>4, <2>1, <2>2, <2>4 DEF QueueInv
<1> QED  BY <1>3, <1>4 DEF Settle

(* Nothing but `running' changes, and it only drops.                       *)
LEMMA QueueRests ==
  ASSUME QueueInv, running' => running,
         UNCHANGED <<requests, requestQueue, startingNext, started, direct, lastExitCode, settled>>
  PROVE  QueueInv'
<1>1. Line' = Line
  BY DEF Line
<1> QED  BY <1>1 DEF QueueInv, QueueTypes, RequestsAreKept

LEMMA QueueStep == QueueInv /\ [Next]_vars => QueueInv'
<1> SUFFICES ASSUME QueueInv, [Next]_vars PROVE QueueInv'
  OBVIOUS
<1>1. CASE UNCHANGED queueVars
  BY <1>1, QueueRests DEF queueVars, decision
<1>2. CASE Run
  BY <1>2, RunKeeps
<1>3. CASE StartNext
  BY <1>3, StartNextKeeps
<1>4. CASE Recover
  <2>1. CASE UNCHANGED <<decision, requestQueue, startingNext>>
    BY <1>4, <2>1, QueueRests DEF Recover, decision
  <2>2. CASE /\ ~running
             /\ Settle(IF lastExitCode = "none" THEN "127" ELSE lastExitCode, Streams,
                       startFailed \/ lastExitCode = "none")
    BY <1>4, <2>2, SettleKeeps DEF Recover
  <2> QED  BY <1>4, <2>1, <2>2 DEF Recover
<1>5. ASSUME NEW x \in Streams, StreamEnds(x) PROVE QueueInv'
  BY <1>5, SettleKeeps DEF StreamEnds
<1>6. ASSUME NEW code \in ExitCodes, Exits(code) PROVE QueueInv'
  <2>1. PICK early \in SUBSET Streams : Settle(code, saw \cup early, FALSE)
    BY <1>6 DEF Exits
  <2>2. ~running' /\ UNCHANGED <<requests, started, direct>>
    BY <1>6 DEF Exits
  <2> QED  BY <2>1, <2>2, SettleKeeps
<1>7. CASE NeverStarts
  BY <1>7, QueueRests DEF NeverStarts, decision
<1>8. QueueSteps \/ QueueProcess =>
        \/ StartNext \/ Recover \/ NeverStarts
        \/ \E x \in Streams : StreamEnds(x)
        \/ \E code \in ExitCodes : Exits(code)
  BY DEF QueueSteps, Recovers, StreamReports, QueueProcess, RequestExits
<1>9. Request => Run
  BY DEF Request
<1>10. ToolSteps \/ Polls => Run \/ UNCHANGED queueVars
  BY DEF ToolSteps, Wires, Polls
<1> QED  BY <1>1, <1>2, <1>3, <1>4, <1>5, <1>6, <1>7, <1>8, <1>9, <1>10 DEF Next, vars

(* No request is dropped, none is started twice or over a live one, and    *)
(* those that went through the queue start in their order, however the     *)
(* signals of the processes come.                                          *)
THEOREM NothingIsDiscarded == Spec => []RequestsAreKept
<1>1. QueueInv => RequestsAreKept
  BY DEF QueueInv
<1> QED  BY <1>1, QueueStarts, QueueStep, PTL DEF Spec
=============================================================================
