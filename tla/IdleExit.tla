------------------------------ MODULE IdleExit ------------------------------
(***************************************************************************)
(* How long relaunchd lives (relaunchd main.rs): the bus starts it for a   *)
(* call, and every IdleSecs its main loop asks whether it may leave.  The  *)
(* loop and the calls run on different threads and share two atomic        *)
(* numbers and the engine's slot, each read by itself.  What a call does   *)
(* in between is Authority's; here it is under way or not.                 *)
(***************************************************************************)
EXTENDS Integers, FiniteSets

CONSTANTS
  Prepares,   \* calls of Prepare that may come
  Commits,    \* calls of Authorize, Reduce and Purge that may come
  IdleSecs,   \* positive, as the next two: IDLE_EXIT_SECS
  LeaseSecs,  \* how long a slot is held
  MaxTime     \* bound on the time that passes

Calls == Prepares \cup Commits

VARIABLES
  now,        \* the monotonic clock
  call,       \* call -> what it is at
  inflight,   \* Activity: calls under way
  lastDone,   \* Activity: when the last one ended
  lease,      \* when the open slot's lease ends; 0 when there is none
  main        \* the main loop: [at, since (when its sleep began)]

vars == <<now, call, inflight, lastDone, lease, main>>

Stages == {"none", "caller", "busy", "worked", "stamped", "done"}

TypeOK ==
  /\ now \in 0 .. MaxTime /\ lastDone \in 0 .. MaxTime /\ lease \in 0 .. MaxTime + LeaseSecs
  /\ call \in [Calls -> Stages] /\ inflight \in 0 .. Cardinality(Calls)
  /\ main \in [at : {"sleep", "count", "slot", "clock", "idle", "lost"}, since : 0 .. MaxTime]

AnyPending == lease > now
Runs == main.at \notin {"idle", "lost"}

Init ==
  /\ now = 0 /\ lastDone = 0 /\ lease = 0
  /\ call = [c \in Calls |-> "none"]
  /\ inflight = 0
  /\ main = [at |-> "sleep", since |-> 0]

-----------------------------------------------------------------------------
(* A call: its sender is looked up on the bus, then it is counted, then    *)
(* run on the blocking pool; when it ends the time is stored first and the *)
(* count goes down after.                                                  *)

Goes(c, from, to) == Runs /\ call[c] = from /\ call' = [call EXCEPT ![c] = to]

Arrives(c) == Goes(c, "none", "caller") /\ UNCHANGED <<now, inflight, lastDone, lease, main>>

BusyNew(c) ==
  /\ Goes(c, "caller", "busy")
  /\ inflight' = inflight + 1
  /\ UNCHANGED <<now, lastDone, lease, main>>

(* A Prepare may be refused; a Purge or a commit leaves no slot behind.    *)
Work(c) ==
  /\ Goes(c, "busy", "worked")
  /\ lease' \in IF c \in Commits THEN {0} ELSE IF AnyPending THEN {lease} ELSE {lease, now + LeaseSecs}
  /\ UNCHANGED <<now, inflight, lastDone, main>>

BusyStamp(c) ==
  /\ Goes(c, "worked", "stamped")
  /\ lastDone' = now
  /\ UNCHANGED <<now, inflight, lease, main>>

BusyDrop(c) ==
  /\ Goes(c, "stamped", "done")
  /\ inflight' = inflight - 1
  /\ UNCHANGED <<now, lastDone, lease, main>>

-----------------------------------------------------------------------------
(* The main loop: three reads, each of which may send it back to sleep.    *)

Sleeps == main' = [at |-> "sleep", since |-> now]
Loop(at, ahead, next) ==
  /\ main.at = at
  /\ IF ahead THEN main' = [main EXCEPT !.at = next] ELSE Sleeps
  /\ UNCHANGED <<now, call, inflight, lastDone, lease>>

Wake == now >= main.since + IdleSecs /\ Loop("sleep", TRUE, "count")
ReadInflight == Loop("count", inflight = 0, "slot")
ReadPending == Loop("slot", ~AnyPending, "clock")
ReadLastDone == Loop("clock", now - lastDone >= IdleSecs, "idle")
NameLost == Loop("sleep", TRUE, "lost")

TimePasses ==
  /\ Runs /\ now < MaxTime
  /\ now' = now + 1
  /\ UNCHANGED <<call, inflight, lastDone, lease, main>>

Next ==
  \/ \E c \in Calls : Arrives(c) \/ BusyNew(c) \/ Work(c) \/ BusyStamp(c) \/ BusyDrop(c)
  \/ Wake \/ ReadInflight \/ ReadPending \/ ReadLastDone \/ NameLost
  \/ TimePasses

Spec == Init /\ [][Next]_vars

-----------------------------------------------------------------------------
(* "the service never exits mid-lease/commit" (engine.rs:549-550): when    *)
(* the loop leaves because it is idle, no call is under way and no slot is *)
(* leased.                                                                 *)
NeverExitsMidLease ==
  main.at = "idle" => ~AnyPending /\ \A c \in Calls : call[c] \in {"none", "caller", "done"}
=============================================================================
