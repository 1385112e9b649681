----------------------------- MODULE PanelQueue -----------------------------
(***************************************************************************)
(* The panel's engine requests (Panel.qml: run, startRequest, settle): one *)
(* process, a queue behind it, and a request that is settled once its exit *)
(* and the ends of its two streams have been seen, in whatever order they  *)
(* come; one event-loop turn after the process is gone it is settled       *)
(* anyway.  The signals do not say which request they belong to: a stream  *)
(* that ends late counts for whichever request is current by then.         *)
(*                                                                         *)
(* A request is its number in the order of the calls of run.  Every action *)
(* is one handler of the event loop.                                       *)
(***************************************************************************)
EXTENDS Integers, Sequences, FiniteSets

CONSTANT MaxRequests     \* requests made (bounds the model)

ASSUME MaxRequestsAssumption == MaxRequests \in Nat

VARIABLES
  requests,      \* how many were made
  requestQueue,
  current,       \* the request startRequest was last called for
  running,       \* actionProc.running
  streams,       \* how many ends of each are still to be reported
  recovering,    \* recoverIfUnsettled waits for the next turn
  startingNext,  \* the request the next turn starts, or 0
  lastExitCode,  \* "none" until an exit is seen or inferred
  saw,           \* the streams seen to end
  startFailed, settled, busy,
  started,       \* history: the requests started, in order
  direct         \* history: those among them that run started itself

decision == <<lastExitCode, saw, startFailed, settled>>
queueVars == <<requests, requestQueue, current, running, streams, recovering,
               startingNext, decision, busy, started, direct>>

Requests == 1 .. MaxRequests
Streams == {"stdout", "stderr"}
ExitCodes == {"0", "1", "127"}

QueueTypeOK ==
  /\ requests \in 0 .. MaxRequests
  /\ requestQueue \in Seq(Requests) /\ started \in Seq(Requests)
  /\ current \in 0 .. requests /\ startingNext \in 0 .. requests
  /\ running \in BOOLEAN /\ recovering \in BOOLEAN
  /\ streams \in [Streams -> 0 .. MaxRequests]
  /\ lastExitCode \in ExitCodes \cup {"none"} /\ saw \subseteq Streams
  /\ startFailed \in BOOLEAN /\ settled \in BOOLEAN /\ busy \in BOOLEAN
  /\ direct \subseteq Requests

QueueInit ==
  /\ requests = 0 /\ requestQueue = <<>> /\ current = 0
  /\ running = FALSE /\ streams = [x \in Streams |-> 0] /\ recovering = FALSE /\ startingNext = 0
  /\ lastExitCode = "none" /\ saw = {} /\ startFailed = FALSE /\ settled = FALSE
  /\ busy = FALSE /\ started = <<>> /\ direct = {}

-----------------------------------------------------------------------------
StartRequest(i) ==
  /\ current' = i /\ running' = TRUE /\ busy' = TRUE
  /\ started' = Append(started, i)
  /\ lastExitCode' = "none" /\ saw' = {} /\ startFailed' = FALSE /\ settled' = FALSE

(* Mutant: only a running process makes a request wait.                    *)
RunUnlessRunning ==
  LET i == requests + 1 IN
  /\ requests < MaxRequests
  /\ requests' = i
  /\ IF running
     THEN /\ requestQueue' = Append(requestQueue, i)
          /\ busy' = TRUE
          /\ UNCHANGED <<current, running, started, direct, decision>>
     ELSE /\ StartRequest(i)
          /\ direct' = direct \cup {i}
          /\ UNCHANGED requestQueue
  /\ UNCHANGED <<streams, recovering, startingNext>>

(* run: at once if no process runs and none is about to, else queued.      *)
Run ==
  LET i == requests + 1 IN
  /\ requests < MaxRequests
  /\ requests' = i
  /\ IF running \/ startingNext # 0
     THEN /\ requestQueue' = Append(requestQueue, i)
          /\ busy' = TRUE
          /\ UNCHANGED <<current, running, started, direct, decision>>
     ELSE /\ StartRequest(i)
          /\ direct' = direct \cup {i}
          /\ UNCHANGED requestQueue
  /\ UNCHANGED <<streams, recovering, startingNext>>

(* The turn after settle: the next request, whatever happened since.       *)
StartNext ==
  /\ startingNext # 0
  /\ StartRequest(startingNext)
  /\ startingNext' = 0
  /\ UNCHANGED <<requests, requestQueue, streams, recovering, direct>>

(* settle, with `code', `seen' and `failed' as the signal left them.       *)
Decides(code, seen) == code # "none" /\ seen = Streams

Settle(code, seen, failed) ==
  /\ lastExitCode' = code /\ saw' = seen /\ startFailed' = failed
  /\ IF ~Decides(code, seen) \/ settled
     THEN UNCHANGED <<settled, requestQueue, startingNext, busy>>
     ELSE /\ settled' = TRUE
          /\ IF requestQueue = <<>>
             THEN busy' = FALSE /\ UNCHANGED <<requestQueue, startingNext>>
             ELSE /\ startingNext' = Head(requestQueue)
                  /\ requestQueue' = Tail(requestQueue)
                  /\ UNCHANGED busy

(* decideStatus tells the boot tools: nothing could be run, or the shim's  *)
(* "engine is not installed".                                              *)
EngineMissing(code, seen, failed) ==
  Decides(code, seen) /\ (failed \/ code = "127")

-----------------------------------------------------------------------------
(* The process, from outside.                                              *)

(* It exits: `running' drops and onExited runs, in one turn; its streams   *)
(* may have ended before or may still be read.                             *)
Exits(code) ==
  /\ running /\ running' = FALSE
  /\ recovering' = TRUE
  /\ \E early \in SUBSET Streams :
       /\ streams' = [x \in Streams |-> IF x \in early THEN streams[x] ELSE streams[x] + 1]
       /\ Settle(code, saw \cup early, FALSE)
  /\ UNCHANGED <<requests, current, started, direct>>

(* It cannot be executed: `running' drops and nothing else is ever said.   *)
NeverStarts ==
  /\ running /\ running' = FALSE
  /\ recovering' = TRUE
  /\ UNCHANGED <<requests, requestQueue, current, streams, startingNext, decision, busy,
                 started, direct>>

StreamEnds(x) ==
  /\ streams[x] > 0
  /\ streams' = [streams EXCEPT ![x] = @ - 1]
  /\ Settle(lastExitCode, saw \cup {x}, startFailed)
  /\ UNCHANGED <<requests, current, running, recovering, started, direct>>

(* Mutant: only a request that has exited is recovered.                    *)
RecoverExited ==
  /\ recovering /\ recovering' = FALSE
  /\ IF settled \/ running \/ lastExitCode = "none"
     THEN UNCHANGED <<decision, requestQueue, startingNext, busy>>
     ELSE Settle(lastExitCode, Streams, startFailed)
  /\ UNCHANGED <<requests, current, running, streams, started, direct>>

(* recoverIfUnsettled: without an exit code the process never started.     *)
Recover ==
  /\ recovering /\ recovering' = FALSE
  /\ IF settled \/ running
     THEN UNCHANGED <<decision, requestQueue, startingNext, busy>>
     ELSE Settle(IF lastExitCode = "none" THEN "127" ELSE lastExitCode, Streams,
                 startFailed \/ lastExitCode = "none")
  /\ UNCHANGED <<requests, current, running, streams, started, direct>>

Signals == Recover \/ StartNext \/ \E x \in Streams : StreamEnds(x)
ProcessEnds == NeverStarts \/ \E code \in ExitCodes : Exits(code)

-----------------------------------------------------------------------------
(* The requests in the order they were, are about to be and will be        *)
(* started in.                                                             *)
Line == started \o (IF startingNext = 0 THEN <<>> ELSE <<startingNext>>) \o requestQueue

(* "Nothing is discarded" (Panel.qml:249): a request was started, or       *)
(* waits in the queue, or is the one about to start, once and in one       *)
(* place; a request counts as settled only when its process is gone, so    *)
(* none is started over a live one.  And those that went through the queue *)
(* are started in the order they came: only a request made between the     *)
(* exit of a process and its settling overtakes them.                      *)
RequestsAreKept ==
  /\ Len(Line) = requests /\ {Line[k] : k \in DOMAIN Line} = 1 .. requests
  /\ \A j, k \in DOMAIN Line :
       j < k /\ Line[j] \notin direct /\ Line[k] \notin direct => Line[j] < Line[k]
  /\ running => ~settled /\ startingNext = 0

(* The panel never stays on "Working..." with every control dead: however  *)
(* a process ends, its request is settled, and the panel is free again     *)
(* once the queue is empty (recoverIfUnsettled, Panel.qml:325).            *)
QueueDrains == []<>(~busy /\ requestQueue = <<>>)
=============================================================================
