---------------------------- MODULE PanelChange ----------------------------
(***************************************************************************)
(* One change after another to the signed list, from the user's click to   *)
(* the installed document: the panel's state machine (TxnLifecycle.js) and *)
(* the processes it runs (Panel.qml), relaunchctl's driver for each helper *)
(* (relaunchctl/src/driver.rs), the pipes between them, and what the       *)
(* driver can see of relaunchd, whose own steps are Authority's.           *)
(*                                                                         *)
(* A process is named by its attempt and its kind.  The proposal, the ops, *)
(* the review's text and every message are left out; a document is known   *)
(* by its attempt and by the generation it was signed with.                *)
(***************************************************************************)
EXTENDS Integers, Sequences, FiniteSets

CONSTANT MaxAttempts   \* changes a behaviour may start (bounds the model)

ASSUME AttemptsAssumption == MaxAttempts \in Nat \ {0}

VARIABLES
  shell,      \* whether the shell, and the panel in it, is running
  s,          \* the panel's state machine
  outcome,    \* history: attempt -> how it was resolved
  shown,      \* history: attempts whose review has been on the panel
  engine,     \* attempt -> its engine process
  reply,      \* attempt -> what its engine said
  base,       \* attempt -> the generation of the config.json its engine read
  helper,     \* attempt -> the step its relaunchctl is at
  stdin,      \* attempt -> frames written to its helper and not yet read
  stdout,     \* attempt -> events its helper wrote and the panel has not read
  sigterm,    \* processes that were told to stop
  txn,        \* attempt -> its call or transaction, as the service has it
  head,       \* the generation the service has published
  doc,        \* attempt -> the generation of its document, 0 for none
  queue,      \* attempts whose document waits for the engine to install it
  installed   \* the generation of the config.json in place, 0 for none

panel == <<s, outcome, shown>>
engines == <<engine, reply, base>>
pipes == <<stdin, stdout>>
service == <<txn, head, doc>>
install == <<queue, installed>>
vars == <<shell, panel, engines, helper, pipes, sigterm, service, install>>

Attempt == 1 .. MaxAttempts
Kinds == {"propose", "commit"}
NoChild == [attempt |-> 0, kind |-> "", running |-> FALSE]
Child == {NoChild} \cup [attempt : Attempt, kind : Kinds, running : BOOLEAN]
Machine == [attempt : 0 .. MaxAttempts, resolved : BOOLEAN, committing : BOOLEAN,
            authorizing : BOOLEAN, review : BOOLEAN, asking : BOOLEAN,
            mode : {"", "commit", "reduce"}, child : Child]
Replies == {"", "commit", "dropping", "reduce", "failed"}
HelperSteps == {"none", "spawned", "request", "prepare", "decision", "authorize", "reduce",
                "down", "reported"}
Alive == HelperSteps \ {"none", "down", "reported"}
Answers == {"prepared", "nothing", "committed", "error"}
Records == {"none", "preparing", "prepared", "nothing", "refused", "checking", "signed",
            "reducing", "gone"}
Open == {"prepared", "checking"}

(* Types, and what every handler relies on: ownership, the child and the   *)
(* question or review on screen belong to an attempt still going on.       *)
TypeOK ==
  /\ shell \in BOOLEAN /\ s \in Machine
  /\ outcome \in [Attempt -> {"", "committed", "nothing", "error", "cancelled"}]
  /\ shown \subseteq Attempt
  /\ engine \in [Attempt -> {"none", "up", "down", "reported"}]
  /\ reply \in [Attempt -> Replies] /\ base \in [Attempt -> 0 .. MaxAttempts]
  /\ helper \in [Attempt -> HelperSteps]
  /\ \A n \in Attempt : /\ stdin[n] \in Seq({"request", "authorize"}) /\ Len(stdin[n]) <= 2
                        /\ stdout[n] \in Seq(Answers) /\ Len(stdout[n]) <= 2
  /\ sigterm \subseteq Attempt \X Kinds
  /\ txn \in [Attempt -> Records] /\ doc \in [Attempt -> 0 .. MaxAttempts]
  /\ head \in 0 .. MaxAttempts /\ installed \in 0 .. MaxAttempts
  /\ queue \in Seq(Attempt) /\ Len(queue) <= MaxAttempts
  /\ s.committing <=> (~s.resolved \/ s.child.running)
  /\ s.review \/ s.asking \/ s.authorizing => ~s.resolved

Init ==
  /\ shell = TRUE
  /\ s = [attempt |-> 0, resolved |-> TRUE, committing |-> FALSE, authorizing |-> FALSE,
          review |-> FALSE, asking |-> FALSE, mode |-> "", child |-> NoChild]
  /\ outcome = [n \in Attempt |-> ""] /\ shown = {}
  /\ engine = [n \in Attempt |-> "none"] /\ reply = [n \in Attempt |-> ""]
  /\ base = [n \in Attempt |-> 0] /\ helper = [n \in Attempt |-> "none"]
  /\ stdin = [n \in Attempt |-> <<>>] /\ stdout = [n \in Attempt |-> <<>>]
  /\ sigterm = {}
  /\ txn = [n \in Attempt |-> "none"] /\ doc = [n \in Attempt |-> 0]
  /\ head = 0 /\ queue = <<>> /\ installed = 0

-----------------------------------------------------------------------------
(* The state machine's own steps, as functions of its state.               *)

Live(n) == n = s.attempt /\ ~s.resolved

(* Mutant: every input of the current attempt counts, resolved or not.     *)
CurrentOnly(n) == n = s.attempt

(* Whether a line of helper n is listened to.                              *)
Listens(n) == Live(n)

Cleared(st) ==
  [st EXCEPT !.resolved = TRUE, !.authorizing = FALSE, !.review = FALSE, !.asking = FALSE]

(* Mutant: only the end of a child releases ownership.                     *)
ResolvedKept(st) == Cleared(st)

(* The one terminal transition.  A running child keeps ownership until it  *)
(* has ended; without one nothing else would release it.                   *)
Resolved(st) ==
  [Cleared(st) EXCEPT !.committing = st.committing /\ st.child.running,
                      !.child = IF st.child.running THEN @ ELSE NoChild]

ChildEnded(st, n, kind) ==
  LET running == st.child.running /\ ~(st.child.attempt = n /\ st.child.kind = kind) IN
  IF n = st.attempt /\ st.resolved /\ ~running
  THEN [st EXCEPT !.committing = FALSE, !.child = NoChild]
  ELSE [st EXCEPT !.child.running = running]

WithChild(st, kind) == [st EXCEPT !.child = [attempt |-> st.attempt, kind |-> kind, running |-> TRUE]]

(* SIGTERM for the child of a state about to be resolved.                  *)
Terminate(st) ==
  sigterm' = sigterm \cup (IF st.child.running THEN {<<st.child.attempt, st.child.kind>>} ELSE {})

Resolve(how) ==
  \/ s.resolved /\ UNCHANGED <<s, outcome, sigterm>>
  \/ /\ ~s.resolved
     /\ s' = Resolved(s)
     /\ outcome' = [outcome EXCEPT ![s.attempt] = how]
     /\ Terminate(s)

SpawnHelper(st) ==
  /\ s' = WithChild(st, "commit")
  /\ helper' = [helper EXCEPT ![st.attempt] = "spawned"]

-----------------------------------------------------------------------------
(* The user.  One change runs at a time: a start while another is owned    *)
(* is refused and changes nothing here.                                    *)
Start ==
  /\ shell /\ ~s.committing
  /\ s.attempt < MaxAttempts
  /\ LET n == s.attempt + 1 IN
       /\ s' = WithChild([s EXCEPT !.attempt = n, !.resolved = FALSE, !.committing = TRUE,
                                   !.authorizing = FALSE, !.review = FALSE, !.mode = ""],
                         "propose")
       /\ engine' = [engine EXCEPT ![n] = "up"]
  /\ UNCHANGED <<shell, outcome, shown, reply, base, helper, pipes, sigterm, service, install>>

ConfirmReplace ==
  /\ shell /\ s.asking /\ ~s.resolved
  /\ SpawnHelper([s EXCEPT !.asking = FALSE])
  /\ UNCHANGED <<shell, outcome, shown, engines, pipes, sigterm, service, install>>

KeepPins ==
  /\ shell /\ s.asking /\ ~s.resolved
  /\ Resolve("cancelled")
  /\ UNCHANGED <<shell, shown, engines, helper, pipes, service, install>>

(* Mutant: the review need not be there.                                   *)
MayAuthorizeBlind == s.child.kind = "commit" /\ Live(s.child.attempt) /\ ~s.authorizing

MayAuthorize ==
  s.child.kind = "commit" /\ Live(s.child.attempt) /\ s.review /\ ~s.authorizing

Authorize ==
  /\ shell /\ MayAuthorize
  /\ stdin' = [stdin EXCEPT ![s.attempt] = Append(@, "authorize")]
  /\ s' = [s EXCEPT !.authorizing = TRUE]
  /\ UNCHANGED <<shell, outcome, shown, engines, helper, stdout, sigterm, service, install>>

(* The Cancel button, Escape, or the panel closing.                        *)
Cancel ==
  /\ shell /\ s.committing
  /\ Resolve("cancelled")
  /\ UNCHANGED <<shell, shown, engines, helper, pipes, service, install>>

(* The shell exits or crashes: the panel's memory goes, the helpers see    *)
(* EOF, and of the queued installs at most the one being run goes on.      *)
ShellDies ==
  /\ shell
  /\ shell' = FALSE
  /\ queue' \in {<<>>} \cup {<<queue[i]>> : i \in DOMAIN queue \cap {1}}
  /\ UNCHANGED <<panel, engines, helper, pipes, sigterm, service, installed>>

-----------------------------------------------------------------------------
(* The engine process: it reads config.json, answers and exits, or fails,  *)
(* does not start at all, or is killed.                                    *)
EngineRuns(n) ==
  /\ engine[n] = "up"
  /\ engine' = [engine EXCEPT ![n] = "down"]
  /\ \E r \in Replies \ {""} :
       /\ <<n, "propose">> \in sigterm => r = "failed"
       /\ reply' = [reply EXCEPT ![n] = r]
  /\ base' = [base EXCEPT ![n] = installed]
  /\ UNCHANGED <<shell, panel, helper, pipes, sigterm, service, install>>

(* Reported to the panel once its exit and both streams are in.            *)
ProposeEnded(n) ==
  LET ended == ChildEnded(s, n, "propose") IN
  /\ shell /\ engine[n] = "down"
  /\ engine' = [engine EXCEPT ![n] = "reported"]
  /\ \/ /\ ~Live(n)
        /\ s' = ended
        /\ UNCHANGED <<outcome, helper, sigterm>>
     \/ /\ Live(n) /\ reply[n] = "failed"
        /\ s' = ChildEnded(Resolved(s), n, "propose")
        /\ outcome' = [outcome EXCEPT ![n] = "error"]
        /\ Terminate(s)
        /\ UNCHANGED helper
     \/ /\ Live(n) /\ reply[n] = "dropping"
        /\ s' = [ended EXCEPT !.mode = "commit", !.asking = TRUE]
        /\ UNCHANGED <<outcome, helper, sigterm>>
     \/ /\ Live(n) /\ reply[n] \in {"commit", "reduce"}
        /\ SpawnHelper([ended EXCEPT !.mode = reply[n]])
        /\ UNCHANGED <<outcome, sigterm>>
  /\ UNCHANGED <<shell, shown, reply, base, pipes, service, install>>

-----------------------------------------------------------------------------
(* relaunchctl: the driver's steps.  A helper that exits says at most one  *)
(* last thing.                                                             *)
Exits(n, said) ==
  /\ helper' = [helper EXCEPT ![n] = "down"]
  /\ stdout' = [stdout EXCEPT ![n] = @ \o said]

(* The process is started (or cannot be); the panel writes the request if  *)
(* the attempt is still live, and tells the helper to go if it is not.     *)
CommitStarted(n) ==
  /\ helper[n] = "spawned"
  /\ \/ /\ helper' = [helper EXCEPT ![n] = "request"]
        /\ stdin' = IF shell /\ Live(n) THEN [stdin EXCEPT ![n] = Append(@, "request")] ELSE stdin
        /\ sigterm' = sigterm \cup (IF shell /\ ~Live(n) THEN {<<n, "commit">>} ELSE {})
     \/ helper' = [helper EXCEPT ![n] = "down"] /\ UNCHANGED <<stdin, sigterm>>
  /\ UNCHANGED <<shell, panel, engines, stdout, service, install>>

Killed(n) ==
  /\ <<n, "commit">> \in sigterm /\ helper[n] \in Alive
  /\ Exits(n, <<>>)
  /\ UNCHANGED <<shell, panel, engines, stdin, sigterm, service, install>>

(* What a read of the input returns: the next frame, or EOF once the shell *)
(* is gone; nothing is ready otherwise.                                    *)
Ready(n) == stdin[n] # <<>> \/ ~shell
Eof(n) == stdin[n] = <<>> /\ ~shell
Consumes(n) == stdin' = [stdin EXCEPT ![n] = IF @ = <<>> THEN <<>> ELSE Tail(@)]

ReadRequest(n) ==
  /\ helper[n] = "request" /\ Ready(n)
  /\ Consumes(n)
  /\ \/ Exits(n, <<"error">>) /\ UNCHANGED txn        \* EOF, a bad frame, no bus
     \/ /\ ~Eof(n) /\ reply[n] # "reduce"
        /\ helper' = [helper EXCEPT ![n] = "prepare"]
        /\ txn' = [txn EXCEPT ![n] = "preparing"]
        /\ UNCHANGED stdout
     \/ /\ ~Eof(n) /\ reply[n] = "reduce"
        /\ helper' = [helper EXCEPT ![n] = "reduce"]
        /\ txn' = [txn EXCEPT ![n] = "reducing"]
        /\ UNCHANGED stdout
  /\ UNCHANGED <<shell, panel, engines, sigterm, head, doc, install>>

Prepared(n) ==
  /\ helper[n] = "prepare"
  /\ \/ /\ txn[n] \in {"prepared", "gone"}
        /\ helper' = [helper EXCEPT ![n] = "decision"]
        /\ stdout' = [stdout EXCEPT ![n] = Append(@, "prepared")]
     \/ txn[n] = "nothing" /\ Exits(n, <<"nothing">>)
     \/ txn[n] = "refused" /\ Exits(n, <<"error">>)
  /\ UNCHANGED <<shell, panel, engines, stdin, sigterm, service, install>>

(* The human pause: only an authorize frame goes on.  A transaction that   *)
(* is gone by now is refused.                                              *)
Decision(n) ==
  /\ helper[n] = "decision" /\ Ready(n)
  /\ Consumes(n)
  /\ \/ Eof(n) /\ Exits(n, <<>>) /\ UNCHANGED txn
     \/ /\ ~Eof(n)
        /\ helper' = [helper EXCEPT ![n] = "authorize"]
        /\ txn' = [txn EXCEPT ![n] = IF @ = "prepared" THEN "checking" ELSE "refused"]
        /\ UNCHANGED stdout
  /\ UNCHANGED <<shell, panel, engines, sigterm, head, doc, install>>

(* While the check is out the input is watched, and looked at first: EOF   *)
(* withdraws, a second authorize is ignored.                               *)
Withdraws(n) ==
  /\ helper[n] = "authorize" /\ Ready(n)
  /\ Consumes(n)
  /\ IF Eof(n) THEN Exits(n, <<>>) ELSE UNCHANGED <<helper, stdout>>
  /\ UNCHANGED <<shell, panel, engines, sigterm, service, install>>

AuthorizeEnds(n) ==
  /\ helper[n] = "authorize" /\ ~Ready(n)
  /\ \/ txn[n] = "signed" /\ Exits(n, <<"committed">>)
     \/ txn[n] \in {"refused", "gone"} /\ Exits(n, <<"error">>)
  /\ UNCHANGED <<shell, panel, engines, stdin, sigterm, service, install>>

ReduceEnds(n) ==
  /\ helper[n] = "reduce"
  /\ \/ txn[n] = "signed" /\ Exits(n, <<"committed">>)
     \/ txn[n] = "refused" /\ Exits(n, <<"error">>)
  /\ UNCHANGED <<shell, panel, engines, stdin, sigterm, service, install>>

HelperRuns(n) ==
  CommitStarted(n) \/ Killed(n) \/ ReadRequest(n) \/ Prepared(n) \/ Decision(n)
    \/ Withdraws(n) \/ AuthorizeEnds(n) \/ ReduceEnds(n)

-----------------------------------------------------------------------------
(* relaunchd, as its clients see it: one transaction at a time, a base     *)
(* that does not verify shows every row as new to a Prepare (so it opens a *)
(* transaction all the same) and is an error to a Reduce.                  *)
TakenAway == [m \in Attempt |-> IF txn[m] \in Open THEN "gone" ELSE txn[m]]
OutsideService == <<shell, panel, engines, helper, pipes, sigterm, install>>

Prepares(n) ==
  /\ txn[n] = "preparing"
  /\ \E record \in {"prepared", "nothing", "refused"} :
       /\ record = "nothing" => base[n] = head
       /\ (\E m \in Attempt : txn[m] \in Open) => record = "refused"
       /\ txn' = [txn EXCEPT ![n] = record]
  /\ UNCHANGED <<head, doc, OutsideService>>

Signs(n) ==
  /\ txn[n] = "checking"
  /\ txn' = [txn EXCEPT ![n] = "signed"]
  /\ head' = head + 1 /\ doc' = [doc EXCEPT ![n] = head + 1]
  /\ UNCHANGED OutsideService

Refuses(n) ==
  /\ txn[n] \in {"checking", "reducing"}
  /\ txn' = IF txn[n] = "reducing" THEN [TakenAway EXCEPT ![n] = "refused"]
            ELSE [txn EXCEPT ![n] = "refused"]
  /\ UNCHANGED <<head, doc, OutsideService>>

Reduces(n) ==
  /\ txn[n] = "reducing"
  /\ head # 0 /\ base[n] = head
  /\ txn' = [TakenAway EXCEPT ![n] = "signed"]
  /\ head' = head + 1 /\ doc' = [doc EXCEPT ![n] = head + 1]
  /\ UNCHANGED OutsideService

(* The connection of a helper that has exited is gone.                     *)
Sweeps(n) ==
  /\ helper[n] \in {"down", "reported"} /\ txn[n] \in Open
  /\ txn' = [txn EXCEPT ![n] = "gone"]
  /\ UNCHANGED <<head, doc, OutsideService>>

LeaseEnds(n) ==
  /\ txn[n] \in Open
  /\ txn' = [txn EXCEPT ![n] = "gone"]
  /\ UNCHANGED <<head, doc, OutsideService>>

ServiceRuns(n) == Prepares(n) \/ Refuses(n) \/ Reduces(n) \/ Sweeps(n)

-----------------------------------------------------------------------------
(* What the panel hears from a helper.                                     *)

(* fx.install: the request waits its turn, and none is dropped.            *)
Install(n) == queue' = Append(queue, n)

CommitLine(n) ==
  LET line == Head(stdout[n]) IN
  /\ shell /\ stdout[n] # <<>>
  /\ stdout' = [stdout EXCEPT ![n] = Tail(@)]
  /\ \/ /\ ~Listens(n) \/ (line = "prepared" /\ (s.mode # "commit" \/ s.review))
        /\ UNCHANGED <<panel, sigterm, queue>>
     \/ /\ Listens(n) /\ line = "prepared" /\ s.mode = "commit" /\ ~s.review
        /\ s' = [s EXCEPT !.review = TRUE]
        /\ shown' = shown \cup {n}
        /\ UNCHANGED <<outcome, sigterm, queue>>
     \/ /\ Listens(n) /\ line = "committed"
        /\ Resolve("committed") /\ Install(n)
        /\ UNCHANGED shown
     \/ /\ Listens(n) /\ line \in {"nothing", "error"}
        /\ Resolve(line)
        /\ UNCHANGED <<shown, queue>>
  /\ UNCHANGED <<shell, engines, helper, stdin, service, installed>>

(* Mutant: the helper's end is told in the turn it is noticed in.          *)
ToldAtOnce(n) == helper[n] = "down"

(* The end is told one turn of the event loop after it is noticed, when    *)
(* the lines that came with it have been read.                             *)
Told(n) == helper[n] = "down" /\ stdout[n] = <<>>

CommitEnded(n) ==
  /\ shell /\ Told(n)
  /\ helper' = [helper EXCEPT ![n] = "reported"]
  /\ \/ /\ Live(n)
        /\ s' = ChildEnded(Resolved(s), n, "commit")
        /\ outcome' = [outcome EXCEPT ![n] = "error"]
     \/ ~Live(n) /\ s' = ChildEnded(s, n, "commit") /\ UNCHANGED outcome
  /\ UNCHANGED <<shell, shown, engines, pipes, sigterm, service, install>>

(* The engine works the queue off in order; an install may fail.           *)
InstallRuns ==
  /\ queue # <<>>
  /\ queue' = Tail(queue)
  /\ installed' \in {installed, doc[Head(queue)]}
  /\ UNCHANGED <<shell, panel, engines, helper, pipes, sigterm, service>>

-----------------------------------------------------------------------------
User == Start \/ ConfirmReplace \/ KeepPins \/ Authorize \/ Cancel

Runs(n) ==
  EngineRuns(n) \/ ProposeEnded(n) \/ HelperRuns(n) \/ ServiceRuns(n) \/ CommitLine(n)
    \/ CommitEnded(n)

Next ==
  \/ User
  \/ \E n \in Attempt : Runs(n) \/ Signs(n) \/ LeaseEnds(n)
  \/ InstallRuns
  \/ ShellDies

(* Processes run and end, signals reach them and their signals reach the   *)
(* panel; the service answers a Prepare and a Reduce and sees connections  *)
(* go.  The user and the human at the prompt need never act, and no lease  *)
(* is counted on.                                                          *)
Fairness ==
  /\ WF_vars(InstallRuns)
  /\ \A n \in Attempt :
       /\ WF_vars(EngineRuns(n)) /\ WF_vars(ProposeEnded(n))
       /\ WF_vars(CommitStarted(n)) /\ WF_vars(Killed(n))
       /\ WF_vars(ReadRequest(n)) /\ WF_vars(Prepared(n)) /\ WF_vars(Decision(n))
       /\ WF_vars(Withdraws(n)) /\ WF_vars(AuthorizeEnds(n)) /\ WF_vars(ReduceEnds(n))
       /\ WF_vars(CommitLine(n)) /\ WF_vars(CommitEnded(n))
       /\ WF_vars(Prepares(n)) /\ WF_vars(Sweeps(n))
       /\ WF_vars(txn[n] = "reducing" /\ (Refuses(n) \/ Reduces(n)))

Spec == Init /\ [][Next]_vars
FairSpec == Spec /\ Fairness

-----------------------------------------------------------------------------
(* No credential check is asked for before the review of that very attempt *)
(* has been on the panel.                                                  *)
CheckFollowsReview ==
  \A n \in Attempt : helper[n] = "authorize" => n \in shown

(* What was cancelled is not installed, however late its document comes.   *)
CancelledStaysOut ==
  \A n \in Attempt : outcome[n] = "cancelled" =>
    /\ \A i \in 1 .. Len(queue) : queue[i] # n
    /\ doc[n] # 0 => installed # doc[n]

(* The panel never says "failed" or "nothing to do" of a change whose      *)
(* document the service has returned.                                      *)
ErrorMeansNoDocument ==
  \A n \in Attempt : outcome[n] \in {"error", "nothing"} => doc[n] = 0

(* Once an attempt is over its ownership is given up, whatever its process *)
(* was doing.                                                              *)
OwnershipEnds == (shell /\ s.resolved) ~> (~shell \/ ~s.committing)

(* A change that was withdrawn, by a cancel or by the shell going away,    *)
(* frees the service's slot without waiting for the lease or the human.    *)
SlotIsFreed ==
  \A n \in Attempt :
    (txn[n] \in Open /\ (~shell \/ outcome[n] # "")) ~> txn[n] \notin Open

(* A change that is over lets go, of the panel and of the service: another *)
(* can be started, and is not refused for the slot of the one before.      *)
ChangesLetGo == OwnershipEnds /\ SlotIsFreed
=============================================================================
