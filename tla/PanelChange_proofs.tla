------------------------- MODULE PanelChange_proofs -------------------------
(***************************************************************************)
(* What is proved of PanelChange: no credential check before its review,   *)
(* no install of a cancelled change, no "failed" said of a change that has *)
(* a document, for any number of attempts.                                 *)
(***************************************************************************)
EXTENDS PanelChange, SequenceTheorems, TLAPS

(* Steps of a helper that has shown nothing and asks for no check yet.     *)
Early == {"none", "spawned", "request", "prepare", "reduce"}
Ended == {"down", "reported"}

(* What the service has of a change that failed, for good.                 *)
Over == {"none", "nothing", "refused", "gone"}

LastWords == {"committed", "nothing", "error"}
Failures == {"nothing", "error"}

(* The machine's states, with no relation between the fields of the child. *)
Children == [attempt : 0 .. MaxAttempts, kind : Kinds \cup {""}, running : BOOLEAN]
Panels ==
  [attempt : 0 .. MaxAttempts, resolved : BOOLEAN, committing : BOOLEAN,
   authorizing : BOOLEAN, review : BOOLEAN, asking : BOOLEAN,
   mode : {"", "commit", "reduce"}, child : Children]

Types ==
  /\ shell \in BOOLEAN /\ s \in Panels
  /\ outcome \in [Attempt -> {"", "committed", "nothing", "error", "cancelled"}]
  /\ shown \subseteq Attempt
  /\ engine \in [Attempt -> {"none", "up", "down", "reported"}]
  /\ reply \in [Attempt -> Replies] /\ base \in [Attempt -> Nat]
  /\ helper \in [Attempt -> HelperSteps]
  /\ stdin \in [Attempt -> Seq({"request", "authorize"})]
  /\ stdout \in [Attempt -> Seq(Answers)]
  /\ sigterm \subseteq (0 .. MaxAttempts) \X (Kinds \cup {""})
  /\ txn \in [Attempt -> Records] /\ doc \in [Attempt -> Nat]
  /\ head \in Nat /\ installed \in Nat /\ queue \in Seq(Attempt)

(* An attempt that goes on owns the panel and has no outcome yet, what is  *)
(* on screen is its own, and nothing was told to stop that is its own.     *)
PanelFits ==
  /\ ~s.resolved => s.committing /\ s.attempt \in Attempt /\ outcome[s.attempt] = ""
  /\ s.review => s.attempt \in shown
  /\ s.asking => ~s.resolved /\ helper[s.attempt] = "none" /\ engine[s.attempt] = "reported"
  /\ s.child.attempt <= s.attempt
  /\ \A signal \in sigterm : signal[1] <= s.attempt /\ ~Live(signal[1])

(* A helper starts after its engine has been heard, and neither before the *)
(* attempt.                                                                *)
EngineFits(n) ==
  /\ engine[n] # "reported" => helper[n] = "none"
  /\ n > s.attempt => engine[n] = "none" /\ outcome[n] = ""

(* What the service can have of an attempt whose helper is at a step.      *)
StepFits(n) ==
  /\ helper[n] \in {"none", "spawned", "request"} => txn[n] = "none"
  /\ helper[n] = "prepare" => txn[n] \in {"preparing", "prepared", "nothing", "refused", "gone"}
  /\ helper[n] = "decision" => txn[n] \in {"prepared", "gone"}
  /\ helper[n] = "authorize" => txn[n] \in {"checking", "signed", "refused", "gone"}
  /\ helper[n] = "reduce" => txn[n] \in {"reducing", "signed", "refused"}

(* Before a review was shown a living helper has at most the request to    *)
(* read, and asks for no check.                                            *)
InputFits(n) ==
  /\ helper[n] = "authorize" => n \in shown
  /\ \/ n \in shown
     \/ stdin[n] = <<>>
     \/ helper[n] = "request" /\ Len(stdin[n]) = 1
     \/ helper[n] \in Ended

(* Nothing is heard of a helper early, and a failure is its last word.     *)
SpeechFits(n) ==
  /\ n \in shown \/ stdout[n] # <<>> => helper[n] \notin Early
  /\ \A i \in 1 .. Len(stdout[n]) :
       stdout[n][i] \in Failures => txn[n] \in Over /\ helper[n] \in Ended

(* The helper of an attempt that goes on does not end in silence once it   *)
(* has asked the service for anything, and a failed attempt stays failed.  *)
EndFits(n) ==
  /\ shell /\ Live(n) /\ helper[n] = "down" =>
       \/ txn[n] = "none"
       \/ stdout[n] # <<>> /\ stdout[n][Len(stdout[n])] \in LastWords
  /\ outcome[n] \in Failures => txn[n] \in Over /\ helper[n] \in Ended \cup {"none"}

AttemptFits(n) == EngineFits(n) /\ StepFits(n) /\ InputFits(n) /\ SpeechFits(n) /\ EndFits(n)

(* A generation is one attempt's, and only committed ones are installed.   *)
DocsFit ==
  /\ \A n \in Attempt : doc[n] # 0 => txn[n] = "signed" /\ doc[n] <= head
  /\ \A m, n \in Attempt : doc[m] = doc[n] /\ doc[n] # 0 => m = n
  /\ \A i \in 1 .. Len(queue) : outcome[queue[i]] = "committed"
  /\ installed # 0 => \E m \in Attempt : outcome[m] = "committed" /\ doc[m] = installed

IInv == Types /\ PanelFits /\ (\A n \in Attempt : AttemptFits(n)) /\ DocsFit

LEMMA InitFits == Init => IInv
<1> SUFFICES ASSUME Init PROVE IInv
  OBVIOUS
<1> USE AttemptsAssumption
<1>1. Types
  <2>1. s \in Panels
    <3>1. s = [attempt |-> 0, resolved |-> TRUE, committing |-> FALSE, authorizing |-> FALSE,
               review |-> FALSE, asking |-> FALSE, mode |-> "", child |-> NoChild]
      BY DEF Init
    <3>2. 0 \in 0 .. MaxAttempts /\ NoChild \in Children
      BY DEF Children, NoChild
    <3> QED  BY <3>1, <3>2 DEF Panels
  <2>2. /\ stdin \in [Attempt -> Seq({"request", "authorize"})]
        /\ stdout \in [Attempt -> Seq(Answers)] /\ queue \in Seq(Attempt)
    BY EmptySeq DEF Init
  <2>3. /\ engine \in [Attempt -> {"none", "up", "down", "reported"}]
        /\ reply \in [Attempt -> Replies] /\ helper \in [Attempt -> HelperSteps]
        /\ txn \in [Attempt -> Records]
    BY DEF Init, Replies, HelperSteps, Records
  <2> QED  BY <2>1, <2>2, <2>3 DEF Init, Types
<1>2. /\ s.attempt = 0 /\ s.resolved /\ ~s.review /\ ~s.asking
      /\ s.child.attempt = 0
  BY Zenon DEF Init, NoChild
<1>3. PanelFits
  <2>1. sigterm = {}
    BY DEF Init
  <2> QED  BY <1>2, <2>1 DEF PanelFits
<1>4. ASSUME NEW n \in Attempt PROVE AttemptFits(n)
  <2>1. /\ engine[n] = "none" /\ helper[n] = "none" /\ outcome[n] = "" /\ txn[n] = "none"
        /\ stdin[n] = <<>> /\ stdout[n] = <<>> /\ n \notin shown
    BY DEF Init
  <2>2. EngineFits(n) /\ StepFits(n) /\ InputFits(n)
    BY <2>1 DEF EngineFits, StepFits, InputFits
  <2>3. SpeechFits(n)
    <3>1. Len(stdout[n]) = 0
      BY <2>1, EmptySeq
    <3>2. \A i \in 1 .. Len(stdout[n]) : FALSE
      BY <3>1
    <3> QED  BY <2>1, <3>2, Zenon DEF SpeechFits
  <2>4. EndFits(n)
    BY <2>1 DEF EndFits, Failures
  <2> QED  BY <2>2, <2>3, <2>4 DEF AttemptFits
<1>5. DocsFit
  <2>1. \A n \in Attempt : doc[n] = 0
    BY DEF Init
  <2>2. Len(queue) = 0 /\ installed = 0
    BY EmptySeq DEF Init
  <2> QED  BY <2>1, <2>2 DEF DocsFit
<1> QED  BY <1>1, <1>3, <1>4, <1>5 DEF IInv

-----------------------------------------------------------------------------
(* The machine's own steps, field by field.                                *)

LEMMA AttemptNumbers ==
  ASSUME s \in Panels
  PROVE  /\ s.attempt \in 0 .. MaxAttempts /\ s.attempt \in Int /\ 0 <= s.attempt
         /\ \A n \in Attempt : n \in Int
<1>1. s.attempt \in 0 .. MaxAttempts
  BY DEF Panels
<1> QED  BY <1>1, AttemptsAssumption DEF Attempt

LEMMA NoChildFields ==
  NoChild \in Children /\ NoChild.attempt = 0
<1>1. NoChild \in Children
  BY AttemptsAssumption DEF NoChild, Children
<1>2. NoChild.attempt = 0
  BY Zenon DEF NoChild
<1> QED  BY <1>1, <1>2

LEMMA ResolvedFields ==
  ASSUME NEW st \in Panels
  PROVE  /\ Resolved(st) \in Panels
         /\ Resolved(st).attempt = st.attempt /\ Resolved(st).resolved
         /\ ~Resolved(st).review /\ ~Resolved(st).asking
         /\ Resolved(st).child \in {st.child, NoChild}
<1> DEFINE owned == st.committing /\ st.child.running
           child == IF st.child.running THEN st.child ELSE NoChild
<1>1. owned \in BOOLEAN /\ child \in Children /\ child \in {st.child, NoChild}
  BY NoChildFields DEF Panels
<1>2. Resolved(st) =
        [st EXCEPT !.resolved = TRUE, !.authorizing = FALSE, !.review = FALSE, !.asking = FALSE,
                   !.committing = owned, !.child = child]
  BY DEF Resolved, Cleared, Panels
<1> HIDE DEF owned, child
<1> QED  BY <1>1, <1>2 DEF Panels

LEMMA EndedFields ==
  ASSUME NEW st \in Panels, NEW n \in Attempt, NEW kind \in Kinds
  PROVE  LET e == ChildEnded(st, n, kind)
         IN  /\ e \in Panels /\ e.attempt = st.attempt /\ e.resolved = st.resolved
             /\ e.review = st.review /\ e.asking = st.asking
             /\ (~st.resolved => e.committing = st.committing)
             /\ (e.child.attempt = st.child.attempt \/ e.child.attempt = 0)
<1> DEFINE running == st.child.running /\ ~(st.child.attempt = n /\ st.child.kind = kind)
           ended == [st EXCEPT !.committing = FALSE, !.child = NoChild]
           child == [st.child EXCEPT !.running = running]
           still == [st EXCEPT !.child = child]
<1>1. child \in Children /\ child.attempt = st.child.attempt
  <2>1. running \in BOOLEAN
    OBVIOUS
  <2> HIDE DEF running
  <2> QED  BY <2>1 DEF Panels, Children
<1>2. /\ ended \in Panels /\ ended.attempt = st.attempt /\ ended.resolved = st.resolved
      /\ ended.review = st.review /\ ended.asking = st.asking /\ ended.child.attempt = 0
  BY NoChildFields DEF Panels
<1>3. /\ still \in Panels /\ still.attempt = st.attempt /\ still.resolved = st.resolved
      /\ still.review = st.review /\ still.asking = st.asking
      /\ still.committing = st.committing /\ still.child.attempt = st.child.attempt
  <2> HIDE DEF child, running
  <2> QED  BY <1>1 DEF Panels, Children
<1>4. \/ n = st.attempt /\ st.resolved /\ ChildEnded(st, n, kind) = ended
      \/ ChildEnded(st, n, kind) = still
  BY Zenon DEF ChildEnded
<1> HIDE DEF running, ended, still
<1> QED  BY <1>2, <1>3, <1>4

LEMMA WithChildFields ==
  ASSUME NEW st \in Panels, NEW kind \in Kinds, st.attempt \in Attempt
  PROVE  LET e == WithChild(st, kind)
         IN  /\ e \in Panels /\ e.attempt = st.attempt /\ e.resolved = st.resolved
             /\ e.review = st.review /\ e.asking = st.asking /\ e.committing = st.committing
             /\ e.child.attempt = st.attempt
  BY AttemptsAssumption DEF WithChild, Panels, Children, NoChild, Attempt, Kinds

-----------------------------------------------------------------------------
(* What a step keeps of all it does not touch.                             *)

Untouched(m) ==
  /\ helper'[m] = helper[m] /\ stdin'[m] = stdin[m] /\ stdout'[m] = stdout[m]
  /\ \/ txn'[m] = txn[m]
     \/ txn[m] \in Open /\ txn'[m] = "gone"

LEMMA OthersFit ==
  ASSUME NEW m \in Attempt, AttemptFits(m), UNCHANGED <<shell, s, outcome, shown, engine>>,
         Untouched(m)
  PROVE  AttemptFits(m)'
<1>1. EngineFits(m)'
  BY DEF AttemptFits, EngineFits, Untouched
<1>2. StepFits(m)'
  BY DEF AttemptFits, StepFits, Untouched, Open
<1>3. InputFits(m)'
  BY DEF AttemptFits, InputFits, Untouched
<1>4. SpeechFits(m)'
  BY DEF AttemptFits, SpeechFits, Untouched, Over, Open
<1>5. EndFits(m)'
  BY DEF AttemptFits, EndFits, Untouched, Live, Over, Open
<1> QED  BY <1>1, <1>2, <1>3, <1>4, <1>5 DEF AttemptFits

LEMMA PanelKept ==
  ASSUME PanelFits, UNCHANGED <<s, outcome, shown, engine, sigterm>>,
         \A m \in Attempt : helper[m] = "none" => helper'[m] = "none"
  PROVE  PanelFits'
  BY DEF PanelFits, Live

LEMMA DocsKept ==
  ASSUME DocsFit, UNCHANGED <<outcome, doc, head, queue, installed>>,
         \A m \in Attempt : txn[m] = "signed" => txn'[m] = "signed"
  PROVE  DocsFit'
  BY DEF DocsFit

-----------------------------------------------------------------------------
(* The service's steps.                                                    *)

LEMMA PreparesStep ==
  ASSUME IInv, NEW n \in Attempt, Prepares(n)
  PROVE  IInv'
<1> USE DEF Prepares, OutsideService, panel, engines, pipes, install
<1>1. PICK record \in {"prepared", "nothing", "refused"} : txn' = [txn EXCEPT ![n] = record]
  OBVIOUS
<1>2. Types'
  BY <1>1 DEF IInv, Types, Records
<1>3. PanelFits'
  BY PanelKept DEF IInv
<1>4. ASSUME NEW m \in Attempt PROVE AttemptFits(m)'
  <2>1. CASE m # n
    BY <1>1, <2>1, OthersFit DEF IInv, Types, Untouched
  <2>2. CASE m = n
    <3>1. txn[n] = "preparing" /\ txn'[n] = record
      BY <1>1 DEF IInv, Types
    <3>2. AttemptFits(n)
      BY DEF IInv
    <3> QED  BY <2>2, <3>1, <3>2 DEF AttemptFits, EngineFits, StepFits, InputFits, SpeechFits,
                EndFits, Live, Over
  <2> QED  BY <2>1, <2>2
<1>5. DocsFit'
  BY <1>1, DocsKept DEF IInv, Types
<1> QED  BY <1>2, <1>3, <1>4, <1>5 DEF IInv

LEMMA RefusesStep ==
  ASSUME IInv, NEW n \in Attempt, Refuses(n)
  PROVE  IInv'
<1> USE DEF Refuses, OutsideService, panel, engines, pipes, install
<1>1. /\ txn[n] \in {"checking", "reducing"} /\ txn'[n] = "refused" /\ txn' \in [Attempt -> Records]
      /\ \A m \in Attempt \ {n} : txn'[m] = txn[m] \/ (txn[m] \in Open /\ txn'[m] = "gone")
  BY DEF IInv, Types, Records, TakenAway
<1>2. Types'
  BY <1>1 DEF IInv, Types
<1>3. PanelFits'
  BY PanelKept DEF IInv
<1>4. ASSUME NEW m \in Attempt PROVE AttemptFits(m)'
  <2>1. CASE m # n
    BY <1>1, <2>1, OthersFit DEF IInv, Untouched
  <2>2. CASE m = n
    <3>1. AttemptFits(n)
      BY DEF IInv
    <3> QED  BY <1>1, <2>2, <3>1 DEF AttemptFits, EngineFits, StepFits, InputFits, SpeechFits,
                EndFits, Live, Over
  <2> QED  BY <2>1, <2>2
<1>5. DocsFit'
  BY <1>1, DocsKept DEF IInv, Types, Open
<1> QED  BY <1>2, <1>3, <1>4, <1>5 DEF IInv

(* A signature takes the next generation, which no document has.           *)
LEMMA SignatureStep ==
  ASSUME IInv, NEW n \in Attempt, Signs(n) \/ Reduces(n)
  PROVE  IInv'
<1>0. UNCHANGED <<shell, s, outcome, shown, engine, reply, base, helper, stdin, stdout, sigterm,
                  queue, installed>>
  BY DEF Signs, Reduces, OutsideService, panel, engines, pipes, install
<1>1. /\ txn[n] \in {"checking", "reducing"} /\ txn'[n] = "signed" /\ txn' \in [Attempt -> Records]
      /\ \A m \in Attempt \ {n} : txn'[m] = txn[m] \/ (txn[m] \in Open /\ txn'[m] = "gone")
  BY DEF Signs, Reduces, IInv, Types, Records, TakenAway
<1>2. head' = head + 1 /\ doc' = [doc EXCEPT ![n] = head + 1] /\ head \in Nat
  BY DEF Signs, Reduces, IInv, Types
<1>3. Types'
  <2>1. head' \in Nat /\ head + 1 \in Nat
    BY <1>2
  <2>2. doc \in [Attempt -> Nat]
    BY DEF IInv, Types
  <2>3. doc' \in [Attempt -> Nat]
    BY <1>2, <2>1, <2>2, Zenon
  <2> QED  BY <2>1, <2>3, <1>0, <1>1, <2>1 DEF IInv, Types
<1>4. PanelFits'
  BY <1>0, PanelKept DEF IInv
<1>5. ASSUME NEW m \in Attempt PROVE AttemptFits(m)'
  <2>1. CASE m # n
    BY <1>0, <1>1, <2>1, OthersFit DEF IInv, Untouched
  <2>2. CASE m = n
    <3>1. AttemptFits(n)
      BY DEF IInv
    <3> QED  BY <1>0, <1>1, <2>2, <3>1 DEF AttemptFits, EngineFits, StepFits, InputFits, SpeechFits,
                EndFits, Live, Over
  <2> QED  BY <2>1, <2>2
<1>6. DocsFit'
  <2>1. /\ doc[n] = 0 /\ doc'[n] = head + 1 /\ \A m \in Attempt \ {n} : doc'[m] = doc[m]
        /\ \A m \in Attempt : doc[m] \in Nat
    BY <1>1, <1>2 DEF IInv, Types, DocsFit
  <2>2. \A m \in Attempt : doc'[m] # 0 => txn'[m] = "signed" /\ doc'[m] <= head'
    BY <1>1, <1>2, <2>1 DEF IInv, DocsFit, Open
  <2>3. \A m, k \in Attempt : doc'[m] = doc'[k] /\ doc'[k] # 0 => m = k
    BY <1>2, <2>1 DEF IInv, DocsFit
  <2>4. installed # 0 => \E m \in Attempt : outcome[m] = "committed" /\ doc'[m] = installed
    BY <2>1 DEF IInv, DocsFit
  <2> QED  BY <1>0, <2>2, <2>3, <2>4 DEF IInv, DocsFit
<1> QED  BY <1>3, <1>4, <1>5, <1>6 DEF IInv

LEMMA SlotEndsStep ==
  ASSUME IInv, NEW n \in Attempt, Sweeps(n) \/ LeaseEnds(n)
  PROVE  IInv'
<1> USE DEF Sweeps, LeaseEnds, OutsideService, panel, engines, pipes, install
<1>1. txn[n] \in Open /\ txn' = [txn EXCEPT ![n] = "gone"]
  OBVIOUS
<1>2. Types'
  BY <1>1 DEF IInv, Types, Records
<1>3. PanelFits'
  BY PanelKept DEF IInv
<1>4. ASSUME NEW m \in Attempt PROVE AttemptFits(m)'
  <2>1. Untouched(m)
    BY <1>1 DEF IInv, Types, Untouched
  <2> QED  BY <2>1, OthersFit DEF IInv
<1>5. DocsFit'
  BY <1>1, DocsKept DEF IInv, Types, Open
<1> QED  BY <1>2, <1>3, <1>4, <1>5 DEF IInv

-----------------------------------------------------------------------------
(* The helper's steps.                                                     *)

LEMMA OneMore ==
  ASSUME NEW S, NEW q \in Seq(S), NEW w \in S
  PROVE  /\ q \o <<w>> \in Seq(S) /\ q \o <<w>> # <<>>
         /\ Len(q \o <<w>>) = Len(q) + 1 /\ Len(q) \in Nat
         /\ (q \o <<w>>)[Len(q) + 1] = w
         /\ \A i \in 1 .. Len(q) : (q \o <<w>>)[i] = q[i]
<1>1. q \o <<w>> = Append(q, w)
  BY AppendIsConcat
<1> QED  BY <1>1

(* An exit with nothing said, or with last words that fit.                 *)
LEMMA ExitFits ==
  ASSUME IInv, NEW n \in Attempt, NEW said, helper[n] \in Alive, Exits(n, said),
         UNCHANGED <<shell, s, outcome, shown, engine>>, txn'[n] = txn[n],
         \/ said = <<>> /\ (txn[n] = "none" \/ ~shell \/ ~Live(n))
         \/ \E w \in LastWords : said = <<w>> /\ (w \in Failures => txn[n] \in Over)
  PROVE  /\ helper' \in [Attempt -> HelperSteps] /\ stdout' \in [Attempt -> Seq(Answers)]
         /\ helper'[n] = "down"
         /\ \A m \in Attempt \ {n} : helper'[m] = helper[m] /\ stdout'[m] = stdout[m]
         /\ AttemptFits(n)'
<1>1. /\ helper \in [Attempt -> HelperSteps] /\ stdout \in [Attempt -> Seq(Answers)]
      /\ AttemptFits(n)
  BY DEF IInv, Types
<1>2. /\ helper'[n] = "down" /\ stdout'[n] = stdout[n] \o said
      /\ \A m \in Attempt \ {n} : helper'[m] = helper[m] /\ stdout'[m] = stdout[m]
  BY <1>1 DEF Exits
<1>3. stdout[n] \o said \in Seq(Answers)
  <2>1. CASE said = <<>>
    BY <1>1, <2>1, ConcatEmptySeq
  <2>2. ASSUME NEW w \in LastWords, said = <<w>> PROVE stdout[n] \o said \in Seq(Answers)
    <3>1. w \in Answers
      BY DEF LastWords, Answers
    <3> QED  BY <1>1, <2>2, <3>1, OneMore
  <2> QED  BY <2>1, <2>2
<1>4. helper' \in [Attempt -> HelperSteps] /\ stdout' \in [Attempt -> Seq(Answers)]
  BY <1>1, <1>3 DEF Exits, HelperSteps
<1>5. /\ helper[n] \notin Ended /\ helper[n] # "none" /\ outcome[n] \notin Failures
      /\ \A i \in 1 .. Len(stdout[n]) : stdout[n][i] \notin Failures
  BY <1>1 DEF Alive, Ended, HelperSteps, AttemptFits, SpeechFits, EndFits
<1>6. EngineFits(n)' /\ StepFits(n)' /\ InputFits(n)'
  BY <1>1, <1>2, <1>5 DEF AttemptFits, EngineFits, StepFits, InputFits, Ended
<1>7. SpeechFits(n)' /\ EndFits(n)'
  <2>1. CASE said = <<>> /\ (txn[n] = "none" \/ ~shell \/ ~Live(n))
    <3>1. stdout'[n] = stdout[n]
      BY <1>1, <1>2, <2>1, ConcatEmptySeq
    <3> QED  BY <1>2, <1>5, <2>1, <3>1 DEF SpeechFits, EndFits, Early, Ended, Live
  <2>2. ASSUME NEW w \in LastWords, said = <<w>>, w \in Failures => txn[n] \in Over
        PROVE  SpeechFits(n)' /\ EndFits(n)'
    <3>1. w \in Answers
      BY DEF LastWords, Answers
    <3>2. /\ stdout'[n] # <<>> /\ Len(stdout'[n]) = Len(stdout[n]) + 1 /\ Len(stdout[n]) \in Nat
          /\ stdout'[n][Len(stdout[n]) + 1] = w
          /\ \A i \in 1 .. Len(stdout[n]) : stdout'[n][i] = stdout[n][i]
      BY <1>1, <1>2, <2>2, <3>1, OneMore
    <3>3. \A i \in 1 .. Len(stdout'[n]) : stdout'[n][i] \in Failures => txn[n] \in Over
      BY <1>5, <2>2, <3>2
    <3> QED  BY <1>2, <1>5, <2>2, <3>2, <3>3 DEF SpeechFits, EndFits, Early, Ended
  <2> QED  BY <2>1, <2>2
<1> QED  BY <1>2, <1>4, <1>6, <1>7 DEF AttemptFits

LEMMA EmptyLen ==
  ASSUME NEW S, NEW q \in Seq(S), Len(q) = 0
  PROVE  q = <<>>
  BY EmptySeq

LEMMA ConsumesFits ==
  ASSUME Types, NEW n \in Attempt, Consumes(n)
  PROVE  /\ stdin' \in [Attempt -> Seq({"request", "authorize"})]
         /\ \A m \in Attempt \ {n} : stdin'[m] = stdin[m]
         /\ stdin[n] = <<>> => stdin'[n] = <<>>
         /\ Len(stdin[n]) = 1 => stdin'[n] = <<>>
<1> DEFINE Frames == Seq({"request", "authorize"})
           rest == IF stdin[n] = <<>> THEN <<>> ELSE Tail(stdin[n])
<1>1. stdin \in [Attempt -> Frames] /\ stdin' = [stdin EXCEPT ![n] = rest]
  BY DEF Types, Consumes
<1>2. rest \in Frames /\ (Len(stdin[n]) = 1 => rest = <<>>)
  <2>1. stdin[n] \in Frames
    BY <1>1
  <2>2. stdin[n] # <<>> => Tail(stdin[n]) \in Frames /\ Len(Tail(stdin[n])) = Len(stdin[n]) - 1
    BY <2>1
  <2>3. ASSUME stdin[n] # <<>>, Len(stdin[n]) = 1 PROVE Tail(stdin[n]) = <<>>
    <3>1. Tail(stdin[n]) \in Frames /\ Len(Tail(stdin[n])) = 0
      BY <2>2, <2>3
    <3> QED  BY <3>1, EmptyLen, Zenon
  <2> QED  BY <2>1, <2>2, <2>3, EmptySeq
<1> HIDE DEF Frames
<1>3. stdin[n] = <<>> => rest = <<>>
  OBVIOUS
<1> HIDE DEF rest
<1> QED  BY <1>1, <1>2, <1>3 DEF Frames

LEMMA CommitStartedStep ==
  ASSUME IInv, NEW n \in Attempt, CommitStarted(n)
  PROVE  IInv'
<1>0. /\ UNCHANGED <<shell, s, outcome, shown, engine, reply, base, stdout, txn, head, doc, queue,
                     installed>>
      /\ helper[n] = "spawned"
  BY DEF CommitStarted, panel, engines, service, install
<1>1. AttemptFits(n) /\ n \notin shown /\ stdin[n] = <<>> /\ txn[n] = "none"
  BY <1>0 DEF IInv, AttemptFits, StepFits, InputFits, SpeechFits, Early, Ended
<1>2. /\ helper' \in [Attempt -> HelperSteps] /\ helper'[n] \in {"request", "down"}
      /\ \A m \in Attempt \ {n} : helper'[m] = helper[m]
  BY DEF CommitStarted, IInv, Types, HelperSteps
<1>3. /\ stdin' \in [Attempt -> Seq({"request", "authorize"})]
      /\ \A m \in Attempt \ {n} : stdin'[m] = stdin[m]
      /\ stdin'[n] = <<>> \/ (helper'[n] = "request" /\ Len(stdin'[n]) = 1)
  <2>1. CASE UNCHANGED stdin
    BY <1>1, <2>1 DEF IInv, Types
  <2>2. CASE helper'[n] = "request" /\ stdin' = [stdin EXCEPT ![n] = Append(@, "request")]
    <3>1. stdin \in [Attempt -> Seq({"request", "authorize"})]
      BY DEF IInv, Types
    <3>2. Append(stdin[n], "request") \in Seq({"request", "authorize"})
      BY <3>1
    <3>3. Len(Append(stdin[n], "request")) = 1
      BY <1>1, <3>1, EmptySeq, AppendProperties
    <3> QED  BY <2>2, <3>1, <3>2, <3>3, Zenon
  <2>3. helper[n] = "spawned" /\ helper \in [Attempt -> HelperSteps]
    BY <1>0 DEF IInv, Types
  <2> QED  BY <2>1, <2>2, <2>3 DEF CommitStarted
<1>4. /\ sigterm' \subseteq (0 .. MaxAttempts) \X (Kinds \cup {""})
      /\ \A signal \in sigterm' : signal \in sigterm \/ (signal = <<n, "commit">> /\ ~Live(n))
  <2>1. sigterm' = sigterm \/ (~Live(n) /\ sigterm' = sigterm \cup {<<n, "commit">>})
    BY DEF CommitStarted
  <2>2. /\ sigterm \subseteq (0 .. MaxAttempts) \X (Kinds \cup {""})
        /\ <<n, "commit">> \in (0 .. MaxAttempts) \X (Kinds \cup {""})
    <3>1. n \in 0 .. MaxAttempts /\ "commit" \in Kinds
      BY AttemptsAssumption DEF Attempt, Kinds
    <3>2. sigterm \subseteq (0 .. MaxAttempts) \X (Kinds \cup {""})
      BY DEF IInv, Types
    <3> QED  BY <3>1, <3>2
  <2> QED  BY <2>1, <2>2
<1>5. Types'
  BY <1>0, <1>2, <1>3, <1>4 DEF IInv, Types
<1>6. PanelFits'
  <2>1. n <= s.attempt
    <3>1. engine[n] # "none"
      BY <1>0, <1>1 DEF AttemptFits, EngineFits
    <3>2. s.attempt \in Int /\ n \in Int
      BY AttemptNumbers DEF IInv, Types
    <3>3. ~(n > s.attempt)
      BY <1>1, <3>1 DEF AttemptFits, EngineFits
    <3> QED  BY <3>2, <3>3
  <2>2. \A signal \in sigterm' : signal[1] <= s.attempt /\ ~Live(signal[1])
    <3>1. \A signal \in sigterm : signal[1] <= s.attempt /\ ~Live(signal[1])
      BY DEF IInv, PanelFits
    <3>2. <<n, "commit">>[1] = n
      OBVIOUS
    <3> QED  BY <1>4, <2>1, <3>1, <3>2, Zenon
  <2>3. s.asking => s.attempt # n
    BY <1>0 DEF IInv, PanelFits
  <2>4. s.asking => helper'[s.attempt] = "none"
    <3>1. ~s.resolved => s.attempt \in Attempt
      BY DEF IInv, PanelFits
    <3> QED  BY <1>2, <2>3, <3>1 DEF IInv, PanelFits
  <2> QED  BY <1>0, <2>2, <2>4 DEF IInv, PanelFits, Live
<1>7. ASSUME NEW m \in Attempt PROVE AttemptFits(m)'
  <2>1. CASE m # n
    BY <1>0, <1>2, <1>3, <2>1, OthersFit DEF IInv, Untouched
  <2>2. CASE m = n
    <3>1. EngineFits(n)' /\ StepFits(n)' /\ InputFits(n)'
      BY <1>0, <1>1, <1>2, <1>3 DEF AttemptFits, EngineFits, StepFits, InputFits
    <3>2. SpeechFits(n)'
      BY <1>0, <1>1, <1>2 DEF AttemptFits, SpeechFits, Early, Ended
    <3>3. EndFits(n)'
      BY <1>0, <1>1, <1>2 DEF AttemptFits, EndFits, Live, Ended
    <3> QED  BY <2>2, <3>1, <3>2, <3>3 DEF AttemptFits
  <2> QED  BY <2>1, <2>2
<1>8. DocsFit'
  BY <1>0, DocsKept DEF IInv
<1> QED  BY <1>5, <1>6, <1>7, <1>8 DEF IInv

LEMMA KilledStep ==
  ASSUME IInv, NEW n \in Attempt, Killed(n)
  PROVE  IInv'
<1>0. /\ UNCHANGED <<shell, s, outcome, shown, engine, reply, base, stdin, sigterm, txn, head, doc,
                     queue, installed>>
      /\ <<n, "commit">> \in sigterm /\ helper[n] \in Alive /\ Exits(n, <<>>)
  BY DEF Killed, panel, engines, service, install
<1>1. ~Live(n)
  BY <1>0 DEF IInv, PanelFits
<1>2. /\ helper' \in [Attempt -> HelperSteps] /\ stdout' \in [Attempt -> Seq(Answers)]
      /\ helper'[n] = "down"
      /\ \A m \in Attempt \ {n} : helper'[m] = helper[m] /\ stdout'[m] = stdout[m]
      /\ AttemptFits(n)'
  BY <1>0, <1>1, ExitFits
<1>3. Types'
  BY <1>0, <1>2 DEF IInv, Types
<1>4. PanelFits'
  BY <1>0, <1>2, PanelKept DEF IInv, Alive
<1>5. ASSUME NEW m \in Attempt \ {n} PROVE AttemptFits(m)'
  BY <1>0, <1>2, OthersFit DEF IInv, Untouched
<1>6. DocsFit'
  BY <1>0, DocsKept DEF IInv
<1> QED  BY <1>2, <1>3, <1>4, <1>5, <1>6 DEF IInv

LEMMA ReadRequestStep ==
  ASSUME IInv, NEW n \in Attempt, ReadRequest(n)
  PROVE  IInv'
<1>0. /\ UNCHANGED <<shell, s, outcome, shown, engine, reply, base, sigterm, head, doc, queue,
                     installed>>
      /\ helper[n] = "request" /\ Ready(n) /\ Consumes(n)
  BY DEF ReadRequest, panel, engines, install
<1>1. AttemptFits(n) /\ n \notin shown /\ txn[n] = "none"
  BY <1>0 DEF IInv, AttemptFits, StepFits, SpeechFits, Early
<1>2. /\ stdin' \in [Attempt -> Seq({"request", "authorize"})]
      /\ \A m \in Attempt \ {n} : stdin'[m] = stdin[m]
      /\ stdin'[n] = <<>>
  BY <1>0, <1>1, ConsumesFits DEF IInv, AttemptFits, InputFits, Ended
<1>3. /\ helper' \in [Attempt -> HelperSteps] /\ stdout' \in [Attempt -> Seq(Answers)]
      /\ txn' \in [Attempt -> Records] /\ helper'[n] # "none" /\ txn[n] # "signed"
      /\ \A m \in Attempt \ {n} :
           helper'[m] = helper[m] /\ stdout'[m] = stdout[m] /\ txn'[m] = txn[m]
      /\ AttemptFits(n)'
  <2>1. CASE Exits(n, <<"error">>) /\ UNCHANGED txn
    <3>1. "error" \in LastWords /\ txn[n] \in Over /\ helper[n] \in Alive
      BY <1>0, <1>1 DEF LastWords, Over, Alive, HelperSteps
    <3> QED  BY <1>0, <1>1, <2>1, <3>1, ExitFits DEF IInv, Types
  <2>2. CASE /\ stdout' = stdout
             /\ \/ /\ helper' = [helper EXCEPT ![n] = "prepare"]
                   /\ txn' = [txn EXCEPT ![n] = "preparing"]
                \/ /\ helper' = [helper EXCEPT ![n] = "reduce"]
                   /\ txn' = [txn EXCEPT ![n] = "reducing"]
    <3>1. /\ helper' \in [Attempt -> HelperSteps] /\ txn' \in [Attempt -> Records]
          /\ \/ helper'[n] = "prepare" /\ txn'[n] = "preparing"
             \/ helper'[n] = "reduce" /\ txn'[n] = "reducing"
          /\ \A m \in Attempt \ {n} : helper'[m] = helper[m] /\ txn'[m] = txn[m]
      BY <2>2, ZenonT(60) DEF IInv, Types, HelperSteps, Records
    <3>2. stdout'[n] = <<>> /\ stdout \in [Attempt -> Seq(Answers)]
      BY <1>0, <1>1, <2>2 DEF IInv, Types, AttemptFits, SpeechFits, Early
    <3>3. \A i \in 1 .. Len(stdout'[n]) : FALSE
      <4>1. Len(stdout'[n]) = 0
        BY <3>2, EmptySeq
      <4> QED  BY <4>1
    <3>4. EngineFits(n)' /\ StepFits(n)' /\ InputFits(n)'
      BY <1>0, <1>1, <1>2, <3>1 DEF AttemptFits, EngineFits, StepFits, InputFits
    <3>5. SpeechFits(n)'
      BY <1>0, <1>1, <3>2, <3>3, Zenon DEF SpeechFits
    <3>6. EndFits(n)'
      BY <1>0, <1>1, <3>1 DEF AttemptFits, EndFits, Ended
    <3> QED  BY <1>1, <2>2, <3>1, <3>2, <3>4, <3>5, <3>6 DEF AttemptFits
  <2> QED  BY <2>1, <2>2 DEF ReadRequest
<1>4. Types'
  BY <1>0, <1>2, <1>3 DEF IInv, Types
<1>5. PanelFits'
  BY <1>0, <1>3, PanelKept DEF IInv
<1>6. ASSUME NEW m \in Attempt \ {n} PROVE AttemptFits(m)'
  BY <1>0, <1>2, <1>3, OthersFit DEF IInv, Untouched
<1>7. DocsFit'
  BY <1>0, <1>3, DocsKept DEF IInv
<1> QED  BY <1>3, <1>4, <1>5, <1>6, <1>7 DEF IInv

LEMMA PreparedStep ==
  ASSUME IInv, NEW n \in Attempt, Prepared(n)
  PROVE  IInv'
<1>0. /\ UNCHANGED <<shell, s, outcome, shown, engine, reply, base, stdin, sigterm, txn, head, doc,
                     queue, installed>>
      /\ helper[n] = "prepare"
  BY DEF Prepared, panel, engines, service, install
<1>1. AttemptFits(n) /\ n \notin shown /\ helper[n] \in Alive /\ stdout[n] = <<>>
  BY <1>0 DEF IInv, AttemptFits, SpeechFits, Early, Alive, HelperSteps
<1>2. /\ helper' \in [Attempt -> HelperSteps] /\ stdout' \in [Attempt -> Seq(Answers)]
      /\ helper'[n] # "none"
      /\ \A m \in Attempt \ {n} : helper'[m] = helper[m] /\ stdout'[m] = stdout[m]
      /\ AttemptFits(n)'
  <2>1. CASE \/ txn[n] = "nothing" /\ Exits(n, <<"nothing">>)
             \/ txn[n] = "refused" /\ Exits(n, <<"error">>)
    <3>1. {"nothing", "error"} \subseteq LastWords /\ {"nothing", "refused"} \subseteq Over
      BY DEF LastWords, Over
    <3> QED  BY <1>0, <1>1, <2>1, <3>1, ExitFits
  <2>2. CASE /\ txn[n] \in {"prepared", "gone"}
             /\ helper' = [helper EXCEPT ![n] = "decision"]
             /\ stdout' = [stdout EXCEPT ![n] = Append(@, "prepared")]
    <3>1. stdout \in [Attempt -> Seq(Answers)] /\ helper \in [Attempt -> HelperSteps]
      BY DEF IInv, Types
    <3>2. "prepared" \in Answers /\ "decision" \in HelperSteps
      BY DEF Answers, HelperSteps
    <3>3. Append(stdout[n], "prepared") \in Seq(Answers)
      BY <3>1, <3>2
    <3>4. /\ helper' \in [Attempt -> HelperSteps] /\ stdout' \in [Attempt -> Seq(Answers)]
          /\ helper'[n] = "decision" /\ stdout'[n] = Append(stdout[n], "prepared")
          /\ \A m \in Attempt \ {n} : helper'[m] = helper[m] /\ stdout'[m] = stdout[m]
      BY <2>2, <3>1, <3>2, <3>3, Zenon
    <3>5. \A i \in 1 .. Len(stdout'[n]) : stdout'[n][i] = "prepared"
      <4>1. Len(stdout[n]) = 0
        BY <1>1, EmptySeq
      <4>2. Len(Append(stdout[n], "prepared")) = 1 /\ Append(stdout[n], "prepared")[1] = "prepared"
        BY <3>1, <3>2, <4>1, AppendProperties
      <4> QED  BY <3>4, <4>2
    <3>6. EngineFits(n)' /\ StepFits(n)' /\ InputFits(n)'
      BY <1>0, <1>1, <2>2, <3>4 DEF AttemptFits, EngineFits, StepFits, InputFits, Ended
    <3>7. SpeechFits(n)'
      BY <3>4, <3>5 DEF SpeechFits, Early, Failures
    <3>8. EndFits(n)'
      BY <1>0, <1>1, <3>4 DEF AttemptFits, EndFits, Ended
    <3> QED  BY <3>4, <3>6, <3>7, <3>8 DEF AttemptFits
  <2> QED  BY <2>1, <2>2 DEF Prepared
<1>3. Types'
  BY <1>0, <1>2 DEF IInv, Types
<1>4. PanelFits'
  BY <1>0, <1>2, PanelKept DEF IInv
<1>5. ASSUME NEW m \in Attempt \ {n} PROVE AttemptFits(m)'
  BY <1>0, <1>2, OthersFit DEF IInv, Untouched
<1>6. DocsFit'
  BY <1>0, DocsKept DEF IInv
<1> QED  BY <1>2, <1>3, <1>4, <1>5, <1>6 DEF IInv

(* A frame read at the decision is an authorize of a review that was       *)
(* shown.                                                                  *)
LEMMA DecisionStep ==
  ASSUME IInv, NEW n \in Attempt, Decision(n)
  PROVE  IInv'
<1>0. /\ UNCHANGED <<shell, s, outcome, shown, engine, reply, base, sigterm, head, doc, queue,
                     installed>>
      /\ helper[n] = "decision" /\ Ready(n) /\ Consumes(n)
  BY DEF Decision, panel, engines, install
<1>1. /\ AttemptFits(n) /\ txn[n] \in {"prepared", "gone"} /\ helper[n] \in Alive
      /\ n \in shown \/ stdin[n] = <<>>
  BY <1>0 DEF IInv, AttemptFits, StepFits, InputFits, Ended, Alive, HelperSteps
<1>2. /\ stdin' \in [Attempt -> Seq({"request", "authorize"})]
      /\ \A m \in Attempt \ {n} : stdin'[m] = stdin[m]
  BY <1>0, ConsumesFits DEF IInv
<1>3. /\ helper' \in [Attempt -> HelperSteps] /\ stdout' \in [Attempt -> Seq(Answers)]
      /\ txn' \in [Attempt -> Records] /\ helper'[n] # "none"
      /\ \A m \in Attempt \ {n} :
           helper'[m] = helper[m] /\ stdout'[m] = stdout[m] /\ txn'[m] = txn[m]
      /\ AttemptFits(n)'
  <2>1. CASE Eof(n) /\ Exits(n, <<>>) /\ UNCHANGED txn
    <3>1. ~shell
      BY <2>1 DEF Eof
    <3> QED  BY <1>0, <1>1, <2>1, <3>1, ExitFits DEF IInv, Types
  <2>2. CASE /\ ~Eof(n) /\ stdout' = stdout
             /\ helper' = [helper EXCEPT ![n] = "authorize"]
             /\ txn' = [txn EXCEPT ![n] = IF @ = "prepared" THEN "checking" ELSE "refused"]
    <3>1. n \in shown
      BY <1>0, <1>1, <2>2 DEF Eof, Ready
    <3>2. /\ helper' \in [Attempt -> HelperSteps] /\ txn' \in [Attempt -> Records]
          /\ helper'[n] = "authorize" /\ txn'[n] \in {"checking", "refused"}
          /\ \A m \in Attempt \ {n} : helper'[m] = helper[m] /\ txn'[m] = txn[m]
      BY <2>2 DEF IInv, Types, HelperSteps, Records
    <3>3. stdout \in [Attempt -> Seq(Answers)]
      BY DEF IInv, Types
    <3>4. EngineFits(n)' /\ StepFits(n)' /\ InputFits(n)'
      BY <1>0, <1>1, <3>1, <3>2 DEF AttemptFits, EngineFits, StepFits, InputFits
    <3>5. SpeechFits(n)'
      BY <1>0, <1>1, <2>2, <3>2 DEF AttemptFits, SpeechFits, Early, Ended
    <3>6. EndFits(n)'
      BY <1>0, <1>1, <3>2 DEF AttemptFits, EndFits, Ended
    <3> QED  BY <2>2, <3>2, <3>3, <3>4, <3>5, <3>6 DEF AttemptFits
  <2> QED  BY <2>1, <2>2 DEF Decision
<1>4. Types'
  BY <1>0, <1>2, <1>3 DEF IInv, Types
<1>5. PanelFits'
  BY <1>0, <1>3, PanelKept DEF IInv
<1>6. ASSUME NEW m \in Attempt \ {n} PROVE AttemptFits(m)'
  BY <1>0, <1>2, <1>3, OthersFit DEF IInv, Untouched
<1>7. DocsFit'
  BY <1>0, <1>1, <1>3, DocsKept DEF IInv
<1> QED  BY <1>3, <1>4, <1>5, <1>6, <1>7 DEF IInv

LEMMA WithdrawsStep ==
  ASSUME IInv, NEW n \in Attempt, Withdraws(n)
  PROVE  IInv'
<1>0. /\ UNCHANGED <<shell, s, outcome, shown, engine, reply, base, sigterm, txn, head, doc, queue,
                     installed>>
      /\ helper[n] = "authorize" /\ Consumes(n)
  BY DEF Withdraws, panel, engines, service, install
<1>1. AttemptFits(n) /\ helper[n] \in Alive /\ (n \in shown \/ stdin[n] = <<>>)
  BY <1>0 DEF IInv, AttemptFits, InputFits, Ended, Alive, HelperSteps
<1>2. /\ stdin' \in [Attempt -> Seq({"request", "authorize"})]
      /\ \A m \in Attempt \ {n} : stdin'[m] = stdin[m]
      /\ n \in shown \/ stdin'[n] = <<>>
  BY <1>0, <1>1, ConsumesFits DEF IInv
<1>3. /\ helper' \in [Attempt -> HelperSteps] /\ stdout' \in [Attempt -> Seq(Answers)]
      /\ helper'[n] # "none"
      /\ \A m \in Attempt \ {n} : helper'[m] = helper[m] /\ stdout'[m] = stdout[m]
      /\ AttemptFits(n)'
  <2>1. CASE Eof(n) /\ Exits(n, <<>>)
    <3>1. ~shell
      BY <2>1 DEF Eof
    <3> QED  BY <1>0, <1>1, <2>1, <3>1, ExitFits
  <2>2. CASE UNCHANGED <<helper, stdout>>
    <3>1. EngineFits(n)' /\ StepFits(n)' /\ InputFits(n)'
      BY <1>0, <1>1, <1>2, <2>2 DEF AttemptFits, EngineFits, StepFits, InputFits
    <3>2. SpeechFits(n)' /\ EndFits(n)'
      BY <1>0, <1>1, <2>2 DEF AttemptFits, SpeechFits, EndFits, Live
    <3> QED  BY <1>0, <2>2, <3>1, <3>2 DEF AttemptFits, IInv, Types
  <2> QED  BY <2>1, <2>2 DEF Withdraws
<1>4. Types'
  BY <1>0, <1>2, <1>3 DEF IInv, Types
<1>5. PanelFits'
  BY <1>0, <1>3, PanelKept DEF IInv
<1>6. ASSUME NEW m \in Attempt \ {n} PROVE AttemptFits(m)'
  BY <1>0, <1>2, <1>3, OthersFit DEF IInv, Untouched
<1>7. DocsFit'
  BY <1>0, DocsKept DEF IInv
<1> QED  BY <1>3, <1>4, <1>5, <1>6, <1>7 DEF IInv

(* The answer to an Authorize or a Reduce is the helper's last word.       *)
LEMMA AnswerStep ==
  ASSUME IInv, NEW n \in Attempt, AuthorizeEnds(n) \/ ReduceEnds(n)
  PROVE  IInv'
<1>0. /\ UNCHANGED <<shell, s, outcome, shown, engine, reply, base, stdin, sigterm, txn, head, doc,
                     queue, installed>>
      /\ helper[n] \in Alive
      /\ \/ Exits(n, <<"committed">>)
         \/ txn[n] \in Over /\ Exits(n, <<"error">>)
  BY DEF AuthorizeEnds, ReduceEnds, panel, engines, service, install, Alive, HelperSteps, Over
<1>1. /\ helper' \in [Attempt -> HelperSteps] /\ stdout' \in [Attempt -> Seq(Answers)]
      /\ helper'[n] = "down"
      /\ \A m \in Attempt \ {n} : helper'[m] = helper[m] /\ stdout'[m] = stdout[m]
      /\ AttemptFits(n)'
  <2>1. "committed" \in LastWords \ Failures /\ "error" \in LastWords
    BY DEF LastWords, Failures
  <2> QED  BY <1>0, <2>1, ExitFits
<1>2. Types'
  BY <1>0, <1>1 DEF IInv, Types
<1>3. PanelFits'
  BY <1>0, <1>1, PanelKept DEF IInv, Alive
<1>4. ASSUME NEW m \in Attempt \ {n} PROVE AttemptFits(m)'
  BY <1>0, <1>1, OthersFit DEF IInv, Untouched
<1>5. DocsFit'
  BY <1>0, DocsKept DEF IInv
<1> QED  BY <1>1, <1>2, <1>3, <1>4, <1>5 DEF IInv

-----------------------------------------------------------------------------
(* The one terminal transition of an attempt.                              *)

Settles(how) ==
  /\ ~s.resolved
  /\ s' \in Panels /\ s'.attempt = s.attempt /\ s'.resolved /\ ~s'.review /\ ~s'.asking
  /\ s'.child.attempt <= s.attempt
  /\ outcome' = [outcome EXCEPT ![s.attempt] = how]

SignalsFit ==
  /\ sigterm' \subseteq (0 .. MaxAttempts) \X (Kinds \cup {""})
  /\ \A signal \in sigterm' : signal[1] <= s.attempt

LEMMA TerminateFits ==
  ASSUME IInv, UNCHANGED sigterm \/ Terminate(s)
  PROVE  SignalsFit
<1>1. /\ sigterm \subseteq (0 .. MaxAttempts) \X (Kinds \cup {""})
      /\ \A signal \in sigterm : signal[1] <= s.attempt
      /\ s.child.attempt <= s.attempt
      /\ <<s.child.attempt, s.child.kind>> \in (0 .. MaxAttempts) \X (Kinds \cup {""})
  BY DEF IInv, Types, PanelFits, Panels, Children
<1>2. sigterm' = sigterm \/ sigterm' = sigterm \cup {<<s.child.attempt, s.child.kind>>}
  BY DEF Terminate
<1>3. <<s.child.attempt, s.child.kind>>[1] = s.child.attempt
  OBVIOUS
<1> QED  BY <1>1, <1>2, <1>3, Zenon DEF SignalsFit

LEMMA ResolveSettles ==
  ASSUME IInv, NEW how, Resolve(how)
  PROVE  /\ SignalsFit
         /\ \/ s.resolved /\ UNCHANGED <<s, outcome, sigterm>>
            \/ Settles(how)
<1>1. SignalsFit
  BY TerminateFits DEF Resolve
<1>2. CASE ~s.resolved /\ s' = Resolved(s) /\ outcome' = [outcome EXCEPT ![s.attempt] = how]
  <2>1. s \in Panels /\ s.child.attempt <= s.attempt
    BY DEF IInv, Types, PanelFits
  <2>2. 0 <= s.attempt
    BY <2>1, AttemptNumbers
  <2>3. Resolved(s).child.attempt <= s.attempt
    BY <2>1, <2>2, ResolvedFields, NoChildFields
  <2>4. Settles(how)
    BY <1>2, <2>1, <2>3, ResolvedFields DEF Settles
  <2> QED  BY <1>1, <2>4
<1> QED  BY <1>1, <1>2 DEF Resolve

LEMMA SettledPanel ==
  ASSUME IInv, NEW how, Settles(how), SignalsFit
  PROVE  PanelFits'
<1>1. \A signal \in sigterm' : signal[1] <= s'.attempt /\ ~Live(signal[1])'
  BY DEF SignalsFit, Settles, Live
<1> QED  BY <1>1 DEF PanelFits, Settles

LEMMA SettledDocs ==
  ASSUME IInv, NEW how, Settles(how), UNCHANGED <<txn, doc, head, queue, installed>>
  PROVE  DocsFit'
<1>1. /\ s.attempt \in Attempt /\ outcome[s.attempt] = ""
      /\ \A m \in Attempt \ {s.attempt} : outcome'[m] = outcome[m]
      /\ \A i \in 1 .. Len(queue) : queue[i] \in Attempt
  <2>1. s.attempt \in Attempt /\ outcome[s.attempt] = ""
    BY DEF IInv, PanelFits, Settles
  <2>2. \A m \in Attempt \ {s.attempt} : outcome'[m] = outcome[m]
    BY DEF IInv, Types, Settles
  <2>3. queue \in Seq(Attempt)
    BY DEF IInv, Types
  <2>4. \A i \in 1 .. Len(queue) : queue[i] \in Attempt
    BY <2>3
  <2> QED  BY <2>1, <2>2, <2>4
<1>2. \A i \in 1 .. Len(queue) : outcome'[queue[i]] = "committed"
  BY <1>1 DEF IInv, DocsFit
<1>3. installed # 0 => \E m \in Attempt : outcome'[m] = "committed" /\ doc[m] = installed
  BY <1>1 DEF IInv, DocsFit
<1> QED  BY <1>2, <1>3 DEF IInv, DocsFit

(* Nothing new is said.                                                    *)
Quieter(m) ==
  /\ stdout'[m] # <<>> => stdout[m] # <<>>
  /\ \A i \in 1 .. Len(stdout'[m]) : \E j \in 1 .. Len(stdout[m]) : stdout'[m][i] = stdout[m][j]

LEMMA SettledAttempt ==
  ASSUME IInv, NEW how, Settles(how), NEW m \in Attempt, EngineFits(m)', Quieter(m),
         shown' = shown, txn'[m] = txn[m], stdin'[m] = stdin[m],
         helper'[m] = helper[m] \/ (helper[m] = "down" /\ helper'[m] = "reported"),
         m = s.attempt /\ how \in Failures =>
           txn[m] \in Over /\ helper[m] \in Ended \cup {"none"}
  PROVE  AttemptFits(m)'
<1>1. AttemptFits(m) /\ ~Live(m)'
  BY DEF IInv, Settles, Live
<1>2. StepFits(m)' /\ InputFits(m)'
  BY <1>1 DEF AttemptFits, StepFits, InputFits, Ended
<1>3. SpeechFits(m)'
  BY <1>1 DEF AttemptFits, SpeechFits, Quieter, Early, Ended
<1>4. EndFits(m)'
  <2>1. m # s.attempt => outcome'[m] = outcome[m]
    BY DEF IInv, Types, Settles
  <2>2. m = s.attempt => outcome'[m] = how
    BY DEF IInv, Types, Settles
  <2> QED  BY <1>1, <2>1, <2>2 DEF AttemptFits, EndFits, Ended
<1> QED  BY <1>2, <1>3, <1>4 DEF AttemptFits

LEMMA SettledLater ==
  ASSUME IInv, NEW how, Settles(how), NEW m \in Attempt, m > s.attempt
  PROVE  outcome'[m] = outcome[m]
<1>1. s.attempt \in Int /\ m \in Int
  BY AttemptNumbers DEF IInv, Types
<1>2. m # s.attempt
  BY <1>1
<1> QED  BY <1>2 DEF IInv, Types, Settles

LEMMA SameSpeech ==
  ASSUME NEW m \in Attempt, UNCHANGED stdout
  PROVE  Quieter(m)
  BY DEF Quieter

-----------------------------------------------------------------------------
(* The user's steps.                                                       *)

LEMMA StartStep ==
  ASSUME IInv, Start
  PROVE  IInv'
<1> DEFINE n == s.attempt + 1
           st == [s EXCEPT !.attempt = n, !.resolved = FALSE, !.committing = TRUE,
                           !.authorizing = FALSE, !.review = FALSE, !.mode = ""]
<1>0. /\ UNCHANGED <<shell, outcome, shown, reply, base, helper, stdin, stdout, sigterm, txn, head,
                     doc, queue, installed>>
      /\ ~s.committing /\ s.attempt < MaxAttempts
      /\ s' = WithChild(st, "propose") /\ engine' = [engine EXCEPT ![n] = "up"]
  BY DEF Start, pipes, service, install
<1>1. s \in Panels /\ s.attempt \in Int /\ n \in Attempt /\ n \in 0 .. MaxAttempts
  <2>1. s \in Panels
    BY DEF IInv, Types
  <2> QED  BY <1>0, <2>1, AttemptNumbers, AttemptsAssumption DEF Attempt
<1>2. /\ st \in Panels /\ st.attempt = n /\ ~st.resolved /\ st.committing /\ ~st.review
      /\ st.asking = s.asking
  <2> HIDE DEF n
  <2> QED  BY <1>1 DEF Panels
<1>3. s.resolved /\ ~s.asking
  BY <1>0 DEF IInv, PanelFits
<1> HIDE DEF n, st
<1>4. /\ s' \in Panels /\ s'.attempt = n /\ ~s'.resolved /\ s'.committing /\ ~s'.review
      /\ ~s'.asking /\ s'.child.attempt = n
  BY <1>0, <1>1, <1>2, <1>3, WithChildFields DEF Kinds
<1>5. /\ engine[n] = "none" /\ outcome[n] = "" /\ helper[n] = "none"
      /\ \A m \in Attempt : m > n => m > s.attempt
      /\ n > s.attempt
  <2>1. n > s.attempt /\ \A m \in Attempt : m > n => m > s.attempt
    BY <1>1, AttemptNumbers DEF n
  <2> QED  BY <1>1, <2>1 DEF IInv, AttemptFits, EngineFits
<1>6. /\ engine' \in [Attempt -> {"none", "up", "down", "reported"}] /\ engine'[n] = "up"
      /\ \A m \in Attempt \ {n} : engine'[m] = engine[m]
  BY <1>0, <1>1 DEF IInv, Types
<1>7. Types'
  BY <1>0, <1>4, <1>6 DEF IInv, Types
<1>8. PanelFits'
  <2>1. \A signal \in sigterm : signal[1] <= n /\ signal[1] # n
    <3>1. \A signal \in sigterm : signal[1] <= s.attempt
      BY DEF IInv, PanelFits
    <3>2. sigterm \subseteq (0 .. MaxAttempts) \X (Kinds \cup {""})
      BY DEF IInv, Types
    <3>3. ASSUME NEW signal \in sigterm PROVE signal[1] \in Int
      <4>1. signal[1] \in 0 .. MaxAttempts
        BY <3>2
      <4> QED  BY <4>1, AttemptsAssumption
    <3> QED  BY <1>1, <3>1, <3>3 DEF n
  <2>2. n <= n
    BY <1>1, AttemptNumbers
  <2> QED  BY <1>0, <1>1, <1>4, <1>5, <2>1, <2>2 DEF PanelFits, Live
<1>9. ASSUME NEW m \in Attempt PROVE AttemptFits(m)'
  <2>1. AttemptFits(m)
    BY DEF IInv
  <2>2. EngineFits(m)'
    <3>1. CASE m = n
      <4>1. ~(n > n)
        BY <1>1, AttemptNumbers
      <4> QED  BY <1>0, <1>4, <1>5, <3>1, <4>1 DEF EngineFits
    <3>2. CASE m # n
      BY <1>0, <1>4, <1>5, <1>6, <2>1, <3>2 DEF AttemptFits, EngineFits
    <3> QED  BY <3>1, <3>2
  <2>3. StepFits(m)' /\ InputFits(m)' /\ SpeechFits(m)'
    BY <1>0, <2>1 DEF AttemptFits, StepFits, InputFits, SpeechFits
  <2>4. EndFits(m)'
    BY <1>0, <1>4, <1>5, <2>1 DEF AttemptFits, EndFits, Live
  <2> QED  BY <2>2, <2>3, <2>4 DEF AttemptFits
<1>10. DocsFit'
  BY <1>0, DocsKept DEF IInv
<1> QED  BY <1>7, <1>8, <1>9, <1>10 DEF IInv

(* The helper of the attempt going on is started, the first time.          *)
LEMMA SpawnFits ==
  ASSUME IInv, NEW n \in Attempt, n = s.attempt, ~s.resolved, helper[n] = "none",
         s' \in Panels, s'.attempt = n, ~s'.resolved, s'.committing, s'.review = s.review,
         ~s'.asking, s'.child.attempt = n, helper' = [helper EXCEPT ![n] = "spawned"],
         engine' \in [Attempt -> {"none", "up", "down", "reported"}], engine'[n] = "reported",
         \A m \in Attempt \ {n} : engine'[m] = engine[m],
         UNCHANGED <<shell, outcome, shown, reply, base, stdin, stdout, sigterm, txn, head, doc,
                     queue, installed>>
  PROVE  IInv'
<1>1. AttemptFits(n) /\ txn[n] = "none" /\ n \notin shown /\ stdin[n] = <<>> /\ stdout[n] = <<>>
  BY DEF IInv, AttemptFits, StepFits, InputFits, SpeechFits, Early, Ended
<1>2. /\ helper' \in [Attempt -> HelperSteps] /\ helper'[n] = "spawned"
      /\ \A m \in Attempt \ {n} : helper'[m] = helper[m]
  BY DEF IInv, Types, HelperSteps
<1>3. Types'
  BY <1>2 DEF IInv, Types
<1>4. PanelFits'
  <2>1. n <= n
    BY AttemptsAssumption DEF Attempt
  <2> QED  BY <2>1 DEF IInv, PanelFits, Live
<1>5. ASSUME NEW m \in Attempt PROVE AttemptFits(m)'
  <2>1. CASE m = n
    <3>0. ~(n > n)
      BY AttemptsAssumption DEF Attempt
    <3>1. EngineFits(n)' /\ StepFits(n)' /\ InputFits(n)'
      BY <1>1, <1>2, <3>0 DEF EngineFits, StepFits, InputFits
    <3>2. ~(\E i \in 1 .. Len(stdout'[n]) : TRUE)
      <4>1. Len(stdout'[n]) = 0
        BY <1>1, EmptySeq
      <4> QED  BY <4>1
    <3>3. SpeechFits(n)'
      BY <1>1, <3>2, Zenon DEF SpeechFits
    <3>4. EndFits(n)'
      BY <1>1, <1>2 DEF IInv, PanelFits, EndFits, Failures
    <3> QED  BY <2>1, <3>1, <3>3, <3>4 DEF AttemptFits
  <2>2. CASE m # n
    <3>1. AttemptFits(m) /\ ~Live(m)'
      BY <2>2 DEF IInv, Live
    <3>2. EngineFits(m)' /\ StepFits(m)' /\ InputFits(m)'
      BY <1>2, <2>2, <3>1 DEF AttemptFits, EngineFits, StepFits, InputFits
    <3>3. SpeechFits(m)' /\ EndFits(m)'
      BY <1>2, <2>2, <3>1 DEF AttemptFits, SpeechFits, EndFits
    <3> QED  BY <3>2, <3>3 DEF AttemptFits
  <2> QED  BY <2>1, <2>2
<1>6. DocsFit'
  BY DocsKept DEF IInv
<1> QED  BY <1>3, <1>4, <1>5, <1>6 DEF IInv

LEMMA ConfirmReplaceStep ==
  ASSUME IInv, ConfirmReplace
  PROVE  IInv'
<1> DEFINE st == [s EXCEPT !.asking = FALSE]
<1>0. /\ s.asking /\ ~s.resolved /\ SpawnHelper(st)
      /\ UNCHANGED <<shell, outcome, shown, engine, reply, base, stdin, stdout, sigterm, txn, head,
                     doc, queue, installed>>
  BY DEF ConfirmReplace, engines, pipes, service, install
<1>1. /\ s.attempt \in Attempt /\ s.committing /\ helper[s.attempt] = "none"
      /\ engine[s.attempt] = "reported"
  BY <1>0 DEF IInv, PanelFits
<1>2. s \in Panels /\ engine \in [Attempt -> {"none", "up", "down", "reported"}]
  BY DEF IInv, Types
<1>3. /\ st \in Panels /\ st.attempt = s.attempt /\ st.resolved = s.resolved
      /\ st.committing = s.committing /\ st.review = s.review /\ ~st.asking
  BY <1>2 DEF Panels
<1> HIDE DEF st
<1>4. /\ s' \in Panels /\ s'.attempt = s.attempt /\ ~s'.resolved /\ s'.committing
      /\ s'.review = s.review /\ ~s'.asking /\ s'.child.attempt = s.attempt
      /\ helper' = [helper EXCEPT ![s.attempt] = "spawned"]
  BY <1>0, <1>1, <1>3, WithChildFields DEF SpawnHelper, Kinds
<1> QED  BY <1>0, <1>1, <1>2, <1>4, SpawnFits

(* KeepPins and Cancel.                                                    *)
LEMMA CancelStep ==
  ASSUME IInv, KeepPins \/ Cancel
  PROVE  IInv'
<1>0. /\ Resolve("cancelled")
      /\ UNCHANGED <<shell, shown, engine, reply, base, helper, stdin, stdout, txn, head, doc, queue,
                     installed>>
  BY DEF KeepPins, Cancel, engines, pipes, service, install
<1>1. SignalsFit
  BY <1>0, ResolveSettles
<1>2. CASE UNCHANGED <<s, outcome, sigterm>>
  <2>1. Types'
    BY <1>0, <1>2 DEF IInv, Types
  <2>2. PanelFits'
    BY <1>0, <1>2, PanelKept DEF IInv
  <2>3. \A m \in Attempt : AttemptFits(m)'
    BY <1>0, <1>2, OthersFit DEF IInv, Untouched
  <2>4. DocsFit'
    BY <1>0, <1>2, DocsKept DEF IInv
  <2> QED  BY <2>1, <2>2, <2>3, <2>4 DEF IInv
<1>3. CASE Settles("cancelled")
  <2>1. Types'
    <3>1. outcome' \in [Attempt -> {"", "committed", "nothing", "error", "cancelled"}]
      BY <1>3 DEF IInv, Types, Settles
    <3> QED  BY <1>0, <1>1, <1>3, <3>1 DEF IInv, Types, Settles, SignalsFit
  <2>2. PanelFits'
    BY <1>1, <1>3, SettledPanel
  <2>3. ASSUME NEW m \in Attempt PROVE AttemptFits(m)'
    <3>1. EngineFits(m)'
      <4>1. /\ s'.attempt = s.attempt /\ s.attempt \in Attempt /\ AttemptFits(m)
            /\ s.attempt \in Int /\ m \in Int
        BY <1>3, AttemptNumbers DEF Settles, IInv, PanelFits, Types
      <4>2. m > s.attempt => outcome'[m] = outcome[m]
        BY <1>3, SettledLater
      <4> QED  BY <1>0, <4>1, <4>2 DEF AttemptFits, EngineFits
    <3> QED  BY <1>0, <1>3, <3>1, SameSpeech, SettledAttempt DEF Failures
  <2>4. DocsFit'
    BY <1>0, <1>3, SettledDocs
  <2> QED  BY <2>1, <2>2, <2>3, <2>4 DEF IInv
<1> QED  BY <1>0, <1>2, <1>3, ResolveSettles

LEMMA AuthorizePressed ==
  ASSUME IInv, Authorize
  PROVE  IInv'
<1> DEFINE n == s.attempt
<1>0. /\ UNCHANGED <<shell, outcome, shown, engine, reply, base, helper, stdout, sigterm, txn, head,
                     doc, queue, installed>>
      /\ stdin' = [stdin EXCEPT ![n] = Append(@, "authorize")]
  BY DEF Authorize, engines, service, install
<1>1. /\ s.review /\ ~s.resolved /\ n \in Attempt /\ n \in shown /\ s \in Panels
      /\ s' = [s EXCEPT !.authorizing = TRUE]
  BY DEF Authorize, MayAuthorize, Live, IInv, PanelFits, Types
<1>2. /\ s' \in Panels /\ s'.attempt = s.attempt /\ s'.resolved = s.resolved
      /\ s'.committing = s.committing /\ s'.review = s.review /\ s'.asking = s.asking
      /\ s'.child = s.child
  BY <1>1 DEF Panels
<1> HIDE DEF n
<1>3. /\ stdin' \in [Attempt -> Seq({"request", "authorize"})]
      /\ \A m \in Attempt \ {n} : stdin'[m] = stdin[m]
  <2>1. stdin \in [Attempt -> Seq({"request", "authorize"})]
    BY DEF IInv, Types
  <2>2. Append(stdin[n], "authorize") \in Seq({"request", "authorize"})
    BY <1>1, <2>1
  <2> QED  BY <1>0, <2>1, <2>2, Zenon
<1>4. Types'
  BY <1>0, <1>2, <1>3 DEF IInv, Types
<1>5. PanelFits'
  BY <1>0, <1>2 DEF IInv, PanelFits, Live
<1>6. ASSUME NEW m \in Attempt PROVE AttemptFits(m)'
  <2>1. AttemptFits(m)
    BY DEF IInv
  <2>2. EngineFits(m)' /\ StepFits(m)' /\ InputFits(m)'
    BY <1>0, <1>1, <1>2, <1>3, <2>1 DEF AttemptFits, EngineFits, StepFits, InputFits
  <2>3. SpeechFits(m)' /\ EndFits(m)'
    BY <1>0, <1>2, <2>1 DEF AttemptFits, SpeechFits, EndFits, Live
  <2> QED  BY <2>2, <2>3 DEF AttemptFits
<1>7. DocsFit'
  BY <1>0, DocsKept DEF IInv
<1> QED  BY <1>4, <1>5, <1>6, <1>7 DEF IInv

LEMMA ShellDiesStep ==
  ASSUME IInv, ShellDies
  PROVE  IInv'
<1>0. /\ UNCHANGED <<s, outcome, shown, engine, reply, base, helper, stdin, stdout, sigterm, txn,
                     head, doc, installed>>
      /\ shell' = FALSE
      /\ queue' = <<>> \/ \E i \in DOMAIN queue : queue' = <<queue[i]>>
  BY DEF ShellDies, panel, engines, pipes, service
<1>1. queue' \in Seq(Attempt) /\ \A i \in 1 .. Len(queue') : outcome[queue'[i]] = "committed"
  <2>1. queue \in Seq(Attempt) /\ \A i \in 1 .. Len(queue) : outcome[queue[i]] = "committed"
    BY DEF IInv, Types, DocsFit
  <2>2. CASE queue' = <<>>
    BY <2>2, EmptySeq
  <2>3. CASE \E i \in DOMAIN queue : queue' = <<queue[i]>>
    <3>1. PICK i \in 1 .. Len(queue) : queue' = <<queue[i]>>
      BY <2>1, <2>3
    <3>2. queue[i] \in Attempt /\ outcome[queue[i]] = "committed"
      BY <2>1
    <3> QED  BY <3>1, <3>2
  <2> QED  BY <1>0, <2>2, <2>3
<1>2. Types'
  BY <1>0, <1>1 DEF IInv, Types
<1>3. PanelFits'
  BY <1>0, PanelKept DEF IInv
<1>4. ASSUME NEW m \in Attempt PROVE AttemptFits(m)'
  <2>1. AttemptFits(m)
    BY DEF IInv
  <2>2. EngineFits(m)' /\ StepFits(m)' /\ InputFits(m)'
    BY <1>0, <2>1 DEF AttemptFits, EngineFits, StepFits, InputFits
  <2>3. SpeechFits(m)' /\ EndFits(m)'
    BY <1>0, <2>1 DEF AttemptFits, SpeechFits, EndFits
  <2> QED  BY <2>2, <2>3 DEF AttemptFits
<1>5. DocsFit'
  BY <1>0, <1>1 DEF IInv, DocsFit
<1> QED  BY <1>2, <1>3, <1>4, <1>5 DEF IInv

-----------------------------------------------------------------------------
(* What the panel hears of its processes.                                  *)

LEMMA EngineRunsStep ==
  ASSUME IInv, NEW n \in Attempt, EngineRuns(n)
  PROVE  IInv'
<1>0. /\ UNCHANGED <<shell, s, outcome, shown, helper, stdin, stdout, sigterm, txn, head, doc, queue,
                     installed>>
      /\ engine[n] = "up" /\ engine' = [engine EXCEPT ![n] = "down"]
      /\ base' = [base EXCEPT ![n] = installed]
  BY DEF EngineRuns, panel, pipes, service, install
<1>1. /\ engine' \in [Attempt -> {"none", "up", "down", "reported"}] /\ engine'[n] = "down"
      /\ \A m \in Attempt \ {n} : engine'[m] = engine[m]
  BY <1>0 DEF IInv, Types
<1>2. Types'
  <2>1. reply' \in [Attempt -> Replies]
    <3>1. PICK r \in Replies \ {""} : reply' = [reply EXCEPT ![n] = r]
      BY DEF EngineRuns
    <3> QED  BY <3>1 DEF IInv, Types
  <2>2. base' \in [Attempt -> Nat]
    BY <1>0 DEF IInv, Types
  <2> QED  BY <1>0, <1>1, <2>1, <2>2 DEF IInv, Types
<1>3. PanelFits'
  <2>1. ~s.resolved => s.attempt \in Attempt
    BY DEF IInv, PanelFits
  <2> QED  BY <1>0, <1>1, <2>1 DEF IInv, PanelFits, Live
<1>4. ASSUME NEW m \in Attempt PROVE AttemptFits(m)'
  <2>1. AttemptFits(m) /\ AttemptFits(n)
    BY DEF IInv
  <2>2. EngineFits(m)'
    <3>1. helper[n] = "none" /\ ~(n > s.attempt)
      BY <1>0, <2>1 DEF AttemptFits, EngineFits
    <3> QED  BY <1>0, <1>1, <2>1, <3>1 DEF AttemptFits, EngineFits
  <2>3. StepFits(m)' /\ InputFits(m)'
    BY <1>0, <2>1 DEF AttemptFits, StepFits, InputFits
  <2>4. SpeechFits(m)' /\ EndFits(m)'
    BY <1>0, <2>1 DEF AttemptFits, SpeechFits, EndFits, Live
  <2> QED  BY <2>2, <2>3, <2>4 DEF AttemptFits
<1>5. DocsFit'
  BY <1>0, DocsKept DEF IInv
<1> QED  BY <1>2, <1>3, <1>4, <1>5 DEF IInv

LEMMA InstallRunsStep ==
  ASSUME IInv, InstallRuns
  PROVE  IInv'
<1>0. /\ UNCHANGED <<shell, s, outcome, shown, engine, reply, base, helper, stdin, stdout, sigterm,
                     txn, head, doc>>
      /\ queue # <<>> /\ queue' = Tail(queue) /\ installed' \in {installed, doc[Head(queue)]}
  BY DEF InstallRuns, panel, engines, pipes, service
<1>1. queue \in Seq(Attempt)
  BY DEF IInv, Types
<1>2. /\ Head(queue) = queue[1] /\ queue[1] \in Attempt /\ 1 \in 1 .. Len(queue)
      /\ queue' \in Seq(Attempt)
      /\ \A i \in 1 .. Len(queue') : i + 1 \in 1 .. Len(queue) /\ queue'[i] = queue[i + 1]
  BY <1>0, <1>1
<1>3. installed' \in Nat
  <2>1. installed \in Nat /\ doc[queue[1]] \in Nat
    BY <1>2 DEF IInv, Types
  <2> QED  BY <1>0, <1>2, <2>1
<1>4. Types'
  BY <1>0, <1>2, <1>3 DEF IInv, Types
<1>5. PanelFits'
  BY <1>0, PanelKept DEF IInv
<1>6. ASSUME NEW m \in Attempt PROVE AttemptFits(m)'
  BY <1>0, OthersFit DEF IInv, Untouched
<1>7. DocsFit'
  <2>1. \A i \in 1 .. Len(queue) : outcome[queue[i]] = "committed"
    BY DEF IInv, DocsFit
  <2>2. \A i \in 1 .. Len(queue') : outcome[queue'[i]] = "committed"
    BY <1>2, <2>1
  <2>3. outcome[Head(queue)] = "committed"
    BY <1>2, <2>1
  <2>4. installed' # 0 => \E m \in Attempt : outcome[m] = "committed" /\ doc[m] = installed'
    BY <1>0, <1>2, <2>3 DEF IInv, DocsFit
  <2> QED  BY <1>0, <2>2, <2>4 DEF IInv, DocsFit
<1> QED  BY <1>4, <1>5, <1>6, <1>7 DEF IInv

(* A child that ended changes nothing of an attempt but whose process it   *)
(* was.                                                                    *)
LEMMA ChildGone ==
  ASSUME IInv, NEW n \in Attempt, NEW kind \in Kinds, s' = ChildEnded(s, n, kind),
         UNCHANGED <<outcome, shown, sigterm>>,
         \A m \in Attempt : helper[m] = "none" => helper'[m] = "none",
         \A m \in Attempt : engine[m] = "reported" => engine'[m] = "reported"
  PROVE  s' \in Panels /\ s'.attempt = s.attempt /\ s'.resolved = s.resolved /\ PanelFits'
<1>1. s \in Panels /\ s.child.attempt <= s.attempt
  BY DEF IInv, Types, PanelFits
<1>2. /\ s' \in Panels /\ s'.attempt = s.attempt /\ s'.resolved = s.resolved
      /\ s'.review = s.review /\ s'.asking = s.asking
      /\ ~s.resolved => s'.committing = s.committing
      /\ s'.child.attempt <= s.attempt
  BY <1>1, EndedFields, AttemptNumbers
<1>3. PanelFits'
  BY <1>2, ZenonT(60) DEF IInv, PanelFits, Live
<1> QED  BY <1>2, <1>3

LEMMA CommitEndedStep ==
  ASSUME IInv, NEW n \in Attempt, CommitEnded(n)
  PROVE  IInv'
<1>0. /\ UNCHANGED <<shell, shown, engine, reply, base, stdin, stdout, sigterm, txn, head, doc, queue,
                     installed>>
      /\ shell /\ helper[n] = "down" /\ stdout[n] = <<>>
      /\ helper' = [helper EXCEPT ![n] = "reported"]
  BY DEF CommitEnded, Told, engines, pipes, service, install
<1>1. /\ helper' \in [Attempt -> HelperSteps] /\ helper'[n] = "reported"
      /\ \A m \in Attempt \ {n} : helper'[m] = helper[m]
      /\ \A m \in Attempt : helper[m] = "none" => helper'[m] = "none"
  BY <1>0 DEF IInv, Types, HelperSteps
<1>2. CASE ~Live(n) /\ s' = ChildEnded(s, n, "commit") /\ UNCHANGED outcome
  <2>1. s' \in Panels /\ s'.attempt = s.attempt /\ s'.resolved = s.resolved /\ PanelFits'
    BY <1>0, <1>1, <1>2, ChildGone DEF Kinds
  <2>2. Types'
    BY <1>0, <1>1, <1>2, <2>1 DEF IInv, Types
  <2>3. ASSUME NEW m \in Attempt PROVE AttemptFits(m)'
    <3>1. AttemptFits(m)
      BY DEF IInv
    <3>2. EngineFits(m)' /\ StepFits(m)' /\ InputFits(m)'
      BY <1>0, <1>1, <1>2, <2>1, <3>1 DEF AttemptFits, EngineFits, StepFits, InputFits, Ended
    <3>3. SpeechFits(m)'
      BY <1>0, <1>1, <3>1 DEF AttemptFits, SpeechFits, Early, Ended
    <3>4. EndFits(m)'
      BY <1>0, <1>1, <1>2, <2>1, <3>1 DEF AttemptFits, EndFits, Live, Ended
    <3> QED  BY <3>2, <3>3, <3>4 DEF AttemptFits
  <2>4. DocsFit'
    BY <1>0, <1>2, DocsKept DEF IInv
  <2> QED  BY <2>1, <2>2, <2>3, <2>4 DEF IInv
<1>3. CASE /\ Live(n) /\ s' = ChildEnded(Resolved(s), n, "commit")
           /\ outcome' = [outcome EXCEPT ![n] = "error"]
  <2>1. n = s.attempt /\ ~s.resolved /\ s \in Panels /\ s.child.attempt <= s.attempt
    BY <1>3 DEF Live, IInv, Types, PanelFits
  <2>2. Settles("error")
    <3>1. /\ Resolved(s) \in Panels /\ Resolved(s).attempt = s.attempt /\ Resolved(s).resolved
          /\ ~Resolved(s).review /\ ~Resolved(s).asking
          /\ Resolved(s).child.attempt <= s.attempt /\ 0 <= s.attempt
      BY <2>1, ResolvedFields, NoChildFields, AttemptNumbers
    <3>2. /\ s' \in Panels /\ s'.attempt = s.attempt /\ s'.resolved /\ ~s'.review /\ ~s'.asking
          /\ s'.child.attempt <= s.attempt
      BY <1>3, <3>1, EndedFields DEF Kinds
    <3> QED  BY <1>3, <2>1, <3>2 DEF Settles
  <2>3. SignalsFit
    BY <1>0, TerminateFits
  <2>4. Types'
    <3>1. outcome' \in [Attempt -> {"", "committed", "nothing", "error", "cancelled"}]
      BY <1>3 DEF IInv, Types
    <3> QED  BY <1>0, <1>1, <2>2, <3>1 DEF IInv, Types, Settles
  <2>5. PanelFits'
    BY <2>2, <2>3, SettledPanel
  <2>6. txn[n] = "none"
    BY <1>0, <1>3 DEF IInv, AttemptFits, EndFits
  <2>7. ASSUME NEW m \in Attempt PROVE AttemptFits(m)'
    <3>1. EngineFits(m)'
      <4>1. m > s.attempt => outcome'[m] = outcome[m]
        BY <2>2, SettledLater
      <4> QED  BY <1>0, <1>1, <2>2, <4>1 DEF IInv, AttemptFits, EngineFits, Settles
    <3>2. /\ helper'[m] = helper[m] \/ (helper[m] = "down" /\ helper'[m] = "reported")
          /\ m = s.attempt => txn[m] \in Over /\ helper[m] \in Ended \cup {"none"}
      BY <1>0, <1>1, <2>1, <2>6 DEF Over, Ended
    <3> QED  BY <1>0, <2>2, <3>1, <3>2, SameSpeech, SettledAttempt
  <2>8. DocsFit'
    BY <1>0, <2>2, SettledDocs
  <2> QED  BY <2>4, <2>5, <2>7, <2>8 DEF IInv
<1> QED  BY <1>2, <1>3 DEF CommitEnded

LEMMA ProposeEndedStep ==
  ASSUME IInv, NEW n \in Attempt, ProposeEnded(n)
  PROVE  IInv'
<1> DEFINE ended == ChildEnded(s, n, "propose")
<1>0. /\ UNCHANGED <<shell, shown, reply, base, stdin, stdout, txn, head, doc, queue, installed>>
      /\ engine[n] = "down" /\ engine' = [engine EXCEPT ![n] = "reported"]
  BY DEF ProposeEnded, pipes, service, install
<1>1. /\ engine' \in [Attempt -> {"none", "up", "down", "reported"}] /\ engine'[n] = "reported"
      /\ \A m \in Attempt \ {n} : engine'[m] = engine[m]
      /\ \A m \in Attempt : engine[m] = "reported" => engine'[m] = "reported"
  BY <1>0 DEF IInv, Types
<1>2. /\ s \in Panels /\ helper[n] = "none" /\ ~(n > s.attempt) /\ AttemptFits(n)
      /\ s.child.attempt <= s.attempt /\ 0 <= s.attempt /\ s.attempt \in Int /\ n \in Int
  <2>1. s \in Panels /\ AttemptFits(n) /\ s.child.attempt <= s.attempt
    BY DEF IInv, Types, PanelFits
  <2> QED  BY <1>0, <2>1, AttemptNumbers DEF AttemptFits, EngineFits
<1>3. /\ ended \in Panels /\ ended.attempt = s.attempt /\ ended.resolved = s.resolved
      /\ ended.review = s.review /\ ended.asking = s.asking
      /\ ~s.resolved => ended.committing = s.committing
      /\ ended.child.attempt = s.child.attempt \/ ended.child.attempt = 0
  BY <1>2, EndedFields DEF Kinds
<1>4. CASE ~Live(n) /\ s' = ended /\ UNCHANGED <<outcome, helper, sigterm>>
  <2>1. s' \in Panels /\ s'.attempt = s.attempt /\ s'.resolved = s.resolved /\ PanelFits'
    BY <1>0, <1>1, <1>4, ChildGone DEF Kinds
  <2>2. Types'
    BY <1>0, <1>1, <1>4, <2>1 DEF IInv, Types
  <2>3. ASSUME NEW m \in Attempt PROVE AttemptFits(m)'
    <3>1. AttemptFits(m)
      BY DEF IInv
    <3>2. EngineFits(m)'
      BY <1>1, <1>2, <1>4, <2>1, <3>1 DEF AttemptFits, EngineFits
    <3>3. StepFits(m)' /\ InputFits(m)'
      BY <1>0, <1>4, <3>1 DEF AttemptFits, StepFits, InputFits
    <3>4. SpeechFits(m)' /\ EndFits(m)'
      BY <1>0, <1>4, <2>1, <3>1 DEF AttemptFits, SpeechFits, EndFits, Live
    <3> QED  BY <3>2, <3>3, <3>4 DEF AttemptFits
  <2>4. DocsFit'
    BY <1>0, <1>4, DocsKept DEF IInv
  <2> QED  BY <2>1, <2>2, <2>3, <2>4 DEF IInv
<1>5. CASE /\ Live(n) /\ s' = ChildEnded(Resolved(s), n, "propose")
           /\ outcome' = [outcome EXCEPT ![n] = "error"] /\ Terminate(s) /\ UNCHANGED helper
  <2>1. n = s.attempt /\ ~s.resolved
    BY <1>5 DEF Live
  <2>2. Settles("error")
    <3>1. /\ Resolved(s) \in Panels /\ Resolved(s).attempt = s.attempt /\ Resolved(s).resolved
          /\ ~Resolved(s).review /\ ~Resolved(s).asking
          /\ Resolved(s).child.attempt <= s.attempt
      BY <1>2, ResolvedFields, NoChildFields
    <3>2. /\ s' \in Panels /\ s'.attempt = s.attempt /\ s'.resolved /\ ~s'.review /\ ~s'.asking
          /\ s'.child.attempt <= s.attempt
      BY <1>2, <1>5, <3>1, EndedFields DEF Kinds
    <3> QED  BY <1>5, <2>1, <3>2 DEF Settles
  <2>3. SignalsFit
    BY <1>5, TerminateFits
  <2>4. Types'
    <3>1. outcome' \in [Attempt -> {"", "committed", "nothing", "error", "cancelled"}]
      BY <1>5 DEF IInv, Types
    <3> QED  BY <1>0, <1>1, <1>5, <2>2, <2>3, <3>1 DEF IInv, Types, Settles, SignalsFit
  <2>5. PanelFits'
    BY <2>2, <2>3, SettledPanel
  <2>6. ASSUME NEW m \in Attempt PROVE AttemptFits(m)'
    <3>1. EngineFits(m)'
      <4>1. m > s.attempt => outcome'[m] = outcome[m]
        BY <2>2, SettledLater
      <4>2. EngineFits(m) /\ EngineFits(n)
        BY DEF IInv, AttemptFits
      <4>3. helper' = helper /\ s'.attempt = s.attempt
        BY <1>5, <2>2 DEF Settles
      <4>4. /\ engine[m] = "reported" => engine'[m] = "reported"
            /\ m > s.attempt => engine'[m] = "none"
        BY <1>0, <1>1, <4>2 DEF EngineFits
      <4> QED  BY <4>1, <4>2, <4>3, <4>4 DEF EngineFits
    <3>2. m = s.attempt => txn[m] \in Over /\ helper[m] \in Ended \cup {"none"}
      BY <1>2, <2>1 DEF AttemptFits, StepFits, Over
    <3> QED  BY <1>0, <1>5, <2>2, <3>1, <3>2, SameSpeech, SettledAttempt
  <2>7. DocsFit'
    BY <1>0, <2>2, SettledDocs
  <2> QED  BY <2>4, <2>5, <2>6, <2>7 DEF IInv
<1>6. CASE /\ Live(n) /\ s' = [ended EXCEPT !.mode = "commit", !.asking = TRUE]
           /\ UNCHANGED <<outcome, helper, sigterm>>
  <2>1. n = s.attempt /\ ~s.resolved
    BY <1>6 DEF Live
  <2> HIDE DEF ended
  <2>2. /\ s' \in Panels /\ s'.attempt = s.attempt /\ ~s'.resolved /\ s'.review = s.review
        /\ s'.committing = s.committing /\ s'.child.attempt <= s.attempt
    BY <1>2, <1>3, <1>6, <2>1 DEF Panels
  <2>3. Types'
    BY <1>0, <1>1, <1>6, <2>2 DEF IInv, Types
  <2>4. PanelFits'
    <3>1. UNCHANGED <<outcome, shown, helper, sigterm>> /\ engine'[s.attempt] = "reported"
      BY <1>0, <1>1, <1>6, <2>1
    <3>2. PanelFits /\ helper[s.attempt] = "none"
      BY <1>2, <2>1 DEF IInv
    <3> QED  BY <2>1, <2>2, <3>1, <3>2 DEF PanelFits, Live
  <2>5. ASSUME NEW m \in Attempt PROVE AttemptFits(m)'
    <3>1. AttemptFits(m)
      BY DEF IInv
    <3>2. EngineFits(m)'
      BY <1>1, <1>2, <1>6, <2>2, <3>1 DEF AttemptFits, EngineFits
    <3>3. StepFits(m)' /\ InputFits(m)'
      BY <1>0, <1>6, <3>1 DEF AttemptFits, StepFits, InputFits
    <3>4. SpeechFits(m)' /\ EndFits(m)'
      BY <1>0, <1>6, <2>1, <2>2, <3>1 DEF AttemptFits, SpeechFits, EndFits, Live
    <3> QED  BY <3>2, <3>3, <3>4 DEF AttemptFits
  <2>6. DocsFit'
    BY <1>0, <1>6, DocsKept DEF IInv
  <2> QED  BY <2>3, <2>4, <2>5, <2>6 DEF IInv
<1>7. CASE /\ Live(n) /\ reply[n] \in {"commit", "reduce"}
           /\ SpawnHelper([ended EXCEPT !.mode = reply[n]]) /\ UNCHANGED <<outcome, sigterm>>
  <2> DEFINE st == [ended EXCEPT !.mode = reply[n]]
  <2>1. n = s.attempt /\ ~s.resolved /\ s.committing /\ ~s.asking
    BY <1>0, <1>7 DEF Live, IInv, PanelFits
  <2> HIDE DEF ended
  <2>2. /\ st \in Panels /\ st.attempt = n /\ ~st.resolved /\ st.review = s.review /\ ~st.asking
        /\ st.committing
    BY <1>3, <1>7, <2>1 DEF Panels
  <2> HIDE DEF st
  <2>3. /\ s' \in Panels /\ s'.attempt = n /\ ~s'.resolved /\ s'.committing
        /\ s'.review = s.review /\ ~s'.asking /\ s'.child.attempt = n
        /\ helper' = [helper EXCEPT ![n] = "spawned"]
    <3>1. s' = WithChild(st, "commit") /\ helper' = [helper EXCEPT ![st.attempt] = "spawned"]
      BY <1>7 DEF SpawnHelper, st
    <3> QED  BY <2>2, <3>1, WithChildFields DEF Kinds
  <2> QED  BY <1>0, <1>1, <1>2, <1>7, <2>1, <2>3, SpawnFits
<1> QED  BY <1>4, <1>5, <1>6, <1>7 DEF ProposeEnded

LEMMA TailFits ==
  ASSUME NEW S, NEW q \in Seq(S), q # <<>>
  PROVE  /\ Head(q) = q[1] /\ 1 \in 1 .. Len(q) /\ Tail(q) \in Seq(S)
         /\ Len(Tail(q)) = Len(q) - 1 /\ Len(q) \in Nat
         /\ \A i \in 1 .. Len(Tail(q)) : i + 1 \in 1 .. Len(q) /\ Tail(q)[i] = q[i + 1]
         /\ Tail(q) # <<>> => Tail(q)[Len(Tail(q))] = q[Len(q)]
         /\ Tail(q) = <<>> => q[1] = q[Len(q)]
<1>1. /\ Head(q) = q[1] /\ 1 \in 1 .. Len(q) /\ Tail(q) \in Seq(S)
      /\ Len(Tail(q)) = Len(q) - 1 /\ Len(q) \in Nat \ {0}
      /\ \A i \in 1 .. Len(Tail(q)) : i + 1 \in 1 .. Len(q) /\ Tail(q)[i] = q[i + 1]
  BY EmptySeq
<1>2. Tail(q) # <<>> => Len(Tail(q)) \in Nat \ {0}
  BY <1>1, EmptySeq
<1>3. Tail(q) = <<>> => Len(Tail(q)) = 0
  BY EmptySeq
<1> QED  BY <1>1, <1>2, <1>3

(* What a line changes besides the machine.                                *)
LEMMA LineHeard ==
  ASSUME IInv, NEW n \in Attempt, CommitLine(n)
  PROVE  /\ UNCHANGED <<shell, engine, reply, base, helper, stdin, txn, head, doc, installed>>
         /\ stdout' \in [Attempt -> Seq(Answers)] /\ stdout[n] # <<>>
         /\ \A m \in Attempt : Quieter(m)
         /\ \A m \in Attempt \ {n} : stdout'[m] = stdout[m]
         /\ Head(stdout[n]) = stdout[n][1] /\ 1 \in 1 .. Len(stdout[n])
         /\ stdout'[n] # <<>> => stdout'[n][Len(stdout'[n])] = stdout[n][Len(stdout[n])]
         /\ stdout'[n] = <<>> => stdout[n][1] = stdout[n][Len(stdout[n])]
<1>0. /\ UNCHANGED <<shell, engine, reply, base, helper, stdin, txn, head, doc, installed>>
      /\ stdout[n] # <<>> /\ stdout' = [stdout EXCEPT ![n] = Tail(@)]
  BY DEF CommitLine, engines, service
<1>1. stdout \in [Attempt -> Seq(Answers)]
  BY DEF IInv, Types
<1>2. stdout[n] \in Seq(Answers) /\ Tail(stdout[n]) \in Seq(Answers)
  BY <1>0, <1>1, TailFits
<1>3. /\ stdout' \in [Attempt -> Seq(Answers)] /\ stdout'[n] = Tail(stdout[n])
      /\ \A m \in Attempt \ {n} : stdout'[m] = stdout[m]
  BY <1>0, <1>1, <1>2, Zenon
<1>4. ASSUME NEW m \in Attempt PROVE Quieter(m)
  <2>1. CASE m = n
    BY <1>0, <1>2, <1>3, <2>1, TailFits DEF Quieter
  <2>2. CASE m # n
    BY <1>3, <2>2 DEF Quieter
  <2> QED  BY <2>1, <2>2
<1>5. /\ Head(stdout[n]) = stdout[n][1] /\ 1 \in 1 .. Len(stdout[n])
      /\ stdout'[n] # <<>> => stdout'[n][Len(stdout'[n])] = stdout[n][Len(stdout[n])]
      /\ stdout'[n] = <<>> => stdout[n][1] = stdout[n][Len(stdout[n])]
  BY <1>0, <1>2, <1>3, TailFits
<1> QED  BY <1>0, <1>3, <1>4, <1>5

(* A line that ends nothing: one not listened to, or a review.             *)
LEMMA LineGoesOn ==
  ASSUME IInv, NEW n \in Attempt, CommitLine(n),
         Live(n) => Head(stdout[n]) = "prepared", UNCHANGED <<outcome, sigterm, queue>>,
         \/ UNCHANGED <<s, shown>>
         \/ /\ Live(n) /\ s' = [s EXCEPT !.review = TRUE]
            /\ shown' = shown \cup {n}
  PROVE  IInv'
<1>0. /\ UNCHANGED <<shell, engine, reply, base, helper, stdin, txn, head, doc, installed>>
      /\ stdout' \in [Attempt -> Seq(Answers)] /\ stdout[n] # <<>>
      /\ \A m \in Attempt : Quieter(m)
      /\ \A m \in Attempt \ {n} : stdout'[m] = stdout[m]
      /\ Head(stdout[n]) = stdout[n][1]
      /\ stdout'[n] # <<>> => stdout'[n][Len(stdout'[n])] = stdout[n][Len(stdout[n])]
      /\ stdout'[n] = <<>> => stdout[n][1] = stdout[n][Len(stdout[n])]
  BY LineHeard
<1>1. AttemptFits(n) /\ helper[n] \notin Early /\ s \in Panels
  BY <1>0 DEF IInv, AttemptFits, SpeechFits, Types
<1>2. /\ s' \in Panels /\ s'.attempt = s.attempt /\ s'.resolved = s.resolved
      /\ s'.committing = s.committing /\ s'.asking = s.asking /\ s'.child = s.child
      /\ shown \subseteq shown' /\ shown' \subseteq shown \cup {n}
      /\ s'.review => s.attempt \in shown'
  <2>1. CASE UNCHANGED <<s, shown>>
    BY <1>1, <2>1 DEF IInv, PanelFits
  <2>2. CASE Live(n) /\ s' = [s EXCEPT !.review = TRUE] /\ shown' = shown \cup {n}
    <3>1. n = s.attempt
      BY <2>2 DEF Live
    <3> QED  BY <1>1, <2>2, <3>1 DEF Panels
  <2> QED  BY <2>1, <2>2
<1>3. Types'
  <2>1. shown' \subseteq Attempt
    BY <1>2 DEF IInv, Types
  <2> QED  BY <1>0, <1>2, <2>1 DEF IInv, Types
<1>4. PanelFits'
  BY <1>0, <1>2 DEF IInv, PanelFits, Live
<1>5. ASSUME NEW m \in Attempt PROVE AttemptFits(m)'
  <2>1. AttemptFits(m) /\ Quieter(m) /\ (m \in shown' => helper[m] \notin Early)
    BY <1>0, <1>1, <1>2 DEF IInv, AttemptFits, SpeechFits
  <2>2. EngineFits(m)' /\ StepFits(m)' /\ InputFits(m)'
    BY <1>0, <1>2, <2>1 DEF AttemptFits, EngineFits, StepFits, InputFits
  <2>3. SpeechFits(m)'
    BY <1>0, <2>1 DEF AttemptFits, SpeechFits, Quieter
  <2>4. EndFits(m)'
    <3>1. CASE m = n
      <4>1. "prepared" \notin LastWords
        BY DEF LastWords
      <4> QED  BY <1>0, <1>2, <2>1, <3>1, <4>1 DEF AttemptFits, EndFits, Live
    <3>2. CASE m # n
      BY <1>0, <1>2, <2>1, <3>2 DEF AttemptFits, EndFits, Live
    <3> QED  BY <3>1, <3>2
  <2> QED  BY <2>2, <2>3, <2>4 DEF AttemptFits
<1>6. DocsFit'
  BY <1>0, DocsKept DEF IInv
<1> QED  BY <1>3, <1>4, <1>5, <1>6 DEF IInv

(* A line that resolves the attempt.                                       *)
LEMMA LineResolves ==
  ASSUME IInv, NEW n \in Attempt, CommitLine(n), NEW how \in LastWords, Live(n),
         Head(stdout[n]) = how, Resolve(how), UNCHANGED shown,
         queue' = queue \/ (how = "committed" /\ queue' = Append(queue, n))
  PROVE  IInv'
<1>0. /\ UNCHANGED <<shell, engine, reply, base, helper, stdin, txn, head, doc, installed>>
      /\ stdout' \in [Attempt -> Seq(Answers)]
      /\ \A m \in Attempt : Quieter(m)
      /\ Head(stdout[n]) = stdout[n][1] /\ 1 \in 1 .. Len(stdout[n])
  BY LineHeard
<1>1. n = s.attempt /\ ~s.resolved /\ queue \in Seq(Attempt)
  BY DEF Live, IInv, Types
<1>2. Settles(how) /\ SignalsFit
  BY <1>1, ResolveSettles
<1>3. how \in Failures => txn[n] \in Over /\ helper[n] \in Ended
  BY <1>0 DEF IInv, AttemptFits, SpeechFits
<1>4. /\ outcome' \in [Attempt -> {"", "committed", "nothing", "error", "cancelled"}]
      /\ outcome'[n] = how /\ \A m \in Attempt \ {n} : outcome'[m] = outcome[m]
      /\ outcome[n] = ""
  BY <1>1, <1>2 DEF IInv, Types, PanelFits, Settles, LastWords
<1>5. queue' \in Seq(Attempt) /\ \A i \in 1 .. Len(queue') : outcome'[queue'[i]] = "committed"
  <2>1. \A i \in 1 .. Len(queue) : queue[i] \in Attempt /\ outcome[queue[i]] = "committed"
    BY <1>1 DEF IInv, DocsFit
  <2>2. \A i \in 1 .. Len(queue) : outcome'[queue[i]] = "committed"
    BY <1>4, <2>1
  <2>3. CASE queue' = queue
    BY <1>1, <2>2, <2>3
  <2>4. CASE how = "committed" /\ queue' = Append(queue, n)
    <3>1. /\ queue' \in Seq(Attempt) /\ Len(queue') = Len(queue) + 1 /\ Len(queue) \in Nat
          /\ queue'[Len(queue) + 1] = n
          /\ \A i \in 1 .. Len(queue) : queue'[i] = queue[i]
      BY <1>1, <2>4, AppendProperties
    <3>2. \A i \in 1 .. Len(queue') : i \in 1 .. Len(queue) \/ i = Len(queue) + 1
      BY <3>1
    <3> QED  BY <1>4, <2>2, <2>4, <3>1, <3>2
  <2> QED  BY <2>3, <2>4
<1>6. Types'
  BY <1>0, <1>2, <1>4, <1>5 DEF IInv, Types, Settles, SignalsFit
<1>7. PanelFits'
  BY <1>2, SettledPanel
<1>8. ASSUME NEW m \in Attempt PROVE AttemptFits(m)'
  <2>1. EngineFits(m)'
    <3>1. m > s.attempt => outcome'[m] = outcome[m]
      BY <1>2, SettledLater
    <3> QED  BY <1>0, <1>2, <3>1 DEF IInv, AttemptFits, EngineFits, Settles
  <2> QED  BY <1>0, <1>1, <1>2, <1>3, <2>1, SettledAttempt
<1>9. DocsFit'
  <2>1. installed # 0 => \E m \in Attempt : outcome'[m] = "committed" /\ doc[m] = installed
    BY <1>4 DEF IInv, DocsFit
  <2> QED  BY <1>0, <1>5, <2>1 DEF IInv, DocsFit
<1> QED  BY <1>6, <1>7, <1>8, <1>9 DEF IInv

LEMMA CommitLineStep ==
  ASSUME IInv, NEW n \in Attempt, CommitLine(n)
  PROVE  IInv'
<1> DEFINE line == Head(stdout[n])
<1>1. CASE /\ ~Listens(n) \/ (line = "prepared" /\ (s.mode # "commit" \/ s.review))
           /\ UNCHANGED <<panel, sigterm, queue>>
  <2>1. UNCHANGED <<s, outcome, shown, sigterm, queue>> /\ (Live(n) => line = "prepared")
    BY <1>1 DEF panel, Listens
  <2> QED  BY <2>1, LineGoesOn
<1>2. CASE /\ Listens(n) /\ line = "prepared" /\ s.mode = "commit" /\ ~s.review
           /\ s' = [s EXCEPT !.review = TRUE] /\ shown' = shown \cup {n}
           /\ UNCHANGED <<outcome, sigterm, queue>>
  BY <1>2, LineGoesOn DEF Listens
<1>3. CASE /\ Listens(n) /\ line = "committed"
           /\ Resolve("committed") /\ Install(n) /\ UNCHANGED shown
  <2>1. "committed" \in LastWords
    BY DEF LastWords
  <2> QED  BY <1>3, <2>1, LineResolves DEF Listens, Install
<1>4. CASE /\ Listens(n) /\ line \in {"nothing", "error"}
           /\ Resolve(line) /\ UNCHANGED <<shown, queue>>
  <2>1. line \in LastWords
    BY <1>4 DEF LastWords
  <2> QED  BY <1>4, <2>1, LineResolves DEF Listens
<1> QED  BY <1>1, <1>2, <1>3, <1>4 DEF CommitLine

-----------------------------------------------------------------------------
LEMMA StepFitsAll == IInv /\ [Next]_vars => IInv'
<1> SUFFICES ASSUME IInv, [Next]_vars PROVE IInv'
  OBVIOUS
<1>1. CASE User
  BY <1>1, StartStep, ConfirmReplaceStep, CancelStep, AuthorizePressed DEF User
<1>2. ASSUME NEW n \in Attempt, Runs(n) \/ Signs(n) \/ LeaseEnds(n) PROVE IInv'
  <2>1. CASE EngineRuns(n) \/ ProposeEnded(n) \/ CommitLine(n) \/ CommitEnded(n)
    BY <2>1, EngineRunsStep, ProposeEndedStep, CommitLineStep, CommitEndedStep
  <2>2. CASE HelperRuns(n)
    BY <2>2, CommitStartedStep, KilledStep, ReadRequestStep, PreparedStep, DecisionStep,
       WithdrawsStep, AnswerStep DEF HelperRuns
  <2>3. CASE ServiceRuns(n) \/ Signs(n) \/ LeaseEnds(n)
    BY <2>3, PreparesStep, RefusesStep, SignatureStep, SlotEndsStep DEF ServiceRuns
  <2> QED  BY <1>2, <2>1, <2>2, <2>3 DEF Runs
<1>3. CASE UNCHANGED vars
  <2>1. UNCHANGED <<shell, s, outcome, shown, engine, reply, base, helper, stdin, stdout, sigterm,
                    txn, head, doc, queue, installed>>
    BY <1>3 DEF vars, panel, engines, pipes, service, install
  <2>2. Types'
    BY <2>1 DEF IInv, Types
  <2>3. PanelFits'
    BY <2>1, PanelKept DEF IInv
  <2>4. \A m \in Attempt : AttemptFits(m)'
    BY <2>1, OthersFit DEF IInv, Untouched
  <2>5. DocsFit'
    BY <2>1, DocsKept DEF IInv
  <2> QED  BY <2>2, <2>3, <2>4, <2>5 DEF IInv
<1> QED  BY <1>1, <1>2, <1>3, InstallRunsStep, ShellDiesStep DEF Next

LEMMA AlwaysFits == Spec => []IInv
<1>1. Init => IInv
  BY InitFits
<1>2. IInv /\ [Next]_vars => IInv'
  BY StepFitsAll
<1> QED  BY <1>1, <1>2, PTL DEF Spec

(* No credential check is asked for before the review of that attempt has  *)
(* been on the panel.                                                      *)
THEOREM ReviewedBeforeChecked == Spec => []CheckFollowsReview
<1>1. IInv => CheckFollowsReview
  BY DEF IInv, AttemptFits, InputFits, CheckFollowsReview
<1> QED  BY <1>1, AlwaysFits, PTL

(* What was cancelled is never installed.                                  *)
THEOREM CancelledIsNeverInstalled == Spec => []CancelledStaysOut
<1>1. IInv => CancelledStaysOut
  <2> SUFFICES ASSUME IInv, NEW n \in Attempt, outcome[n] = "cancelled"
               PROVE  /\ \A i \in 1 .. Len(queue) : queue[i] # n
                      /\ doc[n] # 0 => installed # doc[n]
    BY DEF CancelledStaysOut
  <2> QED  BY DEF IInv, DocsFit
<1> QED  BY <1>1, AlwaysFits, PTL

(* The panel says "failed" or "nothing to do" of no change that has a      *)
(* document.                                                               *)
THEOREM NoDocumentBehindAnError == Spec => []ErrorMeansNoDocument
<1>1. IInv => ErrorMeansNoDocument
  <2> SUFFICES ASSUME IInv, NEW n \in Attempt, outcome[n] \in {"error", "nothing"}
               PROVE  doc[n] = 0
    BY DEF ErrorMeansNoDocument
  <2>1. txn[n] \in Over
    BY DEF IInv, AttemptFits, EndFits, Failures
  <2> QED  BY <2>1 DEF IInv, DocsFit, Over
<1> QED  BY <1>1, AlwaysFits, PTL
=============================================================================
