-------------------------- MODULE Authority_proofs --------------------------
(***************************************************************************)
(* What is proved of Authority, for every value of its constants: first    *)
(* what becomes of documents on disk, then what becomes of approvals and   *)
(* reviews, and with both that Authority implements LaunchPromise.         *)
(***************************************************************************)
EXTENDS Authority, TLAPS

-----------------------------------------------------------------------------
(* The operators the actions are built from.                               *)

LEMMA NoDraftType == NoDraft \in Draft /\ Idle \in Call
<1>1. NoEntries \in [{} -> Entry]
  BY DEF NoEntries
<1>2. NoEntries \in Content
  BY <1>1 DEF Content
<1>3. NoDraft \in Draft
  BY <1>2, BoundsAssumption DEF NoDraft, Draft
<1>4. QED
  BY <1>3, LimitsAssumption DEF Idle, Call, Steps

LEMMA LaunchesType == ASSUME NEW content \in Content PROVE Launches(content) \subseteq Launch
<1>1. PICK S \in SUBSET Class : content \in [S -> Entry]
  BY DEF Content
<1>2. \A c \in S : content[c].command \in Command
  BY <1>1 DEF Entry
<1>3. QED
  BY <1>1, <1>2 DEF Launches, Launch

LEMMA ReducedType ==
  ASSUME NEW content \in Content, NEW disable, NEW drop
  PROVE  Reduced(content, disable, drop) \in Content
<1>1. PICK S \in SUBSET Class : content \in [S -> Entry]
  BY DEF Content
<1>2. Reduced(content, disable, drop) \in [S \ drop -> Entry]
  <2>1. ASSUME NEW c \in S \ drop
        PROVE  [command |-> content[c].command,
                enabled |-> content[c].enabled /\ c \notin disable] \in Entry
    BY <1>1 DEF Entry
  <2>2. QED
    BY <1>1, <2>1 DEF Reduced
<1>3. QED
  BY <1>2 DEF Content

LEMMA HeadType == TypeOK => Head \in Public
BY DEF TypeOK, StoreTypeOK, FileSystem, Dir, Head

LEMMA VerifiedBaseType ==
  ASSUME TypeOK, NEW bases \in Bases
  PROVE  VerifiedBase(bases) \in Content
<1>1. bases \subseteq Document
  BY DEF Bases, TypeOK
<1>2. \A doc \in bases : doc.draft.content \in Content
  BY <1>1 DEF Document, Draft
<1>3. NoEntries \in Content
  BY NoDraftType DEF NoDraft, Draft
<1>4. QED
  BY <1>2, <1>3 DEF VerifiedBase

LEMMA OpenType == TypeOK /\ Open => pending \in Transaction
BY DEF TypeOK, Open

LEMMA CheckIdType == TypeOK => CheckId \in 0 .. MaxTx
<1> SUFFICES ASSUME TypeOK PROVE CheckId \in 0 .. MaxTx
  OBVIOUS
<1>1. CASE Claimed
  BY <1>1, OpenType, LimitsAssumption DEF CheckId, Claimed, Transaction, Tx
<1>2. CASE ~Claimed
  BY <1>2, LimitsAssumption DEF CheckId
<1>3. QED
  BY <1>1, <1>2

LEMMA DropPendingType ==
  ASSUME TypeOK, DropPending
  PROVE  pending' \in Transaction \cup {NoTxn} /\ revoked' \subseteq Tx
BY OpenType DEF DropPending, TypeOK, Transaction

LEMMA CancelCheckType ==
  ASSUME TypeOK, NEW n, CancelCheck(n)
  PROVE  cancelled' \subseteq 0 .. MaxTx
<1>1. ASSUME NEW m, Checking(m) PROVE m \in 0 .. MaxTx
  BY <1>1 DEF Checking, TypeOK, Call
<1>2. QED
  BY <1>1 DEF CancelCheck, TypeOK

LEMMA CallUpdateType ==
  ASSUME TypeOK, NEW t \in Threads, NEW c \in Call, call' = [call EXCEPT ![t] = c]
  PROVE  call' \in [Threads -> Call]
BY DEF TypeOK

LEMMA GoesType ==
  ASSUME TypeOK, NEW t \in Threads, NEW step \in Steps, Goes(t, step)
  PROVE  call' \in [Threads -> Call] /\ lock' = lock
<1>1. [call[t] EXCEPT !.at = step] \in Call
  BY DEF TypeOK, Call
<1>2. QED
  BY <1>1 DEF Goes, TypeOK

LEMMA FinishType ==
  ASSUME TypeOK, NEW t \in Threads, Finish(t)
  PROVE  call' \in [Threads -> Call] /\ lock' = {}
<1>1. call[t] \in Call
  BY DEF TypeOK
<1>2. [Idle EXCEPT !.at = "fire", !.cancel = call[t].cancel] \in Call
  BY <1>1, NoDraftType DEF Call, Idle, Steps
<1>3. QED
  BY <1>2, NoDraftType DEF Finish, TypeOK

LEMMA StoreStepType ==
  ASSUME TypeOK,
         \/ MakeUserDir \/ SyncRoot \/ SyncUserDir \/ CreateKey \/ WriteSeed
         \/ (\E gen \in 0 .. MaxGen : RenamePublic(gen))
         \/ RenameToTombstone \/ (\E k \in fs.tombs : RemoveTombstone(k)) \/ LosePower
         \/ UNCHANGED storeVars
  PROVE  StoreTypeOK'
<1> USE BoundsAssumption DEF TypeOK, StoreTypeOK, FileSystem
<1>0. NoDir \in Dir
  BY DEF NoDir, Dir, NoPub, Public
<1>1. ASSUME NEW new \in FileSystem, Becomes(new), nextKey' \in 1 .. MaxKey + 1
      PROVE  StoreTypeOK'
  BY <1>1 DEF Becomes
<1>2. CASE MakeUserDir
  <2>1. [fs EXCEPT !.dir = [fs.dir EXCEPT !.made = TRUE]] \in FileSystem
    BY DEF Dir
  <2>2. QED
    BY <1>1, <1>2, <2>1 DEF MakeUserDir, BecomesDir
<1>3. CASE SyncRoot
  BY <1>3 DEF SyncRoot
<1>4. CASE SyncUserDir
  BY <1>4 DEF SyncUserDir
<1>5. CASE CreateKey
  <2>1. nextKey \in 0 .. MaxKey /\ nextKey' \in 1 .. MaxKey + 1
    BY <1>5 DEF CreateKey
  <2>2. [fs.dir EXCEPT !.key = nextKey, !.seeded = FALSE] \in Dir
    BY <2>1 DEF Dir
  <2>3. [fs EXCEPT !.dir = [fs.dir EXCEPT !.key = nextKey, !.seeded = FALSE]] \in FileSystem
    BY <2>2
  <2>4. QED
    BY <1>1, <1>5, <2>1, <2>3 DEF CreateKey, BecomesDir
<1>6. CASE WriteSeed
  <2>1. [fs EXCEPT !.dir = [fs.dir EXCEPT !.seeded = TRUE]] \in FileSystem
    BY DEF Dir
  <2>2. QED
    BY <1>1, <1>6, <2>1 DEF WriteSeed, BecomesDir
<1>7. ASSUME NEW gen \in 0 .. MaxGen, RenamePublic(gen) PROVE StoreTypeOK'
  <2>1. [fs EXCEPT !.dir = [fs.dir EXCEPT !.pub = [key |-> fs.dir.key, gen |-> gen]]]
          \in FileSystem
    BY DEF Dir, Public
  <2>2. QED
    BY <1>1, <1>7, <2>1 DEF RenamePublic, BecomesDir
<1>8. CASE RenameToTombstone
  <2>1. (IF HasKey THEN {fs.dir.key} ELSE {}) \subseteq Key
    BY DEF HasKey, Dir, Key
  <2>2. [dir |-> NoDir, tombs |-> fs.tombs \cup (IF HasKey THEN {fs.dir.key} ELSE {})]
          \in FileSystem
    BY <1>0, <2>1
  <2>3. QED
    BY <1>1, <1>8, <2>2 DEF RenameToTombstone
<1>9. ASSUME NEW k \in fs.tombs, RemoveTombstone(k) PROVE StoreTypeOK'
  <2>1. [fs EXCEPT !.tombs = @ \ {k}] \in FileSystem
    OBVIOUS
  <2>2. QED
    BY <1>1, <1>9, <2>1 DEF RemoveTombstone
<1>10. CASE LosePower
  BY <1>10 DEF LosePower
<1>11. CASE UNCHANGED storeVars
  BY <1>11 DEF storeVars
<1>12. QED
  BY <1>2, <1>3, <1>4, <1>5, <1>6, <1>7, <1>8, <1>9, <1>10, <1>11

-----------------------------------------------------------------------------
(* The types are kept by every step.                                       *)

LEMMA ClientStepType ==
  ASSUME TypeOK, NEW s \in Senders,
         Prepare(s) \/ OwnerCheck(s) \/ Disconnect(s) \/ Sweep(s)
  PROVE  TypeOK'
<1> USE DEF storeVars, cellVars, busVars, historyVars, boundVars
<1>1. CASE Prepare(s)
  <2>1. CASE Open /\ DropPending /\ UNCHANGED <<nextTx, rechecks>>
    BY <1>1, <2>1, DropPendingType DEF Prepare, TypeOK, StoreTypeOK
  <2>2. ASSUME NEW bases \in Bases, NEW content \in Content,
               Head.gen < MaxGen, nextTx <= MaxTx,
               pending' = [tx |-> nextTx, sender |-> s, base |-> Head, claimed |-> FALSE,
                           draft |-> [gen |-> Head.gen + 1, content |-> content,
                                      shown |-> Shown(VerifiedBase(bases), content)]],
               revoked' = revoked \cup (IF Open THEN {pending.tx} ELSE {}),
               nextTx' = nextTx + 1, rechecks' = rechecks \cup {s}
        PROVE  TypeOK'
    <3>1. Shown(VerifiedBase(bases), content) \subseteq Launch
      BY LaunchesType DEF Shown
    <3>2. Head \in Public
      BY HeadType
    <3>3. Head.gen + 1 \in 0 .. MaxGen
      BY <2>2, <3>2, BoundsAssumption DEF Public
    <3>4. [gen |-> Head.gen + 1, content |-> content,
           shown |-> Shown(VerifiedBase(bases), content)] \in Draft
      BY <3>1, <3>3 DEF Draft
    <3>5. nextTx \in Tx /\ nextTx' \in 1 .. MaxTx + 1
      BY <2>2, LimitsAssumption DEF TypeOK, Tx
    <3>6. pending' \in Transaction
      BY <2>2, <3>2, <3>4, <3>5 DEF Transaction
    <3>7. revoked' \subseteq Tx
      BY <2>2, OpenType DEF TypeOK, Transaction
    <3>8. QED
      BY <1>1, <2>2, <3>5, <3>6, <3>7 DEF Prepare, TypeOK, StoreTypeOK
  <2>3. QED
    BY <1>1, <2>1, <2>2 DEF Prepare
<1>2. CASE OwnerCheck(s)
  BY <1>2 DEF OwnerCheck, TypeOK, StoreTypeOK
<1>3. CASE Disconnect(s)
  BY <1>3 DEF Disconnect, TypeOK, StoreTypeOK
<1>4. CASE Sweep(s)
  <2>1. CASE DropPending /\ CancelCheck(CheckId)
    BY <1>4, <2>1, DropPendingType, CancelCheckType DEF Sweep, TypeOK, StoreTypeOK
  <2>2. CASE UNCHANGED <<pending, revoked, cancelled>>
    BY <1>4, <2>2 DEF Sweep, TypeOK, StoreTypeOK
  <2>3. QED
    BY <1>4, <2>1, <2>2 DEF Sweep
<1>5. QED
  BY <1>1, <1>2, <1>3, <1>4

LEMMA AuthorizeStepType ==
  ASSUME TypeOK, NEW t \in Threads,
         \/ \E s \in Senders : Claim(t, s)
         \/ HumanAnswers(t) \/ CheckEnds(t) \/ Invalidate(t) \/ Revalidate(t)
  PROVE  TypeOK'
<1> USE DEF storeVars, cellVars, busVars, historyVars, boundVars
<1>0. call[t] \in Call
  BY DEF TypeOK
<1>1. ASSUME NEW s \in Senders, Claim(t, s) PROVE TypeOK'
  <2>1. CASE DropPending /\ UNCHANGED call
    BY <1>1, <2>1, DropPendingType DEF Claim, TypeOK, StoreTypeOK
  <2>2. CASE /\ pending' = [pending EXCEPT !.claimed = TRUE]
             /\ call' = [call EXCEPT ![t] = [Idle EXCEPT !.at = "check", !.tx = pending.tx]]
             /\ UNCHANGED revoked
    <3>1. pending \in Transaction
      BY <1>1, OpenType DEF Claim
    <3>2. pending' \in Transaction
      BY <2>2, <3>1 DEF Transaction
    <3>3. pending.tx \in 0 .. MaxTx
      BY <3>1, LimitsAssumption DEF Transaction, Tx
    <3>4. [Idle EXCEPT !.at = "check", !.tx = pending.tx] \in Call
      BY <3>3, NoDraftType DEF Call, Steps
    <3>5. call' \in [Threads -> Call]
      BY <2>2, <3>4, CallUpdateType
    <3>6. QED
      BY <1>1, <2>2, <3>2, <3>5 DEF Claim, TypeOK, StoreTypeOK
  <2>3. QED
    BY <1>1, <2>1, <2>2 DEF Claim
<1>2. CASE HumanAnswers(t)
  <2>1. [call[t] EXCEPT !.at = "approved"] \in Call /\ [call[t] EXCEPT !.at = "denied"] \in Call
    BY <1>0 DEF Call, Steps
  <2>2. call' \in [Threads -> Call]
    BY <1>2, <2>1 DEF HumanAnswers, TypeOK
  <2>3. granted' \subseteq 0 .. MaxTx
    BY <1>0, <1>2 DEF HumanAnswers, TypeOK, Call
  <2>4. QED
    BY <1>2, <2>2, <2>3 DEF HumanAnswers, TypeOK, StoreTypeOK
<1>3. CASE CheckEnds(t)
  <2>1. [call[t] EXCEPT !.at = "denied"] \in Call
    BY <1>0 DEF Call, Steps
  <2>2. call' \in [Threads -> Call]
    BY <1>3, <2>1 DEF CheckEnds, TypeOK
  <2>3. QED
    BY <1>3, <2>2 DEF CheckEnds, TypeOK, StoreTypeOK
<1>4. CASE Invalidate(t)
  <2>1. pending' \in Transaction \cup {NoTxn} /\ revoked' \subseteq Tx
    BY <1>4, DropPendingType DEF Invalidate, TypeOK
  <2>2. call' \in [Threads -> Call]
    BY <1>4, NoDraftType, CallUpdateType DEF Invalidate
  <2>3. QED
    BY <1>4, <2>1, <2>2 DEF Invalidate, TypeOK, StoreTypeOK
<1>5. CASE Revalidate(t)
  <2>1. CASE StillOurs(t) /\ StillBase
    <3>1. pending.draft \in Draft
      BY <2>1, OpenType DEF StillOurs, Claimed, Transaction
    <3>2. [call[t] EXCEPT !.at = "mkdir", !.draft = pending.draft] \in Call
      BY <1>0, <3>1 DEF Call, Steps, CommitSteps
    <3>3. call' \in [Threads -> Call]
      BY <1>5, <2>1, <3>2 DEF Revalidate, TypeOK
    <3>4. QED
      BY <1>5, <2>1, <3>3 DEF Revalidate, TypeOK, StoreTypeOK
  <2>2. CASE ~(StillOurs(t) /\ StillBase)
    <3>1. pending' \in Transaction \cup {NoTxn} /\ revoked' \subseteq Tx
      BY <1>5, <2>2, DropPendingType DEF Revalidate, TypeOK
    <3>2. call' \in [Threads -> Call]
      BY <1>5, <2>2, NoDraftType, CallUpdateType DEF Revalidate
    <3>3. QED
      BY <1>5, <2>2, <3>1, <3>2 DEF Revalidate, TypeOK, StoreTypeOK
  <2>3. QED
    BY <2>1, <2>2
<1>6. QED
  BY <1>1, <1>2, <1>3, <1>4, <1>5

LEMMA ReduceStepType ==
  ASSUME TypeOK, NEW t \in Threads, Reduce(t) \/ FireInvalidate(t)
  PROVE  TypeOK'
<1> USE DEF storeVars, cellVars, busVars, historyVars, boundVars
<1>1. CASE FireInvalidate(t)
  <2>1. call' \in [Threads -> Call]
    BY <1>1, NoDraftType, CallUpdateType DEF FireInvalidate
  <2>2. cancelled' \subseteq 0 .. MaxTx
    BY <1>1, CancelCheckType DEF FireInvalidate
  <2>3. QED
    BY <1>1, <2>1, <2>2 DEF FireInvalidate, TypeOK, StoreTypeOK
<1>2. CASE Reduce(t)
  <2>1. pending' \in Transaction \cup {NoTxn} /\ revoked' \subseteq Tx
    BY <1>2, DropPendingType DEF Reduce
  <2>2. ASSUME NEW doc \in released, NEW disable \in SUBSET Class, NEW drop \in SUBSET Class,
               Head.gen < MaxGen, lock' = {t},
               call' = [call EXCEPT ![t] =
                 [at |-> "mkdir", tx |-> 0, cancel |-> CheckId,
                  draft |-> [gen |-> Head.gen + 1,
                             content |-> Reduced(doc.draft.content, disable, drop),
                             shown |-> {}]]]
        PROVE  TypeOK'
    <3>1. doc.draft.content \in Content
      BY DEF TypeOK, Document, Draft
    <3>2. Reduced(doc.draft.content, disable, drop) \in Content
      BY <3>1, ReducedType
    <3>3. Head.gen + 1 \in 0 .. MaxGen
      BY <2>2, HeadType, BoundsAssumption DEF Public
    <3>4. [gen |-> Head.gen + 1, content |-> Reduced(doc.draft.content, disable, drop),
           shown |-> {}] \in Draft
      BY <3>2, <3>3 DEF Draft
    <3> DEFINE c == [at |-> "mkdir", tx |-> 0, cancel |-> CheckId,
                     draft |-> [gen |-> Head.gen + 1,
                                content |-> Reduced(doc.draft.content, disable, drop),
                                shown |-> {}]]
    <3>5. c \in Call
      BY <3>4, CheckIdType, LimitsAssumption DEF Call, Steps, CommitSteps
    <3> HIDE DEF c
    <3>6. call' \in [Threads -> Call]
      <4>1. call' = [call EXCEPT ![t] = c]
        BY <2>2 DEF c
      <4>2. QED
        BY <3>5, <4>1, CallUpdateType
    <3>7. QED
      BY <1>2, <2>1, <2>2, <3>6 DEF Reduce, TypeOK, StoreTypeOK
  <2>3. CASE /\ call' = [call EXCEPT ![t] = [Idle EXCEPT !.at = "fire", !.cancel = CheckId]]
             /\ UNCHANGED lock
    <3>1. [Idle EXCEPT !.at = "fire", !.cancel = CheckId] \in Call
      BY NoDraftType, CheckIdType DEF Call, Steps
    <3>2. call' \in [Threads -> Call]
      BY <2>3, <3>1, CallUpdateType
    <3>3. QED
      BY <1>2, <2>1, <2>3, <3>2 DEF Reduce, TypeOK, StoreTypeOK
  <2>4. QED
    BY <1>2, <2>2, <2>3 DEF Reduce
<1>3. QED
  BY <1>1, <1>2

(* What a step that only walks on in the file system keeps.                *)
LEMMA RestType ==
  ASSUME TypeOK, NEW t \in Threads, Rest, StoreTypeOK',
         (\E step \in Steps : Goes(t, step)) \/ Finish(t)
  PROVE  TypeOK'
BY GoesType, FinishType
   DEF Rest, TypeOK, cellVars, busVars, historyVars, boundVars

LEMMA CommitStepType ==
  ASSUME TypeOK, NEW t \in Threads, Commit(t)
  PROVE  TypeOK'
<1> USE DEF Steps, CommitSteps
<1>1. CASE MakeDir(t)
  BY <1>1, StoreStepType, RestType DEF MakeDir
<1>2. CASE SyncDirEntry(t)
  BY <1>2, StoreStepType, RestType DEF SyncDirEntry
<1>3. CASE FindKey(t)
  BY <1>3, StoreStepType, RestType DEF FindKey
<1>4. CASE Seed(t)
  BY <1>4, StoreStepType, RestType DEF Seed
<1>5. CASE SyncKey(t)
  BY <1>5, StoreStepType, RestType DEF SyncKey
<1>6. CASE PublishZero(t)
  <2>1. 0 \in 0 .. MaxGen
    BY BoundsAssumption
  <2>2. QED
    BY <1>6, <2>1, StoreStepType, RestType DEF PublishZero
<1>7. CASE SyncZero(t)
  BY <1>7, StoreStepType, RestType DEF SyncZero
<1>8. CASE SignAndPublish(t)
  <2>1. call[t].draft.gen \in 0 .. MaxGen
    BY DEF TypeOK, Call, Draft
  <2>2. QED
    BY <1>8, <2>1, StoreStepType, RestType DEF SignAndPublish
<1>9. CASE SyncPublished(t)
  BY <1>9, StoreStepType, RestType DEF SyncPublished
<1>10. CASE Release(t)
  <2>1. [key |-> fs.dir.key, tx |-> call[t].tx, draft |-> call[t].draft] \in Document
    BY DEF TypeOK, StoreTypeOK, FileSystem, Dir, Call, Document
  <2>2. QED
    BY <1>10, <2>1, FinishType
       DEF Release, TypeOK, StoreTypeOK, storeVars, cellVars, busVars, boundVars
<1>11. QED
  BY <1>1, <1>2, <1>3, <1>4, <1>5, <1>6, <1>7, <1>8, <1>9, <1>10 DEF Commit

LEMMA PurgeStepType ==
  ASSUME TypeOK, NEW t \in Threads, PurgeAsks(t) \/ PurgeAnswered(t) \/ PurgeRuns(t)
  PROVE  TypeOK'
<1> USE DEF Steps, PurgeSteps
<1>1. CASE PurgeAsks(t)
  <2>1. [Idle EXCEPT !.at = "purgeCheck"] \in Call
    BY NoDraftType DEF Call
  <2>2. call' \in [Threads -> Call]
    BY <1>1, <2>1, CallUpdateType DEF PurgeAsks
  <2>3. QED
    BY <1>1, <2>2 DEF PurgeAsks, Rest, TypeOK, StoreTypeOK, storeVars, cellVars, busVars,
                      historyVars, boundVars
<1>2. CASE PurgeAnswered(t)
  <2>1. call' \in [Threads -> Call] /\ UNCHANGED lock
    BY <1>2, NoDraftType, CallUpdateType, GoesType DEF PurgeAnswered
  <2>2. QED
    BY <1>2, <2>1 DEF PurgeAnswered, Rest, TypeOK, StoreTypeOK, storeVars, cellVars, busVars,
                      historyVars, boundVars
<1>3. CASE PurgeTakes(t)
  <2>1. [call[t] EXCEPT !.at = "tomb", !.cancel = CheckId] \in Call
    BY CheckIdType DEF TypeOK, Call
  <2>2. call' \in [Threads -> Call]
    BY <1>3, <2>1 DEF PurgeTakes, TypeOK
  <2>3. QED
    BY <1>3, <2>2, DropPendingType
       DEF PurgeTakes, TypeOK, StoreTypeOK, storeVars, busVars, boundVars
<1>4. CASE Entomb(t)
  BY <1>4, StoreStepType, RestType DEF Entomb
<1>5. CASE SyncGone(t)
  BY <1>5, StoreStepType, RestType DEF SyncGone
<1>6. CASE Reap(t)
  BY <1>6, StoreStepType, RestType DEF Reap
<1>7. CASE PurgeSucceeds(t)
  <2>1. StoreTypeOK'
    BY <1>7, StoreStepType DEF PurgeSucceeds
  <2>2. purgedBelow' \in 1 .. MaxKey + 1
    BY <1>7 DEF PurgeSucceeds, TypeOK, StoreTypeOK
  <2>3. QED
    BY <1>7, <2>1, <2>2, FinishType
       DEF PurgeSucceeds, TypeOK, cellVars, busVars, boundVars
<1>8. QED
  BY <1>1, <1>2, <1>3, <1>4, <1>5, <1>6, <1>7 DEF PurgeRuns

LEMMA FaultStepType ==
  ASSUME TypeOK, (\E t \in Threads : Fails(t)) \/ LeaseRunsOut \/ ServiceDies \/ PowerLoss
  PROVE  TypeOK'
<1> USE DEF storeVars, cellVars, busVars, historyVars, boundVars
<1>1. ASSUME NEW t \in Threads, Fails(t) PROVE TypeOK'
  <2>1. faults' \in 0 .. MaxFaults
    BY <1>1, LimitsAssumption DEF Fails, TypeOK
  <2>2. QED
    BY <1>1, <2>1, FinishType DEF Fails, TypeOK, StoreTypeOK
<1>2. CASE LeaseRunsOut
  BY <1>2, OpenType DEF LeaseRunsOut, TypeOK, StoreTypeOK, Transaction
<1>3. ASSUME ServiceStateLost
      PROVE  /\ pending' \in Transaction \cup {NoTxn} /\ revoked' \subseteq Tx
             /\ call' \in [Threads -> Call] /\ crashes' \in 0 .. MaxCrashes
  BY <1>3, DropPendingType, NoDraftType, LimitsAssumption DEF ServiceStateLost, TypeOK
<1>4. CASE ServiceDies
  BY <1>3, <1>4 DEF ServiceDies, ServiceStateLost, TypeOK, StoreTypeOK
<1>5. CASE PowerLoss
  <2>1. StoreTypeOK'
    BY <1>5, StoreStepType DEF PowerLoss
  <2>2. QED
    BY <1>3, <1>5, <2>1 DEF PowerLoss, ServiceStateLost, TypeOK
<1>6. QED
  BY <1>1, <1>2, <1>4, <1>5

-----------------------------------------------------------------------------
(* Type correctness of the engine and its store: TypeOK holds in every     *)
(* reachable state, whatever the senders, the threads and the bounds.      *)
THEOREM TypeCorrect == Spec => []TypeOK
<1>1. Init => TypeOK
  <2> SUFFICES ASSUME Init PROVE TypeOK
    OBVIOUS
  <2>1. NoDir \in Dir
    BY BoundsAssumption DEF NoDir, Dir, NoPub, Public
  <2>2. StoreTypeOK
    BY <2>1, BoundsAssumption DEF Init, StoreInit, StoreTypeOK, FileSystem
  <2>3. QED
    BY <2>2, NoDraftType, BoundsAssumption, LimitsAssumption DEF Init, TypeOK
<1>2. TypeOK /\ [Next]_vars => TypeOK'
  <2>1. CASE UNCHANGED vars
    BY <2>1 DEF vars, storeVars, cellVars, busVars, historyVars, boundVars, TypeOK, StoreTypeOK
  <2>2. QED
    BY <2>1, ClientStepType, AuthorizeStepType, ReduceStepType, CommitStepType,
       PurgeStepType, FaultStepType DEF Next, Proceeds
<1>3. QED
  BY <1>1, <1>2, PTL DEF Spec

-----------------------------------------------------------------------------
(* The documents: DocumentsInv is inductive.                               *)

Critical == IoSteps \cup {"reply"}

(* A step that touches neither the store nor the documents, and starts no  *)
(* thread anywhere but at the first step under the lock.                   *)
LEMMA QuietStep ==
  ASSUME DocumentsInv,
         UNCHANGED <<fs, disk, nextKey, released, purgedBelow>>,
         \A t \in Threads : call'[t].at \in Critical => lock' = {t},
         \A t \in Threads : \/ call'[t] = call[t]
                             \/ call'[t].at \notin Critical
                             \/ call'[t].at \in {"mkdir", "tomb"}
  PROVE  DocumentsInv'
<1>1. LockIsHeld'
  BY DEF LockIsHeld, Critical
<1>2. DiskIsSound' /\ DocumentsAreCovered' /\ OneDocPerGeneration'
  BY DEF DocumentsInv, DiskIsSound, SoundState, DocumentsAreCovered, OneDocPerGeneration
<1>3. ASSUME NEW t \in Threads PROVE CommitKnows(t)' /\ PurgeKnows(t)'
  <2>1. CommitKnows(t) /\ PurgeKnows(t)
    BY DEF DocumentsInv
  <2>2. CASE call'[t] = call[t]
    BY <2>1, <2>2 DEF CommitKnows, PurgeKnows, HasKey, HasPublic, Head
  <2>3. CASE call'[t].at \notin Critical
    BY <2>3 DEF CommitKnows, PurgeKnows, Critical, IoSteps, CommitSteps, PurgeSteps
  <2>4. CASE call'[t].at \in {"mkdir", "tomb"}
    BY <2>4 DEF CommitKnows, PurgeKnows
  <2>5. QED
    BY <2>2, <2>3, <2>4
<1>4. QED
  BY <1>1, <1>2, <1>3 DEF DocumentsInv

(* The thread that holds the lock takes a step; the others are nowhere     *)
(* near the store.                                                         *)
LEMMA HolderStep ==
  ASSUME TypeOK, DocumentsInv, NEW t \in Threads, call[t].at \in Critical,
         NEW step \in Steps, Goes(t, step),
         DiskIsSound', DocumentsAreCovered', OneDocPerGeneration',
         CommitKnows(t)', PurgeKnows(t)'
  PROVE  DocumentsInv'
<1>1. lock = {t} /\ lock' = lock /\ call' = [call EXCEPT ![t].at = step]
  BY DEF DocumentsInv, LockIsHeld, Goes, Critical
<1>2. ASSUME NEW u \in Threads, u # t
      PROVE  call'[u].at \notin Critical
  BY <1>1, <1>2 DEF DocumentsInv, LockIsHeld, Critical, TypeOK
<1>3. LockIsHeld'
  BY <1>1, <1>2 DEF LockIsHeld, Critical
<1>4. ASSUME NEW u \in Threads PROVE CommitKnows(u)' /\ PurgeKnows(u)'
  <2>1. CASE u = t
    BY <2>1
  <2>2. CASE u # t
    BY <1>2, <2>2 DEF CommitKnows, PurgeKnows, Critical, IoSteps, CommitSteps, PurgeSteps
  <2>3. QED
    BY <2>1, <2>2
<1>5. QED
  BY <1>3, <1>4 DEF DocumentsInv

(* A call that adds one state to the disk keeps it sound when that state   *)
(* is sound and is not behind any document of its key.                     *)
LEMMA DiskGrows ==
  ASSUME TypeOK, StoreTypeOK', DocumentsInv, UNCHANGED <<released, purgedBelow>>,
         disk' = disk \cup {fs'}, nextKey <= nextKey',
         SoundState(fs)',
         \A d \in released : fs'.dir.key = d.key =>
           fs'.dir.pub.key = d.key /\ fs'.dir.pub.gen >= d.draft.gen
  PROVE  DiskIsSound' /\ DocumentsAreCovered'
<1>1. /\ nextKey \in Int /\ nextKey' \in Int /\ purgedBelow \in Int
      /\ disk \subseteq FileSystem /\ released \subseteq Document
  BY BoundsAssumption DEF TypeOK, StoreTypeOK
<1>2. ASSUME NEW saved \in disk PROVE SoundState(saved)'
  <2>1. SoundState(saved)
    BY DEF DocumentsInv, DiskIsSound
  <2>2. saved.dir.key \in Int /\ saved.tombs \subseteq Int
    BY <1>1 DEF FileSystem, Dir, Key
  <2>3. QED
    BY <1>1, <2>1, <2>2 DEF SoundState
<1>3. DiskIsSound'
  <2>1. purgedBelow' <= nextKey'
    BY <1>1 DEF DocumentsInv, DiskIsSound
  <2>2. QED
    BY <1>2, <2>1 DEF DiskIsSound, SoundState
<1>4. ASSUME NEW d \in released
      PROVE  /\ 0 < d.key /\ d.key < nextKey'
             /\ \A saved \in disk' : saved.dir.key = d.key =>
                  saved.dir.pub.key = d.key /\ saved.dir.pub.gen >= d.draft.gen
  <2>1. d.key \in Int
    BY <1>1 DEF Document
  <2>2. QED
    BY <1>1, <2>1 DEF DocumentsInv, DocumentsAreCovered
<1>5. QED
  BY <1>3, <1>4 DEF DocumentsAreCovered

(* One file-system call keeps the disk sound and the documents covered.    *)
LEMMA StoreStepSound ==
  ASSUME TypeOK, StoreTypeOK', DocumentsInv, UNCHANGED <<released, purgedBelow>>,
         \/ MakeUserDir \/ SyncRoot \/ SyncUserDir
         \/ CreateKey /\ fs.dir.made
         \/ WriteSeed /\ HasKey
         \/ RenamePublic(0) /\ HasKey /\ ~HasPublic
         \/ \E gen \in 0 .. MaxGen : RenamePublic(gen) /\ HasKey /\ HasPublic /\ Advances(gen)
         \/ RenameToTombstone \/ (\E k \in fs.tombs : RemoveTombstone(k)) \/ LosePower
         \/ UNCHANGED storeVars
  PROVE  DiskIsSound' /\ DocumentsAreCovered'
<1>1. /\ DiskIsSound /\ DocumentsAreCovered /\ SoundState(fs)
      /\ \A d \in released : 0 < d.key /\ d.key < nextKey
      /\ \A d \in released : fs.dir.key = d.key =>
           fs.dir.pub.key = d.key /\ fs.dir.pub.gen >= d.draft.gen
  BY DEF DocumentsInv, DiskIsSound, DocumentsAreCovered
<1>2. /\ fs \in FileSystem /\ disk \subseteq FileSystem /\ released \subseteq Document
      /\ fs.dir \in Dir /\ fs.dir.pub \in Public /\ fs.tombs \subseteq Key
      /\ fs.dir.key \in Int /\ fs.dir.pub.key \in Int /\ fs.dir.pub.gen \in Int
      /\ nextKey \in Nat \ {0} /\ purgedBelow \in Int
      /\ fs.dir.key >= 0
  BY BoundsAssumption DEF TypeOK, StoreTypeOK, FileSystem, Dir, Public
<1>3. CASE MakeUserDir
  <2>1. /\ fs' = [fs EXCEPT !.dir = [fs.dir EXCEPT !.made = TRUE]]
        /\ disk' = disk \cup {fs'} /\ nextKey' = nextKey
    BY <1>3 DEF MakeUserDir, BecomesDir, Becomes
  <2>2. /\ fs'.dir.key = fs.dir.key /\ fs'.dir.pub = fs.dir.pub /\ fs'.tombs = fs.tombs
        /\ fs'.dir.made = TRUE
    BY <1>2, <2>1 DEF FileSystem, Dir
  <2>3. SoundState(fs)'
    BY <1>1, <2>1, <2>2 DEF SoundState
  <2>4. /\ nextKey <= nextKey'
        /\ \A d \in released : fs'.dir.key = d.key =>
             fs'.dir.pub.key = d.key /\ fs'.dir.pub.gen >= d.draft.gen
    BY <1>1, <1>2, <2>1, <2>2
  <2>5. QED
    BY <2>1, <2>3, <2>4, DiskGrows
<1>4. CASE SyncRoot
  BY <1>1, <1>4 DEF SyncRoot, DiskIsSound, SoundState, DocumentsAreCovered
<1>5. CASE SyncUserDir
  BY <1>1, <1>5 DEF SyncUserDir, DiskIsSound, SoundState, DocumentsAreCovered
<1>6. CASE CreateKey /\ fs.dir.made
  <2>1. /\ fs' = [fs EXCEPT !.dir = [fs.dir EXCEPT !.key = nextKey, !.seeded = FALSE]]
        /\ disk' = disk \cup {fs'} /\ nextKey' = nextKey + 1 /\ ~HasKey
    BY <1>6 DEF CreateKey, BecomesDir, Becomes
  <2>2. /\ fs'.dir.key = nextKey /\ fs'.dir.pub = fs.dir.pub /\ fs'.tombs = fs.tombs
        /\ fs'.dir.made
    BY <1>2, <1>6, <2>1 DEF FileSystem, Dir
  <2>3. fs.dir.pub = NoPub
    BY <1>1, <2>1 DEF HasKey, SoundState
  <2>4. SoundState(fs)'
    <3>1. purgedBelow' <= nextKey
      BY <1>1 DEF DiskIsSound
    <3>2. \A k \in fs'.tombs : purgedBelow' <= k /\ k < nextKey'
      BY <1>1, <1>2, <2>1, <2>2 DEF SoundState, Key
    <3>3. QED
      BY <1>2, <2>1, <2>2, <2>3, <3>1, <3>2 DEF SoundState
  <2>5. \A d \in released : d.key # nextKey
    BY <1>1, <1>2 DEF Document
  <2>6. QED
    BY <1>2, <2>1, <2>2, <2>4, <2>5, DiskGrows
<1>7. CASE WriteSeed /\ HasKey
  <2>1. /\ fs' = [fs EXCEPT !.dir = [fs.dir EXCEPT !.seeded = TRUE]]
        /\ disk' = disk \cup {fs'} /\ nextKey' = nextKey
    BY <1>7 DEF WriteSeed, BecomesDir, Becomes
  <2>2. /\ fs'.dir.key = fs.dir.key /\ fs'.dir.pub = fs.dir.pub /\ fs'.tombs = fs.tombs
        /\ fs'.dir.made = fs.dir.made
    BY <1>2, <2>1 DEF FileSystem, Dir
  <2>3. SoundState(fs)'
    BY <1>1, <1>7, <2>1, <2>2 DEF SoundState, HasKey, NoDir
  <2>4. /\ nextKey <= nextKey'
        /\ \A d \in released : fs'.dir.key = d.key =>
             fs'.dir.pub.key = d.key /\ fs'.dir.pub.gen >= d.draft.gen
    BY <1>1, <1>2, <2>1, <2>2
  <2>5. QED
    BY <2>1, <2>3, <2>4, DiskGrows
<1>8. ASSUME NEW gen \in 0 .. MaxGen, RenamePublic(gen), HasKey,
             \A d \in released : fs.dir.key = d.key => gen >= d.draft.gen
      PROVE  DiskIsSound' /\ DocumentsAreCovered'
  <2>1. /\ fs' = [fs EXCEPT !.dir =
                   [fs.dir EXCEPT !.pub = [key |-> fs.dir.key, gen |-> gen]]]
        /\ disk' = disk \cup {fs'} /\ nextKey' = nextKey
    BY <1>8 DEF RenamePublic, BecomesDir, Becomes
  <2>2. /\ fs'.dir.key = fs.dir.key /\ fs'.tombs = fs.tombs /\ fs'.dir.made = fs.dir.made
        /\ fs'.dir.pub.key = fs.dir.key /\ fs'.dir.pub.gen = gen
    BY <1>2, <2>1 DEF FileSystem, Dir
  <2>3. SoundState(fs)'
    BY <1>1, <1>8, <2>1, <2>2 DEF SoundState, HasKey, NoDir
  <2>4. QED
    BY <1>2, <1>8, <2>1, <2>2, <2>3, DiskGrows
<1>9. CASE RenamePublic(0) /\ HasKey /\ ~HasPublic
  BY <1>1, <1>8, <1>9, BoundsAssumption DEF HasPublic
<1>10. ASSUME NEW gen \in 0 .. MaxGen, RenamePublic(gen), HasKey, HasPublic, Advances(gen)
       PROVE  DiskIsSound' /\ DocumentsAreCovered'
  <2>1. gen > fs.dir.pub.gen
    BY <1>10 DEF Advances, Head
  <2>2. \A d \in released : d.draft.gen \in Int
    BY <1>2 DEF Document, Draft
  <2>3. QED
    BY <1>1, <1>2, <1>8, <1>10, <2>1, <2>2
<1>11. CASE RenameToTombstone
  <2>1. /\ fs'.dir = NoDir /\ nextKey' = nextKey /\ disk' = disk \cup {fs'}
        /\ fs'.tombs = fs.tombs \cup (IF HasKey THEN {fs.dir.key} ELSE {})
    BY <1>11 DEF RenameToTombstone, Becomes
  <2>2. \A k \in fs'.tombs : purgedBelow' <= k /\ k < nextKey'
    BY <1>1, <2>1 DEF SoundState, HasKey
  <2>3. SoundState(fs)'
    BY <1>2, <2>1, <2>2 DEF SoundState, NoDir, NoPub
  <2>4. \A d \in released : d.key # fs'.dir.key
    BY <1>1, <1>2, <2>1 DEF NoDir, Document
  <2>5. QED
    BY <1>2, <2>1, <2>3, <2>4, DiskGrows
<1>12. ASSUME NEW k \in fs.tombs, RemoveTombstone(k) PROVE DiskIsSound' /\ DocumentsAreCovered'
  <2>1. /\ fs'.dir = fs.dir /\ fs'.tombs \subseteq fs.tombs
        /\ nextKey' = nextKey /\ disk' = disk \cup {fs'}
    BY <1>2, <1>12 DEF RemoveTombstone, Becomes, FileSystem
  <2>2. SoundState(fs)'
    BY <1>1, <2>1 DEF SoundState
  <2>3. QED
    BY <1>1, <1>2, <2>1, <2>2, DiskGrows
<1>13. CASE LosePower
  BY <1>1, <1>13 DEF LosePower, DiskIsSound, SoundState, DocumentsAreCovered
<1>14. CASE UNCHANGED storeVars
  BY <1>1, <1>14 DEF storeVars, DiskIsSound, SoundState, DocumentsAreCovered
<1>15. QED
  BY <1>3, <1>4, <1>5, <1>6, <1>7, <1>9, <1>10, <1>11, <1>12, <1>13, <1>14

(* The holder's call ends, well or badly.                                  *)
LEMMA HolderEnds ==
  ASSUME TypeOK, DocumentsInv, NEW t \in Threads, call[t].at \in Critical, Finish(t),
         DiskIsSound', DocumentsAreCovered', OneDocPerGeneration'
  PROVE  DocumentsInv'
<1>1. ASSUME NEW u \in Threads PROVE call'[u].at \notin Critical
  <2>1. lock = {t}
    BY DEF DocumentsInv, LockIsHeld, Critical
  <2>2. CASE u = t
    BY <2>2 DEF Finish, TypeOK, Idle, Critical, IoSteps, CommitSteps, PurgeSteps
  <2>3. CASE u # t
    BY <2>1, <2>3 DEF Finish, TypeOK, DocumentsInv, LockIsHeld, Critical
  <2>4. QED
    BY <2>2, <2>3
<1>2. LockIsHeld'
  BY <1>1 DEF LockIsHeld, Critical
<1>3. ASSUME NEW u \in Threads PROVE CommitKnows(u)' /\ PurgeKnows(u)'
  BY <1>1, <1>3 DEF CommitKnows, PurgeKnows, Critical, IoSteps, CommitSteps, PurgeSteps
<1>4. QED
  BY <1>2, <1>3 DEF DocumentsInv

(* The steps of clients, humans, sweeps and clocks, and those of calls     *)
(* outside a commit or a purge.                                            *)
LEMMA QuietActions ==
  ASSUME TypeOK, DocumentsInv,
         \/ \E s \in Senders : Prepare(s) \/ OwnerCheck(s) \/ Disconnect(s) \/ Sweep(s)
         \/ \E t \in Threads, s \in Senders : Claim(t, s)
         \/ \E t \in Threads :
              \/ HumanAnswers(t) \/ CheckEnds(t) \/ Invalidate(t) \/ Revalidate(t)
              \/ Reduce(t) \/ FireInvalidate(t)
              \/ PurgeAsks(t) \/ PurgeAnswered(t) \/ PurgeTakes(t)
         \/ LeaseRunsOut
         \/ ServiceDies
  PROVE  DocumentsInv'
<1> USE DEF storeVars, cellVars, busVars, historyVars
<1>1. \A t \in Threads : call[t].at \in Critical => lock = {t}
  BY DEF DocumentsInv, LockIsHeld, Critical
<1>2. call \in [Threads -> Call]
  BY DEF TypeOK
<1>3. ASSUME NEW s \in Senders, Prepare(s) \/ OwnerCheck(s) \/ Disconnect(s) \/ Sweep(s)
      PROVE  DocumentsInv'
  <2>1. UNCHANGED <<fs, disk, nextKey, released, purgedBelow, call, lock>>
    BY <1>3 DEF Prepare, OwnerCheck, Disconnect, Sweep
  <2>2. QED
    BY <1>1, <2>1, QuietStep
<1>4. CASE LeaseRunsOut
  <2>1. UNCHANGED <<fs, disk, nextKey, released, purgedBelow, call, lock>>
    BY <1>4 DEF LeaseRunsOut
  <2>2. QED
    BY <1>1, <2>1, QuietStep
<1>5. CASE ServiceDies
  <2>1. UNCHANGED <<fs, disk, nextKey, released, purgedBelow>>
    BY <1>5 DEF ServiceDies, ServiceStateLost
  <2>2. \A t \in Threads : call'[t].at \notin Critical
    BY <1>5 DEF ServiceDies, ServiceStateLost, Idle, Critical, IoSteps, CommitSteps, PurgeSteps
  <2>3. QED
    BY <2>1, <2>2, QuietStep
<1>6. ASSUME NEW t \in Threads,
             UNCHANGED <<fs, disk, nextKey, released, purgedBelow, lock>>,
             NEW new, call' = [call EXCEPT ![t] = new], new.at \notin Critical
      PROVE  DocumentsInv'
  <2>1. \A u \in Threads : IF u = t THEN call'[u].at \notin Critical ELSE call'[u] = call[u]
    BY <1>2, <1>6
  <2>2. \A u \in Threads : call'[u].at \in Critical => lock' = {u}
    BY <1>1, <1>6, <2>1
  <2>3. \A u \in Threads : \/ call'[u] = call[u]
                           \/ call'[u].at \notin Critical
                           \/ call'[u].at \in {"mkdir", "tomb"}
    BY <2>1
  <2>4. QED
    BY <1>6, <2>2, <2>3, QuietStep
<1>7. ASSUME NEW t \in Threads, Free,
             UNCHANGED <<fs, disk, nextKey, released, purgedBelow>>, lock' = {t},
             NEW new, call' = [call EXCEPT ![t] = new], new.at \in {"mkdir", "tomb"}
      PROVE  DocumentsInv'
  <2>1. \A u \in Threads : u # t => call'[u] = call[u] /\ call[u].at \notin Critical
    BY <1>1, <1>2, <1>7 DEF Free
  <2>2. call'[t].at \in {"mkdir", "tomb"}
    BY <1>2, <1>7
  <2>3. \A u \in Threads : call'[u].at \in Critical => lock' = {u}
    BY <1>7, <2>1
  <2>4. QED
    BY <1>7, <2>1, <2>2, <2>3, QuietStep
<1> USE DEF Critical, IoSteps, CommitSteps, PurgeSteps
<1>8. ASSUME NEW t \in Threads, NEW s \in Senders, Claim(t, s) PROVE DocumentsInv'
  <2>1. UNCHANGED <<fs, disk, nextKey, released, purgedBelow, lock>>
    BY <1>8 DEF Claim
  <2>2. CASE UNCHANGED call
    BY <1>1, <2>1, <2>2, QuietStep
  <2>3. CASE call' = [call EXCEPT ![t] = [Idle EXCEPT !.at = "check", !.tx = pending.tx]]
    BY <1>6, <2>1, <2>3 DEF Idle
  <2>4. QED
    BY <1>8, <2>2, <2>3 DEF Claim
<1>9. ASSUME NEW t \in Threads, HumanAnswers(t) \/ CheckEnds(t) PROVE DocumentsInv'
  <2>1. UNCHANGED <<fs, disk, nextKey, released, purgedBelow, lock>>
    BY <1>9 DEF HumanAnswers, CheckEnds
  <2>2. call[t] \in Call
    BY <1>2
  <2>3. \/ call' = [call EXCEPT ![t] = [call[t] EXCEPT !.at = "approved"]]
        \/ call' = [call EXCEPT ![t] = [call[t] EXCEPT !.at = "denied"]]
    BY <1>9 DEF HumanAnswers, CheckEnds
  <2>4. QED
    BY <1>6, <2>1, <2>2, <2>3 DEF Call
<1>10. ASSUME NEW t \in Threads, Invalidate(t) \/ FireInvalidate(t) PROVE DocumentsInv'
  <2>1. UNCHANGED <<fs, disk, nextKey, released, purgedBelow, lock>>
    BY <1>10 DEF Invalidate, FireInvalidate
  <2>2. call' = [call EXCEPT ![t] = Idle]
    BY <1>10 DEF Invalidate, FireInvalidate
  <2>3. QED
    BY <1>6, <2>1, <2>2 DEF Idle
<1>11. ASSUME NEW t \in Threads, Revalidate(t) PROVE DocumentsInv'
  <2>1. UNCHANGED <<fs, disk, nextKey, released, purgedBelow>> /\ Free
    BY <1>11 DEF Revalidate
  <2>2. CASE StillOurs(t) /\ StillBase
    <3>1. call' = [call EXCEPT ![t] = [call[t] EXCEPT !.at = "mkdir", !.draft = pending.draft]]
      BY <1>11, <2>2 DEF Revalidate
    <3>2. lock' = {t} /\ call[t] \in Call
      BY <1>2, <1>11, <2>2 DEF Revalidate
    <3>3. QED
      BY <1>7, <2>1, <3>1, <3>2 DEF Call
  <2>3. CASE ~(StillOurs(t) /\ StillBase)
    <3>1. call' = [call EXCEPT ![t] = Idle] /\ UNCHANGED lock
      BY <1>11, <2>3 DEF Revalidate
    <3>2. QED
      BY <1>6, <2>1, <3>1 DEF Idle
  <2>4. QED
    BY <2>2, <2>3
<1>12. ASSUME NEW t \in Threads, Reduce(t) PROVE DocumentsInv'
  <2>1. UNCHANGED <<fs, disk, nextKey, released, purgedBelow>> /\ Free
    BY <1>12 DEF Reduce
  <2>2. CASE call' = [call EXCEPT ![t] = [Idle EXCEPT !.at = "fire", !.cancel = CheckId]]
             /\ UNCHANGED lock
    BY <1>6, <2>1, <2>2 DEF Idle
  <2>3. ASSUME NEW draft, lock' = {t},
               call' = [call EXCEPT ![t] =
                 [at |-> "mkdir", tx |-> 0, cancel |-> CheckId, draft |-> draft]]
        PROVE  DocumentsInv'
    BY <1>7, <2>1, <2>3
  <2>4. QED
    BY <1>12, <2>2, <2>3 DEF Reduce
<1>13. ASSUME NEW t \in Threads, PurgeAsks(t) \/ PurgeAnswered(t) PROVE DocumentsInv'
  <2>1. UNCHANGED <<fs, disk, nextKey, released, purgedBelow, lock>>
    BY <1>13 DEF PurgeAsks, PurgeAnswered, Rest, Goes
  <2>2. \/ call' = [call EXCEPT ![t] = [Idle EXCEPT !.at = "purgeCheck"]]
        \/ call' = [call EXCEPT ![t] = Idle]
        \/ call' = [call EXCEPT ![t] = [call[t] EXCEPT !.at = "purge"]]
    BY <1>13 DEF PurgeAsks, PurgeAnswered, Goes
  <2>3. call[t] \in Call
    BY <1>2
  <2>4. QED
    BY <1>6, <2>1, <2>2, <2>3 DEF Idle, Call
<1>14. ASSUME NEW t \in Threads, PurgeTakes(t) PROVE DocumentsInv'
  <2>1. UNCHANGED <<fs, disk, nextKey, released, purgedBelow>> /\ Free /\ lock' = {t}
    BY <1>14 DEF PurgeTakes
  <2>2. /\ call' = [call EXCEPT ![t] = [call[t] EXCEPT !.at = "tomb", !.cancel = CheckId]]
        /\ call[t] \in Call
    BY <1>2, <1>14 DEF PurgeTakes
  <2>3. QED
    BY <1>7, <2>1, <2>2 DEF Call
<1>15. QED
  BY <1>3, <1>4, <1>5, <1>8, <1>9, <1>10, <1>11, <1>12, <1>13, <1>14

(* A file-system call of a commit.                                         *)
LEMMA CommitActions ==
  ASSUME TypeOK, TypeOK', DocumentsInv, NEW t \in Threads, Commit(t) \/ Fails(t)
  PROVE  DocumentsInv'
<1> USE DEF storeVars, cellVars, busVars, historyVars
<1>1. call \in [Threads -> Call] /\ CommitKnows(t) /\ PurgeKnows(t) /\ StoreTypeOK'
  BY DEF TypeOK, DocumentsInv
<1>2. call[t].at \in Critical
  BY DEF Commit, MakeDir, SyncDirEntry, FindKey, Seed, SyncKey, PublishZero, SyncZero,
         SignAndPublish, SyncPublished, Release, Fails, Critical, IoSteps, CommitSteps
<1>3. /\ SoundState(fs) /\ fs \in disk /\ fs \in FileSystem /\ disk \subseteq FileSystem
      /\ fs.dir \in Dir /\ fs.dir.pub \in Public /\ released \subseteq Document
      /\ fs.dir.key \in Int /\ fs.dir.pub.gen \in Int
  BY DEF TypeOK, StoreTypeOK, DocumentsInv, DiskIsSound, FileSystem, Dir, Public
<1>4. ASSUME NEW step \in {"syncRoot", "key", "seed", "syncKey", "pub0", "syncPub0", "sign",
                           "syncPub", "reply"},
             Goes(t, step), Rest, DiskIsSound', DocumentsAreCovered', CommitKnows(t)'
      PROVE  DocumentsInv'
  <2>1. OneDocPerGeneration' /\ call'[t].at = step
    BY <1>1, <1>4 DEF DocumentsInv, OneDocPerGeneration, Rest, Goes, Call
  <2>2. PurgeKnows(t)'
    BY <2>1 DEF PurgeKnows
  <2>3. QED
    BY <1>2, <1>4, <2>1, <2>2, HolderStep DEF Steps, CommitSteps
<1>5. ASSUME Finish(t), UNCHANGED <<fs, disk, nextKey, released, purgedBelow>>
      PROVE  DocumentsInv'
  <2>1. DiskIsSound' /\ DocumentsAreCovered' /\ OneDocPerGeneration'
    BY <1>5 DEF DocumentsInv, DiskIsSound, SoundState, DocumentsAreCovered, OneDocPerGeneration
  <2>2. QED
    BY <1>2, <1>5, <2>1, HolderEnds
<1>6. CASE Fails(t)
  BY <1>5, <1>6 DEF Fails
<1>7. CASE MakeDir(t)
  <2>1. MakeUserDir /\ Goes(t, "syncRoot") /\ Rest
    BY <1>7 DEF MakeDir
  <2>2. DiskIsSound' /\ DocumentsAreCovered'
    BY <1>1, <2>1, StoreStepSound DEF Rest
  <2>3. fs'.dir.made /\ call'[t].at = "syncRoot"
    BY <1>1, <1>3, <2>1 DEF MakeUserDir, BecomesDir, Becomes, Goes, FileSystem, Dir, Call
  <2>4. QED
    BY <1>4, <2>1, <2>2, <2>3 DEF CommitKnows
<1>8. CASE SyncDirEntry(t)
  <2>1. SyncRoot /\ Goes(t, "key") /\ Rest /\ call[t].at = "syncRoot"
    BY <1>8 DEF SyncDirEntry
  <2>2. DiskIsSound' /\ DocumentsAreCovered'
    BY <1>1, <2>1, StoreStepSound DEF Rest
  <2>3. fs'.dir.made /\ call'[t].at = "key"
    BY <1>1, <2>1 DEF SyncRoot, Goes, CommitKnows, Call
  <2>4. QED
    BY <1>4, <2>1, <2>2, <2>3 DEF CommitKnows
<1>9. CASE FindKey(t)
  <2>1. CASE CreateKey /\ Goes(t, "seed") /\ Rest
    <3>1. fs.dir.made
      BY <1>1, <1>9 DEF FindKey, CommitKnows
    <3>2. DiskIsSound' /\ DocumentsAreCovered'
      BY <1>1, <2>1, <3>1, StoreStepSound DEF Rest
    <3>3. fs.dir.pub = NoPub /\ nextKey # 0
      BY <1>3, <2>1, BoundsAssumption DEF SoundState, CreateKey, HasKey, TypeOK, StoreTypeOK
    <3>4. fs'.dir.key = nextKey /\ fs'.dir.pub = NoPub /\ call'[t].at = "seed"
      BY <1>1, <1>3, <2>1, <3>3
         DEF CreateKey, BecomesDir, Becomes, Goes, FileSystem, Dir, Call
    <3>5. QED
      BY <1>4, <2>1, <3>2, <3>3, <3>4 DEF CommitKnows, HasKey, HasPublic, NoPub
  <2>2. CASE HasKey /\ HasPublic /\ Goes(t, "sign") /\ UNCHANGED storeVars /\ Rest
    <3>1. DiskIsSound' /\ DocumentsAreCovered'
      BY <1>1, <2>2, StoreStepSound DEF Rest
    <3>2. call'[t].at = "sign"
      BY <1>1, <2>2 DEF Goes, Call
    <3>3. QED
      BY <1>4, <2>2, <3>1, <3>2 DEF CommitKnows, HasKey, HasPublic
  <2>3. CASE Finish(t) /\ UNCHANGED storeVars /\ Rest
    BY <1>5, <2>3 DEF Rest
  <2>4. QED
    BY <1>9, <2>1, <2>2, <2>3 DEF FindKey
<1>10. CASE Seed(t)
  <2>1. WriteSeed /\ Goes(t, "syncKey") /\ Rest /\ HasKey /\ ~HasPublic
    BY <1>1, <1>10 DEF Seed, CommitKnows
  <2>2. DiskIsSound' /\ DocumentsAreCovered'
    BY <1>1, <2>1, StoreStepSound DEF Rest
  <2>3. fs'.dir.key = fs.dir.key /\ fs'.dir.pub = fs.dir.pub /\ call'[t].at = "syncKey"
    BY <1>1, <1>3, <2>1 DEF WriteSeed, BecomesDir, Becomes, Goes, FileSystem, Dir, Call
  <2>4. QED
    BY <1>4, <2>1, <2>2, <2>3 DEF CommitKnows, HasKey, HasPublic
<1>11. CASE SyncKey(t)
  <2>1. SyncUserDir /\ Goes(t, "pub0") /\ Rest /\ HasKey /\ ~HasPublic
    BY <1>1, <1>11 DEF SyncKey, CommitKnows
  <2>2. DiskIsSound' /\ DocumentsAreCovered'
    BY <1>1, <2>1, StoreStepSound DEF Rest
  <2>3. fs' = fs /\ call'[t].at = "pub0"
    BY <1>1, <2>1 DEF SyncUserDir, Goes, Call
  <2>4. QED
    BY <1>4, <2>1, <2>2, <2>3 DEF CommitKnows, HasKey, HasPublic
<1>12. CASE PublishZero(t)
  <2>1. RenamePublic(0) /\ Goes(t, "syncPub0") /\ Rest /\ HasKey /\ ~HasPublic
    BY <1>1, <1>12 DEF PublishZero, CommitKnows
  <2>2. DiskIsSound' /\ DocumentsAreCovered'
    BY <1>1, <2>1, StoreStepSound DEF Rest
  <2>3. /\ fs'.dir.key = fs.dir.key /\ fs'.dir.pub.key = fs.dir.key
        /\ call'[t].at = "syncPub0"
    BY <1>1, <1>3, <2>1 DEF RenamePublic, BecomesDir, Becomes, Goes, FileSystem, Dir, Call
  <2>4. QED
    BY <1>4, <2>1, <2>2, <2>3 DEF CommitKnows, HasKey, HasPublic
<1>13. CASE SyncZero(t)
  <2>1. SyncUserDir /\ Goes(t, "sign") /\ Rest /\ HasKey /\ HasPublic
    BY <1>1, <1>13 DEF SyncZero, CommitKnows
  <2>2. DiskIsSound' /\ DocumentsAreCovered'
    BY <1>1, <2>1, StoreStepSound DEF Rest
  <2>3. fs' = fs /\ call'[t].at = "sign"
    BY <1>1, <2>1 DEF SyncUserDir, Goes, Call
  <2>4. QED
    BY <1>4, <2>1, <2>2, <2>3 DEF CommitKnows, HasKey, HasPublic
<1>14. CASE SignAndPublish(t)
  <2> DEFINE gen == call[t].draft.gen
  <2>1. CASE Finish(t) /\ UNCHANGED storeVars /\ Rest
    BY <1>5, <2>1 DEF Rest
  <2>2. CASE RenamePublic(gen) /\ Advances(gen) /\ Goes(t, "syncPub") /\ Rest
    <3>1. HasKey /\ HasPublic /\ gen \in 0 .. MaxGen
      BY <1>1, <1>14 DEF SignAndPublish, CommitKnows, Call, Draft
    <3>2. DiskIsSound' /\ DocumentsAreCovered'
      BY <1>1, <2>2, <3>1, StoreStepSound DEF Rest
    <3>3. /\ fs'.dir.key = fs.dir.key
          /\ fs'.dir.pub.key = fs.dir.key /\ fs'.dir.pub.gen = gen
          /\ call'[t].at = "syncPub" /\ call'[t].draft.gen = gen
      BY <1>1, <1>3, <2>2 DEF RenamePublic, BecomesDir, Becomes, Goes, FileSystem, Dir, Call
    <3>4. \A d \in released : d.key = fs.dir.key => d.draft.gen < gen
      <4>1. gen > fs.dir.pub.gen /\ gen \in Int
        BY <2>2, <3>1 DEF Advances, Head
      <4>2. \A d \in released : d.draft.gen \in Int
        BY <1>3 DEF Document, Draft
      <4>3. \A d \in released : d.key = fs.dir.key => fs.dir.pub.gen >= d.draft.gen
        BY <1>3 DEF DocumentsInv, DocumentsAreCovered
      <4>4. QED
        BY <1>3, <4>1, <4>2, <4>3
    <3>5. CommitKnows(t)'
      BY <2>2, <3>1, <3>3, <3>4 DEF CommitKnows, HasKey, HasPublic, Head, Rest
    <3>6. QED
      BY <1>4, <2>2, <3>2, <3>5
  <2>3. QED
    BY <1>14, <2>1, <2>2 DEF SignAndPublish
<1>15. CASE SyncPublished(t)
  <2>1. SyncUserDir /\ Goes(t, "reply") /\ Rest /\ call[t].at = "syncPub"
    BY <1>15 DEF SyncPublished
  <2>2. DiskIsSound' /\ DocumentsAreCovered'
    BY <1>1, <2>1, StoreStepSound DEF Rest
  <2>3. /\ fs' = fs /\ call'[t].at = "reply" /\ call'[t].draft = call[t].draft
        /\ released' = released
        /\ \A saved \in disk' : saved.dir.made => saved.dir = fs.dir
    BY <1>1, <2>1 DEF SyncUserDir, Goes, Call, Rest
  <2>4. CommitKnows(t)'
    BY <1>1, <2>1, <2>3 DEF CommitKnows, HasKey, HasPublic, Head
  <2>5. QED
    BY <1>4, <2>1, <2>2, <2>4
<1>16. CASE Release(t)
  <2> DEFINE new == [key |-> fs.dir.key, tx |-> call[t].tx, draft |-> call[t].draft]
  <2>1. /\ released' = released \cup {new} /\ Finish(t)
        /\ UNCHANGED <<fs, disk, nextKey, purgedBelow>>
    BY <1>16 DEF Release
  <2>2. /\ HasKey /\ HasPublic /\ Head.gen = call[t].draft.gen
        /\ \A d \in released : d.key = fs.dir.key => d.draft.gen < call[t].draft.gen
        /\ \A saved \in disk : saved.dir.made => saved.dir = fs.dir
    BY <1>1, <1>16 DEF Release, CommitKnows
  <2>3. DiskIsSound'
    BY <2>1 DEF DocumentsInv, DiskIsSound, SoundState
  <2>4. 0 < fs.dir.key /\ fs.dir.key < nextKey
    BY <1>3, <2>2 DEF SoundState, HasKey, Dir
  <2>5. ASSUME NEW saved \in disk, saved.dir.key = fs.dir.key
        PROVE  saved.dir.pub.key = fs.dir.key /\ saved.dir.pub.gen >= call[t].draft.gen
    <3>1. SoundState(saved)
      BY DEF DocumentsInv, DiskIsSound
    <3>2. saved.dir.made
      BY <2>2, <2>5, <3>1 DEF SoundState, HasKey, NoDir
    <3>3. saved.dir = fs.dir
      BY <2>2, <3>2
    <3>4. fs.dir.pub.key = fs.dir.key
      BY <1>3, <2>2 DEF SoundState, HasPublic, NoPub
    <3>5. QED
      BY <1>3, <2>2, <3>3, <3>4 DEF Head
  <2>6. DocumentsAreCovered'
    BY <2>1, <2>4, <2>5 DEF DocumentsInv, DocumentsAreCovered
  <2>7. OneDocPerGeneration'
    <3>1. \A d \in released : ~(d.key = new.key /\ d.draft.gen = new.draft.gen)
      <4>1. \A d \in released : d.draft.gen \in Int
        BY <1>3 DEF Document, Draft
      <4>2. QED
        BY <1>3, <2>2, <4>1 DEF Head
    <3>2. QED
      BY <2>1, <3>1 DEF DocumentsInv, OneDocPerGeneration
  <2>8. QED
    BY <1>2, <2>1, <2>3, <2>6, <2>7, HolderEnds
<1>17. QED
  BY <1>6, <1>7, <1>8, <1>9, <1>10, <1>11, <1>12, <1>13, <1>14, <1>15, <1>16 DEF Commit

(* A file-system call of a purge.                                          *)
LEMMA PurgeActions ==
  ASSUME TypeOK, TypeOK', DocumentsInv, NEW t \in Threads,
         Entomb(t) \/ SyncGone(t) \/ Reap(t) \/ PurgeSucceeds(t)
  PROVE  DocumentsInv'
<1> USE DEF storeVars, cellVars, busVars, historyVars
<1>1. call \in [Threads -> Call] /\ CommitKnows(t) /\ PurgeKnows(t) /\ StoreTypeOK'
  BY DEF TypeOK, DocumentsInv
<1>2. call[t].at \in Critical
  BY DEF Entomb, SyncGone, Reap, PurgeSucceeds, Critical, IoSteps, PurgeSteps
<1>3. SoundState(fs) /\ fs \in FileSystem /\ disk \subseteq FileSystem
  BY DEF TypeOK, StoreTypeOK, DocumentsInv, DiskIsSound
<1>4. ASSUME NEW step \in {"syncGone", "reap", "syncReaped"},
             Goes(t, step), Rest, DiskIsSound', DocumentsAreCovered', PurgeKnows(t)'
      PROVE  DocumentsInv'
  <2>1. OneDocPerGeneration' /\ call'[t].at = step
    BY <1>1, <1>4 DEF DocumentsInv, OneDocPerGeneration, Rest, Goes, Call
  <2>2. CommitKnows(t)'
    BY <2>1 DEF CommitKnows
  <2>3. QED
    BY <1>2, <1>4, <2>1, <2>2, HolderStep DEF Steps, PurgeSteps
<1>5. CASE Entomb(t)
  <2>1. Goes(t, "syncGone") /\ Rest
    BY <1>5 DEF Entomb
  <2>2. CASE fs.dir.made
    <3>1. RenameToTombstone
      BY <1>5, <2>2 DEF Entomb
    <3>2. DiskIsSound' /\ DocumentsAreCovered'
      BY <1>1, <2>1, <3>1, StoreStepSound DEF Rest
    <3>3. fs'.dir = NoDir /\ call'[t].at = "syncGone"
      BY <1>1, <2>1, <3>1 DEF RenameToTombstone, Becomes, Goes, Call
    <3>4. QED
      BY <1>4, <2>1, <3>2, <3>3 DEF PurgeKnows
  <2>3. CASE ~fs.dir.made
    <3>1. UNCHANGED storeVars
      BY <1>5, <2>3 DEF Entomb
    <3>2. DiskIsSound' /\ DocumentsAreCovered'
      BY <1>1, <2>1, <3>1, StoreStepSound DEF Rest
    <3>3. fs'.dir = NoDir /\ call'[t].at = "syncGone"
      BY <1>1, <1>3, <2>1, <2>3, <3>1 DEF SoundState, Goes, Call
    <3>4. QED
      BY <1>4, <2>1, <3>2, <3>3 DEF PurgeKnows
  <2>4. QED
    BY <2>2, <2>3
<1>6. CASE SyncGone(t)
  <2>1. SyncRoot /\ Goes(t, "reap") /\ Rest /\ fs.dir = NoDir
    BY <1>1, <1>6 DEF SyncGone, PurgeKnows
  <2>2. DiskIsSound' /\ DocumentsAreCovered'
    BY <1>1, <2>1, StoreStepSound DEF Rest
  <2>3. fs' = fs /\ call'[t].at = "reap"
    BY <1>1, <2>1 DEF SyncRoot, Goes, Call
  <2>4. QED
    BY <1>4, <2>1, <2>2, <2>3 DEF PurgeKnows
<1>7. CASE Reap(t)
  <2>1. fs.dir = NoDir /\ Rest
    BY <1>1, <1>7 DEF Reap, PurgeKnows
  <2>2. ASSUME NEW k \in fs.tombs, RemoveTombstone(k), Goes(t, "reap") PROVE DocumentsInv'
    <3>1. DiskIsSound' /\ DocumentsAreCovered'
      BY <1>1, <2>1, <2>2, StoreStepSound DEF Rest
    <3>2. fs'.dir = NoDir /\ call'[t].at = "reap"
      BY <1>1, <1>3, <2>1, <2>2 DEF RemoveTombstone, Becomes, FileSystem, Goes, Call
    <3>3. QED
      BY <1>4, <2>1, <2>2, <3>1, <3>2 DEF PurgeKnows
  <2>3. CASE fs.tombs = {} /\ Goes(t, "syncReaped") /\ UNCHANGED storeVars
    <3>1. DiskIsSound' /\ DocumentsAreCovered'
      BY <1>1, <2>1, <2>3, StoreStepSound DEF Rest
    <3>2. fs' = fs /\ call'[t].at = "syncReaped"
      BY <1>1, <2>3 DEF Goes, Call
    <3>3. QED
      BY <1>4, <2>1, <2>3, <3>1, <3>2 DEF PurgeKnows
  <2>4. QED
    BY <1>7, <2>2, <2>3 DEF Reap
<1>8. CASE PurgeSucceeds(t)
  <2>1. /\ SyncRoot /\ Finish(t) /\ purgedBelow' = nextKey /\ UNCHANGED released
        /\ fs.dir = NoDir /\ fs.tombs = {}
    BY <1>1, <1>8 DEF PurgeSucceeds, PurgeKnows
  <2>2. /\ fs' = fs /\ nextKey' = nextKey /\ disk' \subseteq disk
        /\ \A saved \in disk' : saved.tombs = {} /\ ~saved.dir.made
    <3>1. fs.dir.made = FALSE
      BY <2>1 DEF NoDir
    <3>2. /\ disk' = {d \in disk : d.tombs = fs.tombs /\ d.dir.made = fs.dir.made}
          /\ fs' = fs /\ nextKey' = nextKey
      BY <2>1 DEF SyncRoot
    <3>3. QED
      BY <2>1, <3>1, <3>2
  <2>3. ASSUME NEW saved \in disk'
        PROVE  saved.dir = NoDir /\ SoundState(saved)'
    <3>1. SoundState(saved)
      BY <2>2 DEF DocumentsInv, DiskIsSound
    <3>2. saved.dir = NoDir /\ saved.tombs = {}
      BY <2>2, <3>1 DEF SoundState
    <3>3. QED
      BY <2>1, <2>2, <3>1, <3>2 DEF SoundState, NoDir, NoPub
  <2>4. DiskIsSound'
    <3>1. fs' \in disk' /\ nextKey \in Int
      BY <2>1, <2>2, BoundsAssumption
         DEF SyncRoot, DocumentsInv, DiskIsSound, TypeOK, StoreTypeOK
    <3>2. QED
      BY <2>1, <2>2, <2>3, <3>1 DEF DiskIsSound
  <2>5. DocumentsAreCovered' /\ OneDocPerGeneration'
    BY <2>1, <2>2 DEF DocumentsInv, DocumentsAreCovered, OneDocPerGeneration
  <2>6. QED
    BY <1>2, <2>1, <2>4, <2>5, HolderEnds
<1>9. QED
  BY <1>5, <1>6, <1>7, <1>8

(* A power loss keeps one of the states the disk could be in, and no call. *)
LEMMA PowerLossAction ==
  ASSUME TypeOK, TypeOK', DocumentsInv, PowerLoss
  PROVE  DocumentsInv'
<1>1. LosePower /\ UNCHANGED <<released, purgedBelow>> /\ \A t \in Threads : call'[t] = Idle
  BY DEF PowerLoss, ServiceStateLost
<1>2. DiskIsSound' /\ DocumentsAreCovered'
  BY <1>1, StoreStepSound DEF TypeOK
<1>3. OneDocPerGeneration'
  BY <1>1 DEF DocumentsInv, OneDocPerGeneration
<1>4. LockIsHeld' /\ \A t \in Threads : CommitKnows(t)' /\ PurgeKnows(t)'
  BY <1>1 DEF LockIsHeld, CommitKnows, PurgeKnows, Idle, IoSteps, CommitSteps, PurgeSteps
<1>5. QED
  BY <1>2, <1>3, <1>4 DEF DocumentsInv

-----------------------------------------------------------------------------
(* DocumentsInv holds in every reachable state: between any two            *)
(* file-system calls of commits and purges, whatever fails and whenever    *)
(* the machine stops, every state the disk may come back in is sound and   *)
(* covers every document a caller holds.                                   *)
THEOREM DocumentsInvariant == Spec => []DocumentsInv
<1>1. Init => DocumentsInv
  <2> SUFFICES ASSUME Init PROVE DocumentsInv
    OBVIOUS
  <2>1. LockIsHeld /\ \A t \in Threads : CommitKnows(t) /\ PurgeKnows(t)
    BY DEF Init, Idle, LockIsHeld, CommitKnows, PurgeKnows, IoSteps, CommitSteps, PurgeSteps
  <2>2. DiskIsSound
    BY DEF Init, StoreInit, DiskIsSound, SoundState, NoDir, NoPub
  <2>3. DocumentsAreCovered /\ OneDocPerGeneration
    BY DEF Init, DocumentsAreCovered, OneDocPerGeneration
  <2>4. QED
    BY <2>1, <2>2, <2>3 DEF DocumentsInv
<1>2. TypeOK /\ TypeOK' /\ DocumentsInv /\ [Next]_vars => DocumentsInv'
  <2> SUFFICES ASSUME TypeOK, TypeOK', DocumentsInv, [Next]_vars PROVE DocumentsInv'
    OBVIOUS
  <2>1. CASE UNCHANGED vars
    <3>1. /\ UNCHANGED <<fs, disk, nextKey, released, purgedBelow, call, lock>>
          /\ \A t \in Threads : call[t].at \in Critical => lock = {t}
      BY <2>1 DEF vars, storeVars, historyVars, DocumentsInv, LockIsHeld, Critical
    <3>2. QED
      BY <3>1, QuietStep
  <2>2. CASE Next
    BY <2>2, QuietActions, CommitActions, PurgeActions, PowerLossAction
       DEF Next, Proceeds, PurgeRuns
  <2>3. QED
    BY <2>1, <2>2
<1>3. QED
  BY <1>1, <1>2, TypeCorrect, PTL DEF Spec

(* A generation of a key is never signed twice for two documents.          *)
THEOREM OneDocument == Spec => []OneDocPerGeneration
<1>1. DocumentsInv => OneDocPerGeneration
  BY DEF DocumentsInv
<1>2. QED
  BY <1>1, DocumentsInvariant, PTL

(* No state the disk may come back in is behind a document of its key.     *)
THEOREM NoDocumentRollsBack == Spec => []NoRollback
<1>1. TypeOK /\ DocumentsInv => NoRollback
  <2> SUFFICES ASSUME TypeOK, DocumentsInv, NEW d \in released, NEW saved \in disk,
                      saved.dir.pub.key = d.key
               PROVE  saved.dir.pub.gen >= d.draft.gen
    BY DEF NoRollback
  <2>1. SoundState(saved) /\ 0 < d.key
    BY DEF DocumentsInv, DiskIsSound, DocumentsAreCovered
  <2>2. d.key \in Int
    BY DEF TypeOK, Document
  <2>3. saved.dir.key = d.key
    BY <2>1, <2>2 DEF SoundState, NoPub
  <2>4. QED
    BY <2>3 DEF DocumentsInv, DocumentsAreCovered
<1>2. QED
  BY <1>1, TypeCorrect, DocumentsInvariant, PTL

(* Nothing a successful Purge removed comes back, not even after a power   *)
(* loss.                                                                   *)
THEOREM PurgeIsFinal == Spec => []PurgedIsGone
<1>1. DocumentsInv => PurgedIsGone
  BY DEF DocumentsInv, DiskIsSound, SoundState, PurgedIsGone, NoPub
<1>2. QED
  BY <1>1, DocumentsInvariant, PTL

-----------------------------------------------------------------------------
(* Approvals and reviews.  What DocumentsInv says of the disk is needed    *)
(* here too: which document a new one replaces depends on which generation *)
(* is published.                                                           *)

Committing(t) == call[t].at \in CommitSteps

(* Transaction numbers in use were given out by a Prepare, so that a new   *)
(* one is nobody's.                                                        *)
NumbersAreSpent ==
  /\ Open => pending.tx < nextTx
  /\ \A t \in Threads : call[t].tx < nextTx
  /\ \A d \in released : d.tx < nextTx
  /\ \A n \in granted \cup revoked : n < nextTx

(* A transaction is in one place: in the slot, in one commit, in one       *)
(* document, or taken away.  Only the thread that claimed it knows it.     *)
OnePlace ==
  /\ \A t, u \in Threads : (call[t].tx # 0 /\ call[t].tx = call[u].tx) => t = u
  /\ (Open /\ ~pending.claimed) => \A t \in Threads : call[t].tx # pending.tx
  /\ Open => /\ pending.tx \notin revoked
             /\ \A t \in Threads : Committing(t) => call[t].tx # pending.tx
             /\ \A d \in released : d.tx # pending.tx

(* What a thread in an Authorize knows of its transaction.                 *)
Approved(t) ==
  /\ call[t].at \in {"check", "approved"} => call[t].tx # 0
  /\ call[t].at = "approved" => call[t].tx \in granted
  /\ Committing(t) /\ call[t].tx # 0 =>
       call[t].tx \in granted \ revoked /\ \A d \in released : d.tx # call[t].tx
  /\ Committing(t) /\ call[t].tx = 0 => call[t].draft.shown = {}

(* The documents a document of this key and generation replaces.           *)
Before(key, gen) == {p \in released : p.key = key /\ p.draft.gen = gen - 1}

(* Every launch of a draft was in its review or in what it replaces.       *)
Reviewed(key, draft) ==
  Launches(draft.content) \subseteq
    draft.shown \cup UNION {Launches(p.draft.content) : p \in Before(key, draft.gen)}

(* The draft in the slot was reviewed against the head it was prepared on. *)
SlotIsReviewed ==
  Open => /\ pending.draft.gen = pending.base.gen + 1
          /\ Reviewed(pending.base.key, pending.draft)

(* The draft a commit signs was reviewed against the committed head, which *)
(* stays until the commit replaces it; a Reduce has something to reduce.   *)
CommitIsReviewed(t) ==
  Committing(t) =>
    /\ call[t].at \notin {"syncPub", "reply"} => call[t].draft.gen = Head.gen + 1
    /\ Reviewed(Head.key, call[t].draft)
    /\ call[t].tx = 0 => Before(Head.key, call[t].draft.gen) # {}

(* A live key is never older than a document's.                            *)
KeysAdvance ==
  \A d \in released, saved \in disk : saved.dir.key # 0 => saved.dir.key >= d.key

ApprovalsInv ==
  /\ NumbersAreSpent
  /\ OnePlace
  /\ \A t \in Threads : Approved(t)
  /\ ApprovedOnce

ReviewsInv ==
  /\ SlotIsReviewed
  /\ \A t \in Threads : CommitIsReviewed(t)
  /\ KeysAdvance
  /\ EveryLaunchWasReviewed

-----------------------------------------------------------------------------
(* Approvals.                                                              *)

Asking == {"check", "approved"}

(* A thread's step starts nothing that would carry a transaction further.  *)
Idles(t) ==
  \/ call'[t].tx \in {0, call[t].tx} /\ call'[t].at \notin CommitSteps \cup Asking
  \/ /\ call'[t].tx = call[t].tx /\ call'[t].draft = call[t].draft
     /\ \/ call'[t].at = call[t].at
        \/ call[t].at \in CommitSteps /\ call'[t].at \in CommitSteps

SlotKeptOrDropped == UNCHANGED <<pending, revoked>> \/ DropPending

(* Steps that at most take the transaction away.                           *)
LEMMA ApprovalsQuiet ==
  ASSUME TypeOK, TypeOK', ApprovalsInv,
         UNCHANGED <<nextTx, released, granted>>, SlotKeptOrDropped,
         \A t \in Threads : Idles(t)
  PROVE  ApprovalsInv'
<1>1. /\ NumbersAreSpent /\ OnePlace /\ ApprovedOnce /\ \A t \in Threads : Approved(t)
      /\ \A t \in Threads : call'[t].tx \in {0, call[t].tx}
      /\ nextTx \in Nat \ {0}
  BY LimitsAssumption DEF ApprovalsInv, Idles, TypeOK
<1>2. Open' => /\ Open /\ pending' = pending /\ revoked' = revoked
  BY DEF SlotKeptOrDropped, DropPending, Open
<1>3. /\ revoked \subseteq revoked'
      /\ \A n \in revoked' : n \in revoked \/ (Open /\ n = pending.tx)
  BY DEF SlotKeptOrDropped, DropPending
<1>4. NumbersAreSpent'
  BY <1>1, <1>2, <1>3 DEF NumbersAreSpent
<1>5. ASSUME NEW t \in Threads, Committing(t)' 
      PROVE  Committing(t) /\ call'[t].tx = call[t].tx /\ call'[t].draft = call[t].draft
  BY <1>5 DEF Idles, Committing
<1>6. OnePlace'
  <2>1. ASSUME NEW t \in Threads, NEW u \in Threads,
               call'[t].tx # 0, call'[t].tx = call'[u].tx
        PROVE  t = u
    BY <1>1, <2>1 DEF OnePlace
  <2>2. ASSUME Open', ~pending'.claimed, NEW t \in Threads
        PROVE  call'[t].tx # pending'.tx
    <3>1. pending'.tx # 0
      BY <2>2 DEF TypeOK, Open, Transaction, Tx
    <3>2. QED
      BY <1>1, <1>2, <2>2, <3>1 DEF OnePlace
  <2>3. ASSUME Open'
        PROVE  /\ pending'.tx \notin revoked'
               /\ \A t \in Threads : Committing(t)' => call'[t].tx # pending'.tx
               /\ \A d \in released' : d.tx # pending'.tx
    BY <1>1, <1>2, <1>5, <2>3 DEF OnePlace
  <2>4. QED
    BY <2>1, <2>2, <2>3 DEF OnePlace
<1>7. ASSUME NEW t \in Threads PROVE Approved(t)'
  <2>1. call'[t].at \in Asking => call'[t].at = call[t].at /\ call'[t].tx = call[t].tx
    BY DEF Idles, Asking, CommitSteps
  <2>2. Committing(t)' => (call'[t].tx # 0 => call'[t].tx \notin revoked')
    BY <1>1, <1>3, <1>5 DEF OnePlace, Approved
  <2>3. QED
    BY <1>1, <1>5, <2>1, <2>2 DEF Approved, Asking
<1>8. ApprovedOnce'
  BY <1>1, <1>3 DEF ApprovedOnce, OnePlace
<1>9. QED
  BY <1>4, <1>6, <1>7, <1>8 DEF ApprovalsInv

(* Prepare opens a transaction nobody has heard of.                        *)
LEMMA ApprovalsPrepare ==
  ASSUME TypeOK, TypeOK', ApprovalsInv, NEW s \in Senders, Prepare(s)
  PROVE  ApprovalsInv'
<1>1. CASE Open /\ DropPending /\ UNCHANGED nextTx
  BY <1>1, ApprovalsQuiet DEF Prepare, SlotKeptOrDropped, Idles
<1>2. CASE /\ pending'.tx = nextTx /\ ~pending'.claimed
           /\ revoked' = revoked \cup (IF Open THEN {pending.tx} ELSE {})
           /\ nextTx' = nextTx + 1
  <2>1. /\ NumbersAreSpent /\ OnePlace /\ ApprovedOnce /\ \A t \in Threads : Approved(t)
        /\ UNCHANGED <<call, released, granted>>
        /\ nextTx \in Int /\ (Open => pending.tx \in Int)
        /\ released \subseteq Document /\ granted \subseteq Int /\ revoked \subseteq Int
        /\ \A t \in Threads : call[t].tx \in Int
        /\ \A d \in released : d.tx \in Int
    BY <1>2, OpenType, LimitsAssumption
       DEF ApprovalsInv, Prepare, TypeOK, Transaction, Tx, Call, Document
  <2>2. NumbersAreSpent'
    BY <1>2, <2>1 DEF NumbersAreSpent
  <2>3. /\ nextTx \notin revoked' /\ \A d \in released : d.tx # nextTx
        /\ \A t \in Threads : call[t].tx # nextTx
    BY <1>2, <2>1 DEF NumbersAreSpent
  <2>4. OnePlace'
    BY <1>2, <2>1, <2>3 DEF OnePlace
  <2>5. \A n \in revoked' : n \in revoked \/ (Open /\ n = pending.tx)
    BY <1>2
  <2>6. ASSUME NEW t \in Threads PROVE Approved(t)'
    BY <2>1, <2>5 DEF Approved, OnePlace, Committing
  <2>7. ApprovedOnce'
    BY <2>1, <2>5 DEF ApprovedOnce, OnePlace
  <2>8. QED
    BY <2>2, <2>4, <2>6, <2>7 DEF ApprovalsInv
<1>3. QED
  BY <1>1, <1>2 DEF Prepare

(* One thread claims the open transaction, asks, and takes it.             *)
LEMMA ApprovalsAuthorize ==
  ASSUME TypeOK, TypeOK', ApprovalsInv, NEW t \in Threads,
         \/ \E s \in Senders : Claim(t, s)
         \/ HumanAnswers(t) \/ CheckEnds(t) \/ Invalidate(t) \/ Revalidate(t)
  PROVE  ApprovalsInv'
<1>0. /\ NumbersAreSpent /\ OnePlace /\ ApprovedOnce /\ \A u \in Threads : Approved(u)
      /\ call \in [Threads -> Call]
      /\ (Open => pending.tx \in Nat \ {0})
  BY OpenType DEF ApprovalsInv, TypeOK, Transaction, Tx
<1>1. ASSUME UNCHANGED <<nextTx, released, granted>>, SlotKeptOrDropped,
             NEW c, call' = [call EXCEPT ![t] = c],
             c.tx \in {0, call[t].tx}, c.at \notin CommitSteps \cup Asking
      PROVE  ApprovalsInv'
  <2>1. \A u \in Threads : Idles(u)
    BY <1>0, <1>1 DEF Idles
  <2>2. QED
    BY <1>1, <2>1, ApprovalsQuiet
<1>2. ASSUME NEW s \in Senders, Claim(t, s) PROVE ApprovalsInv'
  <2>1. CASE DropPending /\ UNCHANGED call
    BY <1>2, <2>1, ApprovalsQuiet DEF Claim, SlotKeptOrDropped, Idles
  <2>2. CASE /\ ~pending.claimed /\ pending' = [pending EXCEPT !.claimed = TRUE]
             /\ call' = [call EXCEPT ![t] = [Idle EXCEPT !.at = "check", !.tx = pending.tx]]
             /\ UNCHANGED revoked
    <3>1. /\ Open /\ pending \in Transaction
          /\ UNCHANGED <<nextTx, released, granted, revoked>>
      BY <1>2, <2>2, OpenType DEF Claim
    <3>2. pending'.tx = pending.tx /\ pending'.claimed /\ Open'
      BY <2>2, <3>1 DEF Transaction, Open, NoTxn
    <3>3. /\ call'[t].tx = pending.tx /\ call'[t].at = "check"
          /\ \A u \in Threads : u # t => call'[u] = call[u]
      BY <1>0, <2>2 DEF Idle
    <3>4. \A u \in Threads : Committing(u)' => u # t /\ Committing(u)
      BY <3>3 DEF Committing, CommitSteps
    <3>5. NumbersAreSpent'
      BY <1>0, <3>1, <3>2, <3>3 DEF NumbersAreSpent
    <3>6. OnePlace'
      BY <1>0, <2>2, <3>1, <3>2, <3>3, <3>4 DEF OnePlace
    <3>7. ASSUME NEW u \in Threads PROVE Approved(u)'
      BY <1>0, <3>1, <3>3, <3>4 DEF Approved, Committing
    <3>8. QED
      BY <1>0, <3>1, <3>5, <3>6, <3>7 DEF ApprovalsInv, ApprovedOnce
  <2>3. QED
    BY <1>2, <2>1, <2>2 DEF Claim
<1>3. CASE HumanAnswers(t)
  <2>1. CASE call' = [call EXCEPT ![t].at = "denied"] /\ UNCHANGED granted
    <3>1. [call[t] EXCEPT !.at = "denied"].tx = call[t].tx
          /\ [call[t] EXCEPT !.at = "denied"].at = "denied"
      BY <1>0 DEF Call
    <3>2. QED
      BY <1>1, <1>3, <2>1, <3>1
         DEF HumanAnswers, SlotKeptOrDropped, cellVars, Asking, CommitSteps
  <2>2. CASE /\ call' = [call EXCEPT ![t].at = "approved"]
             /\ granted' = granted \cup {call[t].tx}
    <3>1. /\ call[t].at = "check" /\ call[t].tx # 0 /\ call[t].tx < nextTx
          /\ UNCHANGED <<pending, nextTx, released, revoked>>
      BY <1>0, <1>3 DEF HumanAnswers, cellVars, Approved, NumbersAreSpent
    <3>2. /\ call'[t].tx = call[t].tx /\ call'[t].at = "approved"
          /\ \A u \in Threads : u # t => call'[u] = call[u]
          /\ \A u \in Threads : call'[u].tx = call[u].tx
      BY <1>0, <2>2 DEF Call
    <3>3. \A u \in Threads : Committing(u)' => u # t /\ Committing(u)
      BY <3>2 DEF Committing, CommitSteps
    <3>4. NumbersAreSpent'
      BY <1>0, <2>2, <3>1, <3>2 DEF NumbersAreSpent, Open
    <3>5. OnePlace'
      BY <1>0, <3>1, <3>2, <3>3 DEF OnePlace, Open
    <3>6. ASSUME NEW u \in Threads PROVE Approved(u)'
      BY <1>0, <2>2, <3>1, <3>2, <3>3 DEF Approved, Committing
    <3>7. ApprovedOnce'
      BY <1>0, <2>2, <3>1 DEF ApprovedOnce
    <3>8. QED
      BY <3>4, <3>5, <3>6, <3>7 DEF ApprovalsInv
  <2>3. QED
    BY <1>3, <2>1, <2>2 DEF HumanAnswers
<1>4. CASE CheckEnds(t)
  <2>1. [call[t] EXCEPT !.at = "denied"].tx = call[t].tx
        /\ [call[t] EXCEPT !.at = "denied"].at = "denied"
    BY <1>0 DEF Call
  <2>2. QED
    BY <1>1, <1>4, <2>1
       DEF CheckEnds, SlotKeptOrDropped, cellVars, historyVars, Asking, CommitSteps
<1>5. CASE Invalidate(t)
  BY <1>1, <1>5 DEF Invalidate, SlotKeptOrDropped, Idle, Asking, CommitSteps
<1>6. CASE Revalidate(t)
  <2>1. CASE StillOurs(t) /\ StillBase
    <3>1. /\ call' = [call EXCEPT ![t].at = "mkdir", ![t].draft = pending.draft]
          /\ pending' = NoTxn /\ UNCHANGED <<nextTx, released, granted, revoked>>
          /\ Open /\ pending.tx = call[t].tx /\ call[t].at = "approved"
      BY <1>6, <2>1 DEF Revalidate, StillOurs, Claimed
    <3>2. /\ call'[t].tx = call[t].tx /\ call'[t].at = "mkdir"
          /\ \A u \in Threads : u # t => call'[u] = call[u]
          /\ \A u \in Threads : call'[u].tx = call[u].tx
      BY <1>0, <3>1 DEF Call
    <3>3. ~Open'
      BY <3>1 DEF Open
    <3>4. NumbersAreSpent' /\ OnePlace'
      BY <1>0, <3>1, <3>2, <3>3 DEF NumbersAreSpent, OnePlace
    <3>5. ASSUME NEW u \in Threads PROVE Approved(u)'
      <4>1. CASE u = t
        BY <1>0, <3>1, <3>2, <4>1 DEF Approved, OnePlace
      <4>2. CASE u # t
        BY <1>0, <3>1, <3>2, <4>2 DEF Approved, Committing
      <4>3. QED
        BY <4>1, <4>2
    <3>6. QED
      BY <1>0, <3>1, <3>4, <3>5 DEF ApprovalsInv, ApprovedOnce
  <2>2. CASE ~(StillOurs(t) /\ StillBase)
    BY <1>1, <1>6, <2>2 DEF Revalidate, SlotKeptOrDropped, Idle, Asking, CommitSteps
  <2>3. QED
    BY <2>1, <2>2
<1>7. QED
  BY <1>2, <1>3, <1>4, <1>5, <1>6

(* Reduce takes the transaction away before it commits its own draft.      *)
LEMMA ApprovalsReduce ==
  ASSUME TypeOK, TypeOK', ApprovalsInv, NEW t \in Threads, Reduce(t) \/ FireInvalidate(t)
  PROVE  ApprovalsInv'
<1>0. call \in [Threads -> Call] /\ call[t].tx \in {0, call[t].tx}
  BY DEF TypeOK
<1>1. CASE FireInvalidate(t)
  <2>1. \A u \in Threads : Idles(u)
    BY <1>0, <1>1 DEF FireInvalidate, Idles, Idle, Asking, CommitSteps
  <2>2. QED
    BY <1>1, <2>1, ApprovalsQuiet
       DEF FireInvalidate, SlotKeptOrDropped, cellVars, historyVars
<1>2. CASE Reduce(t)
  <2>1. ASSUME NEW draft, draft.shown = {},
               call' = [call EXCEPT ![t] =
                          [at |-> "mkdir", tx |-> 0, cancel |-> CheckId, draft |-> draft]]
        PROVE  ApprovalsInv'
    <3>1. /\ NumbersAreSpent /\ OnePlace /\ ApprovedOnce /\ \A u \in Threads : Approved(u)
          /\ UNCHANGED <<nextTx, released, granted>> /\ ~Open'
          /\ \A n \in revoked' : n \in revoked \/ (Open /\ n = pending.tx)
          /\ nextTx \in Nat \ {0}
      BY <1>2, LimitsAssumption DEF ApprovalsInv, Reduce, DropPending, Open, TypeOK
    <3>2. /\ call'[t].tx = 0 /\ call'[t].at = "mkdir" /\ call'[t].draft.shown = {}
          /\ \A u \in Threads : u # t => call'[u] = call[u]
      BY <1>0, <2>1
    <3>3. NumbersAreSpent' /\ OnePlace'
      BY <3>1, <3>2 DEF NumbersAreSpent, OnePlace
    <3>4. ASSUME NEW u \in Threads PROVE Approved(u)'
      BY <3>1, <3>2 DEF Approved, Committing, OnePlace
    <3>5. ApprovedOnce'
      BY <3>1 DEF ApprovedOnce, OnePlace
    <3>6. QED
      BY <3>3, <3>4, <3>5 DEF ApprovalsInv
  <2>2. CASE call' = [call EXCEPT ![t] = [Idle EXCEPT !.at = "fire", !.cancel = CheckId]]
    <3>1. \A u \in Threads : Idles(u)
      BY <1>0, <2>2 DEF Idles, Idle, Asking, CommitSteps
    <3>2. QED
      BY <1>2, <3>1, ApprovalsQuiet DEF Reduce, SlotKeptOrDropped
  <2>3. QED
    BY <1>2, <2>1, <2>2 DEF Reduce
<1>3. QED
  BY <1>1, <1>2

(* A call that walks on, or ends.                                          *)
LEMMA WalkIdles ==
  ASSUME TypeOK, NEW t \in Threads,
         \/ Finish(t)
         \/ \E step \in CommitSteps : call[t].at \in CommitSteps /\ Goes(t, step)
         \/ \E step \in Steps \ (CommitSteps \cup Asking) : Goes(t, step)
  PROVE  \A u \in Threads : Idles(u)
<1>0. call \in [Threads -> Call]
  BY DEF TypeOK
<1>1. CASE Finish(t)
  BY <1>0, <1>1 DEF Finish, Idles, Idle, Asking, CommitSteps
<1>2. ASSUME NEW step, Goes(t, step)
      PROVE  /\ call'[t].at = step /\ call'[t].tx = call[t].tx
             /\ call'[t].draft = call[t].draft
             /\ \A u \in Threads : u # t => call'[u] = call[u]
  BY <1>0, <1>2 DEF Goes, Call
<1>3. QED
  BY <1>1, <1>2 DEF Idles

LEMMA CommitWalks ==
  ASSUME TypeOK, NEW t \in Threads, Commit(t), ~Release(t)
  PROVE  Rest /\ \A u \in Threads : Idles(u)
<1> USE DEF CommitSteps
<1>1. CASE MakeDir(t)
  BY <1>1, WalkIdles DEF MakeDir
<1>2. CASE SyncDirEntry(t)
  BY <1>2, WalkIdles DEF SyncDirEntry
<1>3. CASE FindKey(t)
  BY <1>3, WalkIdles DEF FindKey
<1>4. CASE Seed(t)
  BY <1>4, WalkIdles DEF Seed
<1>5. CASE SyncKey(t)
  BY <1>5, WalkIdles DEF SyncKey
<1>6. CASE PublishZero(t)
  BY <1>6, WalkIdles DEF PublishZero
<1>7. CASE SyncZero(t)
  BY <1>7, WalkIdles DEF SyncZero
<1>8. CASE SignAndPublish(t)
  BY <1>8, WalkIdles DEF SignAndPublish
<1>9. CASE SyncPublished(t)
  BY <1>9, WalkIdles DEF SyncPublished
<1>10. QED
  BY <1>1, <1>2, <1>3, <1>4, <1>5, <1>6, <1>7, <1>8, <1>9 DEF Commit

(* A document spends its transaction.                                      *)
LEMMA ApprovalsCommit ==
  ASSUME TypeOK, TypeOK', DocumentsInv, ApprovalsInv, NEW t \in Threads, Commit(t)
  PROVE  ApprovalsInv'
<1>1. CASE ~Release(t)
  BY <1>1, CommitWalks, ApprovalsQuiet DEF Rest, SlotKeptOrDropped, cellVars, historyVars
<1>2. CASE Release(t)
  <2> DEFINE new == [key |-> fs.dir.key, tx |-> call[t].tx, draft |-> call[t].draft]
  <2>1. /\ call[t].at = "reply" /\ Committing(t) /\ Finish(t)
        /\ released' = released \cup {new}
        /\ UNCHANGED <<pending, nextTx, granted, revoked>>
    BY <1>2 DEF Release, cellVars, Committing, CommitSteps
  <2>2. /\ NumbersAreSpent /\ OnePlace /\ ApprovedOnce /\ \A u \in Threads : Approved(u)
        /\ new.tx = call[t].tx /\ new.draft = call[t].draft
        /\ nextTx \in Nat \ {0}
    BY LimitsAssumption DEF ApprovalsInv, TypeOK
  <2>3. /\ call'[t].tx = 0 /\ call'[t].at \in {"idle", "fire"}
        /\ \A u \in Threads : u # t => call'[u] = call[u]
        /\ \A u \in Threads : Committing(u)' => u # t /\ Committing(u)
    BY <2>1 DEF Finish, Idle, TypeOK, Committing, CommitSteps
  <2> HIDE DEF new
  <2>4. NumbersAreSpent'
    BY <2>1, <2>2, <2>3 DEF NumbersAreSpent, Open
  <2>5. OnePlace'
    <3>1. UNCHANGED Open /\ (Open => pending.tx # 0)
      BY <2>1, OpenType DEF Open, Transaction, Tx
    <3>2. \A u \in Threads : call'[u].tx \in {0, call[u].tx}
      BY <2>3
    <3>3. Open => \A d \in released' : d.tx # pending.tx
      BY <2>1, <2>2 DEF OnePlace
    <3>4. QED
      BY <2>1, <2>2, <2>3, <3>1, <3>2, <3>3 DEF OnePlace
  <2>6. ASSUME NEW u \in Threads PROVE Approved(u)'
    <3>1. Committing(u)' => u # t
      BY <2>3
    <3>2. call[u].tx # 0 /\ u # t => call[u].tx # new.tx
      BY <2>2 DEF OnePlace
    <3>3. QED
      BY <2>1, <2>2, <2>3, <3>1, <3>2 DEF Approved, Committing
  <2>7. ApprovedOnce'
    BY <2>1, <2>2 DEF ApprovedOnce, Approved
  <2>8. QED
    BY <2>4, <2>5, <2>6, <2>7 DEF ApprovalsInv
<1>3. QED
  BY <1>1, <1>2

LEMMA ApprovalsPurge ==
  ASSUME TypeOK, TypeOK', ApprovalsInv, NEW t \in Threads,
         PurgeAsks(t) \/ PurgeAnswered(t) \/ PurgeRuns(t)
  PROVE  ApprovalsInv'
<1> USE DEF Steps, CommitSteps, PurgeSteps, Asking
<1>0. call \in [Threads -> Call]
  BY DEF TypeOK
<1>1. \A u \in Threads : Idles(u)
  <2>1. CASE PurgeAsks(t)
    BY <1>0, <2>1 DEF PurgeAsks, Idles, Idle
  <2>2. CASE PurgeAnswered(t)
    <3>1. CASE Goes(t, "purge")
      BY <3>1, WalkIdles
    <3>2. CASE call' = [call EXCEPT ![t] = Idle]
      BY <1>0, <3>2 DEF Idles, Idle
    <3>3. QED
      BY <2>2, <3>1, <3>2 DEF PurgeAnswered
  <2>3. CASE PurgeTakes(t)
    <3>1. /\ call'[t].at = "tomb" /\ call'[t].tx = call[t].tx
          /\ \A u \in Threads : u # t => call'[u] = call[u]
      BY <1>0, <2>3 DEF PurgeTakes, Call
    <3>2. QED
      BY <3>1 DEF Idles
  <2>4. CASE Entomb(t)
    BY <2>4, WalkIdles DEF Entomb
  <2>5. CASE SyncGone(t)
    BY <2>5, WalkIdles DEF SyncGone
  <2>6. CASE Reap(t)
    BY <2>6, WalkIdles DEF Reap
  <2>7. CASE PurgeSucceeds(t)
    BY <2>7, WalkIdles DEF PurgeSucceeds
  <2>8. QED
    BY <2>1, <2>2, <2>3, <2>4, <2>5, <2>6, <2>7 DEF PurgeRuns
<1>2. SlotKeptOrDropped /\ UNCHANGED <<nextTx, released, granted>>
  BY DEF PurgeAsks, PurgeAnswered, PurgeRuns, PurgeTakes, Entomb, SyncGone, Reap,
         PurgeSucceeds, Rest, SlotKeptOrDropped, cellVars, historyVars
<1>3. QED
  BY <1>1, <1>2, ApprovalsQuiet

LEMMA ApprovalsOther ==
  ASSUME TypeOK, TypeOK', ApprovalsInv,
         \/ \E s \in Senders : OwnerCheck(s) \/ Disconnect(s) \/ Sweep(s)
         \/ \E t \in Threads : Fails(t)
         \/ LeaseRunsOut \/ ServiceDies \/ PowerLoss \/ UNCHANGED vars
  PROVE  ApprovalsInv'
<1>1. SlotKeptOrDropped /\ UNCHANGED <<nextTx, released, granted>>
  BY DEF OwnerCheck, Disconnect, Sweep, Fails, LeaseRunsOut, ServiceDies, PowerLoss,
         ServiceStateLost, SlotKeptOrDropped, vars, cellVars, historyVars
<1>2. ASSUME UNCHANGED call PROVE \A u \in Threads : Idles(u)
  BY <1>2 DEF Idles
<1>3. ASSUME \A u \in Threads : call'[u] = Idle PROVE \A u \in Threads : Idles(u)
  BY <1>3 DEF Idles, Idle, CommitSteps, Asking
<1>4. ASSUME NEW t \in Threads, Fails(t) PROVE \A u \in Threads : Idles(u)
  BY <1>4, WalkIdles DEF Fails
<1>5. \A u \in Threads : Idles(u)
  BY <1>2, <1>3, <1>4
     DEF OwnerCheck, Disconnect, Sweep, LeaseRunsOut, ServiceDies, PowerLoss,
         ServiceStateLost, vars
<1>6. QED
  BY <1>1, <1>5, ApprovalsQuiet

(* Every approval is spent at most once, and while it stands.              *)
THEOREM ApprovalsInvariant == Spec => []ApprovalsInv
<1>1. Init => ApprovalsInv
  BY DEF Init, Idle, NoTxn, ApprovalsInv, NumbersAreSpent, OnePlace, Approved, ApprovedOnce,
         Open, Committing, CommitSteps
<1>2. TypeOK /\ TypeOK' /\ DocumentsInv /\ ApprovalsInv /\ [Next]_vars => ApprovalsInv'
  <2> SUFFICES ASSUME TypeOK, TypeOK', DocumentsInv, ApprovalsInv, [Next]_vars
               PROVE  ApprovalsInv'
    OBVIOUS
  <2>1. QED
    BY ApprovalsPrepare, ApprovalsAuthorize, ApprovalsReduce, ApprovalsCommit,
       ApprovalsPurge, ApprovalsOther
       DEF Next, Proceeds
<1>3. QED
  BY <1>1, <1>2, TypeCorrect, DocumentsInvariant, PTL DEF Spec

-----------------------------------------------------------------------------
(* Reviews.                                                                *)

(* A step that issues nothing: what is still in the slot or in a commit    *)
(* was there before, and the head it was reviewed against stands.          *)
LEMMA ReviewsQuiet ==
  ASSUME ReviewsInv, UNCHANGED released, KeysAdvance',
         Open' => Open /\ pending'.draft = pending.draft /\ pending'.base = pending.base,
         \A t \in Threads : Committing(t)' =>
           /\ Committing(t) /\ Head' = Head
           /\ call'[t].tx = call[t].tx /\ call'[t].draft = call[t].draft
           /\ call[t].at \in {"syncPub", "reply"} => call'[t].at \in {"syncPub", "reply"}
  PROVE  ReviewsInv'
<1>1. \A key, gen : Before(key, gen)' = Before(key, gen)
  BY DEF Before
<1>2. SlotIsReviewed'
  BY <1>1 DEF ReviewsInv, SlotIsReviewed, Reviewed, Before, Launches
<1>3. ASSUME NEW t \in Threads PROVE CommitIsReviewed(t)'
  <2>1. SUFFICES ASSUME Committing(t)' 
                 PROVE  /\ call'[t].at \notin {"syncPub", "reply"} => call'[t].draft.gen = Head.gen + 1
                        /\ Reviewed(Head.key, call[t].draft)
                        /\ call'[t].tx = 0 => Before(Head.key, call[t].draft.gen) # {}
    BY DEF CommitIsReviewed, Reviewed, Before, Launches
  <2>2. QED
    BY <2>1 DEF ReviewsInv, CommitIsReviewed
<1>4. EveryLaunchWasReviewed'
  BY DEF ReviewsInv, EveryLaunchWasReviewed, Launches
<1>5. QED
  BY <1>2, <1>3, <1>4 DEF ReviewsInv

(* No file-system call brings an older key than a document's to life.      *)
LEMMA KeysKept ==
  ASSUME TypeOK, DocumentsInv, ReviewsInv, UNCHANGED released,
         \/ disk' \subseteq disk
         \/ /\ disk' = disk \cup {fs'}
            /\ fs'.dir.key \in {0, fs.dir.key, nextKey}
  PROVE  KeysAdvance'
<1>1. /\ KeysAdvance /\ fs \in disk
      /\ nextKey \in Int /\ (\A d \in released : d.key \in Int /\ d.key < nextKey)
  BY DEF ReviewsInv, DocumentsInv, DiskIsSound, DocumentsAreCovered, TypeOK, StoreTypeOK,
         Document
<1>2. CASE disk' \subseteq disk
  BY <1>1, <1>2 DEF KeysAdvance
<1>3. CASE disk' = disk \cup {fs'} /\ fs'.dir.key \in {0, fs.dir.key, nextKey}
  BY <1>1, <1>3 DEF KeysAdvance
<1>4. QED
  BY <1>2, <1>3

(* What each call does to the live key and to the head.                    *)
LEMMA StoreStepKeys ==
  ASSUME TypeOK,
         \/ MakeUserDir \/ SyncRoot \/ SyncUserDir \/ CreateKey \/ WriteSeed
         \/ UNCHANGED storeVars
  PROVE  /\ Head' = Head
         /\ \/ disk' \subseteq disk
            \/ /\ disk' = disk \cup {fs'}
               /\ fs'.dir.key \in {0, fs.dir.key, nextKey}
<1>1. fs \in FileSystem
  BY DEF TypeOK, StoreTypeOK
<1>2. ASSUME NEW dir \in Dir, BecomesDir(dir), dir.pub = fs.dir.pub,
             dir.key \in {fs.dir.key, nextKey}
      PROVE  Head' = Head /\ disk' = disk \cup {fs'} /\ fs'.dir.key \in {0, fs.dir.key, nextKey}
  BY <1>1, <1>2 DEF BecomesDir, Becomes, Head, FileSystem
<1>3. CASE MakeUserDir
  <2> DEFINE dir == [fs.dir EXCEPT !.made = TRUE]
  <2>1. dir \in Dir /\ dir.pub = fs.dir.pub /\ dir.key = fs.dir.key
    BY <1>1 DEF FileSystem, Dir
  <2>2. BecomesDir(dir)
    BY <1>3 DEF MakeUserDir
  <2> HIDE DEF dir
  <2>3. QED
    BY <1>2, <2>1, <2>2
<1>4. CASE CreateKey
  <2>1. [fs.dir EXCEPT !.key = nextKey, !.seeded = FALSE] \in Dir
    <3>1. nextKey \in 0 .. MaxKey
      BY <1>4, BoundsAssumption DEF CreateKey, TypeOK, StoreTypeOK
    <3>2. QED
      BY <1>1, <3>1 DEF FileSystem, Dir
  <2>2. /\ [fs.dir EXCEPT !.key = nextKey, !.seeded = FALSE].pub = fs.dir.pub
        /\ [fs.dir EXCEPT !.key = nextKey, !.seeded = FALSE].key = nextKey
    BY <1>1 DEF FileSystem, Dir
  <2>3. QED
    BY <1>2, <1>4, <2>1, <2>2 DEF CreateKey
<1>5. CASE WriteSeed
  BY <1>1, <1>2, <1>5 DEF WriteSeed, FileSystem, Dir
<1>6. CASE SyncRoot \/ SyncUserDir \/ UNCHANGED storeVars
  BY <1>6 DEF SyncRoot, SyncUserDir, storeVars, Head
<1>7. QED
  BY <1>3, <1>4, <1>5, <1>6

(* Before anything is published there is no document to replace.           *)
LEMMA NothingBefore ==
  ASSUME TypeOK, DocumentsInv, NEW gen PROVE Before(0, gen) = {}
BY DEF Before, DocumentsInv, DocumentsAreCovered, TypeOK, Document

(* A published state is of the live key.                                   *)
LEMMA HeadIsLive ==
  ASSUME TypeOK, DocumentsInv
  PROVE  /\ Head.key # 0 => Head.key = fs.dir.key
         /\ Head.key = 0 => Head = NoPub
BY DEF DocumentsInv, DiskIsSound, SoundState, Head, NoPub

(* Only one thread is in a commit.                                         *)
LEMMA OneCommit ==
  ASSUME DocumentsInv, NEW t \in Threads, NEW u \in Threads, u # t,
         call[t].at \in Critical
  PROVE  ~Committing(u)
BY DEF DocumentsInv, LockIsHeld, Committing, Critical, IoSteps

(* Every step but a Release leaves the documents alone.                    *)
LEMMA ReviewsPrepare ==
  ASSUME TypeOK, TypeOK', DocumentsInv, ReviewsInv, NEW s \in Senders, Prepare(s)
  PROVE  ReviewsInv'
<1>1. /\ UNCHANGED <<fs, disk, call, released>> /\ KeysAdvance'
  BY DEF Prepare, storeVars, ReviewsInv, KeysAdvance
<1>2. CASE Open /\ DropPending
  BY <1>1, <1>2, ReviewsQuiet DEF DropPending, Open, Head, Committing
<1>3. ASSUME NEW bases \in Bases, NEW content \in Content,
             pending' = [tx |-> nextTx, sender |-> s, base |-> Head, claimed |-> FALSE,
                         draft |-> [gen |-> Head.gen + 1, content |-> content,
                                    shown |-> Shown(VerifiedBase(bases), content)]]
      PROVE  ReviewsInv'
  <2> DEFINE draft == [gen |-> Head.gen + 1, content |-> content,
                       shown |-> Shown(VerifiedBase(bases), content)]
  <2>1. Launches(VerifiedBase(bases)) \subseteq
          UNION {Launches(p.draft.content) : p \in Before(Head.key, Head.gen + 1)}
    <3>1. CASE \E doc \in bases : Verifies(doc)
      <4>1. PICK doc \in bases : Verifies(doc) /\ VerifiedBase(bases) = doc.draft.content
        BY <3>1 DEF VerifiedBase
      <4>2. doc \in released /\ doc.key = Head.key /\ doc.draft.gen = Head.gen
        BY <4>1 DEF Bases, Verifies
      <4>3. (Head.gen + 1) - 1 = Head.gen
        BY HeadType DEF Public
      <4>4. QED
        BY <4>1, <4>2, <4>3 DEF Before
    <3>2. CASE ~\E doc \in bases : Verifies(doc)
      BY <3>2 DEF VerifiedBase, Launches, NoEntries
    <3>3. QED
      BY <3>1, <3>2
  <2>2. Reviewed(Head.key, draft)
    BY <2>1 DEF Reviewed, Shown
  <2>3. SlotIsReviewed'
    <3>1. pending'.draft = draft /\ pending'.base = Head
      BY <1>3
    <3>2. draft.gen = Head.gen + 1
      OBVIOUS
    <3> HIDE DEF draft
    <3>3. QED
      BY <1>1, <2>2, <3>1, <3>2 DEF SlotIsReviewed, Reviewed, Before, Launches
  <2>4. ASSUME NEW t \in Threads PROVE CommitIsReviewed(t)'
    BY <1>1 DEF ReviewsInv, CommitIsReviewed, Reviewed, Before, Launches, Head, Committing
  <2>5. QED
    BY <1>1, <2>3, <2>4 DEF ReviewsInv, EveryLaunchWasReviewed, Launches
<1>4. QED
  BY <1>2, <1>3 DEF Prepare

LEMMA ReviewsAuthorize ==
  ASSUME TypeOK, TypeOK', DocumentsInv, ApprovalsInv, ReviewsInv, NEW t \in Threads,
         \/ \E s \in Senders : Claim(t, s)
         \/ HumanAnswers(t) \/ CheckEnds(t) \/ Invalidate(t) \/ Revalidate(t)
  PROVE  ReviewsInv'
<1>0. /\ call \in [Threads -> Call]
      /\ UNCHANGED <<fs, disk, released>> /\ Head' = Head /\ KeysAdvance'
  BY DEF TypeOK, Claim, HumanAnswers, CheckEnds, Invalidate, Revalidate, storeVars,
         historyVars, Head, ReviewsInv, KeysAdvance
<1>1. ASSUME SlotKeptOrDropped \/ (Open /\ pending' = [pending EXCEPT !.claimed = TRUE]),
             NEW c, call' = [call EXCEPT ![t] = c], c.at \notin CommitSteps
      PROVE  ReviewsInv'
  <2>1. \A u \in Threads : Committing(u)' => call'[u] = call[u] /\ Committing(u)
    BY <1>0, <1>1 DEF Committing
  <2>2. Open' => Open /\ pending'.draft = pending.draft /\ pending'.base = pending.base
    <3>1. CASE SlotKeptOrDropped
      BY <3>1 DEF SlotKeptOrDropped, DropPending, Open
    <3>2. CASE Open /\ pending' = [pending EXCEPT !.claimed = TRUE]
      BY <3>2, OpenType DEF Transaction
    <3>3. QED
      BY <1>1, <3>1, <3>2
  <2>3. QED
    BY <1>0, <2>1, <2>2, ReviewsQuiet
<1>2. ASSUME NEW s \in Senders, Claim(t, s) PROVE ReviewsInv'
  <2>1. CASE DropPending /\ UNCHANGED call
    BY <1>0, <2>1, ReviewsQuiet DEF DropPending, Open, Committing
  <2>2. CASE /\ Open /\ pending' = [pending EXCEPT !.claimed = TRUE]
             /\ call' = [call EXCEPT ![t] = [Idle EXCEPT !.at = "check", !.tx = pending.tx]]
    BY <1>1, <2>2 DEF Idle, CommitSteps
  <2>3. QED
    BY <1>2, <2>1, <2>2 DEF Claim
<1>3. CASE HumanAnswers(t) \/ CheckEnds(t)
  <2>1. /\ SlotKeptOrDropped
        /\ \/ call' = [call EXCEPT ![t] = [call[t] EXCEPT !.at = "denied"]]
           \/ call' = [call EXCEPT ![t] = [call[t] EXCEPT !.at = "approved"]]
    BY <1>3 DEF HumanAnswers, CheckEnds, SlotKeptOrDropped, cellVars, historyVars
  <2>2. /\ [call[t] EXCEPT !.at = "denied"].at = "denied"
        /\ [call[t] EXCEPT !.at = "approved"].at = "approved"
    BY <1>0 DEF Call
  <2>3. QED
    BY <1>1, <2>1, <2>2 DEF CommitSteps
<1>4. CASE Invalidate(t)
  BY <1>1, <1>4 DEF Invalidate, SlotKeptOrDropped, Idle, CommitSteps
<1>5. CASE Revalidate(t)
  <2>1. CASE StillOurs(t) /\ StillBase
    <3>1. /\ call' = [call EXCEPT ![t].at = "mkdir", ![t].draft = pending.draft]
          /\ pending' = NoTxn
          /\ Open /\ pending.base = Head /\ call[t].at = "approved"
      BY <1>5, <2>1 DEF Revalidate, StillOurs, StillBase, Claimed
    <3>2. /\ call'[t].tx = call[t].tx /\ call'[t].at = "mkdir"
          /\ call'[t].draft = pending.draft
          /\ \A u \in Threads : u # t => call'[u] = call[u]
      BY <1>0, <3>1 DEF Call
    <3>3. call[t].tx # 0
      BY <3>1 DEF ApprovalsInv, Approved
    <3>4. SlotIsReviewed'
      BY <3>1 DEF SlotIsReviewed, Open
    <3>5. CommitIsReviewed(t)'
      <4>1. pending.draft.gen = Head.gen + 1 /\ Reviewed(Head.key, pending.draft)
        BY <3>1 DEF ReviewsInv, SlotIsReviewed
      <4>2. QED
        BY <1>0, <3>2, <3>3, <4>1 DEF CommitIsReviewed, Reviewed, Before, Launches
    <3>6. ASSUME NEW u \in Threads, u # t PROVE CommitIsReviewed(u)'
      BY <1>0, <3>2, <3>6
         DEF ReviewsInv, CommitIsReviewed, Committing, Reviewed, Before, Launches
    <3>7. EveryLaunchWasReviewed'
      BY <1>0 DEF ReviewsInv, EveryLaunchWasReviewed, Launches
    <3>8. QED
      BY <1>0, <3>4, <3>5, <3>6, <3>7 DEF ReviewsInv
  <2>2. CASE ~(StillOurs(t) /\ StillBase)
    BY <1>1, <1>5, <2>2 DEF Revalidate, SlotKeptOrDropped, Idle, CommitSteps
  <2>3. QED
    BY <2>1, <2>2
<1>6. QED
  BY <1>2, <1>3, <1>4, <1>5

(* Reduce adds no launch to the document it reduces.                       *)
LEMMA ReducedLaunches ==
  ASSUME NEW content \in Content, NEW disable, NEW drop
  PROVE  Launches(Reduced(content, disable, drop)) \subseteq Launches(content)
<1> DEFINE less == Reduced(content, disable, drop)
<1>1. /\ DOMAIN less = DOMAIN content \ drop
      /\ \A c \in DOMAIN less : /\ less[c].command = content[c].command
                                /\ less[c].enabled => content[c].enabled
  BY DEF Reduced
<1> HIDE DEF less
<1>2. Launches(less) \subseteq Launches(content)
  BY <1>1 DEF Launches
<1>3. QED
  BY <1>2 DEF less

LEMMA ReviewsReduce ==
  ASSUME TypeOK, TypeOK', DocumentsInv, ReviewsInv, NEW t \in Threads,
         Reduce(t) \/ FireInvalidate(t)
  PROVE  ReviewsInv'
<1>0. /\ call \in [Threads -> Call]
      /\ UNCHANGED <<fs, disk, released>> /\ Head' = Head /\ KeysAdvance'
  BY DEF TypeOK, Reduce, FireInvalidate, storeVars, historyVars, Head, ReviewsInv, KeysAdvance
<1>1. ASSUME SlotKeptOrDropped, NEW c, call' = [call EXCEPT ![t] = c], c.at \notin CommitSteps
      PROVE  ReviewsInv'
  <2>1. \A u \in Threads : Committing(u)' => call'[u] = call[u] /\ Committing(u)
    BY <1>0, <1>1 DEF Committing
  <2>2. QED
    BY <1>0, <1>1, <2>1, ReviewsQuiet DEF SlotKeptOrDropped, DropPending, Open
<1>2. CASE FireInvalidate(t)
  BY <1>1, <1>2 DEF FireInvalidate, SlotKeptOrDropped, cellVars, historyVars, Idle, CommitSteps
<1>3. CASE Reduce(t)
  <2>1. ASSUME NEW doc \in released, NEW disable, NEW drop, Verifies(doc),
               call' = [call EXCEPT ![t] =
                 [at |-> "mkdir", tx |-> 0, cancel |-> CheckId,
                  draft |-> [gen |-> Head.gen + 1,
                             content |-> Reduced(doc.draft.content, disable, drop),
                             shown |-> {}]]]
        PROVE  ReviewsInv'
    <3> DEFINE content == Reduced(doc.draft.content, disable, drop)
    <3>1. doc \in Before(Head.key, Head.gen + 1)
      <4>1. (Head.gen + 1) - 1 = Head.gen
        BY HeadType DEF Public
      <4>2. QED
        BY <2>1, <4>1 DEF Before, Verifies
    <3>2. Launches(content) \subseteq Launches(doc.draft.content)
      BY ReducedLaunches DEF TypeOK, Document, Draft
    <3> HIDE DEF content
    <3>3. /\ call'[t].tx = 0 /\ call'[t].draft.gen = Head.gen + 1
          /\ call'[t].draft.content = content
          /\ \A u \in Threads : u # t => call'[u] = call[u]
      BY <1>0, <2>1 DEF content
    <3>4. CommitIsReviewed(t)'
      BY <1>0, <3>1, <3>2, <3>3 DEF CommitIsReviewed, Reviewed, Before, Launches
    <3>5. ASSUME NEW u \in Threads, u # t PROVE CommitIsReviewed(u)'
      BY <1>0, <3>3, <3>5
         DEF ReviewsInv, CommitIsReviewed, Committing, Reviewed, Before, Launches
    <3>6. SlotIsReviewed'
      BY <1>3 DEF Reduce, DropPending, SlotIsReviewed, Open
    <3>7. EveryLaunchWasReviewed'
      BY <1>0 DEF ReviewsInv, EveryLaunchWasReviewed, Launches
    <3>8. QED
      BY <1>0, <3>4, <3>5, <3>6, <3>7 DEF ReviewsInv
  <2>2. CASE call' = [call EXCEPT ![t] = [Idle EXCEPT !.at = "fire", !.cancel = CheckId]]
    BY <1>1, <1>3, <2>2 DEF Reduce, SlotKeptOrDropped, Idle, CommitSteps
  <2>3. QED
    BY <1>3, <2>1, <2>2 DEF Reduce
<1>4. QED
  BY <1>2, <1>3

(* The holder of the lock walks on, or ends, with the head as it was.      *)
LEMMA ReviewsWalk ==
  ASSUME TypeOK, DocumentsInv, ReviewsInv, NEW t \in Threads, UNCHANGED released,
         UNCHANGED pending,
         \/ Finish(t)
         \/ /\ call[t].at \in CommitSteps \ {"syncPub", "reply"}
            /\ \E step \in CommitSteps : Goes(t, step)
         \/ call[t].at = "syncPub" /\ Goes(t, "reply"),
         \/ MakeUserDir \/ SyncRoot \/ SyncUserDir \/ CreateKey \/ WriteSeed
         \/ UNCHANGED storeVars
  PROVE  ReviewsInv'
<1>1. Head' = Head /\ KeysAdvance'
  BY StoreStepKeys, KeysKept
<1>2. ASSUME NEW u \in Threads, Committing(u)'
      PROVE  /\ Committing(u)
             /\ call'[u].tx = call[u].tx /\ call'[u].draft = call[u].draft
             /\ call[u].at \in {"syncPub", "reply"} => call'[u].at \in {"syncPub", "reply"}
  <2>1. CASE Finish(t)
    BY <1>2, <2>1 DEF Committing, Finish, Idle, CommitSteps, TypeOK
  <2>2. ASSUME NEW step, Goes(t, step)
        PROVE  /\ call'[t].at = step /\ call'[t].tx = call[t].tx
               /\ call'[t].draft = call[t].draft
               /\ u # t => call'[u] = call[u]
    BY <2>2 DEF Goes, TypeOK, Call
  <2>3. CASE u = t
    BY <1>2, <2>1, <2>2, <2>3 DEF Committing, CommitSteps
  <2>4. CASE u # t
    BY <1>2, <2>1, <2>2, <2>4 DEF Committing
  <2>5. QED
    BY <2>3, <2>4
<1>3. QED
  BY <1>1, <1>2, ReviewsQuiet DEF Open

(* The head moves while only its own thread commits.                       *)
LEMMA ReviewsPublish ==
  ASSUME TypeOK, TypeOK', DocumentsInv, ReviewsInv, NEW t \in Threads,
         UNCHANGED <<released, pending>>, Committing(t),
         NEW gen \in 0 .. MaxGen, RenamePublic(gen), HasKey,
         NEW step \in Steps, Goes(t, step),
         \/ gen = 0 /\ ~HasPublic /\ call[t].draft.gen = Head.gen + 1 /\ step = "syncPub0"
         \/ HasPublic /\ step = "syncPub"
  PROVE  ReviewsInv'
<1>1. /\ Head'.key = fs.dir.key /\ Head'.gen = gen
      /\ disk' = disk \cup {fs'} /\ fs'.dir.key = fs.dir.key
  BY DEF RenamePublic, BecomesDir, Becomes, Head, TypeOK, StoreTypeOK, FileSystem, Dir
<1>2. /\ call'[t].at = step /\ call'[t].tx = call[t].tx /\ call'[t].draft = call[t].draft
      /\ \A u \in Threads : u # t => call'[u] = call[u]
  BY DEF Goes, TypeOK, Call
<1>3. KeysAdvance'
  BY <1>1, KeysKept
<1>4. \A u \in Threads : u # t => ~Committing(u)'
  BY <1>2, OneCommit DEF Committing, Critical, IoSteps
<1>5. /\ Reviewed(Head.key, call[t].draft)
      /\ call[t].tx = 0 => Before(Head.key, call[t].draft.gen) # {}
  BY DEF ReviewsInv, CommitIsReviewed
<1>6. CommitIsReviewed(t)'
  <2>1. CASE gen = 0 /\ ~HasPublic /\ call[t].draft.gen = Head.gen + 1
    <3>1. Head = NoPub
      BY <2>1, HeadIsLive DEF HasPublic, Head
    <3>2. Before(Head.key, call[t].draft.gen) = {}
      BY <3>1, NothingBefore DEF NoPub
    <3>3. Launches(call[t].draft.content) \subseteq call[t].draft.shown /\ call[t].tx # 0
      BY <1>5, <3>2 DEF Reviewed
    <3>4. QED
      BY <1>1, <1>2, <2>1, <3>1, <3>3 DEF CommitIsReviewed, Reviewed, Launches, NoPub
  <2>2. CASE HasPublic /\ step = "syncPub"
    <3>1. Head'.key = Head.key
      BY <1>1, <2>2, HeadIsLive DEF HasPublic, Head
    <3>2. QED
      BY <1>2, <1>5, <2>2, <3>1 DEF CommitIsReviewed, Reviewed, Before, Launches
  <2>3. QED
    BY <2>1, <2>2
<1>7. SlotIsReviewed' /\ EveryLaunchWasReviewed'
  BY DEF ReviewsInv, SlotIsReviewed, EveryLaunchWasReviewed, Open, Reviewed, Before, Launches
<1>8. QED
  BY <1>3, <1>4, <1>6, <1>7 DEF ReviewsInv, CommitIsReviewed

(* A Release issues what was reviewed.                                     *)
LEMMA ReviewsRelease ==
  ASSUME TypeOK, TypeOK', DocumentsInv, ReviewsInv, NEW t \in Threads, Release(t)
  PROVE  ReviewsInv'
<1> DEFINE new == [key |-> fs.dir.key, tx |-> call[t].tx, draft |-> call[t].draft]
<1>1. /\ call[t].at = "reply" /\ Committing(t) /\ Finish(t)
      /\ released' = released \cup {new}
      /\ UNCHANGED <<fs, disk, pending>> /\ Head' = Head
  BY DEF Release, cellVars, storeVars, Committing, CommitSteps, Head
<1>2. /\ HasPublic /\ Head.key = fs.dir.key
      /\ \A saved \in disk : saved.dir.made => saved.dir = fs.dir
      /\ \A saved \in disk : ~saved.dir.made => saved.dir.key = 0
  <2>1. CommitKnows(t)
    BY DEF DocumentsInv
  <2>2. HasPublic /\ \A saved \in disk : saved.dir.made => saved.dir = fs.dir
    BY <1>1, <2>1 DEF CommitKnows
  <2>3. \A saved \in disk : ~saved.dir.made => saved.dir.key = 0
    BY DEF DocumentsInv, DiskIsSound, SoundState, NoDir
  <2>4. QED
    BY <2>2, <2>3, HeadIsLive DEF HasPublic, Head
<1>3. /\ Reviewed(new.key, new.draft)
      /\ new.tx = 0 => Before(new.key, new.draft.gen) # {}
      /\ new.key = fs.dir.key /\ new.key \in Int
  BY <1>1, <1>2 DEF ReviewsInv, CommitIsReviewed, TypeOK, StoreTypeOK, FileSystem, Dir
<1>4. \A u \in Threads : ~Committing(u)'
  <2>1. ~Committing(t)'
    BY <1>1 DEF Finish, Idle, Committing, CommitSteps, TypeOK
  <2>2. ASSUME NEW u \in Threads, u # t PROVE ~Committing(u)'
    BY <1>1, <2>2, OneCommit DEF Finish, Committing, Critical, IoSteps, TypeOK
  <2>3. QED
    BY <2>1, <2>2
<1> HIDE DEF new
<1>5. KeysAdvance'
  <2>1. ASSUME NEW saved \in disk, saved.dir.key # 0 PROVE saved.dir.key >= new.key
    BY <1>2, <1>3, <2>1
  <2>2. QED
    BY <1>1, <2>1 DEF ReviewsInv, KeysAdvance
<1>6. \A key, gen : Before(key, gen) \subseteq Before(key, gen)'
  BY <1>1 DEF Before
<1>7. SlotIsReviewed'
  BY <1>1, <1>6 DEF ReviewsInv, SlotIsReviewed, Open, Reviewed, Launches
<1>8. EveryLaunchWasReviewed'
  <2>1. ASSUME NEW d \in released'
        PROVE  Launches(d.draft.content) \subseteq
                 d.draft.shown \cup
                   UNION {Launches(p.draft.content) : p \in Before(d.key, d.draft.gen)'}
    <3>1. CASE d = new
      BY <1>3, <1>6, <3>1 DEF Reviewed
    <3>2. CASE d \in released
      <4>1. Launches(d.draft.content) \subseteq
              d.draft.shown \cup
                UNION {Launches(p.draft.content) : p \in Before(d.key, d.draft.gen)}
        BY <3>2 DEF ReviewsInv, EveryLaunchWasReviewed, Before
      <4>2. QED
        BY <1>6, <4>1
    <3>3. QED
      BY <1>1, <2>1, <3>1, <3>2
  <2>2. QED
    BY <2>1 DEF EveryLaunchWasReviewed, Before, Launches
<1>9. QED
  BY <1>4, <1>5, <1>7, <1>8 DEF ReviewsInv, CommitIsReviewed

LEMMA ReviewsCommit ==
  ASSUME TypeOK, TypeOK', DocumentsInv, ReviewsInv, NEW t \in Threads, Commit(t)
  PROVE  ReviewsInv'
<1> USE DEF CommitSteps
<1>0. Rest => UNCHANGED <<pending, released>>
  BY DEF Rest, cellVars, historyVars
<1>1. CASE MakeDir(t)
  BY <1>0, <1>1, ReviewsWalk DEF MakeDir
<1>2. CASE SyncDirEntry(t)
  BY <1>0, <1>2, ReviewsWalk DEF SyncDirEntry
<1>3. CASE FindKey(t)
  BY <1>0, <1>3, ReviewsWalk DEF FindKey
<1>4. CASE Seed(t)
  BY <1>0, <1>4, ReviewsWalk DEF Seed
<1>5. CASE SyncKey(t)
  BY <1>0, <1>5, ReviewsWalk DEF SyncKey
<1>6. CASE PublishZero(t)
  <2>1. /\ call[t].at = "pub0" /\ RenamePublic(0) /\ Goes(t, "syncPub0")
        /\ UNCHANGED <<pending, released>>
    BY <1>0, <1>6 DEF PublishZero
  <2>2. HasKey /\ ~HasPublic
    BY <2>1 DEF DocumentsInv, CommitKnows
  <2>3. call[t].draft.gen = Head.gen + 1
    BY <2>1 DEF ReviewsInv, CommitIsReviewed, Committing
  <2>4. QED
    BY <2>1, <2>2, <2>3, ReviewsPublish, BoundsAssumption DEF Committing, Steps
<1>7. CASE SyncZero(t)
  BY <1>0, <1>7, ReviewsWalk DEF SyncZero
<1>8. CASE SignAndPublish(t)
  <2>1. CASE Finish(t) /\ UNCHANGED storeVars
    BY <1>0, <1>8, <2>1, ReviewsWalk DEF SignAndPublish
  <2>2. CASE RenamePublic(call[t].draft.gen) /\ Goes(t, "syncPub")
    <3>1. call[t].at = "sign" /\ UNCHANGED <<pending, released>>
      BY <1>0, <1>8 DEF SignAndPublish
    <3>2. HasKey /\ HasPublic /\ call[t].draft.gen \in 0 .. MaxGen
      BY <3>1 DEF DocumentsInv, CommitKnows, TypeOK, Call, Draft
    <3>3. QED
      BY <2>2, <3>1, <3>2, ReviewsPublish DEF Committing, Steps
  <2>3. QED
    BY <1>8, <2>1, <2>2 DEF SignAndPublish
<1>9. CASE SyncPublished(t)
  BY <1>0, <1>9, ReviewsWalk DEF SyncPublished
<1>10. CASE Release(t)
  BY <1>10, ReviewsRelease
<1>11. QED
  BY <1>1, <1>2, <1>3, <1>4, <1>5, <1>6, <1>7, <1>8, <1>9, <1>10 DEF Commit

(* A purge takes the head away while nobody commits.                       *)
LEMMA ReviewsPurge ==
  ASSUME TypeOK, TypeOK', DocumentsInv, ReviewsInv, NEW t \in Threads,
         PurgeAsks(t) \/ PurgeAnswered(t) \/ PurgeRuns(t)
  PROVE  ReviewsInv'
<1>0. call \in [Threads -> Call]
  BY DEF TypeOK
<1>1. UNCHANGED released /\ (UNCHANGED pending \/ ~Open')
  BY DEF PurgeAsks, PurgeAnswered, PurgeRuns, PurgeTakes, Entomb, SyncGone, Reap,
         PurgeSucceeds, Rest, DropPending, Open, cellVars, historyVars
<1>2. ASSUME ~Committing(t)', \A u \in Threads : u # t => call'[u] = call[u],
             Head' = Head \/ call[t].at \in PurgeSteps, KeysAdvance'
      PROVE  ReviewsInv'
  <2>1. ASSUME NEW u \in Threads, Committing(u)'
        PROVE  Committing(u) /\ Head' = Head /\ call'[u] = call[u]
    <3>1. u # t /\ call'[u] = call[u] /\ Committing(u)
      BY <1>2, <2>1 DEF Committing
    <3>2. call[t].at \notin PurgeSteps
      BY <3>1, OneCommit DEF Critical, IoSteps
    <3>3. QED
      BY <1>2, <3>1, <3>2
  <2>2. QED
    BY <1>1, <1>2, <2>1, ReviewsQuiet DEF Open
<1>3. ASSUME NEW step \in Steps \ CommitSteps, Goes(t, step)
      PROVE  ~Committing(t)' /\ \A u \in Threads : u # t => call'[u] = call[u]
  BY <1>0, <1>3 DEF Goes, Committing, Call
<1>4. ASSUME disk' \subseteq disk, Head' = Head PROVE KeysAdvance'
  BY <1>1, <1>4, KeysKept
<1>5. CASE PurgeAsks(t) \/ PurgeAnswered(t) \/ PurgeTakes(t)
  <2>1. disk' \subseteq disk /\ Head' = Head
    BY <1>5 DEF PurgeAsks, PurgeAnswered, PurgeTakes, storeVars, Head
  <2>2. ~Committing(t)' /\ \A u \in Threads : u # t => call'[u] = call[u]
    <3>1. CASE PurgeAsks(t)
      BY <1>0, <3>1 DEF PurgeAsks, Committing, CommitSteps, Idle
    <3>2. CASE PurgeAnswered(t)
      BY <1>0, <1>3, <3>2 DEF PurgeAnswered, Committing, CommitSteps, Idle, Steps
    <3>3. CASE PurgeTakes(t)
      <4>1. call'[t].at = "tomb" /\ \A u \in Threads : u # t => call'[u] = call[u]
        BY <1>0, <3>3 DEF PurgeTakes, Call
      <4>2. QED
        BY <4>1 DEF Committing, CommitSteps
    <3>4. QED
      BY <1>5, <3>1, <3>2, <3>3
  <2>3. QED
    BY <1>2, <1>4, <2>1, <2>2
<1>6. CASE Entomb(t)
  <2>1. call[t].at = "tomb" /\ Goes(t, "syncGone")
    BY <1>6 DEF Entomb
  <2>2. KeysAdvance'
    <3>1. CASE RenameToTombstone
      BY <1>1, <3>1, KeysKept DEF RenameToTombstone, Becomes, NoDir
    <3>2. CASE UNCHANGED storeVars
      BY <1>1, <3>2, KeysKept DEF storeVars
    <3>3. QED
      BY <1>6, <3>1, <3>2 DEF Entomb
  <2>3. QED
    BY <1>2, <1>3, <2>1, <2>2 DEF Steps, PurgeSteps, CommitSteps
<1>7. CASE SyncGone(t)
  BY <1>2, <1>3, <1>4, <1>7 DEF SyncGone, SyncRoot, Head, Steps, PurgeSteps, CommitSteps
<1>8. CASE Reap(t)
  <2>1. ASSUME NEW k \in fs.tombs, RemoveTombstone(k) PROVE KeysAdvance' /\ Head' = Head
    <3>1. disk' = disk \cup {fs'} /\ fs'.dir = fs.dir
      BY <2>1 DEF RemoveTombstone, Becomes, TypeOK, StoreTypeOK, FileSystem
    <3>2. QED
      BY <1>1, <3>1, KeysKept DEF Head
  <2>2. UNCHANGED storeVars => KeysAdvance' /\ Head' = Head
    BY <1>4 DEF storeVars, Head
  <2>3. QED
    BY <1>2, <1>3, <1>8, <2>1, <2>2 DEF Reap, Steps, PurgeSteps, CommitSteps
<1>9. CASE PurgeSucceeds(t)
  <2>1. disk' \subseteq disk /\ Head' = Head /\ Finish(t)
    BY <1>9 DEF PurgeSucceeds, SyncRoot, Head
  <2>2. ~Committing(t)' /\ \A u \in Threads : u # t => call'[u] = call[u]
    BY <1>0, <2>1 DEF Finish, Committing, CommitSteps, Idle
  <2>3. QED
    BY <1>2, <1>4, <2>1, <2>2
<1>10. QED
  BY <1>5, <1>6, <1>7, <1>8, <1>9 DEF PurgeRuns

LEMMA ReviewsOther ==
  ASSUME TypeOK, TypeOK', DocumentsInv, ReviewsInv,
         \/ \E s \in Senders : OwnerCheck(s) \/ Disconnect(s) \/ Sweep(s)
         \/ \E t \in Threads : Fails(t)
         \/ LeaseRunsOut \/ ServiceDies \/ PowerLoss \/ UNCHANGED vars
  PROVE  ReviewsInv'
<1>1. UNCHANGED released /\ (UNCHANGED pending \/ ~Open')
  BY DEF OwnerCheck, Disconnect, Sweep, Fails, LeaseRunsOut, ServiceDies, PowerLoss,
         ServiceStateLost, DropPending, Open, vars, cellVars, historyVars
<1>2. disk' \subseteq disk
  BY DEF OwnerCheck, Disconnect, Sweep, Fails, LeaseRunsOut, ServiceDies, PowerLoss,
         LosePower, vars, storeVars
<1>3. KeysAdvance'
  BY <1>1, <1>2, KeysKept
<1>4. ASSUME NEW u \in Threads, Committing(u)'
      PROVE  Committing(u) /\ Head' = Head /\ call'[u] = call[u]
  <2>1. CASE ServiceDies \/ PowerLoss
    BY <1>4, <2>1 DEF ServiceDies, PowerLoss, ServiceStateLost, Idle, Committing, CommitSteps
  <2>2. ASSUME NEW t \in Threads, Fails(t) PROVE Committing(u) /\ Head' = Head /\ call'[u] = call[u]
    BY <1>4, <2>2 DEF Fails, Finish, Idle, Committing, CommitSteps, storeVars, Head, TypeOK
  <2>3. CASE UNCHANGED <<fs, call>>
    BY <1>4, <2>3 DEF Committing, Head
  <2>4. QED
    BY <2>1, <2>2, <2>3 DEF OwnerCheck, Disconnect, Sweep, LeaseRunsOut, vars, storeVars
<1>5. QED
  BY <1>1, <1>3, <1>4, ReviewsQuiet DEF Open

(* Every launch of a document was in a review of its own or of an earlier  *)
(* document it replaces, whatever fails and wherever the machine stops.    *)
THEOREM ReviewsInvariant == Spec => []ReviewsInv
<1>1. Init => ReviewsInv
  BY DEF Init, StoreInit, Idle, ReviewsInv, SlotIsReviewed, CommitIsReviewed, KeysAdvance,
         EveryLaunchWasReviewed, Open, Committing, CommitSteps
<1>2. TypeOK /\ TypeOK' /\ DocumentsInv /\ ApprovalsInv /\ ReviewsInv /\ [Next]_vars
        => ReviewsInv'
  BY ReviewsPrepare, ReviewsAuthorize, ReviewsReduce, ReviewsCommit, ReviewsPurge,
     ReviewsOther
     DEF Next, Proceeds
<1>3. QED
  BY <1>1, <1>2, TypeCorrect, DocumentsInvariant, ApprovalsInvariant, PTL DEF Spec

-----------------------------------------------------------------------------
(* The slot of a sender that left.                                         *)

LEMMA OrphanStep ==
  ASSUME TypeOK, TypeOK', OrphanIsNoticed, [Next]_vars
  PROVE  OrphanIsNoticed'
<1> USE DEF OrphanIsNoticed, busVars, cellVars
<1>1. ASSUME Open' => Open /\ pending'.sender = pending.sender,
             UNCHANGED <<alive, sweeps, rechecks>>
      PROVE  OrphanIsNoticed'
  BY <1>1
<1>2. ASSUME DropPending \/ UNCHANGED pending, UNCHANGED <<alive, sweeps, rechecks>>
      PROVE  OrphanIsNoticed'
  BY <1>1, <1>2 DEF DropPending, Open
<1>3. ASSUME NEW s \in Senders, Prepare(s) PROVE OrphanIsNoticed'
  <2>1. CASE DropPending /\ UNCHANGED rechecks
    BY <1>2, <1>3, <2>1 DEF Prepare
  <2>2. CASE pending'.sender = s /\ s \in rechecks'
    BY <2>2
  <2>3. QED
    BY <1>3, <2>1, <2>2 DEF Prepare
<1>4. ASSUME NEW s \in Senders, OwnerCheck(s) \/ Disconnect(s) PROVE OrphanIsNoticed'
  BY <1>4 DEF OwnerCheck, Disconnect, Open
<1>5. ASSUME NEW s \in Senders, Sweep(s) PROVE OrphanIsNoticed'
  BY <1>5 DEF Sweep, DropPending, Open
<1>6. ASSUME NEW t \in Threads, NEW s \in Senders, Claim(t, s) PROVE OrphanIsNoticed'
  <2>1. CASE Open /\ pending' = [pending EXCEPT !.claimed = TRUE]
    BY <1>1, <1>6, <2>1, OpenType DEF Claim, Transaction
  <2>2. QED
    BY <1>2, <1>6, <2>1 DEF Claim
<1>7. ASSUME NEW t \in Threads,
             \/ HumanAnswers(t) \/ Reduce(t) \/ PurgeAsks(t) \/ PurgeAnswered(t)
             \/ CheckEnds(t) \/ Invalidate(t) \/ Revalidate(t) \/ Commit(t) \/ PurgeRuns(t)
             \/ FireInvalidate(t) \/ Fails(t)
      PROVE  OrphanIsNoticed'
  <2>1. UNCHANGED <<alive, sweeps, rechecks>> /\ (UNCHANGED pending \/ ~Open')
    BY <1>7
       DEF HumanAnswers, Reduce, PurgeAsks, PurgeAnswered, CheckEnds, Invalidate,
           Revalidate, FireInvalidate, Fails, Commit, MakeDir, SyncDirEntry, FindKey, Seed,
           SyncKey, PublishZero, SyncZero, SignAndPublish, SyncPublished, Release, PurgeRuns,
           PurgeTakes, Entomb, SyncGone, Reap, PurgeSucceeds, Rest, DropPending, Open
  <2>2. QED
    BY <1>1, <2>1 DEF Open
<1>8. CASE LeaseRunsOut \/ UNCHANGED vars
  BY <1>1, <1>8 DEF LeaseRunsOut, vars, Open
<1>9. CASE ServiceDies \/ PowerLoss
  BY <1>9 DEF ServiceDies, PowerLoss, ServiceStateLost, DropPending, Open
<1>10. QED
  BY <1>3, <1>4, <1>5, <1>6, <1>7, <1>8, <1>9 DEF Next, Proceeds

(* A slot left by its sender is always about to be freed (watch_senders    *)
(* and the re-check after Prepare in main.rs).                             *)
THEOREM OrphansAreNoticed == Spec => []OrphanIsNoticed
<1>1. Init => OrphanIsNoticed
  BY DEF Init, OrphanIsNoticed, Open
<1>2. QED
  BY <1>1, OrphanStep, TypeCorrect, PTL DEF Spec

-----------------------------------------------------------------------------
(* An approval is spent at most once, and only while its transaction       *)
(* stands (Engine::authorize and Engine::reduce).                          *)
THEOREM ApprovalsAreSpentOnce == Spec => []ApprovedOnce
<1>1. ApprovalsInv => ApprovedOnce
  BY DEF ApprovalsInv
<1>2. QED
  BY <1>1, ApprovalsInvariant, PTL

(* No launch reaches a document unseen (Engine::prepare, commit).          *)
THEOREM LaunchesAreReviewed == Spec => []EveryLaunchWasReviewed
<1>1. ReviewsInv => EveryLaunchWasReviewed
  BY DEF ReviewsInv
<1>2. QED
  BY <1>1, ReviewsInvariant, PTL

-----------------------------------------------------------------------------
(* The refinement.                                                         *)

(* A Release is the promise's Issue: with an approval, or taking away.     *)
LEMMA ReleaseIssues ==
  ASSUME TypeOK, DocumentsInv, ApprovalsInv, ReviewsInv, NEW t \in Threads, Release(t)
  PROVE  Promise!PromiseNext
<1> DEFINE new == [key |-> fs.dir.key, tx |-> call[t].tx, draft |-> call[t].draft]
<1>1. /\ call[t].at = "reply" /\ Committing(t)
      /\ released' = released \cup {new} /\ UNCHANGED <<granted, revoked>>
  BY DEF Release, Committing, CommitSteps
<1>2. /\ HasPublic /\ Head.key = fs.dir.key /\ new.key = Head.key
      /\ \A d \in released : d.key = fs.dir.key => d.draft.gen < new.draft.gen
  <2>1. CommitKnows(t)
    BY DEF DocumentsInv
  <2>2. QED
    BY <1>1, <2>1, HeadIsLive DEF CommitKnows, HasPublic, Head
<1>3. /\ Reviewed(new.key, new.draft)
      /\ new.tx = 0 => Before(new.key, new.draft.gen) # {}
      /\ Approved(t) /\ new.tx = call[t].tx /\ new.draft = call[t].draft
  BY <1>1, <1>2 DEF ReviewsInv, ApprovalsInv, CommitIsReviewed
<1>4. \A e \in released : Promise!Above(new, e)
  <2>1. fs \in disk /\ fs.dir.key # 0
    BY <1>2 DEF DocumentsInv, DiskIsSound, HasPublic, Head
  <2>2. ASSUME NEW e \in released PROVE Promise!Above(new, e)
    <3>1. fs.dir.key >= e.key
      BY <2>1 DEF ReviewsInv, KeysAdvance
    <3>2. fs.dir.key \in Int /\ e.key \in Int /\ new.draft.gen \in Int /\ e.draft.gen \in Int
      BY DEF TypeOK, StoreTypeOK, FileSystem, Dir, Document, Call, Draft
    <3>3. QED
      BY <1>2, <3>1, <3>2 DEF Promise!Above
  <2>3. QED
    BY <2>2
<1>5. new \in released'
  BY <1>1
<1> HIDE DEF new
<1>6. Promise!Issue(new)
  BY <1>1, <1>4 DEF Promise!Issue
<1>7. Launches(new.draft.content) \subseteq Promise!OldLaunches(new) \cup new.draft.shown
  BY <1>3 DEF Reviewed, Before, Promise!OldLaunches, Promise!Replaced
<1>8. CASE new.tx # 0
  <2>1. Promise!SpendApproval(new)
    BY <1>1, <1>3, <1>6, <1>7, <1>8 DEF Promise!SpendApproval, Approved
  <2>2. QED
    BY <1>5, <2>1 DEF Promise!PromiseNext
<1>9. CASE new.tx = 0
  <2>1. Promise!TakeAway(new)
    BY <1>1, <1>3, <1>6, <1>7, <1>9
       DEF Promise!TakeAway, Promise!Replaced, Before, Approved
  <2>2. QED
    BY <1>5, <2>1 DEF Promise!PromiseNext
<1>10. QED
  BY <1>8, <1>9

(* Every step of the engine is a step of the promise or leaves it alone.   *)
LEMMA StepKeepsPromise ==
  ASSUME TypeOK, DocumentsInv, ApprovalsInv, ReviewsInv, [Next]_vars
  PROVE  [Promise!PromiseNext]_(Promise!promiseVars)
<1>1. ASSUME UNCHANGED <<released, granted>>, UNCHANGED revoked \/ DropPending
      PROVE  [Promise!PromiseNext]_(Promise!promiseVars)
  <2>1. CASE UNCHANGED revoked
    BY <1>1, <2>1 DEF Promise!promiseVars
  <2>2. CASE DropPending /\ Open
    <3>1. pending.tx \in revoked' /\ Promise!Withdraw(pending.tx)
      BY <1>1, <2>2 DEF DropPending, Promise!Withdraw
    <3>2. QED
      BY <3>1 DEF Promise!PromiseNext
  <2>3. CASE DropPending /\ ~Open
    BY <1>1, <2>3 DEF DropPending, Promise!promiseVars
  <2>4. QED
    BY <1>1, <2>1, <2>2, <2>3
<1>2. ASSUME NEW s \in Senders, Prepare(s)
      PROVE  [Promise!PromiseNext]_(Promise!promiseVars)
  <2>1. /\ UNCHANGED <<released, granted>>
        /\ revoked' = revoked \cup (IF Open THEN {pending.tx} ELSE {})
    BY <1>2 DEF Prepare, DropPending
  <2>2. CASE Open
    <3>1. pending.tx \in revoked' /\ Promise!Withdraw(pending.tx)
      BY <2>1, <2>2 DEF Promise!Withdraw
    <3>2. QED
      BY <3>1 DEF Promise!PromiseNext
  <2>3. CASE ~Open
    BY <2>1, <2>3 DEF Promise!promiseVars
  <2>4. QED
    BY <2>2, <2>3
<1>3. ASSUME NEW t \in Threads, HumanAnswers(t)
      PROVE  [Promise!PromiseNext]_(Promise!promiseVars)
  <2>1. CASE granted' = granted \cup {call[t].tx}
    <3>1. call[t].tx \in granted' /\ Promise!Approve(call[t].tx)
      BY <1>3, <2>1 DEF HumanAnswers, Promise!Approve
    <3>2. QED
      BY <3>1 DEF Promise!PromiseNext
  <2>2. CASE UNCHANGED granted
    BY <1>1, <1>3, <2>2 DEF HumanAnswers
  <2>3. QED
    BY <1>3, <2>1, <2>2 DEF HumanAnswers
<1>4. ASSUME NEW t \in Threads, Commit(t)
      PROVE  [Promise!PromiseNext]_(Promise!promiseVars)
  <2>1. CASE Release(t)
    BY <2>1, ReleaseIssues
  <2>2. CASE ~Release(t)
    BY <1>1, <1>4, <2>2, CommitWalks DEF Rest, historyVars
  <2>3. QED
    BY <2>1, <2>2
<1>5. ASSUME NEW s \in Senders,
             \/ OwnerCheck(s) \/ Disconnect(s) \/ Sweep(s) \/ \E t \in Threads : Claim(t, s)
      PROVE  [Promise!PromiseNext]_(Promise!promiseVars)
  BY <1>1, <1>5 DEF OwnerCheck, Disconnect, Sweep, Claim, historyVars
<1>6. ASSUME NEW t \in Threads,
             \/ Reduce(t) \/ PurgeAsks(t) \/ PurgeAnswered(t) \/ PurgeRuns(t) \/ CheckEnds(t)
             \/ Invalidate(t) \/ Revalidate(t) \/ FireInvalidate(t) \/ Fails(t)
      PROVE  [Promise!PromiseNext]_(Promise!promiseVars)
  <2>1. UNCHANGED <<released, granted>> /\ (UNCHANGED revoked \/ DropPending)
    BY <1>6
       DEF Reduce, PurgeAsks, PurgeAnswered, PurgeRuns, PurgeTakes, Entomb, SyncGone, Reap,
           PurgeSucceeds, CheckEnds, Invalidate, Revalidate, FireInvalidate, Fails, Rest,
           historyVars
  <2>2. QED
    BY <1>1, <2>1
<1>7. CASE LeaseRunsOut \/ ServiceDies \/ PowerLoss \/ UNCHANGED vars
  BY <1>1, <1>7
     DEF LeaseRunsOut, ServiceDies, PowerLoss, ServiceStateLost, vars, historyVars
<1>8. QED
  BY <1>2, <1>3, <1>4, <1>5, <1>6, <1>7 DEF Next, Proceeds

(* The engine with its threads, its disk and its crashes implements the    *)
(* promise to the account it signs for.                                    *)
THEOREM EngineKeepsPromise == Spec => KeepsPromise
<1>1. Init => Promise!PromiseInit
  BY DEF Init, Promise!PromiseInit
<1>2. QED
  BY <1>1, StepKeepsPromise, TypeCorrect, DocumentsInvariant, ApprovalsInvariant,
     ReviewsInvariant, PTL
     DEF Spec, KeepsPromise, Promise!PromiseSpec
=============================================================================
