----------------------------- MODULE Authority -----------------------------
(***************************************************************************)
(* relaunchd's authority engine (relaunchd/src/engine.rs) over the key     *)
(* store, for one uid: every operation works on the cell and the directory *)
(* of its caller's uid only, so uids do not interact.                      *)
(*                                                                         *)
(* A Prepare freezes one transaction in the uid's single slot.  Authorize  *)
(* claims it, asks the human WITHOUT the cell's lock, takes the lock again,*)
(* re-validates and commits.  Reduce, Purge and the disconnect sweep may   *)
(* take the transaction away at any time the lock is free.  A commit holds *)
(* the lock and walks through the file-system calls of the store one at a  *)
(* time; each may fail, the service may be killed and the machine may lose *)
(* power between any two of them.                                          *)
(*                                                                         *)
(* A document stands for a signed config.json.  Its content maps a class   *)
(* to what login start would run for it; signatures are unforgeable, so a  *)
(* document exists exactly when a commit returned it.                      *)
(***************************************************************************)
EXTENDS KeyStore

CONSTANTS
  Senders,     \* unique bus connections of the uid's clients
  Threads,     \* blocking-pool threads an Authorize, Reduce or Purge runs on
  Class,       \* the classes a proposal may pin
  Command,     \* what an entry may launch
  MaxTx,       \* transactions a behaviour may open (bounds the model)
  MaxFaults,   \* file-system calls that may fail (bounds the model)
  MaxCrashes   \* service deaths and power losses (bounds the model)

ASSUME LimitsAssumption == MaxTx \in Nat /\ MaxFaults \in Nat /\ MaxCrashes \in Nat

VARIABLES
  pending,     \* the uid's slot: a transaction or NoTxn
  lock,        \* the thread holding the cell's mutex across steps, or {}
  call,        \* per thread: the step its call is at and what it carries
  nextTx,      \* the next transaction id
  leaseOver,   \* transactions whose lease has run out
  alive,       \* connections still on the bus
  rechecks,    \* senders whose prepare handler has yet to re-check ownership
  sweeps,      \* senders for which an invalidate_sender task is queued
  cancelled,   \* running checks whose cancellation has been sent
  released,    \* history: every document a call has returned
  granted,     \* history: transactions whose challenge was approved
  revoked,     \* history: transactions taken away without a commit
  purgedBelow, \* history: keys below this were gone when a Purge succeeded
  faults, crashes

cellVars == <<pending, nextTx, leaseOver>>
busVars == <<alive, rechecks, sweeps>>
historyVars == <<released, granted, revoked, purgedBelow>>
boundVars == <<faults, crashes>>
vars == <<storeVars, cellVars, lock, call, busVars, cancelled, historyVars, boundVars>>

Tx == 1 .. MaxTx
Entry == [command : Command, enabled : BOOLEAN]
Content == UNION {[S -> Entry] : S \in SUBSET Class}
NoEntries == [c \in {} |-> c]
Launch == Class \X Command

(* What login start would run for a content: its enabled rows.             *)
Launches(content) ==
  {<<c, content[c].command>> : c \in {d \in DOMAIN content : content[d].enabled}}

(* A commit's document before it is signed; `shown' are the rows the review*)
(* listed as new or changed.                                               *)
Draft == [gen : 0 .. MaxGen, content : Content, shown : SUBSET Launch]
NoDraft == [gen |-> 0, content |-> NoEntries, shown |-> {}]

(* A document a caller holds; tx is 0 when a Reduce made it.               *)
Document == [key : 0 .. MaxKey, tx : 0 .. MaxTx, draft : Draft]

Transaction == [tx : Tx, sender : Senders, base : Public, draft : Draft, claimed : BOOLEAN]
NoTxn == [tx |-> 0]

CommitSteps == {"mkdir", "syncRoot", "key", "seed", "syncKey", "pub0", "syncPub0",
                "sign", "syncPub", "reply"}
PurgeSteps == {"tomb", "syncGone", "reap", "syncReaped"}
IoSteps == (CommitSteps \ {"reply"}) \cup PurgeSteps
Steps == {"idle", "check", "denied", "approved", "purgeCheck", "purge", "fire"}
           \cup CommitSteps \cup PurgeSteps

(* cancel is the check to cancel once the lock is dropped, 0 for none.     *)
Call == [at : Steps, tx : 0 .. MaxTx, cancel : 0 .. MaxTx, draft : Draft]
Idle == [at |-> "idle", tx |-> 0, cancel |-> 0, draft |-> NoDraft]

TypeOK ==
  /\ StoreTypeOK
  /\ pending \in Transaction \cup {NoTxn}
  /\ lock \in {{}} \cup {{t} : t \in Threads}
  /\ call \in [Threads -> Call]
  /\ nextTx \in 1 .. MaxTx + 1
  /\ leaseOver \subseteq Tx
  /\ alive \subseteq Senders /\ rechecks \subseteq Senders /\ sweeps \subseteq Senders
  /\ cancelled \subseteq 0 .. MaxTx
  /\ released \subseteq Document
  /\ granted \subseteq 0 .. MaxTx /\ revoked \subseteq Tx
  /\ purgedBelow \in 1 .. MaxKey + 1
  /\ faults \in 0 .. MaxFaults /\ crashes \in 0 .. MaxCrashes

Init ==
  /\ StoreInit
  /\ pending = NoTxn /\ nextTx = 1 /\ leaseOver = {}
  /\ lock = {}
  /\ call = [t \in Threads |-> Idle]
  /\ alive = Senders /\ rechecks = {} /\ sweeps = {}
  /\ cancelled = {}
  /\ released = {} /\ granted = {} /\ revoked = {} /\ purgedBelow = 1
  /\ faults = 0 /\ crashes = 0

-----------------------------------------------------------------------------
Free == lock = {}
Open == pending # NoTxn
Expired == pending.tx \in leaseOver
Claimed == Open /\ pending.claimed
Checking(n) == \E t \in Threads : call[t].at = "check" /\ call[t].tx = n

(* The check id of the open transaction, once a challenge was dispatched.  *)
CheckId == IF Claimed THEN pending.tx ELSE 0

(* cancel_id: reaches the check unless it has already returned.            *)
CancelCheck(n) == cancelled' = cancelled \cup {m \in {n} : Checking(m)}

(* The slot is emptied without a commit.                                   *)
DropPending ==
  /\ pending' = NoTxn
  /\ revoked' = revoked \cup (IF Open THEN {pending.tx} ELSE {})

(* Mutant: any generation of the committed key verifies.                   *)
VerifiesAnyGen(doc) == doc.key = Head.key

(* parse_and_verify of a base against the committed key and generation.    *)
Verifies(doc) == doc.key = Head.key /\ doc.draft.gen = Head.gen

(* verified_base: a base that does not verify counts as an empty one.      *)
VerifiedBase(bases) ==
  IF \E doc \in bases : Verifies(doc)
  THEN (CHOOSE doc \in bases : Verifies(doc)).draft.content
  ELSE NoEntries

(* A client passes no base, or some document it was once given.            *)
Bases == {{}} \cup {{doc} : doc \in released}

(* The review lists a launch as new when the base did not have it.         *)
Shown(base, content) == Launches(content) \ Launches(base)

-----------------------------------------------------------------------------
(* Prepare, whole: it holds the lock from entry to return.  The content is *)
(* refused when it is invalid or its diff exceeds a cap, and opens nothing *)
(* when it equals the base; an expired lease is dropped in every case.     *)
Prepare(s) ==
  /\ Free
  /\ Open => Expired
  /\ \/ /\ Open
        /\ DropPending
        /\ UNCHANGED <<nextTx, rechecks>>
     \/ \E bases \in Bases, content \in Content :
          LET base == VerifiedBase(bases) IN
          /\ Head.gen < MaxGen
          /\ nextTx <= MaxTx
          /\ content # base
          /\ pending' = [tx |-> nextTx, sender |-> s, base |-> Head, claimed |-> FALSE,
                         draft |-> [gen |-> Head.gen + 1, content |-> content,
                                    shown |-> Shown(base, content)]]
          /\ revoked' = revoked \cup (IF Open THEN {pending.tx} ELSE {})
          /\ nextTx' = nextTx + 1
          /\ rechecks' = rechecks \cup {s}
  /\ UNCHANGED <<storeVars, lock, call, leaseOver, alive, sweeps, cancelled,
                 released, granted, purgedBelow, boundVars>>

(* Mutant: the handler does not look whether its caller is still there.    *)
OwnerTrusted(s) ==
  /\ s \in rechecks
  /\ rechecks' = rechecks \ {s}
  /\ UNCHANGED <<storeVars, cellVars, lock, call, alive, sweeps, cancelled, historyVars,
                 boundVars>>

(* The prepare handler, back from the blocking pool: name_has_owner.       *)
OwnerCheck(s) ==
  /\ s \in rechecks
  /\ rechecks' = rechecks \ {s}
  /\ sweeps' = IF s \in alive THEN sweeps ELSE sweeps \cup {s}
  /\ UNCHANGED <<storeVars, cellVars, lock, call, alive, cancelled, historyVars, boundVars>>

(* A client leaves the bus; the watcher queues its sweep.                  *)
Disconnect(s) ==
  /\ s \in alive
  /\ alive' = alive \ {s}
  /\ sweeps' = sweeps \cup {s}
  /\ UNCHANGED <<storeVars, cellVars, lock, call, rechecks, cancelled, historyVars, boundVars>>

(* Mutant: a sweep leaves a claimed transaction to its check.              *)
SweepUnclaimed(s) ==
  /\ s \in sweeps
  /\ Free
  /\ sweeps' = sweeps \ {s}
  /\ IF Open /\ pending.sender = s /\ ~Claimed
     THEN DropPending /\ CancelCheck(CheckId)
     ELSE UNCHANGED <<pending, revoked, cancelled>>
  /\ UNCHANGED <<storeVars, nextTx, leaseOver, lock, call, alive, rechecks,
                 released, granted, purgedBelow, boundVars>>

(* invalidate_sender on a pool thread of its own.                          *)
Sweep(s) ==
  /\ s \in sweeps
  /\ Free
  /\ sweeps' = sweeps \ {s}
  /\ IF Open /\ pending.sender = s
     THEN DropPending /\ CancelCheck(CheckId)
     ELSE UNCHANGED <<pending, revoked, cancelled>>
  /\ UNCHANGED <<storeVars, nextTx, leaseOver, lock, call, alive, rechecks,
                 released, granted, purgedBelow, boundVars>>

(* The clock passes created + ttl.                                         *)
LeaseRunsOut ==
  /\ Open /\ ~Expired
  /\ leaseOver' = leaseOver \cup {pending.tx}
  /\ UNCHANGED <<storeVars, pending, nextTx, lock, call, busVars, cancelled,
                 historyVars, boundVars>>

-----------------------------------------------------------------------------
(* Authorize.                                                              *)

(* Phase 1: claim the transaction, or drop it when its lease is over.  The *)
(* txid is known to whoever prepared it; only that sender may claim it.    *)
Claim(t, s) ==
  /\ call[t].at = "idle"
  /\ Free
  /\ Open
  /\ \/ /\ Expired
        /\ DropPending
        /\ UNCHANGED call
     \/ /\ ~Expired
        /\ pending.sender = s
        /\ ~pending.claimed
        /\ pending' = [pending EXCEPT !.claimed = TRUE]
        /\ call' = [call EXCEPT ![t] = [Idle EXCEPT !.at = "check", !.tx = pending.tx]]
        /\ UNCHANGED revoked
  /\ UNCHANGED <<storeVars, nextTx, leaseOver, lock, busVars, cancelled,
                 released, granted, purgedBelow, boundVars>>

(* Phase 2: the human answers, whenever they like; no lock is held.        *)
HumanAnswers(t) ==
  /\ call[t].at = "check"
  /\ \/ /\ call' = [call EXCEPT ![t].at = "approved"]
        /\ granted' = granted \cup {call[t].tx}
     \/ /\ call' = [call EXCEPT ![t].at = "denied"]
        /\ UNCHANGED granted
  /\ cancelled' = cancelled \ {call[t].tx}
  /\ UNCHANGED <<storeVars, cellVars, lock, busVars, released, revoked, purgedBelow, boundVars>>

(* Mutant: a check has no deadline.                                        *)
CheckEndsCancelled(t) ==
  /\ call[t].at = "check"
  /\ call[t].tx \in cancelled
  /\ call' = [call EXCEPT ![t].at = "denied"]
  /\ cancelled' = cancelled \ {call[t].tx}
  /\ UNCHANGED <<storeVars, cellVars, lock, busVars, historyVars, boundVars>>

(* Phase 2 without an answer: the check was cancelled or its deadline, the *)
(* remaining lease, has passed.                                            *)
CheckEnds(t) ==
  /\ call[t].at = "check"
  /\ call[t].tx \in cancelled \cup leaseOver
  /\ call' = [call EXCEPT ![t].at = "denied"]
  /\ cancelled' = cancelled \ {call[t].tx}
  /\ UNCHANGED <<storeVars, cellVars, lock, busVars, historyVars, boundVars>>

(* A refused, failed or ended check frees its own transaction only.        *)
Invalidate(t) ==
  /\ call[t].at = "denied"
  /\ Free
  /\ IF pending.tx = call[t].tx THEN DropPending ELSE UNCHANGED <<pending, revoked>>
  /\ call' = [call EXCEPT ![t] = Idle]
  /\ UNCHANGED <<storeVars, nextTx, leaseOver, lock, busVars, cancelled,
                 released, granted, purgedBelow, boundVars>>

(* Mutant: whatever is claimed now is taken for ours.                      *)
StillSomeones(t) == Claimed /\ ~Expired

(* Phase 3 finds the transaction it claimed, untouched and in time.        *)
StillOurs(t) == pending.tx = call[t].tx /\ Claimed /\ ~Expired

(* The head is still the one the transaction was prepared on.              *)
StillBase == Head = pending.base

(* Phase 3: take the transaction and start the commit, or report Stale; a  *)
(* transaction that replaced ours stays.                                   *)
Revalidate(t) ==
  /\ call[t].at = "approved"
  /\ Free
  /\ IF StillOurs(t) /\ StillBase
     THEN /\ call' = [call EXCEPT ![t].at = "mkdir", ![t].draft = pending.draft]
          /\ lock' = {t}
          /\ pending' = NoTxn
          /\ UNCHANGED revoked
     ELSE /\ call' = [call EXCEPT ![t] = Idle]
          /\ IF pending.tx = call[t].tx THEN DropPending ELSE UNCHANGED <<pending, revoked>>
          /\ UNCHANGED lock
  /\ UNCHANGED <<storeVars, nextTx, leaseOver, busVars, cancelled,
                 released, granted, purgedBelow, boundVars>>

-----------------------------------------------------------------------------
(* Reduce: disable and drop rows of a verified base, with no prompt.       *)

(* Mutant: the rows not disabled come back enabled.                        *)
ReducedOrEnabled(content, disable, drop) ==
  [c \in DOMAIN content \ drop |->
     [command |-> content[c].command, enabled |-> c \notin disable]]

Reduced(content, disable, drop) ==
  [c \in DOMAIN content \ drop |->
     [command |-> content[c].command, enabled |-> content[c].enabled /\ c \notin disable]]

Reduce(t) ==
  /\ call[t].at = "idle"
  /\ Free
  /\ DropPending
  /\ \/ \E doc \in released, disable, drop \in SUBSET Class :
          /\ Verifies(doc)
          /\ disable \cup drop \subseteq DOMAIN doc.draft.content
          /\ Head.gen < MaxGen
          /\ lock' = {t}
          /\ call' = [call EXCEPT ![t] =
               [at |-> "mkdir", tx |-> 0, cancel |-> CheckId,
                draft |-> [gen |-> Head.gen + 1,
                           content |-> Reduced(doc.draft.content, disable, drop),
                           shown |-> {}]]]
     \/ \* the base does not verify, or an operation names an unknown class
        /\ call' = [call EXCEPT ![t] = [Idle EXCEPT !.at = "fire", !.cancel = CheckId]]
        /\ UNCHANGED lock
  /\ UNCHANGED <<storeVars, nextTx, leaseOver, busVars, cancelled,
                 released, granted, purgedBelow, boundVars>>

(* After the lock is dropped, on success and on error: the hook cancels    *)
(* the check of the transaction the call took away.                        *)
FireInvalidate(t) ==
  /\ call[t].at = "fire"
  /\ CancelCheck(call[t].cancel)
  /\ call' = [call EXCEPT ![t] = Idle]
  /\ UNCHANGED <<storeVars, cellVars, lock, busVars, historyVars, boundVars>>

-----------------------------------------------------------------------------
(* The end of a call that held the lock: an Authorize returns, a Reduce or *)
(* a Purge still has its hook to fire.                                     *)
Finish(t) ==
  /\ lock' = {}
  /\ call' = [call EXCEPT ![t] = IF call[t].tx # 0 THEN Idle
                                 ELSE [Idle EXCEPT !.at = "fire", !.cancel = call[t].cancel]]

Goes(t, step) == call' = [call EXCEPT ![t].at = step] /\ UNCHANGED lock

Rest == UNCHANGED <<cellVars, busVars, cancelled, historyVars, boundVars>>

(* Engine::commit: ensure_enrolled, sign, publish_gen, return the bytes.   *)

MakeDir(t) == call[t].at = "mkdir" /\ MakeUserDir /\ Goes(t, "syncRoot") /\ Rest
SyncDirEntry(t) == call[t].at = "syncRoot" /\ SyncRoot /\ Goes(t, "key") /\ Rest

(* read_or_create_key: an existing key must have a committed public state, *)
(* or the commit fails closed.                                             *)
FindKey(t) ==
  /\ call[t].at = "key"
  /\ \/ CreateKey /\ Goes(t, "seed")
     \/ HasKey /\ HasPublic /\ Goes(t, "sign") /\ UNCHANGED storeVars
     \/ HasKey /\ ~HasPublic /\ Finish(t) /\ UNCHANGED storeVars
     \/ ~HasKey /\ nextKey > MaxKey /\ Finish(t) /\ UNCHANGED storeVars  \* bound
  /\ Rest

Seed(t) == call[t].at = "seed" /\ WriteSeed /\ Goes(t, "syncKey") /\ Rest
SyncKey(t) == call[t].at = "syncKey" /\ SyncUserDir /\ Goes(t, "pub0") /\ Rest
PublishZero(t) == call[t].at = "pub0" /\ RenamePublic(0) /\ Goes(t, "syncPub0") /\ Rest
SyncZero(t) == call[t].at = "syncPub0" /\ SyncUserDir /\ Goes(t, "sign") /\ Rest

(* publish_gen refuses a generation that does not advance.                 *)
Advances(gen) == HasPublic => gen > Head.gen

(* Sign, refuse a document the anchor could not read, publish.             *)
SignAndPublish(t) ==
  /\ call[t].at = "sign"
  /\ \/ /\ fs.dir.seeded
        /\ Advances(call[t].draft.gen)
        /\ RenamePublic(call[t].draft.gen)
        /\ Goes(t, "syncPub")
     \/ Finish(t) /\ UNCHANGED storeVars
  /\ Rest

(* Mutant: the document is returned before its generation is synced.       *)
ReplyUnsynced(t) ==
  call[t].at = "syncPub" /\ Goes(t, "reply") /\ UNCHANGED storeVars /\ Rest

SyncPublished(t) == call[t].at = "syncPub" /\ SyncUserDir /\ Goes(t, "reply") /\ Rest

Release(t) ==
  /\ call[t].at = "reply"
  /\ released' = released \cup
       {[key |-> fs.dir.key, tx |-> call[t].tx, draft |-> call[t].draft]}
  /\ Finish(t)
  /\ UNCHANGED <<storeVars, cellVars, busVars, cancelled, granted, revoked,
                 purgedBelow, boundVars>>

Commit(t) ==
  \/ MakeDir(t) \/ SyncDirEntry(t) \/ FindKey(t) \/ Seed(t) \/ SyncKey(t)
  \/ PublishZero(t) \/ SyncZero(t) \/ SignAndPublish(t) \/ SyncPublished(t) \/ Release(t)

-----------------------------------------------------------------------------
(* Purge: its own check first, then everything under the lock.             *)

PurgeAsks(t) ==
  /\ call[t].at = "idle"
  /\ call' = [call EXCEPT ![t] = [Idle EXCEPT !.at = "purgeCheck"]]
  /\ UNCHANGED <<storeVars, lock>> /\ Rest

(* A denial, an error or the fixed deadline touches nothing.               *)
PurgeAnswered(t) ==
  /\ call[t].at = "purgeCheck"
  /\ \/ Goes(t, "purge")
     \/ call' = [call EXCEPT ![t] = Idle] /\ UNCHANGED lock
  /\ UNCHANGED storeVars /\ Rest

PurgeTakes(t) ==
  /\ call[t].at = "purge"
  /\ Free
  /\ lock' = {t}
  /\ DropPending
  /\ call' = [call EXCEPT ![t].at = "tomb", ![t].cancel = CheckId]
  /\ UNCHANGED <<storeVars, nextTx, leaseOver, busVars, cancelled,
                 released, granted, purgedBelow, boundVars>>

Entomb(t) ==
  /\ call[t].at = "tomb"
  /\ IF fs.dir.made THEN RenameToTombstone ELSE UNCHANGED storeVars
  /\ Goes(t, "syncGone") /\ Rest

SyncGone(t) == call[t].at = "syncGone" /\ SyncRoot /\ Goes(t, "reap") /\ Rest

Reap(t) ==
  /\ call[t].at = "reap"
  /\ \/ \E k \in fs.tombs : RemoveTombstone(k) /\ Goes(t, "reap")
     \/ fs.tombs = {} /\ Goes(t, "syncReaped") /\ UNCHANGED storeVars
  /\ Rest

(* Mutant: the last sync of the state root is forgotten.                   *)
PurgeSucceedsUnsynced(t) ==
  /\ call[t].at = "syncReaped"
  /\ purgedBelow' = nextKey
  /\ Finish(t)
  /\ UNCHANGED <<storeVars, cellVars, busVars, cancelled, released, granted, revoked,
                 boundVars>>

PurgeSucceeds(t) ==
  /\ call[t].at = "syncReaped"
  /\ SyncRoot
  /\ purgedBelow' = nextKey
  /\ Finish(t)
  /\ UNCHANGED <<cellVars, busVars, cancelled, released, granted, revoked, boundVars>>

PurgeRuns(t) ==
  PurgeTakes(t) \/ Entomb(t) \/ SyncGone(t) \/ Reap(t) \/ PurgeSucceeds(t)

-----------------------------------------------------------------------------
(* A file-system call fails: the operation returns its error, the lock is  *)
(* dropped, nothing is rolled back.                                        *)
Fails(t) ==
  /\ call[t].at \in IoSteps
  /\ faults < MaxFaults
  /\ faults' = faults + 1
  /\ Finish(t)
  /\ UNCHANGED <<storeVars, cellVars, busVars, cancelled, historyVars, crashes>>

(* The memory of the service is lost, in a crash or an exit.               *)
ServiceStateLost ==
  /\ crashes < MaxCrashes
  /\ crashes' = crashes + 1
  /\ DropPending
  /\ lock' = {}
  /\ call' = [t \in Threads |-> Idle]
  /\ rechecks' = {} /\ sweeps' = {} /\ cancelled' = {}
  /\ UNCHANGED <<nextTx, leaseOver, released, granted, purgedBelow, faults>>

ServiceDies == ServiceStateLost /\ UNCHANGED <<storeVars, alive>>

PowerLoss == ServiceStateLost /\ LosePower /\ alive' = Senders

-----------------------------------------------------------------------------
(* What the service does by itself once it can.                            *)
Proceeds(t) ==
  CheckEnds(t) \/ Invalidate(t) \/ Revalidate(t) \/ Commit(t) \/ PurgeRuns(t)
    \/ FireInvalidate(t)

Next ==
  \/ \E s \in Senders : Prepare(s) \/ OwnerCheck(s) \/ Disconnect(s) \/ Sweep(s)
  \/ \E t \in Threads, s \in Senders : Claim(t, s)
  \/ \E t \in Threads :
       \/ HumanAnswers(t) \/ Reduce(t) \/ PurgeAsks(t) \/ PurgeAnswered(t)
       \/ Proceeds(t) \/ Fails(t)
  \/ LeaseRunsOut
  \/ ServiceDies
  \/ PowerLoss

Spec == Init /\ [][Next]_vars

-----------------------------------------------------------------------------
(* Safety.                                                                 *)

(* Two documents of one key and one generation are the same document: a    *)
(* generation is never signed twice for two contents that callers hold,    *)
(* whatever calls fail and wherever the machine stops (the publish-before- *)
(* return rule of Engine::commit and the generation-reuse rule of          *)
(* ensure_enrolled).                                                       *)
OneDocPerGeneration ==
  \A d, e \in released :
    (d.key = e.key /\ d.draft.gen = e.draft.gen) => d = e

(* A document a caller holds is never ahead of what the disk durably says  *)
(* of its key: no power loss makes an older document verify again once a   *)
(* newer one was returned.                                                 *)
NoRollback ==
  \A d \in released, saved \in disk :
    saved.dir.pub.key = d.key => saved.dir.pub.gen >= d.draft.gen

(* Whatever a document launches was in the review of its own transaction   *)
(* or in the document it replaces, the previous generation of its key.     *)
EveryLaunchWasReviewed ==
  \A d \in released :
    Launches(d.draft.content) \subseteq
      d.draft.shown \cup
        UNION {Launches(p.draft.content) :
                 p \in {q \in released : q.key = d.key /\ q.draft.gen = d.draft.gen - 1}}

(* A document with new rows carries a transaction a human approved, that   *)
(* nothing took away (a Reduce, a Purge, a disconnect, a denial, an expiry)*)
(* before its commit, and that made no other document.                     *)
ApprovedOnce ==
  \A d \in released :
    /\ d.draft.shown # {} => d.tx # 0
    /\ d.tx # 0 => /\ d.tx \in granted \ revoked
                   /\ \A e \in released : e.tx = d.tx => e = d

(* Once a Purge has reported success, no key that existed then is anywhere,*)
(* live or in a tombstone, now or after a power loss.                      *)
PurgedIsGone ==
  \A saved \in disk :
    /\ saved.dir.key = 0 \/ saved.dir.key >= purgedBelow
    /\ saved.dir.pub.key = 0 \/ saved.dir.pub.key >= purgedBelow
    /\ \A k \in saved.tombs : k >= purgedBelow

(* The slot is never left to a sender that is gone with nobody on the way  *)
(* to free it: its sweep is queued, or its handler has yet to re-check.    *)
OrphanIsNoticed ==
  (Open /\ pending.sender \notin alive) => pending.sender \in sweeps \cup rechecks

-----------------------------------------------------------------------------
(* Why the documents are safe: what holds between any two file-system      *)
(* calls.  Each part names what the next needs; together they are          *)
(* inductive (Authority_proofs).                                           *)

(* Whoever is between the steps of a commit or a purge holds the lock.     *)
LockIsHeld == \A t \in Threads : call[t].at \in IoSteps \cup {"reply"} => lock = {t}

(* A state of the disk has at most one live key, newer than none that is   *)
(* to come, and its public state is of that key.                           *)
SoundState(saved) ==
  /\ ~saved.dir.made => saved.dir = NoDir
  /\ saved.dir.key < nextKey
  /\ saved.dir.pub # NoPub => saved.dir.pub.key = saved.dir.key /\ saved.dir.key # 0
  /\ \A k \in saved.tombs : purgedBelow <= k /\ k < nextKey
  /\ saved.dir.key # 0 => purgedBelow <= saved.dir.key

DiskIsSound == fs \in disk /\ (\A saved \in disk : SoundState(saved)) /\ purgedBelow <= nextKey

(* Wherever a document's key is live, it has a public state that is not    *)
(* behind the document.                                                    *)
DocumentsAreCovered ==
  \A d \in released :
    /\ 0 < d.key /\ d.key < nextKey
    /\ \A saved \in disk : saved.dir.key = d.key =>
         saved.dir.pub.key = d.key /\ saved.dir.pub.gen >= d.draft.gen

(* What the thread in a commit or a purge knows at each step.              *)
CommitKnows(t) ==
  /\ call[t].at \in {"syncRoot", "key"} => fs.dir.made
  /\ call[t].at \in {"seed", "syncKey", "pub0"} => HasKey /\ ~HasPublic
  /\ call[t].at \in {"syncPub0", "sign", "syncPub", "reply"} => HasKey /\ HasPublic
  /\ call[t].at \in {"syncPub", "reply"} =>
       /\ Head.gen = call[t].draft.gen
       /\ \A d \in released : d.key = fs.dir.key => d.draft.gen < call[t].draft.gen
  /\ call[t].at = "reply" => \A saved \in disk : saved.dir.made => saved.dir = fs.dir

PurgeKnows(t) ==
  /\ call[t].at \in {"syncGone", "reap", "syncReaped"} => fs.dir = NoDir
  /\ call[t].at = "syncReaped" => fs.tombs = {}

DocumentsInv ==
  /\ LockIsHeld
  /\ DiskIsSound
  /\ DocumentsAreCovered
  /\ \A t \in Threads : CommitKnows(t) /\ PurgeKnows(t)
  /\ OneDocPerGeneration

-----------------------------------------------------------------------------
(* The engine keeps the promise of LaunchPromise at every step.            *)
Promise == INSTANCE LaunchPromise WITH
  LaunchesOf <- Launches, docs <- released, approved <- granted, withdrawn <- revoked

KeepsPromise == Promise!PromiseSpec

-----------------------------------------------------------------------------
(* Liveness.                                                               *)

(* The tokio pool runs what is queued; a thread that waits for the cell's  *)
(* mutex gets it in the end although others take it in between; a polkit   *)
(* check ends once it is cancelled or its deadline has passed.  Nothing    *)
(* makes a client act, a human answer or a client leave.                   *)
ServiceFairness ==
  /\ \A s \in Senders : WF_vars(OwnerCheck(s)) /\ SF_vars(Sweep(s))
  /\ \A t \in Threads :
       /\ WF_vars(CheckEnds(t)) /\ WF_vars(PurgeAnswered(t)) /\ WF_vars(FireInvalidate(t))
       /\ SF_vars(Invalidate(t)) /\ SF_vars(Revalidate(t)) /\ SF_vars(PurgeTakes(t))
       /\ WF_vars(Commit(t)) /\ WF_vars(PurgeRuns(t))

ServiceSpec == Spec /\ ServiceFairness

(* Time passes: the lease of an open transaction runs out.                 *)
LeasesEnd == WF_vars(LeaseRunsOut)

(* Every call returns once leases run out, even when nobody ever answers   *)
(* the challenge, when a file-system call fails on the way, and while other*)
(* calls hold the lock.                                                    *)
CallsReturn ==
  LeasesEnd => \A t \in Threads : call[t].at # "idle" ~> call[t].at = "idle"

(* A sender that has left gives the slot back without waiting for its      *)
(* lease, whatever order its Prepare, its disconnect and the sweep ran in. *)
OrphanIsFreed ==
  \A s \in Senders :
    (Open /\ pending.sender = s /\ s \notin alive)
      ~> ~(Open /\ pending.sender = s /\ s \notin alive)
=============================================================================
