------------------------------ MODULE KeyStore ------------------------------
(***************************************************************************)
(* The per-uid key store of relaunchd (relaunchd/src/store.rs), as one     *)
(* uid's directory on a file system that may lose what was not synced.     *)
(*                                                                         *)
(*   <uid>/signing.key   the seed, created once with O_EXCL                *)
(*   <uid>/public.json   the committed key and generation                  *)
(*   <uid>.purging-*     tombstones: directories a purge has renamed away  *)
(*                                                                         *)
(* `fs' is what a read sees now.  `disk' is every state a power loss may   *)
(* leave: each change adds one, a successful fsync of a directory removes  *)
(* those that disagree with it.  Keys are numbered in order of creation,   *)
(* 0 is "no key"; an enrollment id is a hash of the public key, so a key's *)
(* number stands for the key, its public half and its enrollment id.       *)
(* The step operators say what one file-system call does to the two; the   *)
(* order in which they run, and what holds the lock, is in Authority.      *)
(***************************************************************************)
EXTENDS Integers

CONSTANTS
  MaxKey,   \* how many keys a behaviour may create (bounds the model)
  MaxGen    \* the last generation a behaviour may publish (bounds the model)

ASSUME BoundsAssumption == MaxKey \in Nat \ {0} /\ MaxGen \in Nat \ {0}

VARIABLES
  fs,       \* the uid's directory and tombstones, as the kernel shows them
  disk,     \* the states a power loss may leave
  nextKey   \* the number of the next key (fresh entropy for each)

storeVars == <<fs, disk, nextKey>>

Key == 1 .. MaxKey
NoPub == [key |-> 0, gen |-> 0]
Public == [key : 0 .. MaxKey, gen : 0 .. MaxGen]
Dir == [made : BOOLEAN, key : 0 .. MaxKey, seeded : BOOLEAN, pub : Public]
NoDir == [made |-> FALSE, key |-> 0, seeded |-> FALSE, pub |-> NoPub]
FileSystem == [dir : Dir, tombs : SUBSET Key]

HasKey == fs.dir.key # 0
HasPublic == fs.dir.pub.key # 0

(* Engine::head: the committed generation and key, (0, "") before any.     *)
Head == fs.dir.pub

StoreInit ==
  /\ fs = [dir |-> NoDir, tombs |-> {}]
  /\ disk = {fs}
  /\ nextKey = 1

-----------------------------------------------------------------------------
(* One file-system call each.                                              *)

Becomes(new) == fs' = new /\ disk' = disk \cup {new}

BecomesDir(new) == Becomes([fs EXCEPT !.dir = new])

(* Mutant: sync_dir(<uid>/) forgotten.                                     *)
SyncUserDirForgotten == UNCHANGED storeVars

(* fsync of <uid>/ fixes its contents, but not its own entry in the root.  *)
SyncUserDir ==
  /\ disk' = {d \in disk : d.dir.made => d.dir = fs.dir}
  /\ UNCHANGED <<fs, nextKey>>

(* fsync of the state root fixes which directories exist.                  *)
SyncRoot ==
  /\ disk' = {d \in disk : d.tombs = fs.tombs /\ d.dir.made = fs.dir.made}
  /\ UNCHANGED <<fs, nextKey>>

MakeUserDir ==
  /\ BecomesDir([fs.dir EXCEPT !.made = TRUE])
  /\ UNCHANGED nextKey

(* O_EXCL: the file exists from here on, its seed not yet written.         *)
CreateKey ==
  /\ ~HasKey
  /\ nextKey <= MaxKey
  /\ BecomesDir([fs.dir EXCEPT !.key = nextKey, !.seeded = FALSE])
  /\ nextKey' = nextKey + 1

WriteSeed ==
  /\ BecomesDir([fs.dir EXCEPT !.seeded = TRUE])
  /\ UNCHANGED nextKey

(* The rename of public.json.tmp over public.json.                         *)
RenamePublic(gen) ==
  /\ gen <= MaxGen
  /\ BecomesDir([fs.dir EXCEPT !.pub = [key |-> fs.dir.key, gen |-> gen]])
  /\ UNCHANGED nextKey

(* The rename of <uid>/ to a tombstone, key and all.                       *)
RenameToTombstone ==
  /\ Becomes([dir |-> NoDir,
              tombs |-> fs.tombs \cup (IF HasKey THEN {fs.dir.key} ELSE {})])
  /\ UNCHANGED nextKey

RemoveTombstone(k) ==
  /\ k \in fs.tombs
  /\ Becomes([fs EXCEPT !.tombs = @ \ {k}])
  /\ UNCHANGED nextKey

(* The machine loses power: what was not synced may or may not be there.   *)
LosePower ==
  /\ \E d \in disk : fs' = d /\ disk' = {d}
  /\ UNCHANGED nextKey

StoreTypeOK ==
  /\ fs \in FileSystem
  /\ disk \in SUBSET FileSystem
  /\ nextKey \in 1 .. MaxKey + 1
=============================================================================
