--------------------------- MODULE InstalledFiles ---------------------------
(***************************************************************************)
(* The installation of a signed list (SignedInstall), and the files it is  *)
(* written to (PrivateFiles): each write of the one is a write of the      *)
(* other, which lands where the next read of its path does.                *)
(***************************************************************************)
EXTENDS SignedInstall, PrivateFiles

(* A write lands exactly where a read of the same path does (fs.rs:105):   *)
(* EveryWriteLands, which has no state, looked at where a run starts.      *)
WritesLandWhereRead == Init => EveryWriteLands
=============================================================================
