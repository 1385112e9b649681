---------------------------- MODULE MCAnchorBoot ----------------------------
(* AnchorBoot on small instances, for TLC.                                 *)
(* Rows 1 and 2 are two instances of one app, started by different         *)
(* programs.                                                               *)
EXTENDS AnchorBoot, TLC

CONSTANTS brave, foot

TwoRows == {1, 2}

Two == {brave, foot}
One == {brave}
ClassOfTwo == <<brave, brave>>
PlaceOfTwo == <<1, 2>>
KeysOfTwo == <<{"p:brave", "c:brave"}, {"p:web", "c:brave"}>>

Either == BOOLEAN
Loose == {FALSE}
=============================================================================
