---------------------------- MODULE MCPanelEngine ----------------------------
(* PanelEngine on a small instance, for TLC.                                *)
EXTENDS PanelEngine, TLC

Lines == {"marker", "hook", "old hook", "-- hook", "user", ""}
OldHooks == {"old hook"}
HoldsHook == "-- hook" :> {"hook"}
OldConf == {"old hook", "marker"}
(* A file wired by an earlier version, and one that is wired.               *)
TwoLuas == {[lines |-> <<"user", "marker", "old hook">>, nl |-> FALSE],
            [lines |-> <<"user", "marker", "hook">>, nl |-> TRUE]}
=============================================================================
