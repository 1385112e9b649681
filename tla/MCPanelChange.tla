--------------------------- MODULE MCPanelChange ----------------------------
(* PanelChange on a small instance, for TLC: its only constant is a bound. *)
EXTENDS PanelChange
=============================================================================
