--------------------------- MODULE MCRefreshSchedule ---------------------------
(* RefreshSchedule with delays of one and two units; a session that gives up  *)
(* asks for four.                                                             *)
EXTENDS RefreshSchedule

MCBackoff == <<1, 2>>
===============================================================================
