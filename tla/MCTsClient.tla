----------------------------- MODULE MCTsClient -----------------------------
(***************************************************************************)
(* Two channels, two calls of the application and one failure.             *)
(***************************************************************************)
EXTENDS TsClient

CONSTANTS orders, tasks

MCChannels == <<orders, tasks>>
=============================================================================
