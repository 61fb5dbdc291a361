---------------------------- MODULE MCEntryFlow ----------------------------
(* Values of EntryFlow's constants for TLC.                                 *)
EXTENDS EntryFlow

MCMarket == {"MARKET"}
MCPending == {"PENDING"}
=============================================================================
