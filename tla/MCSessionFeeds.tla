---------------------------- MODULE MCSessionFeeds ----------------------------
(* Small instances of SessionFeeds for TLC.                                *)
EXTENDS SessionFeeds
=============================================================================
