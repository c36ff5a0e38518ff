---------------------------- MODULE MCSshExecutor ----------------------------
(* Small instances of SshExecutor for TLC.                                 *)
EXTENDS SshExecutor
=============================================================================
