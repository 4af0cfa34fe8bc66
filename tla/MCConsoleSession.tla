-------------------------- MODULE MCConsoleSession --------------------------
(* Two requests in flight; two logins; one failed request and one reload.  *)
EXTENDS ConsoleSession
=============================================================================
