---------------------------- MODULE MCLifecycle ----------------------------
(* Lifecycle for TLC: a session-start, a prompt or stop, a session-end.      *)
EXTENDS Lifecycle

CONSTANTS start, frame, end
=============================================================================
