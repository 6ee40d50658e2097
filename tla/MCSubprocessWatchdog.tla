----------------------- MODULE MCSubprocessWatchdog -----------------------
(* Two PIDs are a root and its child, two roots, or one and a stranger. *)
EXTENDS SubprocessWatchdog
=============================================================================
