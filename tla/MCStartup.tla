----------------------------- MODULE MCStartup -----------------------------
(* The run command instantiated for TLC: two catchable signals (SIGINT     *)
(* and SIGTERM standing for the list), SIGKILL, and a pool of two clients. *)
EXTENDS Startup

CONSTANTS sigint, sigterm

MCSignals == {sigint, sigterm}

=============================================================================
