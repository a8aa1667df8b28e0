------------------------------ MODULE MCClock ------------------------------
(* Small instances of Clock for TLC. *)
EXTENDS Clock

CONSTANTS sleeper, poller, user, object

=============================================================================
