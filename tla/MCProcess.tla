----------------------------- MODULE MCProcess -----------------------------
(* Small instances of Process for TLC. *)
EXTENDS Process

CONSTANTS kernel, first, a, b, third

One == <<a>>
Two == <<a, b>>
Three == <<a, b, third>>

=============================================================================
