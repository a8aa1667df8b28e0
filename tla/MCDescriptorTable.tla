------------------------- MODULE MCDescriptorTable -------------------------
(* Small instances of DescriptorTable for TLC. *)
EXTENDS DescriptorTable

CONSTANTS t1, t2, d1, d2

\* The locals of an Enlargen that is over do not distinguish states.
View == <<table, reservation, pc,
          [t \in Threads |->
            IF pc[t] = "copy"
            THEN <<new_entries[t], new_length[t], copied[t], count[t]>>
            ELSE <<>>]>>

=============================================================================
