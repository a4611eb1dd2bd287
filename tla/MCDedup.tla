------------------------------ MODULE MCDedup ------------------------------
(* Deduplication for TLC: few contents, so that most chunks are duplicates,     *)
(* and a ring whose slots are used several times.                              *)
EXTENDS Dedup

MCSha       == [c \in Contents |-> c + 100]
MCCodedSize == [c \in Contents |-> 2 + c]

=============================================================================
