---------------------------- MODULE FileTransfer ----------------------------
(***************************************************************************)
(* What client, network and get_packet() promise together: the packets that  *)
(* main() takes out of the ring are the file, piece by piece and in order,    *)
(* and the one that ends the loop is the file's last piece.  The promise     *)
(* holds until the first fault; after it only that what has been taken stays   *)
(* taken, and that the loop ends but once.                                    *)
(***************************************************************************)
EXTENDS Integers, SequencesExt

VARIABLES
  file,      \* what there is to transfer
  stream,    \* what has been taken from it so far
  ended,     \* the loop has ended
  faulty     \* something has gone wrong on the way

vars == <<file, stream, ended, faulty>>

Init ==
  /\ stream = << >>
  /\ ended = FALSE
  /\ faulty \in BOOLEAN

(* The next piece is taken; it is the last one exactly when nothing is left. *)
Take ==
  /\ ~faulty /\ ~ended
  /\ \E n \in 1 .. Len(file) - Len(stream) :
       stream' = stream \o SubSeq(file, Len(stream) + 1, Len(stream) + n)
  /\ ended' = (stream' = file)
  /\ UNCHANGED <<file, faulty>>

(* Something goes wrong. *)
Fault ==
  /\ faulty' = TRUE
  /\ UNCHANGED <<file, stream, ended>>

(* After that, or with it, anything may be taken, and the loop may end.  *)
TakeAnything ==
  /\ faulty' /\ ~ended
  /\ IsPrefix(stream, stream')
  /\ ended' \in BOOLEAN
  /\ UNCHANGED file

Next == Take \/ Fault \/ TakeAnything

Spec == Init /\ [][Next]_vars

=============================================================================
