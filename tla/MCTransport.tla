---------------------------- MODULE MCTransport ----------------------------
(* The transport for TLC: blocks shorter and longer than a header byte counts,  *)
(* files from none to six blocks, a ring that goes round three times.         *)
EXTENDS Transport

MCFileSizes    == 0 .. 11
MCStaleHeaders == {<<0, 0>>, <<3, 0>>, <<1, 3>>}

=============================================================================
