------------------------- MODULE MCKernelDataflow -------------------------
(* The dataflow kernel for TLC: streams so short that every writer is blocked   *)
(* at some time, and packets of up to two chunks of one to three bytes.        *)
EXTENDS KernelDataflow

=============================================================================
