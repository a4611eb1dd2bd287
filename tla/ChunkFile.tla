----------------------------- MODULE ChunkFile -----------------------------
(***************************************************************************)
(* The compressed file, a sequence of records, and the decoder's main loop   *)
(* over it.  A record is a 32-bit header and, for a unique chunk, the coded   *)
(* bytes that follow it; here those are the chunk itself, or NONE.           *)
(***************************************************************************)
EXTENDS Integers, Sequences, SequencesExt

CONSTANTS
  UINT_RANGE    \* 2^32, the range of a header

NONE == -1

(* The low bit tells the two kinds of record apart. *)
IsUniqueHeader(header)  == header % 2 = 0
HeaderOfUnique(size)    == (2 * size) % UINT_RANGE
NumberOf(header)        == header \div 2

(* The two forms of chunk_header = 1 | number << 1. *)
HeaderOfDuplicateWrong(number) == (2 * number) % UINT_RANGE
HeaderOfDuplicate(number)      == (1 + 2 * number) % UINT_RANGE

DecodeInit == [chunks |-> << >>, output |-> << >>, ignored |-> 0]

(* One round of the loop: a unique chunk is decompressed, kept and written; a  *)
(* duplicate is copied from those kept, or ignored when it is not among them.  *)
DecodeRecord(d, r) ==
  IF IsUniqueHeader(r.header)
    THEN [d EXCEPT !.chunks = Append(@, r.data), !.output = Append(@, r.data)]
    ELSE IF NumberOf(r.header) \in 0 .. Len(d.chunks) - 1
           THEN [d EXCEPT !.output = Append(@, d.chunks[NumberOf(r.header) + 1])]
           ELSE [d EXCEPT !.ignored = @ + 1]

(* main(): from the first header to the end of the file. *)
Decode(records) == FoldLeft(DecodeRecord, DecodeInit, records)

=============================================================================
