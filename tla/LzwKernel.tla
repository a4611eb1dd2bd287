----------------------------- MODULE LzwKernel -----------------------------
(***************************************************************************)
(* What the LZW kernel makes of one unique chunk, and what the decoder makes   *)
(* of that.  The kernel keeps no strings: its table maps a 32-bit hash of a    *)
(* string to its code, in buckets of BUCKET_SIZE entries, with an associative  *)
(* memory of ASSOC_SIZE entries for what the buckets cannot hold.             *)
(***************************************************************************)
EXTENDS LzwReference

CONSTANTS
  HASH_RANGE,         \* 2^32
  FNV_PRIME,
  XorByte(_, _),          \* a hash ^ a char
  HASHMAP_CAPACITY,   \* buckets
  BUCKET_SIZE,        \* entries of a bucket
  ASSOC_SIZE,         \* entries of the associative memory, bits of its words
  IntWidths,          \* the widths an int may have, in which 1 << counter is computed
  FIELD,              \* 2^9: four fields of a hash address the associative memory
  Chunks,             \* the chunks to encode
  Stale               \* what memory may hold where a code was never written

ASSUME HashAssumption ==
  /\ HASH_RANGE \in Nat \ {0} /\ FNV_PRIME \in Nat
  /\ \A h \in 0 .. HASH_RANGE - 1, b \in 0 .. FIRST_CODE - 1 : XorByte(h, b) \in 0 .. HASH_RANGE - 1
ASSUME TableAssumption ==
  /\ HASHMAP_CAPACITY \in Nat \ {0} /\ BUCKET_SIZE \in Nat \ {0} /\ ASSOC_SIZE \in Nat \ {0}
  /\ IntWidths \subseteq Nat \ {0} /\ Stale \subseteq Int
  /\ FIELD \in Nat \ {0} /\ HASH_RANGE <= FIELD * FIELD * FIELD * FIELD
ASSUME ChunksAssumption == Chunks \subseteq Seq(0 .. FIRST_CODE - 1) \ {<< >>}

MISS == -1

VARIABLES
  chunk,          \* the chunk's bytes
  stale,          \* what the memory of the tables held
  INT_BITS,       \* the width of an int in this build
  pc,             \* "encode", "pack", "first", "decode", "done", "undefined"
  i, p, code,     \* lzw_encode(): loop index, current string, next code
  already_sent,
  hash_entries,   \* [bucket][entry]: a key and a code; key 0 is empty
  assoc,          \* [field][its value]: the set bits of a word of associative_map
  values,         \* [bit]: the code
  counter,        \* bits used
  codes,          \* what lzw_encode() has sent
  bytes,          \* what bit_pack() has made of it
  position,       \* Decompress(): Input_position
  old, symbol, code_table, output

given   == <<chunk, stale, INT_BITS>>
tables  == <<hash_entries, assoc, values, counter>>
encoder == <<i, p, code, already_sent, tables, codes>>
decoder == <<position, old, symbol, code_table, output>>
vars == <<given, pc, encoder, bytes, decoder>>

Init ==
  /\ chunk \in Chunks /\ stale \in Stale /\ INT_BITS \in IntWidths
  /\ pc = "encode"
  /\ i = 0 /\ p = <<chunk[1]>> /\ code = FIRST_CODE /\ already_sent = FALSE
  /\ hash_entries = [b \in 0 .. HASHMAP_CAPACITY - 1 |->
                       [j \in 1 .. BUCKET_SIZE |-> [key |-> 0, code |-> stale]]]
  /\ assoc = [f \in 0 .. 3 |-> [x \in 0 .. FIELD - 1 |-> {}]]
  /\ values = [b \in 0 .. ASSOC_SIZE - 1 |-> stale]
  /\ counter = 0
  /\ codes = << >> /\ bytes = << >>
  /\ position = 0 /\ old = 0 /\ symbol = << >> /\ output = << >>
  /\ code_table = [b \in 1 .. FIRST_CODE |-> <<b - 1>>]

-----------------------------------------------------------------------------
(* The hashed table *)

FNVHash(s) == FoldLeft(LAMBDA h, b : XorByte((h * FNV_PRIME) % HASH_RANGE, b), 0, s)

Field(f, h) ==
  (h \div <<1, FIELD, FIELD * FIELD, FIELD * FIELD * FIELD>>[f + 1]) % FIELD
BucketOf(h) == hash_entries[h % HASHMAP_CAPACITY]

hashmap_get(h) ==
  LET hits == {j \in 1 .. BUCKET_SIZE : BucketOf(h)[j].key = h} IN
    IF hits = {} THEN MISS ELSE BucketOf(h)[Min(hits)].code

(* The highest bit that is set in all four words; code 0 is none. *)
associative_lookup(h) ==
  LET bits == {b \in assoc[0][Field(0, h)] : \A f \in 1 .. 3 : b \in assoc[f][Field(f, h)]} IN
    IF bits = {} \/ values[Max(bits)] = 0 THEN MISS ELSE values[Max(bits)]

Get(h) == IF hashmap_get(h) # MISS THEN hashmap_get(h) ELSE associative_lookup(h)

(* The bits of 1 << n, an int, when it is widened to a word: its sign bit fills *)
(* what is above it.  A shift by the int's width or more is undefined; a build   *)
(* gives 0, or the shift by n modulo the width.                                *)
Widened(n) == IF n = INT_BITS - 1 THEN n .. ASSOC_SIZE - 1 ELSE {n}
OneShifted(n) == IF n < INT_BITS THEN {Widened(n)} ELSE {{}, Widened(n % INT_BITS)}

EmptyEntries(h) == {j \in 1 .. BUCKET_SIZE : BucketOf(h)[j].key = 0}

(* hashmap_put(), and associative_insert() when the bucket is full; when that    *)
(* is full too the string is not kept.                                         *)
Put(h) ==
  \/ /\ EmptyEntries(h) # {}
     /\ hash_entries' = [hash_entries EXCEPT ![h % HASHMAP_CAPACITY][Min(EmptyEntries(h))] =
                                               [key |-> h, code |-> code]]
     /\ UNCHANGED <<assoc, values, counter>>
  \/ /\ EmptyEntries(h) = {} /\ counter < ASSOC_SIZE
     /\ \E bits \in OneShifted(counter) :
          assoc' = [f \in 0 .. 3 |-> [assoc[f] EXCEPT ![Field(f, h)] = @ \cup bits]]
     /\ values' = [values EXCEPT ![counter] = code]
     /\ counter' = counter + 1
     /\ UNCHANGED hash_entries
  \/ /\ EmptyEntries(h) = {} /\ counter >= ASSOC_SIZE
     /\ UNCHANGED tables

-----------------------------------------------------------------------------
(* lzw_encode(): one round of its loop, by what the search finds *)

LastRound == i = Len(chunk) - 1
Tried     == IF LastRound THEN p ELSE Append(p, chunk[i + 2])
Byte      == chunk[IF LastRound THEN Len(chunk) ELSE i + 2]
Search    == Get(FNVHash(Tried))

Encoding == pc = "encode" /\ i < Len(chunk)

(* The string is known: go on with it. *)
Match ==
  /\ Encoding
  /\ Search # MISS
  /\ p' = Tried
  /\ already_sent' = FALSE
  /\ i' = i + 1
  /\ UNCHANGED <<given, pc, code, tables, codes, bytes, decoder>>

(* The code of the string before the byte that made it unknown. *)
OutCode == IF Len(Tried) <= 2 THEN Tried[1] ELSE Get(FNVHash(Front(Tried)))

SentWrong == FALSE

(* The last byte itself has gone out, in the round that nothing follows. *)
Sent == Len(Tried) <= 2

(* It is not: send the code of what was known and keep the longer string. *)
Emit ==
  /\ Encoding
  /\ Search = MISS
  /\ codes' = Append(codes, OutCode)
  /\ Put(FNVHash(Tried))
  /\ code' = code + 1
  /\ p' = <<Byte>>
  /\ already_sent' = Sent
  /\ i' = i + 1
  /\ UNCHANGED <<given, pc, bytes, decoder>>

(* After the loop, what is left. *)
EncodeEnds ==
  /\ pc = "encode" /\ i = Len(chunk)
  /\ codes' = IF already_sent THEN codes ELSE Append(codes, Get(FNVHash(p)))
  /\ pc' = "pack"
  /\ UNCHANGED <<given, i, p, code, already_sent, tables, bytes, decoder>>

(* bit_pack() and store(): the size in the chunk's header is Len(bytes). *)
PackBytes ==
  /\ pc = "pack"
  /\ bytes' = Pack(codes)
  /\ pc' = "first"
  /\ UNCHANGED <<given, encoder, decoder>>

-----------------------------------------------------------------------------
(* The decoder's Decompress() *)

(* Past the end get() returns EOF, whose bits are ones. *)
BitAt(k) ==
  IF k \div BYTE_BITS < Len(bytes) THEN bytes[k \div BYTE_BITS + 1][(k % BYTE_BITS) + 1] ELSE 1

ReadCode ==
  FoldLeft(LAMBDA n, k : 2 * n + BitAt(position + k - 1), 0, [k \in 1 .. CODE_LENGTH |-> k])

DecodeFirst ==
  /\ pc = "first"
  /\ old' = ReadCode
  /\ symbol' = <<ReadCode % FIRST_CODE>>
  /\ output' = symbol'
  /\ position' = position + CODE_LENGTH
  /\ pc' = "decode"
  /\ UNCHANGED <<given, encoder, bytes, code_table>>

(* Whether a code is left: bit position against the size in bytes. *)
MoreCodes == position \div BYTE_BITS < Len(bytes) - 1

IsCode(n) == n < Len(code_table)

SymbolsWrong(new) == IF IsCode(new) THEN code_table[new + 1] ELSE code_table[old + 1]

(* A code that is not in the table yet is the string about to be added. *)
Symbols(new) == IF IsCode(new) THEN code_table[new + 1] ELSE code_table[old + 1] \o symbol

DecodeNext ==
  /\ pc = "decode" /\ MoreCodes /\ IsCode(old)
  /\ LET s == Symbols(ReadCode) IN
       /\ output' = output \o s
       /\ symbol' = <<s[1]>>
       /\ code_table' = Append(code_table, code_table[old + 1] \o <<s[1]>>)
  /\ old' = ReadCode
  /\ position' = position + CODE_LENGTH
  /\ UNCHANGED <<given, pc, encoder, bytes>>

(* Code_table[Old] is past the table's end. *)
DecodeUndefined ==
  /\ pc = "decode" /\ MoreCodes /\ ~IsCode(old)
  /\ pc' = "undefined"
  /\ UNCHANGED <<given, encoder, bytes, decoder>>

DecodeEnds ==
  /\ pc = "decode" /\ ~MoreCodes
  /\ pc' = "done"
  /\ UNCHANGED <<given, encoder, bytes, decoder>>

Next == \/ Match \/ Emit \/ EncodeEnds \/ PackBytes
        \/ DecodeFirst \/ DecodeNext \/ DecodeUndefined \/ DecodeEnds

Spec == Init /\ [][Next]_vars

-----------------------------------------------------------------------------
(* Safety *)

(* What the hash must do for the kernel's table to stand for a table of strings:*)
(* tell apart the strings of the chunk, none of them by 0, the key of an empty  *)
(* entry.                                                                      *)
Strings == {SubSeq(chunk, a, b) : a, b \in 1 .. Len(chunk)} \ {<< >>}
HashTellsApart ==
  LET hashes == {FNVHash(s) : s \in Strings} IN
    0 \notin hashes /\ Cardinality(hashes) = Cardinality(Strings)

(* The longest chunk none of whose codes can need more than CODE_LENGTH bits. *)
LongestSafe == PowerOf2[CODE_LENGTH] - FIRST_CODE + 2

(* No entry of the associative memory used whose bit an int does not have. *)
ShiftsFit == counter < INT_BITS

(* The chunk comes back, whatever the buckets and the associative memory could  *)
(* not hold, as long as no entry is used whose bit 1 << counter does not have:   *)
(* from there on entries are lost or stand for others.                        *)
RoundTrip ==
  pc \in {"done", "undefined"} /\ ShiftsFit /\ Len(chunk) <= LongestSafe /\ HashTellsApart
    => pc = "done" /\ output = chunk

(* As long as every string found a place, the codes are those of the table of   *)
(* strings.                                                                   *)
CodesAreReference ==
  pc = "pack" /\ counter < ASSOC_SIZE /\ ShiftsFit /\ HashTellsApart => codes = Encode(chunk)

(* The decoder finds each code where the encoder put it, takes no padding for a *)
(* code, and stops after the last one; its table is one string behind.         *)
DecoderInStep ==
  /\ pc = "decode" =>
       /\ position <= Len(codes) * CODE_LENGTH
       /\ Len(code_table) = FIRST_CODE + position \div CODE_LENGTH - 1
  /\ pc = "done" => position = Len(codes) * CODE_LENGTH

(* "/*table.find(p + c) != table.end()*/": the search of the hashed table finds *)
(* what a table of strings would.                                              *)
SearchIsFind ==
  pc = "pack" /\ counter < ASSOC_SIZE /\ ShiftsFit => codes = Encode(chunk)

=============================================================================
