---------------------------- MODULE LzwReference ----------------------------
(***************************************************************************)
(* LZW as the CPU version of the encoder does it, with a table of strings:    *)
(* the definition that the kernel's hashed table is measured against; and the *)
(* packing of codes into bytes, which both have in common.                    *)
(***************************************************************************)
EXTENDS Integers, SequencesExt, FiniteSetsExt

CONSTANTS
  BYTE_BITS,     \* bits of a byte
  CODE_LENGTH,   \* bits of a code
  FIRST_CODE     \* 256: the codes below it are the bytes themselves

(* 2 ^ n, as far as a code is shifted. *)
PowerOf2[n \in 0 .. CODE_LENGTH + BYTE_BITS] == IF n = 0 THEN 1 ELSE 2 * PowerOf2[n - 1]

(* A code is longer than a byte: 13 bits and 8. *)
ASSUME CodeAssumption ==
  /\ BYTE_BITS \in Nat \ {0} /\ CODE_LENGTH \in Nat /\ CODE_LENGTH > BYTE_BITS
  /\ FIRST_CODE \in Nat \ {0} /\ FIRST_CODE <= PowerOf2[CODE_LENGTH]

EncodeInit(s) ==
  [table |-> [t \in {<<b>> : b \in 0 .. FIRST_CODE - 1} |-> t[1]],
   p     |-> <<s[1]>>,
   codes |-> << >>]

(* The longest string known, p, is extended by the next byte; if the result is *)
(* not known, p's code goes out and the result gets the next code.             *)
EncodeByte(s, e, i) ==
  LET c == IF i < Len(s) THEN <<s[i + 1]>> ELSE << >> IN
    IF e.p \o c \in DOMAIN e.table
      THEN [e EXCEPT !.p = @ \o c]
      ELSE [table |-> [t \in DOMAIN e.table \cup {e.p \o c} |->
                         IF t = e.p \o c THEN FIRST_CODE + Len(e.codes) ELSE e.table[t]],
            p     |-> c,
            codes |-> Append(e.codes, e.table[e.p])]

(* lzw_encoding(): the codes of a chunk. *)
Encode(s) ==
  LET e == FoldLeft(LAMBDA f, i : EncodeByte(s, f, i), EncodeInit(s), [i \in 1 .. Len(s) |-> i])
  IN Append(e.codes, e.table[e.p])

-----------------------------------------------------------------------------
(* The low w bits of n, the highest first. *)
BitsOf(n, w) == [k \in 1 .. w |-> (n \div PowerOf2[w - k]) % 2]

(* A code is shifted to just behind the bits left over from the one before and *)
(* or-ed with them; whole bytes go out.                                       *)
PackCode(b, code) ==
  LET shifted == BitsOf(code, Len(b.rest) + CODE_LENGTH)
      data    == [k \in DOMAIN shifted |->
                    IF k <= Len(b.rest) THEN Max({shifted[k], b.rest[k]}) ELSE shifted[k]]
      whole   == Len(data) \div BYTE_BITS
  IN [bytes |-> b.bytes \o [k \in 1 .. whole |->
                              SubSeq(data, (k - 1) * BYTE_BITS + 1, k * BYTE_BITS)],
      rest  |-> SubSeq(data, whole * BYTE_BITS + 1, Len(data))]

PaddingWrong(rest) == << >>

(* The last, incomplete byte. *)
Padding(rest) ==
  IF rest = << >> THEN << >>
  ELSE <<rest \o [k \in 1 .. BYTE_BITS - Len(rest) |-> 0]>>

(* The bytes of a sequence of codes, each byte as its bits. *)
Pack(codes) ==
  LET b == FoldLeft(PackCode, [bytes |-> << >>, rest |-> << >>], codes)
  IN b.bytes \o Padding(b.rest)

=============================================================================
