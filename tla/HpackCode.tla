----------------------------- MODULE HpackCode -----------------------------
(***************************************************************************)
(* The pure functions of src/agent/src/utils/net/h2pack/parser.rs:        *)
(* parse_int, the field-representation flags and the per-representation   *)
(* parsers of Parser.  Octets are naturals in 0..255; a slice &buf[k..] is *)
(* the sequence of octets after the first k.  A parser's result is either  *)
(* an error or the consumed length together with whether buf[..len] is    *)
(* handed to the hpack crate's Decoder (the external string/static-table   *)
(* resolver).                                                              *)
(*                                                                         *)
(* Operators whose name ends in "Bug" are mutants: plausible wrong         *)
(* versions of the definition that follows them, used to show that the     *)
(* properties checked in the MC modules can detect such a change.          *)
(***************************************************************************)
EXTENDS Integers, Sequences, Bitwise

STATIC_INDEX_MIN == 1
STATIC_INDEX_MAX == 61
\* Mutant: one continuation octet more is allowed.
OctetLimitBug == 6

OCTET_LIMIT == 5

\* The ParseError variants, spelled as in the source.
ParseErrors == {"HeaderIndexOutOfBounds", "NotStaticField", "InvalidIntger",
                "InvalidMaxDynamicSize", "InvalidInput", "NotEnoughOctets",
                "InvalidHuffmanCode"}

\* The masks the parser applies to an octet, and the table of octet & mask
\* (Bitwise's &, evaluated once for all octets).
OctetMasks == {15, 31, 63, 127, 255, 128, 64, 32, 16, 240}
AndTable == [x \in 0..255 |-> [m \in OctetMasks |-> x & m]]
BitAnd(x, m) == AndTable[x][m]

\* FieldRepresentation bit flags.
INDEXED == 128
LITERAL_WITH_INCREMENTAL_INDEXING == 64
SIZE_UPDATE == 32
LITERAL_NEVER_INDEXED == 16
MASK == 240

\* from_bits_truncate(octet) & MASK, and bitflags' contains.
FieldFlag(octet) == BitAnd(octet, MASK)
HasFlag(flag, bits) == BitAnd(flag, bits) = bits

\* &buf[k..]
Slice(buf, k) == SubSeq(buf, k + 1, Len(buf))

IntOk(v, l) == [err |-> "none", value |-> v, len |-> l]
IntErr(e) == [err |-> e, value |-> 0, len |-> 0]

\* 0xff for an 8-bit prefix, else (1u8 << prefix).wrapping_sub(1).
Mask(prefix) == IF prefix = 8 THEN 255 ELSE 2^prefix - 1

(***************************************************************************)
(* The continuation loop of parse_int: len octets are consumed, the next   *)
(* one is buf[len + 1].  Running out of octets is NotEnoughOctets.         *)
(***************************************************************************)
RECURSIVE ContinueInt(_, _, _, _)
ContinueInt(buf, value, len, shift) ==
  IF len >= Len(buf) THEN IntErr("NotEnoughOctets")
  ELSE LET b == buf[len + 1]
           v == value + BitAnd(b, 127) * 2^shift
       IN CASE BitAnd(b, 128) # 128     -> IntOk(v, len + 1)
            [] len + 1 = OCTET_LIMIT -> IntErr("InvalidIntger")
            [] OTHER               -> ContinueInt(buf, v, len + 1, shift + 7)

\* Mutant: the single-octet test at the mask boundary is inclusive.
ParseIntBug(buf, prefix) ==
  LET m == Mask(prefix)
  IN CASE prefix < 1 \/ prefix > 8 -> IntErr("InvalidIntger")
       [] Len(buf) < 1             -> IntErr("NotEnoughOctets")
       [] BitAnd(buf[1], m) <= m        -> IntOk(BitAnd(buf[1], m), 1)
       [] OTHER                    -> ContinueInt(buf, BitAnd(buf[1], m), 1, 0)

\* parse_int(buf, prefix) -> (value, consumed)
ParseInt(buf, prefix) ==
  LET m == Mask(prefix)
  IN CASE prefix < 1 \/ prefix > 8 -> IntErr("InvalidIntger")
       [] Len(buf) < 1             -> IntErr("NotEnoughOctets")
       [] BitAnd(buf[1], m) < m         -> IntOk(BitAnd(buf[1], m), 1)
       [] OTHER                    -> ContinueInt(buf, BitAnd(buf[1], m), 1, 0)

(***************************************************************************)
(* Results of the per-representation parsers.  huffman records whether a  *)
(* string of the field has its H bit set: only then can the Decoder fail. *)
(***************************************************************************)
Failed(e) == [err |-> e, len |-> 0, decode |-> FALSE, huffman |-> FALSE]
Skipped(l) == [err |-> "none", len |-> l, decode |-> FALSE, huffman |-> FALSE]
Decoded(l, h) == [err |-> "none", len |-> l, decode |-> TRUE, huffman |-> h]

\* The H bit of the string-length octet at offset k.
HuffmanAt(buf, k) == BitAnd(buf[k + 1], 128) = 128

\* Mutant: the width of the value-length prefix is not counted.
IndexedNameFieldWidthBug(buf, idx) ==
  LET str    == ParseInt(Slice(buf, idx.len), 7)
      valLen == idx.len + str.value
  IN CASE str.err # "none"             -> Failed(str.err)
       [] idx.value > STATIC_INDEX_MAX -> Skipped(valLen)
       [] valLen > Len(buf)            -> Failed("InvalidInput")
       [] OTHER                        -> Decoded(valLen, HuffmanAt(buf, idx.len))

\* Mutant: the span is handed to the Decoder without the bounds check.
IndexedNameFieldUncheckedBug(buf, idx) ==
  LET str    == ParseInt(Slice(buf, idx.len), 7)
      valLen == idx.len + str.value + str.len
  IN CASE str.err # "none"             -> Failed(str.err)
       [] idx.value > STATIC_INDEX_MAX -> Skipped(valLen)
       [] OTHER                        -> Decoded(valLen, HuffmanAt(buf, idx.len))

\* parse_kv_pair, index != 0: the name is an index, a value string follows.
IndexedNameField(buf, idx) ==
  LET str    == ParseInt(Slice(buf, idx.len), 7)
      valLen == idx.len + str.value + str.len
  IN CASE str.err # "none"             -> Failed(str.err)
       [] idx.value > STATIC_INDEX_MAX -> Skipped(valLen)
       [] valLen > Len(buf)            -> Failed("InvalidInput")
       [] OTHER                        -> Decoded(valLen, HuffmanAt(buf, idx.len))

\* Mutant: the final bounds check is off by one.
NewNameFieldBug(buf, idx) ==
  LET name   == ParseInt(Slice(buf, 1), 7)
      keyLen == name.value + name.len
      val    == ParseInt(Slice(buf, 1 + keyLen), 7)
      valLen == val.value + keyLen + val.len + idx.len
  IN CASE name.err # "none"      -> Failed(name.err)
       [] keyLen + 1 >= Len(buf) -> Failed("InvalidInput")
       [] val.err # "none"       -> Failed(val.err)
       [] valLen >= Len(buf)     -> Failed("InvalidInput")
       [] OTHER -> Decoded(valLen, HuffmanAt(buf, 1) \/ HuffmanAt(buf, 1 + keyLen))

\* parse_kv_pair, index == 0: a name string and a value string follow.
NewNameField(buf, idx) ==
  LET name   == ParseInt(Slice(buf, 1), 7)
      keyLen == name.value + name.len
      val    == ParseInt(Slice(buf, 1 + keyLen), 7)
      valLen == val.value + keyLen + val.len + idx.len
  IN CASE name.err # "none"      -> Failed(name.err)
       [] keyLen + 1 >= Len(buf) -> Failed("InvalidInput")
       [] val.err # "none"       -> Failed(val.err)
       [] valLen > Len(buf)      -> Failed("InvalidInput")
       [] OTHER -> Decoded(valLen, HuffmanAt(buf, 1) \/ HuffmanAt(buf, 1 + keyLen))

\* parse_kv_pair(buf, prefix): the literal representations.
ParseKvPair(buf, prefix) ==
  LET idx == ParseInt(buf, prefix)
  IN CASE idx.err # "none"    -> Failed(idx.err)
       [] idx.len > Len(buf)  -> Failed("InvalidInput")
       [] idx.value # 0       -> IndexedNameField(buf, idx)
       [] OTHER               -> NewNameField(buf, idx)

\* parse_indexed: only a static index is handed to the Decoder.
ParseIndexed(buf) ==
  LET idx == ParseInt(buf, 7)
  IN CASE idx.err # "none"   -> Failed(idx.err)
       [] idx.len > Len(buf) -> Failed("InvalidInput")
       [] idx.value \in STATIC_INDEX_MIN..STATIC_INDEX_MAX -> Decoded(idx.len, FALSE)
       [] OTHER              -> Skipped(idx.len)

\* Mutant: the decoded size is returned in place of the consumed length.
ParseSizeupBug(buf) ==
  LET r == ParseInt(buf, 5)
  IN IF r.err # "none" THEN Failed(r.err) ELSE Skipped(r.value)

\* parse_sizeup: the new table size is discarded.
ParseSizeup(buf) ==
  LET r == ParseInt(buf, 5)
  IN IF r.err # "none" THEN Failed(r.err) ELSE Skipped(r.len)
=============================================================================
