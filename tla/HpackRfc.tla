------------------------------ MODULE HpackRfc ------------------------------
(***************************************************************************)
(* Reference decoding of an HPACK header block, written from the           *)
(* repository's specification (spec.md sections 4.1 - 4.6), independently *)
(* of the code in src/agent/src/utils/net/h2pack/parser.rs.  The code's    *)
(* translation (HpackCode, HpackParser) is checked against these           *)
(* definitions.  Bytes are naturals in 0..255 and a buffer is a sequence.  *)
(***************************************************************************)
EXTENDS Integers, Sequences, Functions

\* Spec 4.1: an integer occupies at most five octets in total.
MaxIntOctets == 5
\* Spec 4.3: the static table holds indices 1..61.
StaticIndices == 1..61

\* The octets of buf after its first k octets.
After(buf, k) == SubSeq(buf, k + 1, Len(buf))

IntValue(v, l) == [err |-> "none", value |-> v, len |-> l]
IntFailure(e) == [err |-> e, value |-> 0, len |-> 0]

(***************************************************************************)
(* Spec 4.1, integer with a p-bit prefix.  The prefix value is the low p   *)
(* bits of the first octet; if it is below 2^p - 1 it is the value, else   *)
(* continuation octet i contributes its low 7 bits times 128^(i-1) and the *)
(* first octet below 128 ends the integer.  Four continuation octets all   *)
(* carrying the high bit exceed the five-octet cap.                        *)
(***************************************************************************)
DecodeInteger(buf, p) ==
  LET limit   == 2^p - 1
      first   == IF buf = <<>> THEN 0 ELSE buf[1] % 2^p
      present == IF Len(buf) - 1 < MaxIntOctets - 1
                   THEN Len(buf) - 1 ELSE MaxIntOctets - 1
      ends    == {i \in 1..present :
                    /\ buf[1 + i] < 128
                    /\ \A j \in 1..(i - 1) : buf[1 + j] >= 128}
      digits(t) == [i \in 1..t |-> (buf[1 + i] % 128) * 128^(i - 1)]
  IN CASE buf = <<>>                    -> IntFailure("NotEnoughOctets")
       [] first < limit                 -> IntValue(first, 1)
       [] ends # {}                     ->
             LET t == CHOOSE i \in ends : TRUE
             IN IntValue(limit + SumFunction(digits(t)), 1 + t)
       [] present = MaxIntOctets - 1    -> IntFailure("InvalidIntger")
       [] OTHER                         -> IntFailure("NotEnoughOctets")

(***************************************************************************)
(* Spec 4.2: the representation of a field, by its leading octet, tested  *)
(* in priority order.                                                      *)
(***************************************************************************)
Representation(octet) ==
  CASE octet >= 128 -> "Indexed"
    [] octet >= 64  -> "IncrementalIndexing"
    [] octet >= 32  -> "SizeUpdate"
    [] octet >= 16  -> "NeverIndexed"
    [] OTHER        -> "WithoutIndexing"

FieldSpan(span, resolvable) == [err |-> "none", span |-> span, resolvable |-> resolvable]
FieldFailure(e) == [err |-> e, span |-> 0, resolvable |-> FALSE]

\* A string literal whose 7-bit length prefix starts at offset at: its end.
StringEnd(buf, at) ==
  LET n == DecodeInteger(After(buf, at), 7)
  IN [err |-> n.err, end |-> at + n.len + n.value]

(***************************************************************************)
(* Spec 4.4: a literal field with a p-bit name reference.  A non-zero      *)
(* reference names the header by index and only the value string follows; *)
(* reference 0 is followed by a name string and a value string.  The name  *)
(* resolves when it is a literal or a static index.                        *)
(***************************************************************************)
LiteralField(buf, p) ==
  LET ref   == DecodeInteger(buf, p)
      name  == StringEnd(buf, 1)
      value == StringEnd(buf, IF ref.value = 0 THEN name.end ELSE ref.len)
  IN CASE ref.err # "none"                      -> FieldFailure(ref.err)
       [] ref.value = 0 /\ name.err # "none"    -> FieldFailure(name.err)
       [] value.err # "none"                    -> FieldFailure(value.err)
       [] value.end > Len(buf)                  -> FieldFailure("InvalidInput")
       [] OTHER -> FieldSpan(value.end, ref.value = 0 \/ ref.value \in StaticIndices)

\* Spec 4.3 - 4.5: the field at the front of buf, its span and whether it resolves.
Field(buf) ==
  CASE Representation(buf[1]) = "Indexed" ->
         LET i == DecodeInteger(buf, 7)
         IN IF i.err # "none" THEN FieldFailure(i.err)
            ELSE FieldSpan(i.len, i.value \in StaticIndices)
    [] Representation(buf[1]) = "SizeUpdate" ->
         LET s == DecodeInteger(buf, 5)
         IN IF s.err # "none" THEN FieldFailure(s.err) ELSE FieldSpan(s.len, FALSE)
    [] Representation(buf[1]) = "IncrementalIndexing" -> LiteralField(buf, 6)
    [] OTHER -> LiteralField(buf, 4)

(***************************************************************************)
(* Spec 4.6: decoding a block field by field from offset at.  err is the  *)
(* first error met (or "none"); out lists, in order, the spans            *)
(* [at, len] of the resolvable fields decoded before it.                  *)
(***************************************************************************)
RECURSIVE DecodeFrom(_, _)
DecodeFrom(block, at) ==
  IF at >= Len(block) THEN [err |-> "none", out |-> <<>>]
  ELSE LET f == Field(After(block, at))
       IN IF f.err # "none" THEN [err |-> f.err, out |-> <<>>]
          ELSE LET rest == DecodeFrom(block, at + f.span)
                   mine == IF f.resolvable THEN <<[at |-> at, len |-> f.span]>>
                           ELSE <<>>
               IN [err |-> rest.err, out |-> mine \o rest.out]

HeaderBlock(block) == DecodeFrom(block, 0)
=============================================================================
