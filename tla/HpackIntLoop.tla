---------------------------- MODULE HpackIntLoop ----------------------------
(***************************************************************************)
(* parse_int of src/agent/src/utils/net/h2pack/parser.rs, one step per     *)
(* iteration of its continuation loop, shown to implement HpackIntSpec.   *)
(* The callers pass the prefix widths 4, 5, 6 and 7 only, so the prefix    *)
(* check at the top of parse_int never fails (the ASSUME below); the       *)
(* operator ParseInt of HpackCode, which the parser model uses, keeps it.  *)
(***************************************************************************)
EXTENDS HpackCode

CONSTANTS
  Bufs,     \* the buffers parse_int is called on
  Widths    \* the prefix widths it is called with

ASSUME Widths \subseteq 1..8

VARIABLES
  buf, prefix,          \* the arguments
  pc,                   \* "begin", "loop" or "done"
  value, len, shift,    \* the locals of parse_int
  result                \* the returned value, once pc = "done"

vars == <<buf, prefix, pc, value, len, shift, result>>

\* The result before parse_int has returned, as in HpackIntSpec.
Pending == [err |-> "pending", value |-> 0, len |-> 0]

Abs == INSTANCE HpackIntSpec WITH res <- IF pc = "done" THEN result ELSE Pending

Init ==
  /\ buf \in Bufs
  /\ prefix \in Widths
  /\ pc = "begin"
  /\ value = 0
  /\ len = 0
  /\ shift = 0
  /\ result = Pending

Return(r) ==
  /\ pc' = "done"
  /\ result' = r
  /\ UNCHANGED <<buf, prefix, value, len, shift>>

\* buf.len() < 1
EmptyInput ==
  /\ pc = "begin"
  /\ Len(buf) < 1
  /\ Return(IntErr("NotEnoughOctets"))

\* value = buf[0] & mask is below mask: a one-octet integer.
SingleOctet ==
  /\ pc = "begin"
  /\ Len(buf) >= 1
  /\ BitAnd(buf[1], Mask(prefix)) < Mask(prefix)
  /\ Return(IntOk(BitAnd(buf[1], Mask(prefix)), 1))

\* The prefix is all ones: continuation octets follow.
EnterLoop ==
  /\ pc = "begin"
  /\ Len(buf) >= 1
  /\ BitAnd(buf[1], Mask(prefix)) = Mask(prefix)
  /\ pc' = "loop"
  /\ value' = Mask(prefix)
  /\ len' = 1
  /\ shift' = 0
  /\ UNCHANGED <<buf, prefix, result>>

\* The next octet b = buf[len] (0-based) and value with its 7 bits added.
Octet == buf[len + 1]
Added == value + BitAnd(Octet, 127) * 2^shift

\* b & 0x80 != 0x80: the last octet of the integer.
LastOctet ==
  /\ pc = "loop"
  /\ len < Len(buf)
  /\ BitAnd(Octet, 128) # 128
  /\ Return(IntOk(Added, len + 1))

\* A continuation octet that reaches OCTET_LIMIT.
OctetLimit ==
  /\ pc = "loop"
  /\ len < Len(buf)
  /\ BitAnd(Octet, 128) = 128
  /\ len + 1 = OCTET_LIMIT
  /\ Return(IntErr("InvalidIntger"))

\* Mutant: the shift is advanced before the octet's bits are added.
MoreOctetsBug ==
  /\ pc = "loop"
  /\ len < Len(buf)
  /\ BitAnd(Octet, 128) = 128
  /\ len + 1 # OCTET_LIMIT
  /\ value' = value + BitAnd(Octet, 127) * 2^(shift + 7)
  /\ len' = len + 1
  /\ shift' = shift + 7
  /\ UNCHANGED <<buf, prefix, pc, result>>

\* A continuation octet below the limit: shift += 7 and go on.
MoreOctets ==
  /\ pc = "loop"
  /\ len < Len(buf)
  /\ BitAnd(Octet, 128) = 128
  /\ len + 1 # OCTET_LIMIT
  /\ value' = Added
  /\ len' = len + 1
  /\ shift' = shift + 7
  /\ UNCHANGED <<buf, prefix, pc, result>>

\* The loop ran out of octets.
OutOfOctets ==
  /\ pc = "loop"
  /\ len >= Len(buf)
  /\ Return(IntErr("NotEnoughOctets"))

Next ==
  \/ EmptyInput \/ SingleOctet \/ EnterLoop
  \/ LastOctet \/ OctetLimit \/ MoreOctets \/ OutOfOctets

Spec == Init /\ [][Next]_vars /\ WF_vars(Next)

-----------------------------------------------------------------------------
\* Types; at most OCTET_LIMIT octets are read, so shift stays below 28 and
\* no continuation digit is shifted past bit 27.
TypeOK ==
  /\ pc \in {"begin", "loop", "done"}
  /\ len \in 0..5
  /\ shift \in {0, 7, 14, 21}
  /\ value \in Nat

\* The loop returns what the reference decoding of spec 4.1 returns.
ImplementsIntSpec == Abs!Spec
=============================================================================
