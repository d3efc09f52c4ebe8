--------------------------- MODULE MCHpackIntLoop ---------------------------
(***************************************************************************)
(* Buffers of up to five octets (the OCTET_LIMIT cap) over octets that    *)
(* end an integer with digit 0, 15, 63 or 127 (0x00, 0x0F, 0x3F, 0x7F) or  *)
(* continue it with digit 0 or 127 (0x80, 0xFF).  0x0F, 0x3F, 0x7F and     *)
(* 0xFF fill the prefix of some width, so both the one-octet form and the  *)
(* boundary value = mask occur for every width the parser uses.           *)
(***************************************************************************)
EXTENDS HpackIntLoop

MCIntOctets == {0, 15, 63, 127, 128, 255}
MCBufs == UNION {[1..n -> MCIntOctets] : n \in 0..OCTET_LIMIT}
MCWidths == {4, 5, 6, 7}
=============================================================================
