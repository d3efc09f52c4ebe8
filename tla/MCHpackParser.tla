--------------------------- MODULE MCHpackParser ---------------------------
(***************************************************************************)
(* Header blocks of up to four octets over octets chosen so that every    *)
(* representation and every branch of its parser occurs:                   *)
(*   0x81 static index 1 or a Huffman string of length 1,                 *)
(*   0xBF dynamic index 63, 0x80 index 0, 0xFF an indexed        *)
(*   integer with continuation; 0x41 / 0x40 / 0x7F incremental indexing    *)
(*   with static name, literal name, continued (dynamic) name; 0x20 / 0x3F *)
(*   size update; 0x10 / 0x11 never indexed; 0x00 / 0x01 / 0x0F without   *)
(*   indexing, and 0x00 / 0x01 / 0x7F as string lengths 0, 1, 127 or a    *)
(*   continuation octet that turns an index above 61.                     *)
(*                                                                         *)
(* The parser run adds the blocks of the parser's unit tests (up to 849   *)
(* octets, any octet value) and every prefix of them.                     *)
(***************************************************************************)
EXTENDS HpackTests

MCOctets == {0, 1, 15, 16, 17, 32, 63, 64, 65, 127, 128, 129, 191, 255}
MCMaxBlock == 4

\* Termination is checked on blocks of up to three octets: every
\* representation, and every way a field can end, already occurs there.
MCMaxBlockLive == 3

\* The enumerated small blocks, the test blocks and their truncations.
MCAllOctets == 0..255
MCMaxTestBlock == 849
MCSmallBlocks == UNION {[1..n -> MCOctets] : n \in 0..MCMaxBlock}
MCBlocks == MCSmallBlocks \cup TestBlocks \cup Truncations
=============================================================================
