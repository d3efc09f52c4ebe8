---------------------------- MODULE HpackParser ----------------------------
(***************************************************************************)
(* Parser::parse and Parser::parse_one_field of                           *)
(* src/agent/src/utils/net/h2pack/parser.rs as a state machine.  One step  *)
(* parses one field at the cursor: it classifies the leading octet, runs   *)
(* the matching parser, hands the span to the hpack Decoder when the       *)
(* parser asks for it, appends the decoded pair and advances the cursor.   *)
(* A behaviour is one call of parse; the Decoder is the only state a      *)
(* Parser keeps across calls and the model does not represent it.          *)
(*                                                                         *)
(* The Decoder is the external resolver.  A decoded pair is represented    *)
(* by the span [at, len] it was decoded from.  The Decoder resolves every  *)
(* static index; it may fail (InvalidHuffmanCode) on a literal only when   *)
(* one of its strings is Huffman coded, which the model leaves open.       *)
(***************************************************************************)
EXTENDS HpackCode

CONSTANTS
  Octets,     \* the octet values a header block is built from
  MaxBlock    \* the longest header block handed to parse

ASSUME Octets \subseteq 0..255 /\ MaxBlock \in Nat

Rfc == INSTANCE HpackRfc

Blocks == UNION {[1..n -> Octets] : n \in 0..MaxBlock}

VARIABLES
  input,       \* the header block of the current parse call
  offset,      \* the cursor of parse
  headerList,  \* the pairs appended so far, as the spans they came from
  status       \* "idle", "parsing", "ok" or the ParseError returned

vars == <<input, offset, headerList, status>>

Init ==
  /\ input = <<>>
  /\ offset = 0
  /\ headerList = <<>>
  /\ status = "idle"

\* The caller calls parse(input) on the Parser.
Parse ==
  /\ status = "idle"
  /\ \E block \in Blocks : input' = block
  /\ offset' = 0
  /\ headerList' = <<>>
  /\ status' = "parsing"

\* The loop condition of parse holds: a field starts at the cursor.
AtField == status = "parsing" /\ offset < Len(input)
Flag == FieldFlag(input[offset + 1])
Rest == Slice(input, offset)

(***************************************************************************)
(* The common tail of every branch of parse_one_field and of the loop     *)
(* body of parse: an error returns from parse through ?; otherwise the     *)
(* Decoder's pair, if the parser asked for one, is appended and the        *)
(* cursor advances by the consumed length.                                 *)
(***************************************************************************)
ApplyField(r) ==
  \/ /\ r.err # "none"
     /\ status' = r.err
     /\ UNCHANGED <<offset, headerList>>
  \/ /\ r.err = "none"
     /\ ~r.decode
     /\ offset' = offset + r.len
     /\ UNCHANGED <<headerList, status>>
  \/ /\ r.decode
     /\ headerList' = Append(headerList, [at |-> offset, len |-> r.len])
     /\ offset' = offset + r.len
     /\ UNCHANGED status
  \/ /\ r.decode
     /\ r.huffman
     /\ status' = "InvalidHuffmanCode"
     /\ UNCHANGED <<offset, headerList>>

ParseIndexedField ==
  /\ AtField
  /\ HasFlag(Flag, INDEXED)
  /\ ApplyField(ParseIndexed(Rest))
  /\ UNCHANGED input

ParseIndexingField ==
  /\ AtField
  /\ ~HasFlag(Flag, INDEXED)
  /\ HasFlag(Flag, LITERAL_WITH_INCREMENTAL_INDEXING)
  /\ ApplyField(ParseKvPair(Rest, 6))
  /\ UNCHANGED input

ParseSizeupField ==
  /\ AtField
  /\ ~HasFlag(Flag, INDEXED)
  /\ ~HasFlag(Flag, LITERAL_WITH_INCREMENTAL_INDEXING)
  /\ HasFlag(Flag, SIZE_UPDATE)
  /\ ApplyField(ParseSizeup(Rest))
  /\ UNCHANGED input

ParseNeverIndexedField ==
  /\ AtField
  /\ ~HasFlag(Flag, INDEXED)
  /\ ~HasFlag(Flag, LITERAL_WITH_INCREMENTAL_INDEXING)
  /\ ~HasFlag(Flag, SIZE_UPDATE)
  /\ HasFlag(Flag, LITERAL_NEVER_INDEXED)
  /\ ApplyField(ParseKvPair(Rest, 4))
  /\ UNCHANGED input

ParseWithoutIndexingField ==
  /\ AtField
  /\ ~HasFlag(Flag, INDEXED)
  /\ ~HasFlag(Flag, LITERAL_WITH_INCREMENTAL_INDEXING)
  /\ ~HasFlag(Flag, SIZE_UPDATE)
  /\ ~HasFlag(Flag, LITERAL_NEVER_INDEXED)
  /\ ApplyField(ParseKvPair(Rest, 4))
  /\ UNCHANGED input

\* The loop of parse ends when the cursor is not below the block length.
ParseReturn ==
  /\ status = "parsing"
  /\ offset >= Len(input)
  /\ status' = "ok"
  /\ UNCHANGED <<input, offset, headerList>>

ParseStep ==
  \/ ParseIndexedField
  \/ ParseIndexingField
  \/ ParseSizeupField
  \/ ParseNeverIndexedField
  \/ ParseWithoutIndexingField
  \/ ParseReturn

Next == Parse \/ ParseStep

\* parse is a synchronous loop: once called it keeps running until it
\* returns.  The caller is not obliged to call it.
Spec == Init /\ [][Next]_vars /\ WF_vars(ParseStep)

-----------------------------------------------------------------------------
(***************************************************************************)
(* Properties.                                                            *)
(***************************************************************************)

\* Types; a decoded span is never empty and never longer than a block.
TypeOK ==
  /\ input \in Seq(Octets) /\ Len(input) <= MaxBlock
  /\ offset \in Nat
  /\ headerList \in Seq([at : 0..MaxBlock, len : 1..MaxBlock])
  /\ status \in {"idle", "parsing", "ok"} \cup ParseErrors

(***************************************************************************)
(* The pairs parse has collected are, in order, exactly the resolvable    *)
(* fields the reference decoding finds at the front of the block: no      *)
(* field is skipped, none is misaligned by a wrong length computation in   *)
(* parse_int or parse_kv_pair, none comes from a dynamic-table index, and  *)
(* the classifier picks the representation of every field correctly.      *)
(***************************************************************************)
OutputIsReferencePrefix ==
  headerList # <<>> =>
  LET out == Rfc!HeaderBlock(input).out
  IN /\ Len(headerList) <= Len(out)
     /\ \A i \in DOMAIN headerList : headerList[i] = out[i]

(***************************************************************************)
(* parse rejects a block (with an error other than a Decoder failure)     *)
(* only when the block is malformed by the reference decoding: the bounds *)
(* checks of parse_kv_pair and parse_indexed never reject a well-formed    *)
(* field.                                                                  *)
(***************************************************************************)
RejectsOnlyMalformedBlocks ==
  status \in ParseErrors \ {"InvalidHuffmanCode"}
    => Rfc!HeaderBlock(input).err # "none"

(***************************************************************************)
(* Spec 3 and 4.6: when parse succeeds the cursor equals the block length, *)
(* no octet skipped and none counted beyond the end of the block.          *)
(***************************************************************************)
AcceptedCursorAtEnd ==
  status = "ok" => offset = Len(input)

\* Every call of parse returns: each field consumes at least one octet.
ParseTerminates == (status = "parsing") ~> (status # "parsing")
=============================================================================
