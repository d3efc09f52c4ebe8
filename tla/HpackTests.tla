------------------------------ MODULE HpackTests ------------------------------
(***************************************************************************)
(* The unit tests of src/agent/src/utils/net/h2pack/parser.rs run on the  *)
(* model of Parser::parse: each header block a test hands to parse, and    *)
(* what the test asserts of the result.  The model checks the tests'       *)
(* blocks against the parser's own length and bounds computations; the     *)
(* Huffman and table lookups of the Decoder stay outside, so a test's      *)
(* assertion on names and values becomes one on the number of pairs.       *)
(*                                                                         *)
(* The blocks are real HTTP/2 request headers, hundreds of octets long,    *)
(* far beyond the blocks MCHpackParser enumerates; an agent that captures  *)
(* packets also sees them cut short, so every truncation of them is parsed *)
(* too and checked against the reference decoding of HpackRfc.            *)
(***************************************************************************)
EXTENDS HpackParser

\* parse_field_indexed: buffer1, static index 2 (1 octet).
IndexedStatic == <<130>>

\* parse_field_indexed: buffer2, dynamic index 63 (1 octet).
IndexedDynamic == <<191>>

\* parse_field_incremental_indexing: buffer_indexed (15 octets).
IncrementalIndexedName == <<80, 141, 155, 217, 171, 250, 82, 66, 203, 64, 210, 95, 165, 35, 179>>

\* parse_field_incremental_indexing: buffer_new_index (22 octets).
IncrementalNewName == <<64, 146, 182, 185, 172, 28, 133, 88, 213, 32, 164, 182, 194, 173, 97,
    123, 90, 84, 37, 31, 129, 15>>

\* parse_field_without_indexing: buffer_indexed (28 octets).
WithoutIndexingPath == <<4, 154, 98, 67, 145, 138, 71, 85, 163, 161, 137, 211, 77, 12, 68, 132,
    141, 38, 35, 4, 66, 24, 76, 229, 164, 171, 145, 8>>

\* parse_field_without_indexing: buffer_new_index (849 octets).
WithoutIndexingNewName == <<0, 144, 33, 234, 73, 106, 74, 200, 41, 45, 176, 201, 244, 181, 103, 160,
    196, 245, 255, 189, 5, 65, 44, 53, 105, 89, 22, 17, 79, 244, 130, 209,
    47, 250, 83, 229, 122, 79, 236, 212, 80, 53, 234, 42, 84, 249, 94, 147,
    251, 53, 20, 13, 115, 217, 50, 159, 43, 210, 127, 102, 162, 129, 174,
    67, 210, 167, 250, 182, 164, 14, 82, 172, 106, 168, 53, 69, 255, 74,
    127, 171, 106, 64, 229, 42, 197, 238, 58, 63, 210, 159, 43, 158, 180,
    154, 147, 123, 45, 30, 151, 33, 233, 80, 245, 164, 212, 155, 217, 104,
    244, 186, 25, 92, 116, 143, 217, 234, 31, 132, 46, 67, 210, 167, 143,
    30, 23, 152, 231, 154, 130, 164, 115, 82, 58, 135, 49, 108, 92, 135,
    165, 79, 30, 60, 47, 49, 207, 53, 5, 88, 117, 14, 143, 73, 49, 16, 185,
    15, 74, 137, 28, 212, 142, 161, 204, 91, 23, 152, 231, 154, 130, 174,
    67, 210, 167, 143, 30, 23, 244, 123, 83, 108, 101, 92, 135, 165, 68, 47,
    233, 38, 166, 101, 200, 122, 126, 212, 53, 51, 44, 139, 8, 167, 250, 65,
    104, 151, 253, 41, 242, 189, 39, 246, 106, 40, 26, 245, 21, 42, 124,
    175, 73, 253, 154, 138, 6, 185, 236, 153, 79, 149, 233, 63, 179, 81, 64,
    215, 33, 233, 82, 65, 164, 119, 20, 249, 92, 245, 164, 212, 155, 217,
    104, 244, 185, 15, 74, 158, 60, 120, 94, 99, 158, 106, 10, 145, 205, 72,
    234, 28, 197, 177, 114, 30, 149, 60, 120, 240, 188, 199, 60, 212, 21,
    97, 212, 58, 61, 36, 196, 66, 228, 61, 42, 124, 174, 147, 80, 84, 47,
    72, 235, 140, 254, 87, 33, 233, 80, 117, 153, 122, 71, 92, 103, 242,
    185, 15, 74, 132, 176, 163, 73, 187, 148, 135, 166, 147, 212, 133, 207,
    100, 202, 14, 69, 228, 61, 177, 208, 82, 80, 98, 117, 94, 162, 167, 237,
    73, 11, 40, 237, 161, 43, 34, 194, 41, 254, 144, 90, 37, 255, 74, 124,
    175, 73, 253, 154, 138, 6, 189, 69, 74, 159, 43, 210, 127, 102, 162,
    129, 174, 123, 38, 83, 229, 122, 79, 236, 212, 80, 53, 200, 122, 126,
    212, 150, 193, 210, 85, 145, 97, 20, 249, 92, 245, 164, 212, 155, 217,
    104, 244, 185, 15, 74, 158, 60, 120, 94, 99, 158, 106, 10, 145, 205, 72,
    234, 28, 197, 177, 114, 30, 149, 60, 120, 240, 188, 199, 60, 212, 21,
    97, 212, 58, 61, 36, 196, 66, 228, 61, 42, 120, 241, 225, 127, 71, 181,
    54, 198, 85, 170, 57, 14, 126, 166, 42, 228, 61, 42, 38, 193, 147, 169,
    108, 73, 80, 149, 207, 100, 202, 120, 241, 225, 116, 91, 103, 114, 250,
    152, 222, 233, 58, 228, 61, 42, 12, 132, 61, 181, 37, 11, 202, 107, 11,
    41, 252, 174, 67, 210, 160, 200, 67, 219, 82, 80, 188, 166, 176, 178,
    159, 202, 228, 61, 43, 146, 165, 60, 120, 240, 191, 163, 218, 155, 99,
    42, 228, 61, 63, 106, 33, 62, 168, 42, 200, 176, 138, 127, 164, 22, 137,
    127, 210, 159, 43, 210, 127, 102, 162, 129, 175, 81, 82, 167, 202, 244,
    159, 217, 168, 160, 107, 158, 201, 148, 249, 94, 147, 251, 53, 20, 13,
    114, 30, 149, 63, 213, 181, 32, 114, 149, 99, 85, 65, 170, 47, 250, 251,
    80, 135, 170, 162, 145, 43, 34, 194, 41, 254, 144, 90, 37, 255, 74, 124,
    175, 73, 253, 154, 138, 6, 189, 69, 74, 159, 43, 210, 127, 102, 162,
    129, 174, 123, 38, 83, 229, 122, 79, 236, 212, 80, 53, 200, 122, 84,
    249, 92, 245, 164, 212, 155, 217, 104, 244, 185, 15, 74, 158, 60, 120,
    94, 99, 158, 106, 10, 145, 205, 72, 234, 28, 197, 177, 114, 30, 149, 60,
    120, 240, 188, 199, 60, 212, 21, 97, 212, 58, 61, 36, 196, 66, 228, 61,
    42, 124, 174, 147, 80, 84, 47, 72, 235, 140, 254, 87, 33, 233, 80, 117,
    153, 122, 71, 92, 103, 242, 185, 15, 79, 218, 132, 156, 212, 72, 178,
    44, 34, 159, 43, 158, 180, 154, 147, 123, 45, 30, 151, 33, 233, 83, 199,
    143, 11, 204, 115, 205, 65, 82, 57, 169, 29, 67, 152, 182, 46, 67, 210,
    167, 143, 30, 23, 152, 231, 154, 130, 172, 58, 135, 71, 164, 152, 136,
    92, 135, 165, 79, 30, 60, 47, 232, 246, 166, 216, 202, 181, 71, 33, 207,
    212, 197, 92, 135, 165, 68, 216, 50, 117, 45, 137, 42, 18, 185, 236,
    153, 79, 30, 60, 46, 139, 108, 238, 95, 83, 27, 221, 39, 92, 135, 165,
    65, 144, 135, 182, 164, 161, 121, 77, 97, 101, 63, 149, 200, 122, 84,
    25, 8, 123, 106, 74, 23, 148, 214, 22, 83, 249, 92, 135, 165, 114, 84,
    167, 143, 30, 23, 244, 123, 83, 108, 101, 92, 135, 167>>

\* parse_field_without_indexing: buffer_indexed2 (5 octets).
WithoutIndexingLength == <<15, 13, 2, 52, 54>>

\* parse_http2_headers_block: buffer1 (194 octets).
HeadersBlock1 == <<130, 5, 151, 96, 181, 45, 195, 115, 18, 154, 194, 202, 127, 44, 54, 37,
    192, 184, 88, 148, 214, 33, 54, 91, 83, 31, 65, 140, 241, 227, 194, 244,
    159, 217, 168, 160, 107, 158, 201, 191, 135, 122, 179, 208, 127, 102,
    162, 129, 176, 218, 224, 83, 250, 252, 8, 126, 212, 206, 106, 173, 242,
    167, 151, 156, 137, 198, 190, 212, 179, 189, 198, 196, 184, 63, 181, 49,
    20, 157, 78, 192, 128, 16, 0, 32, 10, 152, 77, 97, 101, 63, 150, 27, 18,
    224, 83, 176, 73, 124, 165, 137, 211, 77, 31, 67, 174, 186, 12, 65, 164,
    199, 169, 143, 51, 166, 154, 63, 223, 154, 104, 250, 29, 117, 208, 98,
    13, 38, 61, 76, 121, 166, 143, 190, 208, 1, 119, 254, 190, 88, 249, 251,
    237, 0, 23, 123, 81, 139, 45, 75, 112, 221, 244, 90, 190, 251, 64, 5,
    219, 80, 141, 155, 217, 171, 250, 82, 66, 203, 64, 210, 95, 165, 35,
    179, 64, 146, 182, 185, 172, 28, 133, 88, 213, 32, 164, 182, 194, 173,
    97, 123, 90, 84, 37, 31, 129, 15>>

\* parse_http2_headers_block: buffer2 (67 octets).
HeadersBlock2 == <<66, 3, 80, 85, 84, 4, 179, 98, 161, 218, 137, 86, 29, 169, 157, 142,
    225, 98, 210, 172, 59, 83, 57, 106, 73, 136, 52, 152, 245, 33, 131, 82,
    131, 44, 211, 128, 0, 128, 200, 2, 0, 4, 0, 11, 13, 204, 176, 250, 141,
    98, 30, 169, 77, 101, 35, 73, 143, 87, 134, 193, 192, 15, 13, 2, 52, 54,
    191>>

\* A block with the number of pairs its test asserts parse returns: exactly,
\* where it asserts r.len() or r.is_empty(), and at least, where it reads
\* r[i].
Case(block, pairs, exact) == [block |-> block, pairs |-> pairs, exact |-> exact]

\* parse_field_indexed: r1[0] is :method GET; r2 is empty.
IndexedTests == {Case(IndexedStatic, 1, FALSE), Case(IndexedDynamic, 0, TRUE)}

\* parse_field_incremental_indexing: r1[0] and r2[0] are the literals.
IncrementalTests ==
    {Case(IncrementalIndexedName, 1, FALSE), Case(IncrementalNewName, 1, FALSE)}

\* parse_field_without_indexing: r1[0] is :path, r2 has one pair, r3[0]
\* is content-length 46.
WithoutIndexingTests ==
    { Case(WithoutIndexingPath, 1, FALSE), Case(WithoutIndexingNewName, 1, TRUE),
      Case(WithoutIndexingLength, 1, FALSE) }

\* parse_http2_headers_block: r1 has 9 pairs, r2 has 4.
HeadersBlockTests == {Case(HeadersBlock1, 9, TRUE), Case(HeadersBlock2, 4, TRUE)}

TestCases == IndexedTests \cup IncrementalTests \cup WithoutIndexingTests \cup HeadersBlockTests

TestBlocks == {tc.block : tc \in TestCases}

\* Every block a test block is cut to by the end of a capture: each of its
\* proper prefixes.
Truncations == UNION {{SubSeq(b, 1, k) : k \in 0..(Len(b) - 1)} : b \in TestBlocks}

\* The assertion of the test that parses block on n pairs.
Asserted(block, n) ==
    \E tc \in TestCases :
        /\ tc.block = block
        /\ IF tc.exact THEN n = tc.pairs ELSE n >= tc.pairs

-----------------------------------------------------------------------------

\* parse(..).unwrap() succeeds on every test block and returns the pairs
\* the test asserts, unless the Decoder rejects a Huffman string (which the
\* model leaves open): the field classification, the integer and length
\* decoding and the bounds checks agree with the blocks the tests captured.
UnitTestsHold ==
    input \in TestBlocks /\ status \in {"ok"} \cup ParseErrors =>
        \/ status = "ok" /\ Asserted(input, Len(headerList))
        \/ status = "InvalidHuffmanCode"

=============================================================================
