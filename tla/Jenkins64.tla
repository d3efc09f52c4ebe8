------------------------------ MODULE Jenkins64 ------------------------------
(***************************************************************************)
(* jenkins64 (src/agent/src/utils/hasher.rs): Thomas Wang's 64-bit integer *)
(* hash, every step wrapping modulo 2^64.  The function assigns its `mut   *)
(* hash` seven times; JenkinsLine(k, h) is the k-th assignment, on the    *)
(* limbs of Word64.  AgentHelpers runs the assignments one per step, so   *)
(* that each value of hash is a state of its own.                         *)
(***************************************************************************)
EXTENDS Word64

\* Mutant: the last assignment, hash + (hash << 31), is missing.
LinesDropLastBug == 6

\* The number of assignments to hash in jenkins64.
Lines == 7

\* The k-th `hash = ...;` of pub fn jenkins64(mut hash: u64) -> u64.
JenkinsLine(k, h) ==
    CASE k = 1 -> WSub(WSub(WShl(h, 21), h), One)
      [] k = 2 -> WXor(h, WShr(h, 24))
      [] k = 3 -> WAdd(WAdd(h, WShl(h, 3)), WShl(h, 8))
      [] k = 4 -> WXor(h, WShr(h, 14))
      [] k = 5 -> WAdd(WAdd(h, WShl(h, 2)), WShl(h, 4))
      [] k = 6 -> WXor(h, WShr(h, 28))
      [] k = 7 -> WAdd(h, WShl(h, 31))

\* The operands and expected result of assert_jenkins64.
TestInputA == W(0, 298, 21224, 52616)        \* 1281291242888
TestInputB == W(0, 28, 31838, 57436)         \* 122345676892
TestXor == W(61395, 9829, 18842, 41903)      \* 17281198411619148719

=============================================================================
