------------------------------- MODULE Word64 -------------------------------
(***************************************************************************)
(* Rust's u64 with the wrapping operations the agent uses (overflowing_add, *)
(* overflowing_sub, overflowing_shl, overflowing_shr, ^), for TLC, whose   *)
(* integers stop at 2^31.  A word is four 16-bit limbs, most significant   *)
(* first: <<w[1], w[2], w[3], w[4]>>.  Carries and borrows ripple from     *)
(* w[4] up, and a carry out of w[1] is dropped: that is the wrap.          *)
(***************************************************************************)
EXTENDS Naturals, Sequences

Base == 65536
Limbs == 1..4
Words == [Limbs -> 0..(Base - 1)]

\* A u64 from its limbs, most significant first.
W(a, b, c, d) == <<a, b, c, d>>
Zero == W(0, 0, 0, 0)
One == W(0, 0, 0, 1)

\* A u32 widened to u64 (`x as u64`): its two limbs, high limbs zero.
FromU32(hi, lo) == W(0, 0, hi, lo)

\* The limb i of w, and zero beyond either end of the word.
LimbAt(w, i) == IF i \in Limbs THEN w[i] ELSE 0

\* The carry into limb i of a + b + cin, where cin enters below limb 4.
RECURSIVE CarryInto(_, _, _, _)
CarryInto(a, b, cin, i) ==
    IF i = 4 THEN cin
    ELSE (a[i + 1] + b[i + 1] + CarryInto(a, b, cin, i + 1)) \div Base

\* A word from the value of each limb.  Words are built as tuples, so that
\* TLC computes each limb once, however often a later step reads it.
Limbwise(F(_)) == <<F(1), F(2), F(3), F(4)>>

\* a + b + cin modulo 2^64.
AddWithCarry(a, b, cin) ==
    LET s(i) == (a[i] + b[i] + CarryInto(a, b, cin, i)) % Base IN Limbwise(s)

\* The bitwise complement (used to subtract in two's complement).
NotW(w) == LET n(i) == Base - 1 - w[i] IN Limbwise(n)

\* Mutant: limbs added without carrying from one to the next.
WAddNoCarryBug(a, b) == LET s(i) == (a[i] + b[i]) % Base IN Limbwise(s)

\* u64::overflowing_add(a, b).0
WAdd(a, b) == AddWithCarry(a, b, 0)

\* u64::overflowing_sub(a, b).0: a + !b + 1.
WSub(a, b) == AddWithCarry(a, NotW(b), 1)

\* u64::overflowing_shl(w, k).0 for k < 64: limb i takes the low bits of
\* limb i + q shifted up by r, and the high bits of limb i + q + 1.
WShl(w, k) ==
    LET q == k \div 16
        r == k % 16
        l(i) == ((LimbAt(w, i + q) * 2^r) % Base) + (LimbAt(w, i + q + 1) \div 2^(16 - r))
    IN  Limbwise(l)

\* u64::overflowing_shr(w, k).0 for k < 64.
WShr(w, k) ==
    LET q == k \div 16
        r == k % 16
        l(i) == (LimbAt(w, i - q) \div 2^r)
                + (IF r = 0 THEN 0 ELSE (LimbAt(w, i - q - 1) * 2^(16 - r)) % Base)
    IN  Limbwise(l)

\* The xor of the low n bits of x and y, from bit 0 up.
RECURSIVE XorLow(_, _, _)
XorLow(x, y, n) ==
    IF n = 0 THEN 0
    ELSE ((x + y) % 2) + 2 * XorLow(x \div 2, y \div 2, n - 1)

\* a ^ b
WXor(a, b) == LET x(i) == XorLow(a[i], b[i], 16) IN Limbwise(x)

\* a < b as unsigned words.
WLess(a, b) == \E i \in Limbs : a[i] < b[i] /\ \A j \in 1..(i - 1) : a[j] = b[j]

=============================================================================
