------------------------------- MODULE XflowKey -------------------------------
(***************************************************************************)
(* XflowKey (src/agent/src/common/mod.rs): the key of an sFlow/NetFlow    *)
(* exporter, its source IPv4 address and interface index.  Eq and Ord are *)
(* derived (field by field, ip first); Hash is written by hand and feeds   *)
(* the hasher one u64, the address in the high half and the index in the  *)
(* low half.  A HashMap keyed by XflowKey needs a == b => hash(a) = hash(b) *)
(* and is only free of packing collisions if the converse holds.          *)
(*                                                                         *)
(* A u32 is a pair of 16-bit limbs <<hi, lo>>; the u64 is a Word64 word.  *)
(* The property is checked by AgentHelpers.                                *)
(***************************************************************************)
EXTENDS Word64

CONSTANT U32s     \* the u32 values of a run, as <<hi, lo>> limb pairs

ASSUME U32s \subseteq [1..2 -> 0..(Base - 1)]

\* struct XflowKey { ip: Ipv4Addr, tap_idx: u32 }; u32::from(ip) is the
\* address in network order, so an address is its u32.
XflowKeys == [ip : U32s, tap_idx : U32s]

\* The derived Ord of u32 and of Ipv4Addr (octets compared in order).
U32Less(a, b) == a[1] < b[1] \/ (a[1] = b[1] /\ a[2] < b[2])

\* The derived PartialOrd/Ord: ip first, then tap_idx.
XflowKeyLess(k, l) ==
    \/ U32Less(k.ip, l.ip)
    \/ k.ip = l.ip /\ U32Less(k.tap_idx, l.tap_idx)

\* Mutant: the address shifted by 16 instead of 32.
XflowHashShortShiftBug(k) ==
    WAdd(WShl(FromU32(k.ip[1], k.ip[2]), 16), FromU32(k.tap_idx[1], k.tap_idx[2]))

\* impl Hash for XflowKey: ((u32::from(ip) as u64) << 32) + tap_idx as u64,
\* the u64 handed to the hasher.
XflowHash(k) ==
    WAdd(WShl(FromU32(k.ip[1], k.ip[2]), 32), FromU32(k.tap_idx[1], k.tap_idx[2]))

=============================================================================
