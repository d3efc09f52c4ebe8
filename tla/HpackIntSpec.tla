---------------------------- MODULE HpackIntSpec ----------------------------
(***************************************************************************)
(* What the integer decoder promises (spec.md 4.1): called on a buffer    *)
(* and a prefix width, it returns in one step the reference decoding       *)
(* DecodeInteger of HpackRfc, or its error.                               *)
(***************************************************************************)
EXTENDS HpackRfc

CONSTANTS
  Bufs,     \* the buffers the decoder may be called on
  Widths    \* the prefix widths it may be called with

VARIABLES buf, prefix, res

Pending == [err |-> "pending", value |-> 0, len |-> 0]

Init ==
  /\ buf \in Bufs
  /\ prefix \in Widths
  /\ res = Pending

Decide ==
  /\ res = Pending
  /\ res' = DecodeInteger(buf, prefix)
  /\ UNCHANGED <<buf, prefix>>

Spec == Init /\ [][Decide]_<<buf, prefix, res>>
=============================================================================
