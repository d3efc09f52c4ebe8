---------------------------- MODULE MCAgentHelpers ----------------------------
(***************************************************************************)
(* XflowKey: addresses and indexes 0, 1, 0xFFFF, 0x10000, 0x80000000 and   *)
(* 0xFFFFFFFF: 36 keys, 1296 pairs.  0x10000 tells a 16-bit shift apart;  *)
(* an index of 0xFFFFFFFF would carry into the address half.              *)
(* round_to_minute: every second of the first three minutes and a little  *)
(* past, each with no nanoseconds, one, and 999999999.                    *)
(***************************************************************************)
EXTENDS AgentHelpers

MCU32s == {<<0, 0>>, <<0, 1>>, <<0, 65535>>, <<1, 0>>, <<32768, 0>>, <<65535, 65535>>}
MCDurations == [secs : 0..185, nanos : {0, 1, 999999999}]

=============================================================================
