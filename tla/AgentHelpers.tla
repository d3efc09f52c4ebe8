----------------------------- MODULE AgentHelpers -----------------------------
(***************************************************************************)
(* The pure helpers of the agent, each checked against a reference or a  *)
(* unit test: jenkins64 (Jenkins64) in its unit test, the u64 an XflowKey *)
(* hashes (XflowKey) and round_to_minute (RoundToMinute).  Each helper is  *)
(* a pure function, so a state is one call: the helper and its argument.  *)
(* The unit test of jenkins64 goes on through the function's assignments  *)
(* to its `mut hash`, one per step; the other calls have no successor.    *)
(* Each property speaks of the calls of its own helper.                   *)
(***************************************************************************)
EXTENDS Naturals

CONSTANTS
    U32s,           \* u32 addresses and interface indexes, as <<hi, lo>> limbs
    Durations       \* Durations, as [secs, nanos] records

J == INSTANCE Jenkins64
X == INSTANCE XflowKey
R == INSTANCE RoundToMinute

ASSUME \A t \in Durations : t.nanos \in 0..999999999

Calls ==
    {[fn |-> "assert_jenkins64", arg |-> <<J!TestInputA, J!TestInputB>>]}
    \cup {[fn |-> "xflow_key_hash", arg |-> p] : p \in X!XflowKeys \X X!XflowKeys}
    \cup {[fn |-> "round_to_minute", arg |-> t] : t \in Durations}

VARIABLES
    call,   \* the helper called and its argument
    line,   \* the assignments to hash that jenkins64 has made so far
    hash    \* assert_jenkins64: the hash of each of the two operands

vars == <<call, line, hash>>

Init ==
    /\ call \in Calls
    /\ line = 0
    /\ hash = IF call.fn = "assert_jenkins64" THEN call.arg ELSE <<>>

\* The next assignment of jenkins64 in each of the test's two calls.
AssertLine ==
    /\ call.fn = "assert_jenkins64" /\ line < J!Lines
    /\ line' = line + 1
    /\ hash' = <<J!JenkinsLine(line + 1, hash[1]), J!JenkinsLine(line + 1, hash[2])>>
    /\ UNCHANGED call

Next == AssertLine
Spec == Init /\ [][Next]_vars

-----------------------------------------------------------------------------

\* The unit test assert_jenkins64: jenkins64(1281291242888) ^
\* jenkins64(122345676892) = 17281198411619148719.
UnitTestVector ==
    call.fn = "assert_jenkins64" /\ line = J!Lines =>
        J!WXor(hash[1], hash[2]) = J!TestXor

\* XflowKey's hand-written Hash agrees with its derived Eq and Ord: two
\* keys hash the same u64 exactly when they are equal, and the u64s order
\* the keys as the derived Ord does (no packing collision, no wrap of the +
\* into the address half).
HashMatchesEqOrd ==
    call.fn = "xflow_key_hash" =>
        LET k == call.arg[1]
            l == call.arg[2]
        IN  /\ (k = l) <=> (X!XflowHash(k) = X!XflowHash(l))
            /\ X!XflowKeyLess(k, l) <=> J!WLess(X!XflowHash(k), X!XflowHash(l))

\* round_to_minute(t) is the start of the minute t falls in: a whole
\* minute, with no nanoseconds left, not after t and less than a minute
\* before it.
RoundsToMinuteStart ==
    call.fn = "round_to_minute" => R!RoundToMinute(call.arg) = R!LatestMinute(call.arg)

=============================================================================
