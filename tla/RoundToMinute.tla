----------------------------- MODULE RoundToMinute -----------------------------
(***************************************************************************)
(* round_to_minute (src/agent/src/collector/mod.rs), which the collectors  *)
(* use to put a timestamp in its minute.  A Duration is whole seconds and  *)
(* nanoseconds below one second; as_secs drops the nanoseconds and         *)
(* from_secs makes a Duration with none.  The property is checked by      *)
(* AgentHelpers.                                                           *)
(***************************************************************************)
EXTENDS Naturals

\* const SECONDS_IN_MINUTE: u64 = 60;
SECONDS_IN_MINUTE == 60

\* Duration::from_secs(s) and Duration::as_secs(t).
FromSecs(s) == [secs |-> s, nanos |-> 0]
AsSecs(t) == t.secs

\* Mutant: the seconds are rounded, the nanoseconds kept.
RoundToMinuteKeepNanosBug(t) ==
    [secs |-> (AsSecs(t) \div SECONDS_IN_MINUTE) * SECONDS_IN_MINUTE, nanos |-> t.nanos]

\* pub fn round_to_minute(t: Duration) -> Duration
RoundToMinute(t) == FromSecs((AsSecs(t) \div SECONDS_IN_MINUTE) * SECONDS_IN_MINUTE)

\* The order of Durations (derived Ord: secs, then nanos).
DurationLeq(a, b) == a.secs < b.secs \/ (a.secs = b.secs /\ a.nanos <= b.nanos)

\* Reference: the whole minutes of a Duration, the latest whole minute
\* since zero that is not after it.
WholeMinutes(t) == {FromSecs(60 * m) : m \in 0..(t.secs \div 60 + 1)}
LatestMinute(t) ==
    CHOOSE m \in WholeMinutes(t) :
        /\ DurationLeq(m, t)
        /\ \A n \in WholeMinutes(t) : DurationLeq(n, t) => DurationLeq(n, m)

=============================================================================
