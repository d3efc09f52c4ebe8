---------------------------- MODULE CollectorThread ----------------------------
(***************************************************************************)
(* CollectorThread (src/agent/src/collector/mod.rs): the quadruple        *)
(* generator, which feeds the l4 flow aggregator and the second and minute *)
(* collectors, and those three consumers, each optional (an Option set in  *)
(* new).  start and stop call the parts one after another, the generator  *)
(* first; each call starts or stops a thread that runs by itself, so the   *)
(* threads run while start and stop are still between two calls.  The      *)
(* bodies of the threads are outside this file: a running generator may    *)
(* put an item on the queue of a present consumer, a running consumer may   *)
(* take one.  start and stop take &mut self, so one call runs at a time.   *)
(***************************************************************************)
EXTENDS Naturals, Sequences

CONSTANTS
    MaxCalls,   \* start and stop calls in a run
    MaxQueue    \* capacity of a consumer's queue

Generator == "quadruple_generator"
Consumers == {"l4_flow_aggr", "second_collector", "minute_collector"}

\* The order of the calls in start.
StartOrder == <<Generator, "l4_flow_aggr", "second_collector", "minute_collector">>

\* Mutant: stop calls the consumers first and the generator last.
StopOrderBug == <<"l4_flow_aggr", "second_collector", "minute_collector", Generator>>

\* The order of the calls in stop.
StopOrder == <<Generator, "l4_flow_aggr", "second_collector", "minute_collector">>

\* The order of the calls of the method m.
Order(m) == IF m = "start" THEN StartOrder ELSE StopOrder

VARIABLES
    present,   \* the consumers whose Option is Some
    running,   \* the parts whose thread runs
    call,      \* "none", or the method running: "start" or "stop"
    next,      \* index in Order(call) of the part the running method calls next
    queue,     \* items waiting for each consumer
    calls      \* start and stop calls so far

vars == <<present, running, call, next, queue, calls>>

\* CollectorThread::new: any combination of the three Options.
Init ==
    /\ present \in SUBSET Consumers
    /\ running = {}
    /\ call = "none" /\ next = 1
    /\ queue = [c \in Consumers |-> 0]
    /\ calls = 0

\* The part the running method calls next.
Part == Order(call)[next]

\* Part is called: the generator always, a consumer only if let Some(..).
Called == Part = Generator \/ Part \in present

Begin(m) ==
    /\ call = "none" /\ calls < MaxCalls
    /\ call' = m /\ next' = 1 /\ calls' = calls + 1
    /\ UNCHANGED <<present, running, queue>>

\* pub fn start(&mut self) / pub fn stop(&mut self) is entered.
Start == Begin("start")
Stop == Begin("stop")

\* Mutant: start calls every part, present or not.
StartStepUncheckedBug ==
    /\ call = "start" /\ next <= 4
    /\ running' = running \cup {Part}
    /\ next' = next + 1
    /\ UNCHANGED <<present, call, queue, calls>>

\* Mutant: start returns at the first part that is None.
StartStepEarlyReturnBug ==
    /\ call = "start" /\ next <= 4
    /\ running' = IF Called THEN running \cup {Part} ELSE running
    /\ next' = IF Called THEN next + 1 ELSE 5
    /\ UNCHANGED <<present, call, queue, calls>>

\* One line of start: quadruple_generator.start(), then each present one.
StartStep ==
    /\ call = "start" /\ next <= 4
    /\ running' = IF Called THEN running \cup {Part} ELSE running
    /\ next' = next + 1
    /\ UNCHANGED <<present, call, queue, calls>>

\* Mutant: stop returns at the first part that is None.
StopStepEarlyReturnBug ==
    /\ call = "stop" /\ next <= 4
    /\ running' = IF Called THEN running \ {Part} ELSE running
    /\ next' = IF Called THEN next + 1 ELSE 5
    /\ UNCHANGED <<present, call, queue, calls>>

\* One line of stop: quadruple_generator.stop(), then each present one.
StopStep ==
    /\ call = "stop" /\ next <= 4
    /\ running' = IF Called THEN running \ {Part} ELSE running
    /\ next' = next + 1
    /\ UNCHANGED <<present, call, queue, calls>>

\* The method returns after its last line.
Return ==
    /\ call # "none" /\ next = 5
    /\ call' = "none"
    /\ UNCHANGED <<present, running, next, queue, calls>>

\* The running generator sends an item to a present consumer's queue.
Produce ==
    /\ Generator \in running
    /\ \E c \in present :
         /\ queue[c] < MaxQueue
         /\ queue' = [queue EXCEPT ![c] = @ + 1]
    /\ UNCHANGED <<present, running, call, next, calls>>

\* The running consumer c takes an item from its queue.
Consume(c) ==
    /\ c \in running
    /\ queue[c] > 0
    /\ queue' = [queue EXCEPT ![c] = @ - 1]
    /\ UNCHANGED <<present, running, call, next, calls>>

Next == Start \/ Stop \/ StartStep \/ StopStep \/ Return \/ Produce
        \/ \E c \in Consumers : Consume(c)

\* A method that has been entered runs its lines to the end: weak fairness
\* on the steps of start and stop.  Nothing forces the caller to call, nor
\* the generator to produce.  A started consumer thread loops on its queue
\* (the loops wait at most RCV_TIMEOUT per receive), so each running
\* consumer is weakly fair on its own queue.
Spec == Init /\ [][Next]_vars
        /\ WF_vars(StartStep) /\ WF_vars(StopStep) /\ WF_vars(Return)
        /\ \A c \in Consumers : WF_vars(Consume(c))

-----------------------------------------------------------------------------

TypeOK ==
    /\ present \subseteq Consumers
    /\ running \subseteq {Generator} \cup present
    /\ call \in {"none", "start", "stop"}
    /\ next \in 1..(5)
    /\ queue \in [Consumers -> 0..MaxQueue]
    /\ calls \in 0..MaxCalls

\* stop never stops a consumer while the generator still runs: a consumer
\* stopped first would leave the generator sending to a queue nobody takes
\* from until the next start.
ConsumerStopsAfterGenerator ==
    [][\A c \in Consumers :
          (c \in running /\ c \notin running') => Generator \notin running]_vars

\* Once stop has been entered, eventually every thread of the
\* CollectorThread has been stopped.
StopStopsAll == (call = "stop") ~> (running = {})

\* start starts the generator before its consumers, so the generator can
\* fill a present consumer's queue before that consumer runs.  Such a full
\* queue is eventually drained, or the generator stopped: start goes on to
\* start every present consumer, whichever of the others are None.
GeneratorNotStuck ==
    \A c \in Consumers :
        (Generator \in running /\ c \in present /\ queue[c] = MaxQueue)
            ~> (queue[c] < MaxQueue \/ Generator \notin running)

=============================================================================
