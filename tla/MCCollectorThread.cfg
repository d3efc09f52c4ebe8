CONSTANTS
    MaxCalls <- MCMaxCalls
    MaxQueue <- MCMaxQueue
SPECIFICATION Spec
INVARIANT TypeOK
PROPERTIES ConsumerStopsAfterGenerator StopStopsAll GeneratorNotStuck
\* The run stops when its MaxCalls calls have been made and the threads
\* have nothing left to do: the owner need not call start or stop again.
CHECK_DEADLOCK FALSE
