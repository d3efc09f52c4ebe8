--------------------------- MODULE MCCollectorThread ---------------------------
(* Three calls (start, stop, start again, or stop before start) with every *)
(* combination of present consumers, and queues of two items, so that the *)
(* generator can fill a queue while a consumer is stopped.                *)
EXTENDS CollectorThread

MCMaxCalls == 3
MCMaxQueue == 2

=============================================================================
