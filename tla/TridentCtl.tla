----------------------------- MODULE TridentCtl -----------------------------
(***************************************************************************)
(* The request/reply subcommands of trident-ctl (src/bin/trident-ctl.rs):  *)
(* `rpc`, `queue` and `platform`.  Each one checks its arguments, opens a  *)
(* UDP client with a read timeout of SESSION_TIMEOUT, sends one request to *)
(* the agent's debug server and runs a receive loop over its replies.      *)
(*                                                                         *)
(* The debug server is not in the repository.  It is an environment here: *)
(* on a request it picks a reply script (data replies, then an end) and    *)
(* sends it one datagram at a time.  The network between them is UDP: the  *)
(* request and the replies may be lost, and replies may be duplicated and  *)
(* reordered, each up to a bound of the run.                               *)
(*                                                                         *)
(* A reply is abstracted to its kind and, for data, the position of the    *)
(* reply in the script, which stands for the entries it carries.  What a   *)
(* command prints is the sequence of those positions.                      *)
(***************************************************************************)
EXTENDS Naturals, Sequences, SequencesExt

CONSTANTS
    Cmds,         \* the parsed command lines a run starts from (CmdRecords)
    MaxData,      \* data replies the server sends for one request
    MaxLoss,      \* datagrams the network may lose in a run
    MaxDup,       \* replies the network may duplicate in a run
    MaxReorder    \* replies the client may receive out of order in a run

ASSUME MaxData \in Nat /\ MaxLoss \in Nat /\ MaxDup \in Nat /\ MaxReorder \in Nat

-----------------------------------------------------------------------------
(* Command lines, as clap leaves them after parsing (Cmd, QueueCmd,        *)
(* PlatformCmd).  `port` is whether --port was given; `k8s` is the         *)
(* --k8s-get alias typed, or NoResource.                                   *)

NoResource == "none"

\* The variants of enum Resource, grouped by the object they name.
ResourceGroups ==
    { <<"no", "node", "nodes">>, <<"ns", "namespace", "namespaces">>,
      <<"svc", "service", "services">>, <<"deploy", "deployment", "deployments">>,
      <<"po", "pod", "pods">>, <<"st", "statefulset", "statefulsets">>,
      <<"ds", "daemonset", "daemonsets">>,
      <<"rc", "replicationcontroller", "replicationcontrollers">>,
      <<"rs", "replicaset", "replicasets">>, <<"ing", "ingress", "ingresses">> }

Resources == {"version"} \cup UNION {ToSet(g) : g \in ResourceGroups}

CmdRecords ==
    [kind: {"rpc", "queue", "platform"}, port: BOOLEAN,
     show: BOOLEAN, clear: BOOLEAN, off: BOOLEAN, on: BOOLEAN, duration: {0, 1},
     mac: BOOLEAN, k8s: Resources \cup {NoResource}]

ASSUME Cmds \subseteq CmdRecords

\* impl fmt::Display for Resource: the name sent in a WatcherReq.
ResourceName(r) ==
    CASE r \in {"no", "node", "nodes"} -> "nodes"
      [] r \in {"ns", "namespace", "namespaces"} -> "namespaces"
      [] r \in {"svc", "service", "services"} -> "namespaces"
      [] r \in {"deploy", "deployment", "deployments"} -> "deployments"
      [] r \in {"po", "pod", "pods"} -> "pods"
      [] r \in {"st", "statefulset", "statefulsets"} -> "statefulsets"
      [] r \in {"ds", "daemonset", "daemonsets"} -> "daemonsets"
      [] r \in {"rc", "replicationcontroller", "replicationcontrollers"} -> "replicationcontrollers"
      [] r \in {"rs", "replicaset", "replicasets"} -> "replicasets"
      [] r \in {"ing", "ingress", "ingresses"} -> "ingresses"
      [] r = "version" -> "version"

-----------------------------------------------------------------------------
(* The receive loops.  Each phase is one `recv` site of the code, and      *)
(* fixes the message enum it decodes and the arms of its `match`.          *)

Phases == {"rpc", "show", "clear", "off", "on_ack", "on", "mac", "version", "watcher"}
NoPhase == "none"

\* Reply kinds: a data variant with Some, the same with None, Fin, Err, and
\* the acknowledgement the server sends to `queue --on` before its data.
Kinds == {"data", "none", "fin", "err", "continue"}
NoEntry == 0
Entries == 1..(MaxData + 1)
Replies == [kind: Kinds, entry: Entries \cup {NoEntry}]
Requests == [phase: Phases, name: Resources \cup {NoResource}]

\* Loops with a data arm that prints its entries.
DataPhases == {"rpc", "show", "on", "mac", "version", "watcher"}
\* Loops whose data arm holds an Option: None is an error return.
OptionPhases == {"rpc", "show", "mac", "version", "watcher"}
\* Matches with an Err arm; the platform matches have none.
ErrPhases == {"rpc", "show", "clear", "off", "on"}

\* Mutant: the None arm prints its (absent) entries and keeps looping.
ReactionNonePrintsBug(p, k) ==
    CASE k = "data" /\ p \in DataPhases   -> "print"
      [] k = "none" /\ p \in OptionPhases -> "print"
      [] k = "fin"                        -> "ok"
      [] k = "err" /\ p \in ErrPhases     -> "err"
      [] OTHER                            -> "panic"

\* Mutant: None is taken as the end of the listing and returns Ok.
ReactionNoneOkBug(p, k) ==
    CASE k = "data" /\ p \in DataPhases   -> "print"
      [] k = "none" /\ p \in OptionPhases -> "ok"
      [] k = "fin"                        -> "ok"
      [] k = "err" /\ p \in ErrPhases     -> "err"
      [] OTHER                            -> "panic"

\* What the `match` of a loop does with a reply of kind k.  Every arm not
\* listed is `_ => unreachable!()`.  The match of `rpc` is exhaustive, and
\* the server only sends it RpcMessage variants, so it never gets there.
Reaction(p, k) ==
    CASE k = "data" /\ p \in DataPhases   -> "print"
      [] k = "none" /\ p \in OptionPhases -> "err"
      [] k = "fin"                        -> "ok"
      [] k = "err" /\ p \in ErrPhases     -> "err"
      [] OTHER                            -> "panic"

\* The early returns before Self::new_client(): no --port, or --on and --off.
RejectedEarly(c) ==
    \/ ~c.port
    \/ c.kind = "queue" /\ c.on /\ c.off

\* Mutant: `queue --on` goes straight to its loop, with no first recv.
QueueBranchNoAckBug(c) ==
    CASE c.show  -> "show"
      [] c.clear -> "clear"
      [] c.off   -> "off"
      [] c.on    -> IF c.duration = 0 THEN "err" ELSE "on"
      [] OTHER   -> "ok"

\* queue, once the client is open: show, clear, off and on are tested in
\* that order and every branch returns; `--on` with a zero duration is an
\* error; with no flag the command returns Ok.
QueueBranch(c) ==
    CASE c.show  -> "show"
      [] c.clear -> "clear"
      [] c.off   -> "off"
      [] c.on    -> IF c.duration = 0 THEN "err" ELSE "on_ack"
      [] OTHER   -> "ok"

\* platform, once the client is open: mac_mappings first, then k8s_get,
\* where Version has its own loop; with neither the command returns Ok.
PlatformBranch(c) ==
    CASE c.mac                -> "mac"
      [] c.k8s = "version"    -> "version"
      [] c.k8s # NoResource   -> "watcher"
      [] OTHER                -> "ok"

\* The loop the dispatched command starts with, or how it ends at once.
FirstPhase(c) ==
    CASE c.kind = "rpc"      -> "rpc"
      [] c.kind = "queue"    -> QueueBranch(c)
      [] c.kind = "platform" -> PlatformBranch(c)

\* The request datagram a phase starts with.
RequestOf(c, p) ==
    [phase |-> p, name |-> IF p = "watcher" THEN ResourceName(c.k8s) ELSE NoResource]

-----------------------------------------------------------------------------
(* The server's reply scripts (environment).  A listing is any number of   *)
(* data replies up to MaxData, then Fin, or an error end where the message *)
(* enum has one: None in the data variant, or Err.  `clear` and `off` get  *)
(* one Fin or Err.  `on` (QueueMessage::On, sent from the on_ack phase)   *)
(* is refused with Err, or acknowledged with Continue and followed by a    *)
(* listing.                                                                *)

DataRun(k) == [i \in 1..k |-> "data"]

ScriptEnds(p) ==
    CASE p \in {"rpc", "show"}               -> {"fin", "none", "err"}
      [] p \in {"mac", "version", "watcher"} -> {"fin", "none"}
      [] p \in {"clear", "off", "on"}        -> {"fin", "err"}

Scripts(p) ==
    CASE p \in {"clear", "off"} -> {<<e>> : e \in ScriptEnds(p)}
      [] p \in {"on_ack", "on"} ->
           {<<"err">>} \cup
           {<<"continue">> \o DataRun(k) \o <<e>> : k \in 0..MaxData, e \in ScriptEnds("on")}
      [] OTHER -> {DataRun(k) \o <<e>> : k \in 0..MaxData, e \in ScriptEnds(p)}

\* The reply at position i of a script.
ReplyAt(sc, i) == [kind |-> sc[i], entry |-> IF sc[i] = "data" THEN i ELSE NoEntry]

\* The positions of the data replies of a script, in order.
DataOf(sc) == SelectSeq([i \in 1..Len(sc) |-> i], LAMBDA i : sc[i] = "data")

-----------------------------------------------------------------------------
VARIABLES
    cmd,        \* the parsed command line
    pc,         \* "init", "wait" in a receive loop, or how main ended: "ok", "err", "panic"
    phase,      \* the receive loop the client is in
    printed,    \* the entries printed so far, in order
    request,    \* the request the client sent, if any
    toServer,   \* request datagrams in flight
    script,     \* the reply script the server chose, <<>> before it got the request
    sent,       \* how many replies of the script the server has sent
    toClient,   \* reply datagrams in flight, in network order
    lost, duped, reordered   \* faults used so far

vars == <<cmd, pc, phase, printed, request, toServer, script, sent, toClient,
          lost, duped, reordered>>

NoRequest == [phase |-> NoPhase, name |-> NoResource]

Init ==
    /\ cmd \in Cmds
    /\ pc = "init"
    /\ phase = NoPhase
    /\ printed = <<>>
    /\ request = NoRequest
    /\ toServer = <<>>
    /\ script = <<>>
    /\ sent = 0
    /\ toClient = <<>>
    /\ lost = 0 /\ duped = 0 /\ reordered = 0

serverVars == <<script, sent>>
netVars == <<toServer, toClient, lost, duped, reordered>>

-----------------------------------------------------------------------------
(* The client: Controller::dispatch and rpc / queue / platform.            *)

\* An argument check returns Err before the client is opened.
Reject ==
    /\ pc = "init"
    /\ RejectedEarly(cmd)
    /\ pc' = "err"
    /\ UNCHANGED <<cmd, phase, printed, request>>
    /\ UNCHANGED <<serverVars, netVars>>

\* Self::new_client()? fails, on every command past the early returns, or
\* client.send_to(..)? fails: main prints the error.
SocketError ==
    /\ pc = "init"
    /\ ~RejectedEarly(cmd)
    /\ pc' = "err"
    /\ UNCHANGED <<cmd, phase, printed, request>>
    /\ UNCHANGED <<serverVars, netVars>>

\* The client is open and no branch sends: Ok(()), or the zero-duration error.
Finish ==
    /\ pc = "init"
    /\ ~RejectedEarly(cmd)
    /\ FirstPhase(cmd) \in {"ok", "err"}
    /\ pc' = FirstPhase(cmd)
    /\ UNCHANGED <<cmd, phase, printed, request>>
    /\ UNCHANGED <<serverVars, netVars>>

\* client.send_to(&msg, ..) of the branch that applies; then its loop.
SendRequest ==
    /\ pc = "init"
    /\ ~RejectedEarly(cmd)
    /\ FirstPhase(cmd) \in Phases
    /\ LET req == RequestOf(cmd, FirstPhase(cmd)) IN
         /\ request' = req
         /\ toServer' = Append(toServer, req)
    /\ pc' = "wait"
    /\ phase' = FirstPhase(cmd)
    /\ UNCHANGED <<cmd, printed, serverVars, toClient, lost, duped, reordered>>

\* The first recv of `queue --on`: an Err ends the command, any other reply
\* is taken as the acknowledgement and dropped.
ReceiveAck(i) ==
    /\ pc = "wait" /\ phase = "on_ack"
    /\ IF toClient[i].kind = "err" THEN pc' = "err" /\ UNCHANGED phase
                                   ELSE phase' = "on" /\ UNCHANGED pc
    /\ UNCHANGED <<cmd, printed, request>>

\* One iteration of a receive loop: the `match` on the reply.  `clear` and
\* `off` have no loop, and every reply ends them.
ReceiveReply(i) ==
    /\ pc = "wait" /\ phase # "on_ack"
    /\ LET m == toClient[i]
           r == Reaction(phase, m.kind)
       IN  IF r = "print" THEN printed' = Append(printed, m.entry) /\ UNCHANGED pc
                          ELSE pc' = r /\ UNCHANGED printed
    /\ UNCHANGED <<cmd, phase, request>>

\* client.recv(..)?: the next datagram, or with reordering a later one.
Receive ==
    \E i \in 1..Len(toClient) :
        /\ i = 1 \/ reordered < MaxReorder
        /\ reordered' = IF i = 1 THEN reordered ELSE reordered + 1
        /\ toClient' = RemoveAt(toClient, i)
        /\ ReceiveAck(i) \/ ReceiveReply(i)
        /\ UNCHANGED <<toServer, lost, duped, serverVars>>

\* Mutant: a timeout is ignored and the loop receives again, as `list` does.
TimeoutBug ==
    /\ pc = "wait"
    /\ UNCHANGED vars

\* The read times out after SESSION_TIMEOUT: recv returns Err and `?` ends
\* the command.  A late reply may still be on its way.
Timeout ==
    /\ pc = "wait"
    /\ pc' = "err"
    /\ UNCHANGED <<cmd, phase, printed, request, serverVars, netVars>>

Client == Reject \/ SocketError \/ Finish \/ SendRequest \/ Receive \/ Timeout

-----------------------------------------------------------------------------
(* The debug server (environment) and the network.                         *)

\* The server takes the request and decides its answer.
ServerReceive ==
    /\ toServer # <<>>
    /\ script = <<>>
    /\ script' \in Scripts(Head(toServer).phase)
    /\ toServer' = Tail(toServer)
    /\ UNCHANGED <<cmd, pc, phase, printed, request, sent, toClient, lost, duped, reordered>>

\* The server sends its next reply.
ServerSend ==
    /\ sent < Len(script)
    /\ sent' = sent + 1
    /\ toClient' = Append(toClient, ReplyAt(script, sent + 1))
    /\ UNCHANGED <<cmd, pc, phase, printed, request, script, toServer, lost, duped, reordered>>

LoseRequest ==
    /\ toServer # <<>>
    /\ lost < MaxLoss
    /\ toServer' = Tail(toServer)
    /\ lost' = lost + 1
    /\ UNCHANGED <<cmd, pc, phase, printed, request, serverVars, toClient, duped, reordered>>

LoseReply ==
    \E i \in 1..Len(toClient) :
        /\ lost < MaxLoss
        /\ toClient' = RemoveAt(toClient, i)
        /\ lost' = lost + 1
        /\ UNCHANGED <<cmd, pc, phase, printed, request, serverVars, toServer, duped, reordered>>

DuplicateReply ==
    \E i \in 1..Len(toClient) :
        /\ duped < MaxDup
        /\ toClient' = InsertAt(toClient, i + 1, toClient[i])
        /\ duped' = duped + 1
        /\ UNCHANGED <<cmd, pc, phase, printed, request, serverVars, toServer, lost, reordered>>

Environment == ServerReceive \/ ServerSend \/ LoseRequest \/ LoseReply \/ DuplicateReply

Next == Client \/ Environment

\* recv has a read timeout, so a waiting client always takes its next step.
Spec == Init /\ [][Next]_vars /\ WF_vars(Client)

-----------------------------------------------------------------------------
(* Properties                                                              *)

Ended == {"ok", "err", "panic"}

TypeOK ==
    /\ cmd \in Cmds
    /\ pc \in {"init", "wait"} \cup Ended
    /\ phase \in Phases \cup {NoPhase}
    /\ printed \in Seq(Entries)
    /\ request \in Requests \cup {NoRequest}
    /\ toServer \in Seq(Requests)
    /\ sent \in 0..Len(script)
    /\ toClient \in Seq(Replies)
    /\ lost \in 0..MaxLoss /\ duped \in 0..MaxDup /\ reordered \in 0..MaxReorder

\* No reply drives a command into an `unreachable!()` arm: the client never
\* panics on what a server sends it.
NoUnreachable == pc # "panic"

\* Over a network that loses datagrams but neither duplicates nor reorders
\* them, a command prints the server's entries in the server's order, none
\* twice; one that returns Ok after a request has received the server's
\* Fin and misses at most one entry per lost datagram, so none at all when
\* nothing is lost (the loops of rpc, queue and platform print until Fin).
\* A lost Continue of `queue --on` costs one entry: the first data reply is
\* then taken as the acknowledgement and dropped.
PrintsSurvivorsInOrder ==
    /\ ToSet(printed) \subseteq ToSet(DataOf(script))
    /\ \A i \in 1..(Len(printed) - 1) : printed[i] < printed[i + 1]
    /\ pc = "ok" /\ phase # NoPhase =>
           /\ Last(script) = "fin"
           /\ Len(DataOf(script)) - Len(printed) <= lost

\* Every command that is waiting for a reply ends: recv either delivers a
\* reply or times out after SESSION_TIMEOUT, and each loop ends on Fin,
\* Err, None or a timeout.
CommandEnds == pc = "wait" ~> pc \in Ended

\* The object a resource alias names: the plural of its group, as the
\* help text ("--k8s_get node") and the variant names say.
ResourcePlural(r) == IF r = "version" THEN "version"
                     ELSE (CHOOSE g \in ResourceGroups : r \in ToSet(g))[3]

\* `platform --k8s-get r` asks the server for the objects r names.
WatcherAsksForResource ==
    request.phase = "watcher" => request.name = ResourcePlural(cmd.k8s)

=============================================================================
