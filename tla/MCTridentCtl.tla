---------------------------- MODULE MCTridentCtl ----------------------------
(* Bounds for TridentCtl.  One command line for every branch of dispatch,  *)
(* rpc, queue and platform: each early return, each flag in the order the  *)
(* code tests it, and a k8s resource of each kind of WatcherReq.           *)
EXTENDS TridentCtl

CmdLine(k, p, sh, cl, of, on, d, m, r) ==
    [kind |-> k, port |-> p, show |-> sh, clear |-> cl, off |-> of, on |-> on,
     duration |-> d, mac |-> m, k8s |-> r]

\* rpc: without and with --port.
MCRpc == {CmdLine("rpc", p, FALSE, FALSE, FALSE, FALSE, 0, FALSE, NoResource) : p \in BOOLEAN}

\* queue: no --port, --on with --off, then show, clear, off, on (duration 1
\* and 0) and no flag.  --show with --clear shows the queues only.
MCQueue ==
    { CmdLine("queue", FALSE, TRUE, FALSE, FALSE, FALSE, 0, FALSE, NoResource),
      CmdLine("queue", TRUE, FALSE, FALSE, TRUE, TRUE, 1, FALSE, NoResource),
      CmdLine("queue", TRUE, TRUE, TRUE, FALSE, FALSE, 0, FALSE, NoResource),
      CmdLine("queue", TRUE, FALSE, TRUE, FALSE, FALSE, 0, FALSE, NoResource),
      CmdLine("queue", TRUE, FALSE, FALSE, TRUE, FALSE, 0, FALSE, NoResource),
      CmdLine("queue", TRUE, FALSE, FALSE, FALSE, TRUE, 1, FALSE, NoResource),
      CmdLine("queue", TRUE, FALSE, FALSE, FALSE, TRUE, 0, FALSE, NoResource),
      CmdLine("queue", TRUE, FALSE, FALSE, FALSE, FALSE, 0, FALSE, NoResource) }

\* platform: mac mappings, k8s version, two watcher resources, no flag.
MCPlatform ==
    { CmdLine("platform", TRUE, FALSE, FALSE, FALSE, FALSE, 0, TRUE, NoResource),
      CmdLine("platform", TRUE, FALSE, FALSE, FALSE, FALSE, 0, FALSE, "version"),
      CmdLine("platform", TRUE, FALSE, FALSE, FALSE, FALSE, 0, FALSE, "node"),
      CmdLine("platform", TRUE, FALSE, FALSE, FALSE, FALSE, 0, FALSE, "svc"),
      CmdLine("platform", TRUE, FALSE, FALSE, FALSE, FALSE, 0, FALSE, NoResource) }

MCCmds == MCRpc \cup MCQueue \cup MCPlatform

=============================================================================
