----------------------------- MODULE TridentList -----------------------------
(***************************************************************************)
(* `trident-ctl list` (Controller::list in src/bin/trident-ctl.rs): bind   *)
(* UDP port 20035, then loop forever receiving the Beacon datagrams agents *)
(* broadcast, printing each VTAP ID the first time it is seen.  The loop   *)
(* only ends with an error.                                                *)
(*                                                                         *)
(* The agents are an environment that sends beacons, each naming a VTAP.   *)
(* Anything else may also arrive on the port: an empty datagram, or one    *)
(* that is not a bincode Beacon.  A read that times out is a `continue`    *)
(* that changes nothing, so it is a stuttering step of this model.         *)
(***************************************************************************)
EXTENDS Naturals, Sequences, SequencesExt

CONSTANTS
    Vtaps,        \* VTAP IDs of the agents on the network
    MaxBeacons,   \* beacons the agents send in a run
    MaxForeign    \* non-beacon datagrams that reach the port in a run

Empty == "empty"        \* a datagram of zero octets
Garbage == "garbage"    \* a datagram bincode cannot decode as a Beacon
Datagrams == Vtaps \cup {Empty, Garbage}

VARIABLES
    pc,         \* "init", "listen" in the loop, or "err" once list returned Err
    vtapMap,    \* the HashSet of VTAP IDs already printed
    printed,    \* the VTAP IDs printed, in order
    inbox,      \* datagrams waiting at port 20035
    beacons,    \* beacons sent so far
    foreign,    \* non-beacon datagrams sent so far
    heard       \* VTAP IDs whose beacon list has received (history)

vars == <<pc, vtapMap, printed, inbox, beacons, foreign, heard>>

Init ==
    /\ pc = "init"
    /\ vtapMap = {}
    /\ printed = <<>>
    /\ inbox = <<>>
    /\ beacons = 0 /\ foreign = 0
    /\ heard = {}

-----------------------------------------------------------------------------
(* list                                                                    *)

\* UdpSocket::bind((LISTENED_IP, LISTENED_PORT))? and set_read_timeout()?;
\* bind fails when another process holds the port.
Bind ==
    /\ pc = "init"
    /\ pc' \in {"listen", "err"}
    /\ UNCHANGED <<vtapMap, printed, inbox, beacons, foreign, heard>>

\* Mutant: every beacon is printed, without the vtap_map test.
RecvBeaconUncheckedBug ==
    /\ pc = "listen"
    /\ inbox # <<>> /\ Head(inbox) \in Vtaps
    /\ LET v == Head(inbox) IN
         /\ printed' = Append(printed, v)
         /\ vtapMap' = vtapMap \cup {v}
         /\ heard' = heard \cup {v}
    /\ inbox' = Tail(inbox)
    /\ UNCHANGED <<pc, beacons, foreign>>

\* Ok((n, a)) with a Beacon: print it unless its VTAP ID is in vtap_map.
RecvBeacon ==
    /\ pc = "listen"
    /\ inbox # <<>> /\ Head(inbox) \in Vtaps
    /\ LET v == Head(inbox) IN
         /\ IF v \notin vtapMap
              THEN /\ printed' = Append(printed, v)
                   /\ vtapMap' = vtapMap \cup {v}
              ELSE UNCHANGED <<printed, vtapMap>>
         /\ heard' = heard \cup {v}
    /\ inbox' = Tail(inbox)
    /\ UNCHANGED <<pc, beacons, foreign>>

\* Mutant: an empty datagram is taken as the end of the listing.
RecvEmptyBug ==
    /\ pc = "listen"
    /\ inbox # <<>> /\ Head(inbox) = Empty
    /\ inbox' = Tail(inbox)
    /\ pc' = "ok"
    /\ UNCHANGED <<vtapMap, printed, beacons, foreign, heard>>

\* Ok((0, _)): `continue`.
RecvEmpty ==
    /\ pc = "listen"
    /\ inbox # <<>> /\ Head(inbox) = Empty
    /\ inbox' = Tail(inbox)
    /\ UNCHANGED <<pc, vtapMap, printed, beacons, foreign, heard>>

\* bincode::deserialize(..)? fails: list returns Err and trident-ctl exits.
RecvGarbage ==
    /\ pc = "listen"
    /\ inbox # <<>> /\ Head(inbox) = Garbage
    /\ inbox' = Tail(inbox)
    /\ pc' = "err"
    /\ UNCHANGED <<vtapMap, printed, beacons, foreign, heard>>

\* Err(e) that is not a full-length timeout (an interrupted call, or a
\* WouldBlock before SESSION_TIMEOUT has elapsed): list returns Err.
RecvError ==
    /\ pc = "listen"
    /\ pc' = "err"
    /\ UNCHANGED <<vtapMap, printed, inbox, beacons, foreign, heard>>

List == Bind \/ RecvBeacon \/ RecvEmpty \/ RecvGarbage \/ RecvError

-----------------------------------------------------------------------------
(* Environment: agents broadcast beacons; other senders reach the port.    *)

SendBeacon ==
    /\ beacons < MaxBeacons
    /\ \E v \in Vtaps : inbox' = Append(inbox, v)
    /\ beacons' = beacons + 1
    /\ UNCHANGED <<pc, vtapMap, printed, foreign, heard>>

SendForeign ==
    /\ foreign < MaxForeign
    /\ \E d \in {Empty, Garbage} : inbox' = Append(inbox, d)
    /\ foreign' = foreign + 1
    /\ UNCHANGED <<pc, vtapMap, printed, beacons, heard>>

Next == List \/ SendBeacon \/ SendForeign

Spec == Init /\ [][Next]_vars

-----------------------------------------------------------------------------
(* Properties                                                              *)

TypeOK ==
    /\ pc \in {"init", "listen", "err"}
    /\ vtapMap \subseteq Vtaps /\ heard \subseteq Vtaps
    /\ printed \in Seq(Vtaps)
    /\ inbox \in Seq(Datagrams)
    /\ beacons \in 0..MaxBeacons /\ foreign \in 0..MaxForeign

\* The table lists every agent heard from exactly once, however often its
\* beacon repeats: printed holds no VTAP ID twice, and holds exactly the
\* IDs of the beacons received.
EachVtapOnce ==
    /\ IsInjective(printed)
    /\ ToSet(printed) = heard

=============================================================================
