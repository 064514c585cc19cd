-------------------------- MODULE RelayEnvironment --------------------------
(***************************************************************************)
(* The world one relay lives in: a TCP socket of the kernel, a QUIC stream *)
(* of MsQuic behind its owner TqStreamLifetime, and the handle through     *)
(* which the tunnel starts and stops the relay.  The relay workers of the  *)
(* platforms are modules of their own, written over the variables declared *)
(* here; the properties at the end speak of the world only, so one text is *)
(* checked of every platform.  A scenario says in env.promises which of    *)
(* them the code keeps under it.                                           *)
(*                                                                         *)
(* The state of the world is passed through the operators as one record,   *)
(* and a step is `Becomes(F(Now))' where F is the C++ function.            *)
(*                                                                         *)
(* Data are chunks of one unit: the TCP client sends 1, 2, ..., env.up and *)
(* then its FIN, the QUIC peer sends 1, ..., env.down and then its FIN.    *)
(***************************************************************************)
EXTENDS Integers, Sequences, FiniteSets, SequencesExt

CONSTANT Scenarios  \* the instances a run explores; one is chosen in Init

VARIABLES
    env,      \* the scenario
    tcp,      \* the kernel's TCP socket
    stream,   \* the MsQuic stream and its TqStreamLifetime
    handle,   \* TqRelayHandle, its TqRelayStopControl and the tunnel above it
    relay,    \* RelayState / RelayContext of the platform
    binding,  \* the stream binding: the route target of the stream's callbacks
    views,    \* every receive view created so far, in order of creation
    ops,      \* every send operation created so far, in order of creation
    queue,    \* the worker's event queue
    worker    \* the worker's thread and control state

vars == <<env, tcp, stream, handle, relay, binding, views, ops, queue, worker>>

Now == [t |-> tcp, s |-> stream, h |-> handle, r |-> relay, b |-> binding,
        vs |-> views, os |-> ops, q |-> queue, k |-> worker]

Becomes(m) ==
    /\ tcp' = m.t /\ stream' = m.s /\ handle' = m.h /\ relay' = m.r
    /\ binding' = m.b /\ views' = m.vs /\ ops' = m.os /\ queue' = m.q
    /\ worker' = m.k
    /\ UNCHANGED env

Ids(a, b) == [i \in 1..(b - a + 1) |-> a + i - 1]   \* the chunks a, ..., b

-----------------------------------------------------------------------------
(* The kernel's TCP socket.                                                *)

TcpType ==
    [read : 0..env.up,          \* chunks the relay has read
     eof : BOOLEAN,             \* read() has returned 0
     out : Seq(1..env.down),    \* chunks the kernel has accepted from the relay
     shutWr : BOOLEAN,          \* shutdown(SHUT_WR) was called
     open : BOOLEAN,            \* the descriptor is open
     closes : 0..2,             \* how often it was closed
     reset : BOOLEAN]           \* the peer has reset the connection

TcpInit == [read |-> 0, eof |-> FALSE, out |-> <<>>, shutWr |-> FALSE,
            open |-> TRUE, closes |-> 0, reset |-> FALSE]

CloseFd(t) == [t EXCEPT !.open = FALSE, !.closes = @ + 1]

-----------------------------------------------------------------------------
(* The stream.  Phase, Target and RouteGeneration are TqStreamLifetime's;  *)
(* the other fields are what MsQuic knows.                                 *)

StreamType ==
    [Phase : {"Started", "TerminalPublished"},
     Target : {"tunnel", "binding", "sink", "none"},
     RouteGeneration : 0..3,
     shut : 0..2,               \* send direction: 1 graceful, 2 aborted by us
     recvAborted : BOOLEAN,     \* receive direction aborted by us
     sent : Seq(1..env.up),     \* chunks accepted for sending, in order
     finSent : BOOLEAN,
     flight : Seq(Nat),         \* accepted operations without SEND_COMPLETE
     refused : Nat,             \* sends refused for want of memory so far
     indicated : 0..env.down,   \* chunks indicated by RECEIVE
     finIndicated : BOOLEAN,
     owed : 0..env.down,        \* chunks indicated and not completed
     enabled : BOOLEAN,         \* StreamReceiveSetEnabled
     peerShut : BOOLEAN,        \* PEER_SEND_SHUTDOWN was indicated
     peerAbort : {"none", "send", "receive"},
     lost : BOOLEAN,            \* the connection is gone
     cancelled : BOOLEAN,       \* CANCEL_ON_LOSS was indicated
     sendDone : BOOLEAN,        \* SEND_SHUTDOWN_COMPLETE was indicated
     misuse : SUBSET {"complete", "late"}]

StreamInit ==
    [Phase |-> "Started", Target |-> "tunnel", RouteGeneration |-> 1,
     shut |-> 0, recvAborted |-> FALSE, sent |-> <<>>, finSent |-> FALSE,
     flight |-> <<>>, refused |-> 0, indicated |-> 0, finIndicated |-> FALSE,
     owed |-> 0, enabled |-> TRUE, peerShut |-> FALSE, peerAbort |-> "none",
     lost |-> FALSE, cancelled |-> FALSE, sendDone |-> FALSE, misuse |-> {}]

(* TqStreamLifetime::TryAcquireApi. *)
TryAcquireApi(s) == s.Phase = "Started"

(* TqStreamLifetime::PublishTarget: a new route, if none was published     *)
(* since `expected' was read and the stream has not ended.                 *)
CanPublishTarget(s, expected) ==
    s.Phase = "Started" /\ s.RouteGeneration = expected

PublishTarget(s, target) ==
    [s EXCEPT !.Target = target, !.RouteGeneration = @ + 1]

(* TqStreamLifetime::RequestShutdown. *)
RequestShutdown(s, intent) ==
    IF s.Phase # "Started" THEN s
    ELSE [s EXCEPT
            !.shut = IF intent \in {"AbortSend", "AbortBoth"} THEN 2
                     ELSE IF intent = "GracefulSend" /\ @ = 0 THEN 1 ELSE @,
            !.recvAborted = @ \/ intent \in {"AbortReceive", "AbortBoth"}]

(* TqStreamLifetime::BeginTerminalShutdown: the sink becomes the route, and *)
(* the stream is shut down, once.                                          *)
BeginTerminalShutdown(s, graceful) ==
    IF s.Phase # "Started" \/ s.Target = "sink" THEN s
    ELSE RequestShutdown(PublishTarget(s, "sink"),
                         IF graceful THEN "GracefulSend" ELSE "AbortBoth")

(* TqStreamLifetime::PublishTerminalAndTakeTarget. *)
PublishTerminal(s) == [s EXCEPT !.Phase = "TerminalPublished", !.Target = "none"]

(* MsQuic's StreamSend: it accepts the operation, or refuses it for want   *)
(* of memory.  After an abort or a loss it is accepted and completes as    *)
(* cancelled, and nothing reaches the peer.                                *)
SendAccepted(s, id, data, fin) ==
    LET live == s.shut < 2 /\ ~s.lost /\ s.peerAbort # "receive" IN
    [s EXCEPT !.flight = Append(@, id),
              !.sent = IF live THEN @ \o data ELSE @,
              !.finSent = @ \/ (fin /\ live)]

SendRefused(s) == [s EXCEPT !.refused = @ + 1]

MayRefuse(s) == s.refused < env.refuse

(* MsQuic's StreamReceiveComplete of n chunks.                             *)
ReceiveComplete(s, n) ==
    [s EXCEPT !.owed = IF n > @ THEN 0 ELSE @ - n,
              !.misuse = @ \cup (IF n > s.owed THEN {"complete"} ELSE {})
                           \cup (IF s.Phase # "Started" THEN {"late"} ELSE {})]

(* What MsQuic may indicate next, on its own thread.  RECEIVE: n more      *)
(* chunks, with the FIN or without; several may be outstanding because the *)
(* sessions set StreamMultiReceiveEnabled.                                 *)
Open(s) == s.Phase = "Started" /\ ~s.lost

CanIndicate(s, n, fin) ==
    /\ Open(s) /\ s.enabled /\ ~s.recvAborted /\ ~s.finIndicated
    /\ s.peerAbort # "send"
    /\ s.indicated + n <= env.down
    /\ fin => s.indicated + n = env.down
    /\ n = 0 => fin

Indicated(s, n, fin) ==
    [s EXCEPT !.indicated = @ + n, !.finIndicated = fin, !.owed = @ + n]

(* RECEIVE answered with success: the bytes are consumed.                  *)
Consumed(s, n, fin) == [s EXCEPT !.indicated = @ + n, !.finIndicated = fin]

CanPeerSendShutdown(s) ==
    Open(s) /\ s.finIndicated /\ s.owed = 0 /\ ~s.peerShut /\ ~s.recvAborted

(* SEND_COMPLETE comes in the order of the sends. *)
CanSendComplete(s) == s.Phase = "Started" /\ s.flight # <<>>
SendCanceled(s) == s.shut = 2 \/ s.lost \/ s.peerAbort = "receive"

CanSendShutdownComplete(s) ==
    /\ s.Phase = "Started" /\ ~s.sendDone /\ s.flight = <<>>
    /\ s.finSent \/ s.shut > 0 \/ s.lost \/ s.peerAbort = "receive"

CanShutdownComplete(s) ==
    /\ s.Phase = "Started" /\ s.sendDone /\ s.flight = <<>>
    /\ s.lost \/ s.recvAborted \/ s.peerShut \/ s.peerAbort = "send"

-----------------------------------------------------------------------------
(* TqRelayHandle and TqRelayStopControl.                                   *)

(* "Undoing": TqRelayStart found the stop flag set and unregisters again.  *)
HandleType ==
    [Backend : {"None", "Starting", "Worker", "Undoing", "Failed", "Stopping", "Stopped"},
     stop : BOOLEAN,            \* TqRelayStopControl::Stop
     handoff : SUBSET {"local", "terminal"},   \* TqTerminalHandoffControl
     active : 0..1,             \* this relay's share of the active-relay count
     fdOwner : {"tunnel", "relay"}]

HandleInit ==
    [Backend |-> "None", stop |-> FALSE, handoff |-> {}, active |-> 0,
     fdOwner |-> "tunnel"]

(* TqTerminalReleaseReady: "local" stands for DataPlaneStopped and         *)
(* LocalOperationOwnershipTransferredOrDrained, which are set together.    *)
TerminalReleaseReady(h) == h.handoff = {"local", "terminal"}

SignalStop(h) == [h EXCEPT !.stop = TRUE]

-----------------------------------------------------------------------------
(* The network.  CANCEL_ON_LOSS: the owner aborts both directions, and the *)
(* relay's target only answers with an error code.                         *)

TcpReset ==
    /\ env.fault = "tcpReset" /\ tcp.open /\ ~tcp.reset
    /\ Becomes([Now EXCEPT !.t.reset = TRUE])

ConnectionLost ==
    /\ env.fault = "connectionLost" /\ Open(stream)
    /\ Becomes([Now EXCEPT !.s.lost = TRUE])

CancelOnLoss ==
    /\ env.fault = "cancelOnLoss" /\ Open(stream) /\ ~stream.cancelled
    /\ Becomes([Now EXCEPT !.s = [RequestShutdown(@, "AbortBoth") EXCEPT !.cancelled = TRUE]])

-----------------------------------------------------------------------------
(* Properties.                                                             *)

(* The world stays within its types: a descriptor is closed at most twice, *)
(* a route is published at most twice (PublishTarget, BeginTerminalShutdown). *)
TypeOK == tcp \in TcpType /\ stream \in StreamType /\ handle \in HandleType

(* StreamReceiveComplete is never called for more than MsQuic has          *)
(* indicated and the relay has left pending, and never once SHUTDOWN_      *)
(* COMPLETE was indicated: every RECEIVE is completed once, by whichever   *)
(* of the worker, the callback and the teardown gets to it.                *)
ReceiveDiscipline == stream.misuse = {}

(* The descriptor passes from the tunnel to the relay or stays, and        *)
(* whoever holds it at the end closes it: never both (tcpFdConsumed).      *)
FdClosedOnce == "fd" \in env.promises => tcp.closes <= 1

(* What the TCP client and the QUIC peer see is a behaviour of RelaySpec.  *)
Ordered == "order" \in env.promises

R == INSTANCE RelaySpec WITH
       total <- [up |-> env.up, down |-> env.down],
       up <- IF Ordered THEN stream.sent ELSE <<>>,
       upFin <- Ordered /\ stream.finSent,
       down <- IF Ordered THEN tcp.out ELSE <<>>,
       downFin <- Ordered /\ tcp.shutWr,
       over <- ~tcp.open


(* The relay is over: started in vain or stopped, and its socket closed.   *)
Ended == handle.Backend \in {"Stopped", "Failed"} /\ ~tcp.open


(* Whatever befalls the relay, once it was started it comes to its end:    *)
(* the tunnel is told and the socket closed.                               *)
Ends == ("ends" \in env.promises /\ handle.Backend = "Starting") ~> Ended
=============================================================================
