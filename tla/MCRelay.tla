------------------------------ MODULE MCRelay ------------------------------
(***************************************************************************)
(* The relay workers of the four backends for TLC: a scenario names its    *)
(* platform, the data, what is disturbed, and how large the worker's       *)
(* bounds are.                                                             *)
(***************************************************************************)
EXTENDS RelayEnvironment

D == INSTANCE DarwinRelayWorker
L == INSTANCE LinuxRelayWorker
W == INSTANCE WindowsRelayWorker
U == INSTANCE LibuvRelayWorker

On(p) == env.platform = p

Init ==
    /\ env \in Scenarios
    /\ \/ On("darwin") /\ D!Init
       \/ On("linux") /\ L!Init
       \/ On("windows") /\ W!Init
       \/ On("libuv") /\ U!Init

Next ==
    \/ On("darwin") /\ D!WorkerStep
    \/ On("darwin") /\ D!CallbackStep
    \/ On("darwin") /\ (D!CallerStep \/ D!StopStep \/ D!SnapshotStep \/ D!NetworkStep)
    \/ On("linux") /\ L!WorkerStep
    \/ On("linux") /\ L!CallbackStep
    \/ On("linux") /\ (L!CallerStep \/ L!CommandTimesOut \/ L!StopStep
                        \/ L!SnapshotStep \/ L!NetworkStep)
    \/ On("windows") /\ W!WorkerStep
    \/ On("windows") /\ (W!CallbackStep \/ W!KernelStep)
    \/ On("windows") /\ (W!CallerStep \/ W!StopStep \/ W!SnapshotStep \/ W!NetworkStep)
    \/ On("libuv") /\ U!WakeStep
    \/ On("libuv") /\ (U!HandleWake \/ U!OnTcpRead \/ U!TcpTakes \/ U!OnTcpWritten
                        \/ U!OnTcpShutdownComplete \/ U!OnTcpClosed)
    \/ On("libuv") /\ U!CallbackStep
    \/ On("libuv") /\ (U!CallerStep \/ U!CommandTimesOut \/ U!StopAndJoin \/ U!NetworkStep)

(* Fairness.  What is a thread in one backend has its counterpart in the   *)
(* others.  MsQuic's events other than RECEIVE come finitely often, as do  *)
(* the calls of the tunnel, so each group is one condition.                *)
For(d, l, w, u) ==
    CASE On("darwin") -> d [] On("linux") -> l [] On("windows") -> w [] On("libuv") -> u

(* The threads of MsQuic, of the tunnel and of the runtime go on. *)
OthersGoOn ==
    /\ []<>~For(D!CanReceive, L!CanReceive, W!CanReceive, U!CanReceive)
       \/ []<><<For(D!Receive, L!ReceiveBegins, W!ReceiveBegins, U!ReceiveBegins)>>_vars
    /\ []<>For(TRUE, L!Serial, W!Serial, U!Serial)
       \/ []<><<For(FALSE, L!ReceiveQueues \/ L!ReceivePauses, W!ReceiveQueues \/ W!ReceivePauses,
                    U!ReceivePosts \/ U!ShutdownObserved)>>_vars
    /\ []<>~For(D!CanNotice, L!CanNotice, W!CanNotice, U!CanNotice)
       \/ []<><<For(D!NoticeStep, L!NoticeStep, W!NoticeStep, U!NoticeStep)>>_vars
    /\ []<>~For(D!CanCall, L!CanCall, W!CanCall, U!CanCall)
       \/ []<><<For(D!CallerStep, L!CallerStep, W!CallerStep, U!CallerStep)>>_vars
    /\ []<>~For(D!CanStop, L!CanStop, W!CanStop, FALSE)
       \/ []<><<For(D!StopStep, L!StopStep, W!StopPoll \/ W!StopFinishes, FALSE)>>_vars

(* The worker's thread goes on, and serves its queue and its socket.  A    *)
(* turn of epoll_wait or uv_run serves every ready descriptor, however     *)
(* often the worker is busy with something else meanwhile.                 *)
WorkerGoesOn ==
    /\ []<>(worker.pc = "idle")
       \/ []<><<For(D!MidStep, L!MidStep, W!MidStep, U!WakeStep)>>_vars
    /\ []<>~For(D!AtLoop /\ worker.wake /\ queue # <<>>, L!CanDrain, W!Running /\ queue # <<>>, FALSE)
       \/ []<><<For(D!DrainEvents, L!DrainFallbacks, W!Dequeue, FALSE)>>_vars
    /\ []<>~(On("darwin") /\ D!AtLoop /\ worker.wake /\ queue = <<>>)
       \/ []<><<On("darwin") /\ D!FinishDrainEvents>>_vars
    /\ <>[]~For(FALSE, worker.pc = "drain" /\ queue # <<>>, FALSE, U!LoopIdle /\ U!ToDo)
       \/ []<><<For(FALSE, L!DrainEvents, FALSE, U!HandleWake)>>_vars
    /\ []<>~For(D!CanRead, FALSE, relay.receiving, FALSE)
       \/ []<><<For(D!DrainTcpReadable, FALSE, W!TcpRecvCompletes, FALSE)>>_vars
    /\ []<>~For(D!CanWrite, FALSE, relay.sending # <<>>, FALSE)
       \/ []<><<For(D!WriteReady, FALSE, W!TcpSendCompletes, FALSE)>>_vars
    /\ <>[]~For(FALSE, L!CanRead, FALSE, U!CanRead)
       \/ []<><<For(FALSE, L!DrainTcpReadable, FALSE, U!OnTcpRead)>>_vars
    /\ <>[]~For(FALSE, L!CanWrite, FALSE, U!CanWrite)
       \/ []<><<For(FALSE, L!WriteReady, FALSE, U!OnTcpWritten)>>_vars
    /\ <>[]~(On("libuv") /\ U!CanFinish)
       \/ []<><<On("libuv") /\ (U!OnTcpShutdownComplete \/ U!OnTcpClosed)>>_vars

Fairness == OthersGoOn /\ WorkerGoesOn

Spec == Init /\ [][Next]_vars
FairSpec == Spec /\ Fairness

(* The accounts of the worker are exact: its ledgers of outstanding sends   *)
(* and of bytes received and not yet written, by which it pauses and       *)
(* resumes both sides, agree with the operations and views it holds, and   *)
(* no operation MsQuic still has in flight was deleted (State, Ownership). *)
AccountsExact ==
    /\ For(D!LedgersExact, L!LedgersExact, W!LedgersExact, U!LedgersExact)
    /\ For(D!FlightOwned, L!FlightOwned, W!FlightOwned, U!FlightOwned)

-----------------------------------------------------------------------------
(* The scenarios.  One chunk in one direction, with the FINs of both, is   *)
(* enough for every event to meet every other; two chunks in both let      *)
(* chunks overtake each other.                                             *)

Platforms == {"darwin", "linux", "windows", "libuv"}

Base(platform) ==
    [platform |-> platform, up |-> 1, down |-> 1, fault |-> "none", control |-> "none",
     refuse |-> 0, sends |-> 2, queue |-> 6, recv |-> 2, buffers |-> 4, batch |-> 2,
     compress |-> FALSE, early |-> FALSE, finAlone |-> FALSE,
     promises |-> {"fd", "order", "graceful", "ends"}]

Data(s, up, down) == [s EXCEPT !.up = up, !.down = down]
Half(s, up) == [Data(s, up, 1 - up) EXCEPT !.finAlone = (up = 1)]
Keeps(s, promises) == [s EXCEPT !.promises = {"fd"} \cup promises]
Fault(p, f) == Keeps([Base(p) EXCEPT !.fault = f], {"order", "ends"})
Control(p, c) == Keeps([Base(p) EXCEPT !.control = c], {"order", "ends"})

(* Nothing goes wrong. *)
Calm ==
    {Base(p) : p \in Platforms} \cup {Data(Base(p), 2, 2) : p \in {"linux", "libuv"}}

(* The network or the memory fails.  A stream that is lost may take        *)
(* received data with it, and a Windows relay whose peer aborts no longer  *)
(* waits for its queue.                                                    *)
Faults ==
    {Half(Fault(p, f), up) : p \in {"linux", "libuv"}, up \in 0..1,
        f \in {"tcpReset", "peerAbortsSend", "peerAbortsReceive"}}
    \cup {Half(Fault("darwin", "peerAbortsSend"), up) : up \in 0..1}
    \cup {Half(Fault("darwin", "peerAbortsReceive"), 0)}
    \cup {Half(Fault("windows", "tcpReset"), up) : up \in 0..1}
    \cup {Half(Keeps(Fault("windows", f), {"ends"}), 1)
            : f \in {"peerAbortsSend", "peerAbortsReceive"}}
    \cup {Half(Keeps(Fault(p, "connectionLost"), {"ends"}), up) : p \in Platforms, up \in 0..1}
    \cup {Half(Keeps(Fault(p, "cancelOnLoss"), {"ends"}), 1) : p \in Platforms}
    \cup {Half(Fault(p, "allocFails"), 0) : p \in Platforms \ {"libuv"}}
    \cup {Half(Keeps(Fault("darwin", "tcpReset"), {"order"}), up) : up \in 0..1}
    \cup {Half(Keeps(Fault("libuv", "allocFails"), {"order"}), 0)}

(* The tunnel or the runtime intervenes.  A Linux registration whose       *)
(* caller no longer waits leaves the descriptor with both.                 *)
Controls ==
    {Half(Control(p, "unregister"), 1) : p \in {"darwin", "linux", "libuv"}}
    \cup {Half(Keeps(Control("windows", "unregister"), {"ends"}), 1)}
    \cup {Half(Control(p, "filterFails"), 1) : p \in Platforms}
    \cup {Half(Control(p, "idealSendBuffer"), 1) : p \in {"linux", "windows"}}
    \cup {Control("libuv", "commandTimeout")}
    \cup {Half(Control(p, "stop"), 1) : p \in {"darwin", "linux"}}
    \cup {Half(Keeps(Control(p, "stop"), {"order"}), 1) : p \in {"windows", "libuv"}}
    \cup {Data(Keeps(Control(p, "snapshot"), {}), 0, 0)
            : p \in {"darwin", "linux", "windows"}}
    \cup {[Half(Control("linux", "commandTimeout"), 1) EXCEPT !.promises = {}]}

(* The bounds bite, the data are compressed, MsQuic refuses a send or is   *)
(* faster than the start: what the code promises is then less.             *)
Limits ==
    {Keeps([Base(p) EXCEPT !.queue = 2], {}) : p \in Platforms}
    \cup {Keeps([Data(Base(p), 2, 2) EXCEPT !.sends = 1, !.recv = 1, !.buffers = 1, !.batch = 1], {})
            : p \in Platforms}
    \cup {Keeps([Data(Base(p), 2 * up, 2 - 2 * up) EXCEPT !.compress = TRUE], {})
            : p \in Platforms, up \in 0..1}
    \cup {Keeps([Data(Base(p), 1, 0) EXCEPT !.refuse = 1], {}) : p \in Platforms}
    \cup {Keeps([Base("windows") EXCEPT !.early = TRUE], {}),
          Keeps([Base("libuv") EXCEPT !.finAlone = TRUE], {})}

AllScenarios == Calm \cup Faults \cup Controls \cup Limits

(* The behaviours that are followed to their end. *)
FollowedScenarios ==
    {s \in Calm \cup Faults \cup Controls :
       /\ "ends" \in s.promises /\ s.control # "stop"
       /\ s.fault \notin {"peerAbortsReceive", "cancelOnLoss"}
       /\ s.fault \in {"none", "allocFails"} \/ s.up = 1}
=============================================================================
