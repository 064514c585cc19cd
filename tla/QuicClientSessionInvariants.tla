-------------------- MODULE QuicClientSessionInvariants --------------------
(***************************************************************************)
(* The parts of the inductive invariants of QuicClientSession that several  *)
(* of its proofs share.                                                     *)
(***************************************************************************)
EXTENDS QuicClientSession, Integers

\* The part of TypeOK that is inductive by itself: it leaves the sign of calls
\* open, which takes a count of the calls made (CallsCounted).
Typed ==
    /\ slots \in [Slots -> SlotRecord]
    /\ count \in 0 .. MaxSlots
    /\ conns \in [Conns -> ConnRecord]
    /\ tasks \subseteq Ticket
    /\ thr \in [Threads -> Frame]
    /\ nextToken \in 1 .. MaxToken
    /\ nextClaim \in 1 .. MaxClaim
    /\ nextNum \in Nat

(* What a thread's frame says of the operation it is in: StartSlot runs on *)
(* behalf of an operation that names a slot, and the key of a deferred      *)
(* terminal operation is no retry.                                          *)
StartOps == {"Start", "Reconnect", "Retry"}
StartLabels == {"enter", "claim", "build", "publish", "start", "check", "sched",
                "submit", "submitted", "release", "unclaim", "return"}
FrameOK(f) ==
    /\ f.op \in StartOps => f.idx \in Slots
    /\ f.pc \in StartLabels => f.op \in StartOps
    /\ f.pc \in {"shutold", "push"} => f.op \in StartOps \cup {"Remove"}
    /\ f.pc = "defer" => f.ticket.token = 0
FramesOK == \A t \in Threads : FrameOK(thr[t])

\* A live session runs until Stop has drained its calls; a retry's StartSlot is
\* for the ticket's slot; no callback runs on a connection that is not there.
GateInv == (gate => Running) /\ (At("caller", "drain") => ~gate)
RetryIdx ==
    \A t \in Threads :
        thr[t].op = "Retry" /\ thr[t].pc \in {"enter", "claim"}
            => thr[t].idx = thr[t].ticket.slot
ConnInv == \A c \in Conns : conns[c].phase = "none" => conns[c].cb = "idle"
=============================================================================
