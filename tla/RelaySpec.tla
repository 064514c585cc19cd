----------------------------- MODULE RelaySpec -----------------------------
(***************************************************************************)
(* What a relay promises, whatever the platform: it carries the chunks of  *)
(* the TCP client to the QUIC peer and those of the QUIC peer to the TCP   *)
(* client, each direction in order and without gap or repetition; it ends  *)
(* a direction only after its last chunk; and once it has let go of the    *)
(* socket it writes nothing more to it.                                    *)
(***************************************************************************)
EXTENDS Integers, Sequences

VARIABLES
    total,    \* chunks each direction has in all: [up, down]
    up,       \* chunks handed to the QUIC stream
    upFin,    \* the FIN was handed to the QUIC stream
    down,     \* chunks handed to the TCP socket
    downFin,  \* the TCP socket was shut down for writing
    over      \* the relay has let go of the TCP socket

specVars == <<total, up, upFin, down, downFin, over>>

FirstChunks(n) == [i \in 1..n |-> i]

RInit ==
    /\ total \in [up : Nat, down : Nat]
    /\ up = <<>> /\ upFin = FALSE /\ down = <<>> /\ downFin = FALSE /\ over = FALSE

(* One direction: further chunks, and after the last of them the FIN.      *)
Carry(n, out, fin, out2, fin2) ==
    /\ \E k \in Len(out)..n : out2 = FirstChunks(k)
    /\ fin2 \in BOOLEAN
    /\ fin => fin2 /\ out2 = out
    /\ fin2 => out2 = FirstChunks(n)

Up == Carry(total.up, up, upFin, up', upFin')

Down == Carry(total.down, down, downFin, down', downFin')

(* The socket's side stands still once the relay is over. *)
LetGo ==
    /\ over' \in BOOLEAN
    /\ over => over' /\ down' = down /\ downFin' = downFin

RNext == Up /\ Down /\ LetGo /\ total' = total

RSpec == RInit /\ [][RNext]_specVars
=============================================================================
