-------------------------- MODULE MCStreamLifetime --------------------------
EXTENDS ServerIncomingStream

k1 == "k1"
k2 == "k2"
t1 == "t1"
t2 == "t2"

MCKeys == {k1, k2}
MCThreads == {t1, t2}

Quiet(role) == [role |-> role, keys |-> {k1}, threads |-> {}, intents |-> {},
                events |-> {}, relay |-> FALSE, receives |-> 0, failures |-> 0]

\* Two sends of a client that opens its stream.
Sending == [Quiet("client") EXCEPT !.keys = MCKeys, !.events = {"RECEIVE"},
                                   !.receives = 1]

\* Two threads and a CANCEL_ON_LOSS ask for every kind of shutdown.
Closing == [Quiet("server") EXCEPT !.keys = {}, !.threads = MCThreads,
              !.intents = DOMAIN Intents, !.failures = 1,
              !.events = {"CANCEL_ON_LOSS"}]

\* The send direction ends while a send and a shutdown are made.
SendEnds == [Quiet("client") EXCEPT !.threads = {t1}, !.intents = DOMAIN Intents,
               !.events = {"SEND_SHUTDOWN_COMPLETE"}]

\* A relay takes the route over, ends and retires.
Relaying == [Quiet("client") EXCEPT !.relay = TRUE, !.failures = 1,
               !.events = {"RECEIVE", "BUFFERED"}, !.receives = 1]

\* A send begun under one route completes under another.
Rerouting == [Quiet("client") EXCEPT !.keys = MCKeys, !.relay = TRUE]

\* The server reads commands, with a thread that aborts.
Serving == [Quiet("server") EXCEPT !.keys = MCKeys, !.receives = 2,
              !.events = {"RECEIVE", "PEER_SEND_ABORTED"}]

\* The server's tunnel has a relay.
ServerRelaying == [Quiet("server") EXCEPT !.relay = TRUE, !.receives = 2,
                     !.events = {"RECEIVE", "BUFFERED"}]

MCScenarios == {Sending, Closing, SendEnds, Rerouting, Relaying, Serving, ServerRelaying}
=============================================================================
