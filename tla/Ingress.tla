------------------------------ MODULE Ingress ------------------------------
(***************************************************************************)
(* The listeners of src/dns/server.rs: what admits a client, and how many  *)
(* queries may be in hand, from a datagram or a pipelined connection to    *)
(* its answer.  What the rate limiter decides is left open here: it is     *)
(* modelled in RateLimiter.                                                *)
(*                                                                         *)
(* A connection has a reader, the query tasks it spawned and a writer, and *)
(* is over when the writer is.  Queries of one connection are told apart   *)
(* only by where they are, so they are counted.                            *)
(***************************************************************************)
EXTENDS Naturals, FiniteSets

CONSTANTS
    Clients,        \* client addresses
    Conns,          \* connections (bounds how many are served at a time)
    allow, deny,    \* the networks of the access lists, each a set of addresses
    normalise,      \* normalise[c]: the address c's is compared as
    max_inflight,   \* permits of `inflight`, shared by every query
    max_connections, max_connections_per_client, max_pipelined_queries,
    MapLimit,       \* entries of `per_client` past which idle ones are dropped
    NoClient        \* a connection that is not open

ASSUME IngressAssumption ==
    /\ IsFiniteSet(Clients) /\ IsFiniteSet(Conns)
    /\ NoClient \notin Clients
    /\ max_inflight \in Nat \ {0}
    /\ max_connections \in Nat
    /\ max_connections_per_client \in Nat
    /\ max_pipelined_queries \in Nat \ {0}

VARIABLES
    inflight,   \* free permits of `inflight`
    udp,        \* udp[c]: [spawned, resolving]: datagrams of c being handled
    peer,       \* peer[k]: whose connection k is
    conn,       \* conn[k]: the state of the connection's tasks
    mapped,     \* the clients `per_client` has a counter for
    counter,    \* counter[c]: that counter
    orphan,     \* connections holding a counter that `per_client` no longer has
    cancelled   \* the shutdown signal

ingressVars == <<inflight, udp, peer, conn, mapped, counter, orphan, cancelled>>

\* cut: some response met a writer that had gone, and was not written.
Connection ==
    [reader : {"reading", "waiting", "done"}, writer : {"recv", "writing", "broken", "done"},
     spawned : Nat, resolving : Nat, sending : Nat, queued : Nat, cut : BOOLEAN]

NewConnection ==
    [reader |-> "reading", writer |-> "recv", spawned |-> 0, resolving |-> 0, sending |-> 0,
     queued |-> 0, cut |-> FALSE]

IngressInit ==
    /\ inflight = max_inflight
    /\ udp = [c \in Clients |-> [spawned |-> 0, resolving |-> 0]]
    /\ peer = [k \in Conns |-> NoClient]
    /\ conn = [k \in Conns |-> NewConnection]
    /\ mapped = {}
    /\ counter = [c \in Clients |-> 0]
    /\ orphan = {}
    /\ cancelled = FALSE

Open == {k \in Conns : peer[k] # NoClient}
\* Permits of a connection's own semaphore that its queries hold.
Pipelined(k) == conn[k].spawned + conn[k].resolving + conn[k].sending
OpenOf(c) == {k \in Open : peer[k] = c}

-----------------------------------------------------------------------------
\* `Acl::evaluate`: a deny entry wins, and a client no entry matches is not allowed.
Evaluate(c) ==
    IF \E n \in deny : normalise[c] \in n THEN "Denied"
    ELSE IF \E n \in allow : normalise[c] \in n THEN "Allow"
    ELSE "NotAllowed"

\* `admit`: the access lists, and then the rate limiter, which may turn any client away.
Admit(c, admitted) == admitted => Evaluate(c) = "Allow"

-----------------------------------------------------------------------------
\* `serve_udp`: a datagram for which no permit is free is dropped; otherwise a task is
\* spawned that holds the permit.
ReceiveDatagram(c) ==
    /\ ~cancelled
    /\ inflight > 0
    /\ inflight' = inflight - 1
    /\ udp' = [udp EXCEPT ![c].spawned = @ + 1]
    /\ UNCHANGED <<peer, conn, mapped, counter, orphan, cancelled>>

\* The task's client is not admitted: it answers REFUSED or nothing, and ends.
TurnAwayDatagram(c) ==
    /\ udp[c].spawned > 0
    /\ Admit(c, FALSE)
    /\ udp' = [udp EXCEPT ![c].spawned = @ - 1]
    /\ inflight' = inflight + 1
    /\ UNCHANGED <<peer, conn, mapped, counter, orphan, cancelled>>

ResolveDatagram(c) ==
    /\ udp[c].spawned > 0
    /\ Admit(c, TRUE)
    /\ udp' = [udp EXCEPT ![c] = [spawned |-> @.spawned - 1, resolving |-> @.resolving + 1]]
    /\ UNCHANGED <<inflight, peer, conn, mapped, counter, orphan, cancelled>>

\* `respond` has returned: what it made is sent, and the task ends.
AnswerDatagram(c) ==
    /\ udp[c].resolving > 0
    /\ udp' = [udp EXCEPT ![c].resolving = @ - 1]
    /\ inflight' = inflight + 1
    /\ UNCHANGED <<peer, conn, mapped, counter, orphan, cancelled>>

-----------------------------------------------------------------------------
\* Mutant: every counter is dropped when the map is full, the busy ones too.
KeptClientsNone == IF Cardinality(mapped) > MapLimit THEN {} ELSE mapped

\* The clients whose counter survives: a full map loses those with no connection.
KeptClients ==
    IF Cardinality(mapped) > MapLimit THEN {c \in mapped : counter[c] > 0} ELSE mapped

\* `serve_tcp`: a connection needs a permit, then to be admitted, then a counter below the
\* limit; one that is turned away gives its permit back at once.
Accept(c, k, admitted) ==
    LET kept == KeptClients
        count == IF c \in kept THEN counter[c] ELSE 0
    IN  /\ ~cancelled
        /\ k \notin Open /\ Pipelined(k) = 0
        /\ Cardinality(Open) < max_connections
        /\ Admit(c, admitted)
        /\ IF ~admitted
           THEN UNCHANGED <<peer, conn, mapped, counter, orphan>>
           ELSE /\ mapped' = kept \union {c}
                /\ LET taken == count < max_connections_per_client
                   IN  /\ counter' = [counter EXCEPT ![c] = IF taken THEN count + 1 ELSE count]
                       /\ orphan' = orphan \union {j \in Open : peer[j] \notin kept}
                       /\ peer' = IF taken THEN [peer EXCEPT ![k] = c] ELSE peer
                       /\ conn' = IF taken THEN [conn EXCEPT ![k] = NewConnection] ELSE conn
        /\ UNCHANGED <<inflight, udp, cancelled>>

OnConn(k) == UNCHANGED <<udp, peer, mapped, counter, orphan, cancelled>>

\* A whole message has been read.  Past the pipelining depth the reader stops for a permit.
ReadQuery(k) ==
    /\ k \in Open
    /\ conn[k].reader = "reading"
    /\ conn' = IF Pipelined(k) < max_pipelined_queries
               THEN [conn EXCEPT ![k].spawned = @ + 1]
               ELSE [conn EXCEPT ![k].reader = "waiting"]
    /\ UNCHANGED inflight
    /\ OnConn(k)

ResumeReading(k) ==
    /\ conn[k].reader = "waiting"
    /\ Pipelined(k) < max_pipelined_queries
    /\ conn' = [conn EXCEPT ![k].reader = "reading", ![k].spawned = @ + 1]
    /\ UNCHANGED inflight
    /\ OnConn(k)

\* Shutdown, the connection's lifetime, the idle timeout, a read error, or a length that is
\* zero or too long.  A reader waiting for a permit watches for none of them.
StopReading(k) ==
    /\ k \in Open
    /\ conn[k].reader = "reading"
    /\ conn' = [conn EXCEPT ![k].reader = "done"]
    /\ UNCHANGED inflight
    /\ OnConn(k)

-----------------------------------------------------------------------------
\* `spawn_tcp_query`: the task takes a permit of `inflight`, or ends without a response.
StartQuery(k) ==
    /\ conn[k].spawned > 0
    /\ IF inflight > 0
       THEN /\ inflight' = inflight - 1
            /\ conn' = [conn EXCEPT ![k].spawned = @ - 1, ![k].resolving = @ + 1]
       ELSE /\ inflight' = inflight
            /\ conn' = [conn EXCEPT ![k].spawned = @ - 1]
    /\ OnConn(k)

\* `respond` returns a response, which is then sent with both permits still held.
Responded(k) ==
    /\ conn[k].resolving > 0
    /\ conn' = [conn EXCEPT ![k].resolving = @ - 1, ![k].sending = @ + 1]
    /\ UNCHANGED inflight
    /\ OnConn(k)

\* `respond` returns nothing: the message was malformed, or a response.
Unanswerable(k) ==
    /\ conn[k].resolving > 0
    /\ conn' = [conn EXCEPT ![k].resolving = @ - 1]
    /\ inflight' = inflight + 1
    /\ OnConn(k)

WriterGone(k) == conn[k].writer \in {"broken", "done"}

\* Mutant: a send to a writer that has gone waits for room that never comes.
SendWaitsForRoom(k) ==
    /\ conn[k].sending > 0
    /\ ~WriterGone(k)
    /\ conn[k].queued < max_pipelined_queries
    /\ conn' = [conn EXCEPT ![k].sending = @ - 1, ![k].queued = @ + 1]
    /\ inflight' = inflight + 1
    /\ OnConn(k)

\* `tx.send`: waits for room in the channel, and fails once the writer has gone.
SendReply(k) ==
    /\ conn[k].sending > 0
    /\ WriterGone(k) \/ conn[k].queued < max_pipelined_queries
    /\ conn' = IF WriterGone(k)
               THEN [conn EXCEPT ![k].sending = @ - 1, ![k].cut = TRUE]
               ELSE [conn EXCEPT ![k].sending = @ - 1, ![k].queued = @ + 1]
    /\ inflight' = inflight + 1
    /\ OnConn(k)

-----------------------------------------------------------------------------
TakePayload(k) ==
    /\ k \in Open
    /\ conn[k].writer = "recv"
    /\ conn[k].queued > 0
    /\ conn' = [conn EXCEPT ![k].writer = "writing", ![k].queued = @ - 1]
    /\ UNCHANGED inflight
    /\ OnConn(k)

\* The client has taken the bytes.  Nothing bounds how long it may leave them.
WritePayload(k) ==
    /\ conn[k].writer = "writing"
    /\ conn' = [conn EXCEPT ![k].writer = "recv"]
    /\ UNCHANGED inflight
    /\ OnConn(k)

\* A write fails: the writer ends, and with it what the channel still held.
WriteFails(k) ==
    /\ conn[k].writer = "writing"
    /\ conn' = [conn EXCEPT ![k].writer = "broken", ![k].queued = 0, ![k].cut = TRUE]
    /\ UNCHANGED inflight
    /\ OnConn(k)

\* Mutant: the writer ends with its reader, whatever is still being resolved.
WriterEndsEarly(k) ==
    /\ k \in Open
    /\ conn[k].writer = "recv"
    /\ conn[k].queued = 0
    /\ conn[k].reader = "done"
    /\ conn' = [conn EXCEPT ![k].writer = "done"]
    /\ UNCHANGED inflight
    /\ OnConn(k)

\* The channel is empty and its last sender dropped: the reader's and every query's.
WriterEnds(k) ==
    /\ k \in Open
    /\ conn[k].writer = "recv"
    /\ conn[k].queued = 0
    /\ conn[k].reader = "done"
    /\ Pipelined(k) = 0
    /\ conn' = [conn EXCEPT ![k].writer = "done"]
    /\ UNCHANGED inflight
    /\ OnConn(k)

\* The reader has ended and its writer with it: the counter goes down and the connection's
\* permit is free.  Queries of a broken connection may still be running, and keep theirs.
Close(k) ==
    /\ k \in Open
    /\ conn[k].reader = "done"
    /\ WriterGone(k)
    /\ peer' = [peer EXCEPT ![k] = NoClient]
    /\ counter' = IF k \in orphan THEN counter ELSE [counter EXCEPT ![peer[k]] = @ - 1]
    /\ orphan' = orphan \ {k}
    /\ conn' = IF Pipelined(k) = 0 THEN [conn EXCEPT ![k] = NewConnection] ELSE conn
    /\ UNCHANGED <<inflight, udp, mapped, cancelled>>

CancelServing ==
    /\ ~cancelled
    /\ cancelled' = TRUE
    /\ UNCHANGED <<inflight, udp, peer, conn, mapped, counter, orphan>>

ConnStep(k) ==
    \/ ReadQuery(k) \/ ResumeReading(k) \/ StopReading(k)
    \/ StartQuery(k) \/ Responded(k) \/ Unanswerable(k) \/ SendReply(k)
    \/ TakePayload(k) \/ WritePayload(k) \/ WriteFails(k) \/ WriterEnds(k) \/ Close(k)

DatagramStep(c) == TurnAwayDatagram(c) \/ ResolveDatagram(c) \/ AnswerDatagram(c)

IngressNext ==
    \/ \E c \in Clients : ReceiveDatagram(c) \/ DatagramStep(c)
    \/ \E c \in Clients, k \in Conns, admitted \in BOOLEAN : Accept(c, k, admitted)
    \/ \E k \in Conns : ConnStep(k)
    \/ CancelServing

IngressSpec == IngressInit /\ [][IngressNext]_ingressVars

\* Every task is scheduled, and what it waits for ends: a resolution by its foreground
\* budget, reading by the connection's lifetime, which is looked at before each message
\* and so ends a reader that keeps coming back to it.  A write owes nothing: server.rs sets
\* no deadline on it, and a client may leave its bytes for as long as it likes.
IngressFairness ==
    /\ \A c \in Clients : WF_ingressVars(DatagramStep(c))
    /\ \A k \in Conns :
        /\ WF_ingressVars(ResumeReading(k))
        /\ SF_ingressVars(StopReading(k))
        /\ WF_ingressVars(StartQuery(k))
        /\ WF_ingressVars(Responded(k) \/ Unanswerable(k))
        /\ WF_ingressVars(SendReply(k))
        /\ WF_ingressVars(TakePayload(k) \/ WriterEnds(k))
        /\ WF_ingressVars(Close(k))

IngressFairSpec == IngressSpec /\ IngressFairness

-----------------------------------------------------------------------------
\* The state's shape: what is free never exceeds what there is.
IngressTypeOK ==
    /\ inflight \in 0..max_inflight
    /\ udp \in [Clients -> [spawned : 0..max_inflight, resolving : 0..max_inflight]]
    /\ peer \in [Conns -> Clients \union {NoClient}]
    /\ conn \in [Conns -> Connection]
    /\ \A k \in Conns : Pipelined(k) <= max_pipelined_queries
                     /\ conn[k].queued <= max_pipelined_queries
    /\ mapped \subseteq Clients
    /\ counter \in [Clients -> Nat]
    /\ orphan \subseteq Conns
    /\ cancelled \in BOOLEAN

\* `serve_tcp` never serves a client more connections than the limit, although the counters
\* of idle clients are dropped when the map has grown and are made anew.
PerClientBound == \A c \in Clients : Cardinality(OpenOf(c)) <= max_connections_per_client

\* No connection is served to a client a deny entry matches, or no allow entry does.
ServesOnlyAllowed ==
    \A k \in Open :
        LET a == normalise[peer[k]]
        IN  a \in UNION allow /\ a \notin UNION deny

\* A writer that ends by itself has written a response to every query read that was given
\* one: closing the reader cuts off no query that is still being resolved.
DrainWritesEverything ==
    \A k \in Open :
        conn[k].writer = "done" =>
            ~conn[k].cut /\ Pipelined(k) = 0 /\ conn[k].queued = 0

\* The client of k takes what is written to it, sooner or later, or its connection fails.
ClientReads(k) == []<>(conn[k].writer # "writing")

\* The reader of k is not stopped for a permit, and after the shutdown signal k is closed.
Moving(k) == conn[k].reader # "waiting" /\ (cancelled => k \notin Open)

\* The reader, the queries and the writer of a connection never wait for one another in a
\* circle: a paused reader goes on, and a shutdown closes the connection, if its own client
\* takes its bytes, whatever the other clients do.
ConnectionsMoveOn == \A k \in Conns : ClientReads(k) => []<>Moving(k)

\* "Hard ceiling on connection lifetime regardless of activity" (config/mod.rs): every
\* connection closes, for reading ends with its lifetime.
LifetimeIsHard == \A k \in Conns : k \in Open ~> k \notin Open
=============================================================================
