---------------------------- MODULE Negotiation ----------------------------
(***************************************************************************)
(* The request phase of a transfer: a client conn (sendReadRequest or      *)
(* sendWriteRequest of conn.go) and the conns a multi port server makes    *)
(* for the request and for its duplicates, until each side sends or        *)
(* receives the first DATA datagram, where module Transfer takes over.     *)
(*                                                                         *)
(* Option values are small numbers; Default stands for the value a conn    *)
(* has when an option is not negotiated.                                   *)
(***************************************************************************)
EXTENDS Network, Integers

CONSTANTS
    Requests,       \* the requests a client may send: kind and options
    FirstBlocks,    \* what options() may find in the first DATA datagram
    Bad,            \* an option value that strconv cannot parse
    Garbled,        \* the bytes on which options() fails with a panic
    Retransmit,     \* conn.retransmit, the same on both sides
    MaxConns,       \* bound: conns that the server makes
    MaxLosses,      \* bound: datagrams lost by an Ordered network
    Lateness,       \* how early a timer may fire, see CanExpire
    Environments    \* whether the environment is calm: TRUE, FALSE or both

VARIABLES
    req,            \* the request: its kind and its options
    client,         \* conn fields of the client
    conns,          \* conn fields of the server's conns
    mail,           \* mail[n] holds the datagrams sent to port n
    losses,         \* datagrams lost so far
    calm            \* nothing is lost or late, WriteTo does not fail, and
                    \* handlers serve what is asked

vars == << req, client, conns, mail, losses, calm >>

-----------------------------------------------------------------------------
Echoed == {"blksize", "timeout", "windowsize"}
OptNames == Echoed \cup {"tsize"}

Default == 1
NoSize == -1        \* c.tsize == nil
FileSize == 7       \* what a handler passes to WriteSize

\* A datagram's options, as options() returns them; an ACK has none.
NoOptions == [o \in {} |-> Default]

ConnIds == 1 .. MaxConns
Listener == 0               \* the port the server listens on
Client == MaxConns + 1      \* the port of the client
Ports == 0 .. MaxConns + 1

Msg(o, n, opts) == [op |-> o, from |-> n, opts |-> opts, block |-> 0]
Ack(n, b) == [op |-> "ACK", from |-> n, opts |-> NoOptions, block |-> b]
Data(n, opts) == [op |-> "DATA", from |-> n, opts |-> opts, block |-> 1]

\* What options() returns when it does not fail.
IsOptions(opts) == \E S \in SUBSET OptNames : opts \in [S -> Nat \cup {Bad}]

ASSUME NegotiationAssumption ==
    /\ \A r \in Requests : r.kind \in {"RRQ", "WRQ"} /\ IsOptions(r.opts)
    /\ \A opts \in FirstBlocks \ {Garbled} : IsOptions(opts)
    /\ Retransmit \in Nat /\ MaxConns \in Nat \ {0}
    /\ MaxLosses \in Nat /\ Lateness \in Nat
    /\ Environments \subseteq BOOLEAN

\* The sizes of a conn that newConn has made.
Defaults == [o \in Echoed |-> Default]

Init ==
    /\ req \in Requests
    /\ client = [pc |-> "start", tries |-> 0, err |-> "nil", block |-> 0,
                 size |-> Defaults, tsize |-> NoSize, peer |-> Listener]
    /\ conns = [i \in ConnIds |->
                 [pc |-> "idle", tries |-> 0, err |-> "nil", oack |-> FALSE,
                  size |-> Defaults, tsize |-> NoSize]]
    /\ mail = [n \in Ports |-> IF Ordered THEN << >> ELSE {}]
    /\ losses = 0
    /\ calm \in Environments

-----------------------------------------------------------------------------
(* parseOptions of the options opts, by a conn whose c.tsize is tsize. *)

Parses(opts) == opts # Garbled /\ \A o \in DOMAIN opts : opts[o] # Bad

Parsed(size, opts) ==
    [o \in Echoed |-> IF o \in DOMAIN opts THEN opts[o] ELSE size[o]]

\* The sender of a file whose size is known tells it; others take it.
TellsSize(opts, tsize, isSender) ==
    "tsize" \in DOMAIN opts /\ isSender /\ tsize # NoSize

ParsedSize(opts, tsize, isSender) ==
    IF "tsize" \in DOMAIN opts /\ ~TellsSize(opts, tsize, isSender)
    THEN opts["tsize"] ELSE tsize

\* ackOpts, the options for the OACK.  The first versions are wrong: the size
\* is echoed like the others, or told although nobody asked.
AckOptsEchoed(opts, tsize, isSender) == opts
AckOptsUnasked(opts, tsize, isSender) ==
    [o \in (DOMAIN opts \cap Echoed) \cup {"tsize"} |->
       IF o = "tsize" THEN tsize ELSE opts[o]]
AckOpts(opts, tsize, isSender) ==
    [o \in {n \in DOMAIN opts : n \in Echoed
                                \/ TellsSize(opts, tsize, isSender)} |->
       IF o = "tsize" THEN tsize ELSE opts[o]]

-----------------------------------------------------------------------------
(***************************************************************************)
(* Timers, as in module Transfer: over FIFO channels the deadline of       *)
(* readFromNet passes only while at most Lateness datagrams are on the way *)
(* to a port that still reads.  In a calm environment it passes only when  *)
(* everybody waits.                                                        *)
(***************************************************************************)
ClientSettled == client.pc \in {"data", "failed", "panicked"}
ConnSettled(i) == conns[i].pc \in {"idle", "data", "ended"}

Reads(n) ==
    IF n = Listener THEN \E i \in ConnIds : conns[i].pc = "idle"
    ELSE IF n = Client THEN ~ClientSettled ELSE ~ConnSettled(n)

OnTheWay(n) == IF Reads(n) THEN InFlight(mail[n]) ELSE 0

CanExpire ==
    /\ \A n \in Ports : OnTheWay(n) <= IF calm THEN 0 ELSE Lateness
    /\ calm =>
         /\ ClientSettled \/ client.pc = "receiveResponse"
                          \/ (client.pc = "ready" /\ req.kind = "RRQ")
         /\ \A i \in ConnIds : ConnSettled(i)
                               \/ conns[i].pc \in {"getAck", "readData"}

-----------------------------------------------------------------------------
\* writeToNet of m to port n, by a caller that only logs an error.
Send(n, m) ==
    \/ mail' = [mail EXCEPT ![n] = Put(@, m)]
    \/ ~calm /\ UNCHANGED mail

(* The client. *)

\* sendRequest.
SendRequest ==
    /\ client.pc = "start"
    /\ \/ /\ mail' = [mail EXCEPT ![Listener] =
                        Put(@, Msg(req.kind, Client, req.opts))]
          /\ client' = [client EXCEPT !.pc = "receiveResponse"]
       \/ /\ ~calm
          /\ client' = [client EXCEPT !.pc = "failed", !.err = "network"]
          /\ UNCHANGED mail
    /\ UNCHANGED << req, conns, losses, calm >>

\* sendReadRequest and sendWriteRequest return c.err, and the caller goes on
\* if it is nil; a response that was DATA is the first DATA already.
Returns(c) ==
    [c EXCEPT !.pc = IF c.err # "nil" THEN "failed"
                     ELSE IF c.block = 1 THEN "data" ELSE "ready"]

\* c.tries >= c.retransmit
OutOfTries == client.tries >= Retransmit

\* receiveResponse gives up and returns the error of the last try.  Without
\* a try there is no error: the caller goes on, and parseOptions fails with a
\* panic on the empty c.rx.
ReceiveGivesUp ==
    /\ client.pc = "receiveResponse" /\ OutOfTries
    /\ client' = [client EXCEPT !.pc = IF client.err = "nil" THEN "panicked"
                                       ELSE "failed"]
    /\ UNCHANGED << req, conns, mail, losses, calm >>

\* receiveResponse: readFromNet fails; the error is kept and it runs again.
\* The first versions are wrong: one does not count the try, the other one
\* forgets the error.
ReceiveTimeoutUncounted ==
    /\ client.pc = "receiveResponse" /\ ~OutOfTries /\ CanExpire
    /\ client' = [client EXCEPT !.err = "timeout"]
    /\ UNCHANGED << req, conns, mail, losses, calm >>

ReceiveTimeoutForgotten ==
    /\ client.pc = "receiveResponse" /\ ~OutOfTries /\ CanExpire
    /\ client' = [client EXCEPT !.tries = @ + 1]
    /\ UNCHANGED << req, conns, mail, losses, calm >>

ReceiveTimeout ==
    /\ client.pc = "receiveResponse" /\ ~OutOfTries /\ CanExpire
    /\ client' = [client EXCEPT !.tries = @ + 1, !.err = "timeout"]
    /\ UNCHANGED << req, conns, mail, losses, calm >>

\* The client conn c after a successful parseOptions.
Setup(c, opts) ==
    [c EXCEPT !.size = Parsed(@, opts),
              !.tsize = ParsedSize(opts, @, req.kind = "WRQ")]

Taken == [mail EXCEPT ![Client] = Rest(@)]

\* writeSetup (of a client), for an OACK or an ACK.
ClientWriteSetup(c, m) ==
    /\ client' = Returns(Setup(c, m.opts))
    /\ mail' = Taken

\* readSetup (of a client), which acknowledges block c.block.  The first
\* version is wrong: it leaves the ACK to the first Read.
ReadSetupSilent(c, m) ==
    /\ client' = Returns(Setup(c, m.opts))
    /\ mail' = Taken
ClientReadSetup(c, m) ==
    \/ /\ client' = Returns(Setup(c, m.opts))
       /\ mail' = [Taken EXCEPT ![m.from] = Put(@, Ack(Client, c.block))]
    \/ /\ ~calm
       /\ client' = [Setup(c, m.opts) EXCEPT !.pc = "failed",
                                             !.err = "network"]
       /\ mail' = Taken

\* The responses that handleWRQResponse and handleRRQResponse take.
Welcome(m) ==
    m.op \in (IF req.kind = "WRQ" THEN {"OACK", "ACK"} ELSE {"OACK", "DATA"})

\* receiveResponse gets a datagram, from now on the address of the server.
ReceiveResponse ==
    /\ client.pc = "receiveResponse" /\ ~OutOfTries
    /\ \E m \in Arrivals(mail[Client]) :
         LET c == [client EXCEPT !.tries = 0, !.peer = m.from,
                                 !.block = m.block]
         IN  \/ /\ Welcome(m) /\ Parses(m.opts)
                /\ IF req.kind = "WRQ" THEN ClientWriteSetup(c, m)
                                       ELSE ClientReadSetup(c, m)
             \/ /\ ~(Welcome(m) /\ Parses(m.opts))
                /\ client' = [c EXCEPT
                     !.pc = IF Welcome(m) /\ m.opts = Garbled
                            THEN "panicked" ELSE "failed",
                     !.err = CASE m.op = "ERROR" -> "remote"
                               [] Welcome(m)     -> "option"
                               [] OTHER          -> "unexpected"]
                /\ mail' = Taken
    /\ UNCHANGED << req, conns, losses, calm >>

\* The first Write: DATA goes to the server.
ClientWrites ==
    /\ client.pc = "ready" /\ req.kind = "WRQ"
    /\ \/ /\ client' = [client EXCEPT !.pc = "data"]
          /\ \E opts \in FirstBlocks :
               mail' = [mail EXCEPT ![client.peer] = Put(@, Data(Client, opts))]
       \/ /\ ~calm
          /\ client' = [client EXCEPT !.pc = "failed", !.err = "network"]
          /\ UNCHANGED mail
    /\ UNCHANGED << req, conns, losses, calm >>

\* The first Read: readData gets a datagram, from whatever address.
ClientReads ==
    /\ client.pc = "ready" /\ req.kind = "RRQ" /\ client.tries < Retransmit
    /\ \E m \in Arrivals(mail[Client]) :
         client' = IF m.op = "DATA"
                   THEN [client EXCEPT !.tries = 0, !.pc = "data"]
                   ELSE [client EXCEPT !.tries = @ + 1, !.pc = "failed",
                           !.err = IF m.op = "ERROR" THEN "remote"
                                   ELSE "unexpected"]
    /\ mail' = Taken
    /\ UNCHANGED << req, conns, losses, calm >>

\* readData: readFromNet fails, the last ACK is sent again.
ClientReadTimeout ==
    /\ client.pc = "ready" /\ req.kind = "RRQ" /\ client.tries < Retransmit
    /\ CanExpire
    /\ client' = [client EXCEPT !.tries = @ + 1]
    /\ Send(client.peer, Ack(Client, client.block))
    /\ UNCHANGED << req, conns, losses, calm >>

ClientReadGivesUp ==
    /\ client.pc = "ready" /\ req.kind = "RRQ" /\ client.tries >= Retransmit
    /\ client' = [client EXCEPT !.pc = "failed", !.err = "maxRetries"]
    /\ Send(client.peer, Msg("ERROR", Client, NoOptions))
    /\ UNCHANGED << req, conns, losses, calm >>

-----------------------------------------------------------------------------
(* A conn of the server.  How Serve and connManager get there is module    *)
(* Server.                                                                 *)

\* The conn has an error, which Read or Write returns to the handler.
ConnFails(i, err) ==
    conns' = [conns EXCEPT ![i].pc = "failed", ![i].err = err]

\* writeToNet of m by conn i, which is then c; the conn ends if it fails.
ConnSends(i, c, m) ==
    \/ /\ mail' = [mail EXCEPT ![Client] = Put(@, m)]
       /\ conns' = [conns EXCEPT ![i] = c]
    \/ ~calm /\ ConnFails(i, "network") /\ UNCHANGED mail

\* What conn i parses: the options of the request.  The first version is
\* wrong: it does not apply what it acknowledges.
ConnSetupIdle(c, isSender) ==
    [c EXCEPT !.tsize = ParsedSize(req.opts, @, isSender)]
ConnSetup(c, isSender) ==
    [c EXCEPT !.size = Parsed(@, req.opts),
              !.tsize = ParsedSize(req.opts, @, isSender)]

\* connManager starts a goroutine for the request or for a duplicate of it.
Dispatch(i) ==
    /\ conns[i].pc = "idle" /\ \A j \in 1 .. i - 1 : conns[j].pc # "idle"
    /\ Arrivals(mail[Listener]) # {}
    /\ conns' = [conns EXCEPT ![i].pc = "dispatched"]
    /\ mail' = [mail EXCEPT ![Listener] = Rest(@)]
    /\ UNCHANGED << req, client, losses, calm >>

\* dispatchWriteRequest: readSetup, before the handler runs.
ConnReadSetup(i) ==
    /\ conns[i].pc = "dispatched" /\ req.kind = "WRQ"
    /\ IF ~Parses(req.opts)
       THEN ConnFails(i, "option") /\ UNCHANGED mail
       ELSE LET acks == AckOpts(req.opts, NoSize, FALSE)
                c == [ConnSetup(conns[i], FALSE) EXCEPT
                        !.pc = "handler", !.oack = (acks # NoOptions)]
            IN  ConnSends(i, c, IF acks = NoOptions THEN Ack(i, 0)
                                ELSE Msg("OACK", i, acks))
    /\ UNCHANGED << req, client, losses, calm >>

\* dispatchReadRequest runs the handler at once.
ConnStarts(i) ==
    /\ conns[i].pc = "dispatched" /\ req.kind = "RRQ"
    /\ conns' = [conns EXCEPT ![i].pc = "handler"]
    /\ UNCHANGED << req, client, mail, losses, calm >>

\* The handler answers with WriteError and returns: because it does not want
\* the request, or because the conn has failed.
HandlerRefuses(i) ==
    /\ conns[i].pc \in {"handler", "failed"} /\ ~calm
    /\ conns' = [conns EXCEPT ![i].pc = "ended"]
    /\ Send(Client, Msg("ERROR", i, NoOptions))
    /\ UNCHANGED << req, client, losses, calm >>

\* A handler whose Read or Write has failed returns.  That dispatchWriteRequest
\* runs the handler also after readSetup has failed makes no difference: its
\* first Read fails.
HandlerReturns(i) ==
    /\ conns[i].pc = "failed"
    /\ conns' = [conns EXCEPT ![i].pc = "ended"]
    /\ UNCHANGED << req, client, mail, losses, calm >>

\* The handler of a write request reads.
HandlerReads(i) ==
    /\ conns[i].pc = "handler" /\ req.kind = "WRQ"
    /\ conns' = [conns EXCEPT ![i].pc = "readData"]
    /\ UNCHANGED << req, client, mail, losses, calm >>

\* Where sendOACK goes.  The first version is wrong: it does not wait.
AfterOackWrites == "data"
AfterOack == "getAck"

\* The handler of a read request may call WriteSize and then writes:
\* writeSetup.
HandlerWrites(i) ==
    /\ conns[i].pc = "handler" /\ req.kind = "RRQ"
    /\ \E tsize \in {NoSize, FileSize} :
         LET acks == AckOpts(req.opts, tsize, TRUE)
             c == ConnSetup([conns[i] EXCEPT !.tsize = tsize], TRUE)
         IN  IF ~Parses(req.opts)
             THEN ConnFails(i, "option") /\ UNCHANGED mail
             ELSE IF acks = NoOptions
             THEN \E opts \in FirstBlocks :
                    ConnSends(i, [c EXCEPT !.pc = "data"], Data(i, opts))
             ELSE ConnSends(i, [c EXCEPT !.pc = AfterOack, !.oack = TRUE],
                            Msg("OACK", i, acks))
    /\ UNCHANGED << req, client, losses, calm >>

\* getAck, after an OACK.
ConnGetAckGivesUp(i) ==
    /\ conns[i].pc = "getAck" /\ conns[i].tries + 1 > Retransmit
    /\ ConnFails(i, "maxRetries")
    /\ Send(Client, Msg("ERROR", i, NoOptions))
    /\ UNCHANGED << req, client, losses, calm >>

ConnGetAckTimeout(i) ==
    /\ conns[i].pc = "getAck" /\ conns[i].tries + 1 <= Retransmit /\ CanExpire
    /\ conns' = [conns EXCEPT ![i].tries = @ + 1, ![i].err = "timeout"]
    /\ UNCHANGED << req, client, mail, losses, calm >>

\* An ACK of block 0 makes it write, an ERROR ends the conn.
ConnGetAck(i) ==
    /\ conns[i].pc = "getAck" /\ conns[i].tries + 1 <= Retransmit
    /\ \E m \in Arrivals(mail[i]) :
         \/ /\ m.op = "ACK"
            /\ conns' = [conns EXCEPT ![i].tries = 0, ![i].pc = "data"]
            /\ \E opts \in FirstBlocks :
                 mail' = [mail EXCEPT ![i] = Rest(@),
                                      ![Client] = Put(@, Data(i, opts))]
         \/ /\ m.op = "ERROR" \/ ~calm
            /\ ConnFails(i, IF m.op = "ERROR" THEN "remote" ELSE "network")
            /\ mail' = [mail EXCEPT ![i] = Rest(@)]
    /\ UNCHANGED << req, client, losses, calm >>

\* readData, before the first DATA.
ConnReadGivesUp(i) ==
    /\ conns[i].pc = "readData" /\ conns[i].tries >= Retransmit
    /\ ConnFails(i, "maxRetries")
    /\ Send(Client, Msg("ERROR", i, NoOptions))
    /\ UNCHANGED << req, client, losses, calm >>

\* readFromNet fails: the ACK of block 0 is sent, also after an OACK.
ConnReadTimeout(i) ==
    /\ conns[i].pc = "readData" /\ conns[i].tries < Retransmit /\ CanExpire
    /\ conns' = [conns EXCEPT ![i].tries = @ + 1]
    /\ Send(Client, Ack(i, 0))
    /\ UNCHANGED << req, client, losses, calm >>

ConnReads(i) ==
    /\ conns[i].pc = "readData" /\ conns[i].tries < Retransmit
    /\ \E m \in Arrivals(mail[i]) : m.op = "DATA"
    /\ conns' = [conns EXCEPT ![i].tries = 0, ![i].pc = "data"]
    /\ mail' = [mail EXCEPT ![i] = Rest(@)]
    /\ UNCHANGED << req, client, losses, calm >>

-----------------------------------------------------------------------------
\* A FIFO network loses the datagram at the head of a channel.
Lose(n) ==
    /\ Ordered /\ ~calm /\ losses < MaxLosses /\ mail[n] # << >>
    /\ mail' = [mail EXCEPT ![n] = Tail(@)] /\ losses' = losses + 1
    /\ UNCHANGED << req, client, conns, calm >>

Settled == ClientSettled /\ \A i \in ConnIds : ConnSettled(i)

\* The end of the negotiation is not a deadlock.
Terminated == Settled /\ UNCHANGED vars

ClientStep ==
    \/ SendRequest \/ ReceiveGivesUp \/ ReceiveTimeout \/ ReceiveResponse
    \/ ClientWrites \/ ClientReads \/ ClientReadTimeout \/ ClientReadGivesUp

ConnStep(i) ==
    \/ Dispatch(i) \/ ConnReadSetup(i) \/ ConnStarts(i)
    \/ HandlerRefuses(i) \/ HandlerReturns(i) \/ HandlerReads(i)
    \/ HandlerWrites(i)
    \/ ConnGetAckGivesUp(i) \/ ConnGetAckTimeout(i) \/ ConnGetAck(i)
    \/ ConnReadGivesUp(i) \/ ConnReadTimeout(i) \/ ConnReads(i)

Next ==
    \/ ClientStep \/ (\E i \in ConnIds : ConnStep(i))
    \/ (\E n \in Ports : Lose(n)) \/ Terminated

Spec == Init /\ [][Next]_vars

\* A goroutine that can run does run, and a timer that is set fires.
Fairness == WF_vars(ClientStep) /\ \A i \in ConnIds : WF_vars(ConnStep(i))

FairSpec == Spec /\ Fairness

-----------------------------------------------------------------------------
(* Properties. *)

Errors == {"nil", "timeout", "network", "remote", "option", "unexpected",
           "maxRetries"}

\* The state is well formed.
TypeOK ==
    /\ req \in Requests /\ calm \in BOOLEAN
    /\ client \in [pc : {"start", "receiveResponse", "ready", "data", "failed",
                         "panicked"},
                   tries : 0 .. Retransmit, err : Errors, block : {0, 1},
                   size : [Echoed -> Nat], tsize : Int, peer : 0 .. MaxConns]
    /\ conns \in [ConnIds ->
         [pc : {"idle", "dispatched", "handler", "getAck", "readData", "data",
                "failed", "ended"},
          tries : 0 .. Retransmit, err : Errors, oack : BOOLEAN,
          size : [Echoed -> Nat], tsize : Int]]

Answered == client.peer # Listener
Granted == client.pc \in {"ready", "data"}

\* The two sides of a transfer use the same blksize, windowsize and timeout:
\* those the client has when sendReadRequest or sendWriteRequest returns nil
\* are those of the server's conn it then talks to.
Agreement == Granted => client.size = conns[client.peer].size

\* A client that asked for the size of a file, of a handler that called
\* WriteSize, knows it before it gets the first DATA.
SizeReported ==
    /\ Granted /\ req.kind = "RRQ" /\ "tsize" \in DOMAIN req.opts
    /\ conns[client.peer].tsize = FileSize
    => client.tsize = FileSize

\* RFC 2347: an OACK has only options that the client asked for.
OnlyRequestedOptions ==
    \A m \in Elems(mail[Client]) : m.op = "OACK" =>
      DOMAIN m.opts \subseteq DOMAIN req.opts

\* When options were negotiated, a conn that the server made for a duplicate
\* of the request transfers nothing: only the conn that the client answered.
OnlyPeerTransfers ==
    \A i \in ConnIds : conns[i].pc = "data" /\ conns[i].oack => client.peer = i

\* A request that returns nil has been answered by a conn of the server.
NilMeansAnswered == Granted \/ client.pc = "panicked" => Answered

\* Both sides come to a decision, whatever is lost or late.
Settles == <>Settled

\* In a calm environment a request that can be granted is granted, whatever
\* its options: the client and the conn of the server it talks to reach the
\* first DATA, and do not end up waiting for each other.
Succeeds ==
    calm /\ Parses(req.opts) ~>
      /\ client.pc = "data" /\ Answered /\ conns[client.peer].pc = "data"
      /\ client.size = conns[client.peer].size
=============================================================================
