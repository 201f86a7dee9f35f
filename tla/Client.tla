------------------------------- MODULE Client -------------------------------
(***************************************************************************)
(* The Client of client.go: NewClient with its options, and the requests   *)
(* of Get and Put, one after the other, which share the map of options of  *)
(* their Client.  A request is the datagram of module Datagram.  It is     *)
(* decoded by this package's server, which answers it, or it is answered   *)
(* by some other server.  How the request gets there is module Negotiation.*)
(***************************************************************************)
EXTENDS Datagram, TLC

CONSTANTS
    Clients,
    ClientOpts,     \* ClientOpt values: a constructor's name and argument
    Urls,           \* arguments of Get and Put, taken apart as url.Parse does
    PutSizes,       \* the size arguments of Put
    Replies,        \* what another server may answer
    Numbers,        \* the numbers that occur, for Atoi
    MaxOpts,        \* bound: ClientOpts that are applied
    MaxRequests     \* bound: requests that are made

VARIABLES
    clients,        \* fields of the Clients
    req,            \* the last request and the datagram that was sent for it
    conn,           \* fields of its conn
    applied, made   \* ClientOpts applied, requests made

vars == << clients, req, conn, applied, made >>

FileSize == 9       \* what a handler passes to WriteSize
NoSize == -1        \* c.tsize == nil
NoRequest == [op |-> "none"]

\* asked holds what the ClientOpts asked for, unsized whether a Put of
\* unknown size was made: these two are not in the code.
Init ==
    /\ clients = [c \in Clients |->
         [pc |-> "new", opts |-> [o \in {"tsize"} |-> ToString(0)], mode |-> "octet",
          retransmit |-> 10,
          asked |-> [o \in {"tsize"} |-> 0], unsized |-> FALSE]]
    /\ req = NoRequest
    /\ conn = [pc |-> "idle"]
    /\ applied = 0 /\ made = 0

-----------------------------------------------------------------------------
(* NewClient. *)

\* The first version is wrong: it leaves no room for the header.
AnyUint16(n) == 8 <= n /\ n <= 65535
ValidBlocksize(n) == 8 <= n /\ n <= 65464

Accepts(o) ==
    CASE o.fn = "blksize"    -> ValidBlocksize(o.arg)
      [] o.fn = "timeout"    -> 1 <= o.arg /\ o.arg <= 255
      [] o.fn = "windowsize" -> 1 <= o.arg /\ o.arg <= 65535
      [] o.fn = "retransmit" -> o.arg >= 0
      [] o.fn = "mode"       -> o.arg \in Modes
      [] o.fn = "tsize"      -> TRUE

Without(f, o) == [n \in DOMAIN f \ {o} |-> f[n]]
With(f, o, v) == [n \in DOMAIN f \cup {o} |-> IF n = o THEN v ELSE f[n]]

\* The Client c after the ClientOpt o.
Applied(c, o) ==
    CASE o.fn = "mode" -> [c EXCEPT !.mode = o.arg]
      [] o.fn = "retransmit" -> [c EXCEPT !.retransmit = o.arg]
      [] o.fn = "tsize" /\ o.arg ->
           [c EXCEPT !.opts = With(@, "tsize", ToString(0)),
                     !.asked = With(@, "tsize", 0)]
      [] o.fn = "tsize" /\ ~o.arg ->
           [c EXCEPT !.opts = Without(@, "tsize"),
                     !.asked = Without(@, "tsize")]
      [] OTHER -> [c EXCEPT !.opts = With(@, o.fn, ToString(o.arg)),
                            !.asked = With(@, o.fn, o.arg)]

\* One turn of the loop of NewClient; with an error, the Client is not used.
ApplyOpt(c, o) ==
    /\ clients[c].pc = "new" /\ applied < MaxOpts
    /\ clients' = [clients EXCEPT ![c] =
         IF Accepts(o) THEN Applied(@, o) ELSE [@ EXCEPT !.pc = "refused"]]
    /\ applied' = applied + 1
    /\ UNCHANGED << req, conn, made >>

NewClientReturns(c) ==
    /\ clients[c].pc = "new"
    /\ clients' = [clients EXCEPT ![c].pc = "ready"]
    /\ UNCHANGED << req, conn, applied, made >>

-----------------------------------------------------------------------------
(* Get and Put. *)

\* parseURL: hosts and ports are "none", "number" or "name"; RequestURI
\* escapes the path, and keeps a query; the fragment comes after it.
Escaped(path) == IF path = << "a b" >> THEN << "a%20b" >> ELSE path
UrlFile(u) ==
    Escaped(u.path) \o (IF u.fragment = << >> THEN << >>
                        ELSE << "#" >> \o u.fragment)
UrlValid(u) ==
    u.host = "name" /\ u.port \in {"none", "number"} /\ UrlFile(u) # << >>

NewConn(c) ==
    [pc |-> "sent", err |-> "nil", blksize |-> 512, windowsize |-> 1,
     timeout |-> 1, tsize |-> NoSize, retransmit |-> clients[c].retransmit]

\* The Client requests op of u; range goes through its options in any order.
Sends(c, op, u, size, opts) ==
    /\ \E order \in SetToSeqs(DOMAIN opts) :
         req' = [op |-> op, client |-> c, url |-> u, size |-> size,
                 dg |-> WriteReq(op, UrlFile(u), clients[c].mode, opts, order)]
    /\ conn' = NewConn(c)

MayRequest(c) ==
    /\ clients[c].pc = "ready" /\ conn.pc # "sent" /\ made < MaxRequests

Get(c, u) ==
    /\ MayRequest(c) /\ UrlValid(u)
    /\ Sends(c, "RRQ", u, NoSize, clients[c].opts)
    /\ made' = made + 1
    /\ UNCHANGED << clients, applied >>

\* What Put makes of the options.  The first version is wrong: it sets a
\* size only once.
FirstSize(opts, size) ==
    IF "tsize" \notin DOMAIN opts THEN opts
    ELSE IF size < 1 THEN Without(opts, "tsize")
    ELSE IF opts["tsize"] = "0" THEN With(opts, "tsize", ToString(size))
    ELSE opts
PutOpts(opts, size) ==
    IF "tsize" \notin DOMAIN opts THEN opts
    ELSE IF size < 1 THEN Without(opts, "tsize")
    ELSE With(opts, "tsize", ToString(size))

\* The Clients after a Put of c.  The first version is wrong: NewClient has
\* not copied the default options, and all Clients have one map.
OneMap(c, opts, size) ==
    [d \in Clients |-> [clients[d] EXCEPT !.opts = opts,
                                          !.unsized = @ \/ (c = d /\ size < 1)]]
OwnMap(c, opts, size) ==
    [clients EXCEPT ![c].opts = opts, ![c].unsized = @ \/ size < 1]

Put(c, u, size) ==
    /\ MayRequest(c) /\ UrlValid(u)
    /\ LET opts == PutOpts(clients[c].opts, size)
       IN  /\ clients' = OwnMap(c, opts, size)
           /\ Sends(c, "WRQ", u, size, opts)
    /\ made' = made + 1
    /\ UNCHANGED applied

\* parseURL returns an error.
BadUrl(c, u) ==
    /\ MayRequest(c) /\ ~UrlValid(u)
    /\ req' = NoRequest
    /\ conn' = [pc |-> "failed", err |-> "url"]
    /\ made' = made + 1
    /\ UNCHANGED << clients, applied >>

-----------------------------------------------------------------------------
(* parseOptions, of client and server. *)

KnownOpts == {"blksize", "timeout", "windowsize", "tsize"}

\* ParseUint(val, 10, 16), or with 8 bits; ParseInt(val, 10, 64), whose limit
\* no number of a model reaches.
Limit(o) == CASE o = "timeout" -> 255
              [] o \in {"blksize", "windowsize"} -> 65535
              [] o = "tsize" -> 2147483647
IsNumber(val, o) == \E n \in Numbers : n <= Limit(o) /\ val = << ToString(n) >>
Number(val) == CHOOSE n \in Numbers : val = << ToString(n) >>

\* A number has one decimal form, in which there is no NUL.
ASSUME NumbersAssumption ==
    /\ Numbers \subseteq Int /\ {0, FileSize} \subseteq Numbers
    /\ \A n \in Numbers : n <= Limit("tsize") /\ ToString(n) \in STRING \ {"NUL"}
    /\ \A m, n \in Numbers : ToString(m) = ToString(n) => m = n

\* The types of the arguments; the file of a URL has no NUL.
ASSUME ArgumentsAssumption ==
    /\ \A o \in ClientOpts :
         \/ o.fn = "mode" \/ (o.fn = "tsize" /\ o.arg \in BOOLEAN)
         \/ o.fn = "retransmit" /\ o.arg \in Int
         \/ /\ o.fn \in {"blksize", "timeout", "windowsize"}
            /\ o.arg \in Int /\ (Accepts(o) => o.arg \in Numbers)
    /\ PutSizes \subseteq Int /\ \A n \in PutSizes : n >= 1 => n \in Numbers
    /\ \A u \in Urls : /\ u.path \in Seq(STRING \ {"NUL"})
                       /\ u.fragment \in Seq(STRING \ {"NUL"})
    /\ \A d \in Replies : d \in [op : STRING, body : Seq(STRING)]

Given(opts) == {o \in KnownOpts : << o >> \in DOMAIN opts}
Parses(opts) == \A o \in Given(opts) : IsNumber(opts[<< o >>], o)

TellsSize(c, isSender) == isSender /\ c.tsize # NoSize

\* The conn c with the options opts.
Parsed(c, opts, isSender) ==
    [f \in DOMAIN c |->
       IF f \in Given(opts) /\ ~(f = "tsize" /\ TellsSize(c, isSender))
       THEN Number(opts[<< f >>]) ELSE c[f]]

\* The server's conn for the request, after its handler has called WriteSize.
ServerConn ==
    Parsed([NewConn(req.client) EXCEPT
              !.tsize = IF req.op = "RRQ" THEN FileSize ELSE NoSize],
           Options(req.dg), req.op = "RRQ")

\* ackOpts of the server.  The first version is wrong: it gives back the size
\* of the request.
EchoedOpts ==
    LET opts == Options(req.dg)
    IN  [o \in {n \in Given(opts) : n = "tsize" => req.op = "RRQ"} |->
           opts[<< o >>][1]]
AckOpts ==
    LET opts == Options(req.dg)
    IN  [o \in {n \in Given(opts) : n = "tsize" => req.op = "RRQ"} |->
           IF o = "tsize" THEN ToString(FileSize) ELSE opts[<< o >>][1]]

\* What the server answers; the handler may call WriteError.
Grants ==
    IF DOMAIN AckOpts # {}
    THEN {WriteOptionAck(AckOpts, order) : order \in SetToSeqs(DOMAIN AckOpts)}
    ELSE {IF req.op = "WRQ" THEN WriteAck0 ELSE WriteData1(<< "text" >>)}
Answers == Grants \cup {WriteError(<< "gone" >>)}

\* handleWRQResponse and handleRRQResponse go on with the options of d.
Welcome(d) == d.op \in (IF req.op = "WRQ" THEN {"OACK", "ACK"}
                                          ELSE {"OACK", "DATA"})

\* receiveResponse: the client's conn after the response d.
Response(d) ==
    IF Valid(d) /\ Welcome(d) /\ OptionsPanic(d)
    THEN [conn EXCEPT !.pc = "panicked", !.err = d.op]
    ELSE IF Valid(d) /\ Welcome(d) /\ Parses(Options(d))
    THEN [Parsed(conn, Options(d), req.op = "WRQ") EXCEPT !.pc = "granted"]
    ELSE [conn EXCEPT !.pc = "failed",
            !.err = CASE ~Valid(d)      -> "invalid"
                      [] Welcome(d)     -> "option"
                      [] d.op = "ERROR" -> "remote"
                      [] OTHER          -> "unexpected"]

Receives(d) ==
    /\ conn.pc = "sent" /\ conn' = Response(d)
    /\ UNCHANGED << clients, req, applied, made >>

ServerAnswers == conn.pc = "sent" /\ \E d \in Answers : Receives(d)

OtherAnswers == \E d \in Replies : Receives(d)

Next ==
    \/ \E c \in Clients :
         \/ (\E o \in ClientOpts : ApplyOpt(c, o)) \/ NewClientReturns(c)
         \/ \E u \in Urls : \/ Get(c, u) \/ BadUrl(c, u)
                            \/ \E size \in PutSizes : Put(c, u, size)
    \/ ServerAnswers \/ OtherAnswers

Spec == Init /\ [][Next]_vars

-----------------------------------------------------------------------------
(* Properties. *)

Sent == conn.pc = "sent"
Asked(o, default) ==
    LET asked == clients[req.client].asked
    IN  IF o \in DOMAIN asked THEN asked[o] ELSE default

\* The server understands every request that a Client makes: validate accepts
\* it and, like options(), does not panic, and the server finds the file, the
\* mode and the numbers that were asked for, whatever the order in which the
\* options were written.
RequestUnderstood ==
    Sent => /\ ~ValidatePanics(req.dg) /\ Valid(req.dg)
            /\ ~OptionsPanic(req.dg)
            /\ Filename(req.dg) = UrlFile(req.url)
            /\ Mode(req.dg) = << clients[req.client].mode >>
            /\ Parses(Options(req.dg))
            /\ ServerConn.blksize = Asked("blksize", 512)
            /\ ServerConn.windowsize = Asked("windowsize", 1)
            /\ ServerConn.timeout = Asked("timeout", 1)

\* With what a Client may ask for, the buffer of readSetup has room for a
\* block (blksize + 4 is computed on a uint16), txBuf has at least one slot,
\* and a deadline is in the future.
BuffersFit ==
    Sent => /\ (ServerConn.blksize + 4) % 65536 = ServerConn.blksize + 4
            /\ ServerConn.windowsize >= 1 /\ ServerConn.timeout >= 1

HasTsize == << "tsize" >> \in DOMAIN Options(req.dg)

\* A Put tells the size of its own file or none, never that of an earlier one.
PutTellsItsSize ==
    Sent /\ req.op = "WRQ" /\ HasTsize =>
      Options(req.dg)[<< "tsize" >>] = << ToString(req.size) >>

\* A Get asks for the size, if its Client was configured so, as long as no
\* Put of this Client was given no size; the Puts of others do not matter.
GetAsksForSize ==
    Sent /\ req.op = "RRQ" /\ ~clients[req.client].unsized =>
      HasTsize = ("tsize" \in DOMAIN clients[req.client].asked)

\* An OACK that validate accepts can be taken apart, whatever is in it: only
\* DATA or an ACK, which have no options, can make options() panic.
OackNeverPanics == conn.pc = "panicked" => conn.err # "OACK"

\* What this package's server grants is understood too: with its OACK, in
\* whatever order it lists the options, the client has the numbers of the
\* server's conn, as it has without one, and of a file that it gets the size if
\* it has asked for it.
AnswerUnderstood ==
    Sent => \A d \in Grants :
      LET c == Response(d)
      IN  /\ c.pc = "granted"
          /\ \A f \in {"blksize", "windowsize", "timeout"} : c[f] = ServerConn[f]
          /\ req.op = "RRQ" => c.tsize = IF HasTsize THEN FileSize ELSE NoSize
=============================================================================
