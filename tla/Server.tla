------------------------------- MODULE Server -------------------------------
(***************************************************************************)
(* The tftp server of server.go: the goroutine in Serve that reads         *)
(* datagrams, the goroutine connManager that dispatches them, and one      *)
(* goroutine for each request, which runs the handler.  They are coupled   *)
(* by the channels dispatchChan, reqDoneChan and, in single port mode, one *)
(* reqChan per request.                                                    *)
(*                                                                         *)
(* What a handler does with its conn is the subject of module Transfer;    *)
(* here it receives from its reqChan as it likes, and returns or panics.   *)
(* Nothing recovers a panic: the process ends, and every goroutine in it.  *)
(***************************************************************************)
EXTENDS Naturals, Sequences

CONSTANTS
    Addrs,          \* client addresses
    Configs,        \* the configurations of a Server that are considered
    DispatchCap,    \* capacity of dispatchChan, 64 in the code
    DoneCap,        \* capacity of reqDoneChan, 64
    ReqCap,         \* capacity of a reqChan, 64
    Resends,        \* whether a client may send its request more than once
    MaxPackets      \* bound: datagrams received

VARIABLES
    config,         \* Server.singlePort, and which of rh and wh are set
    serve,          \* the goroutine in Serve
    manager,        \* the goroutine connManager
    reqMap,         \* its map from addresses to channels; 0 is no entry
    handlers,       \* the request goroutines, in the order of their start
    reqChans,       \* reqChans[h] is the channel of handlers[h]
    dispatchChan,
    reqDoneChan,
    closer,         \* the call of Server.Close, if there is one
    conn,           \* Server.conn: "nil", "open" or "closed"
    received,       \* datagrams that Serve has read
    handled         \* datagrams that connManager is done with

vars == << config, serve, manager, reqMap, handlers, reqChans, dispatchChan,
           reqDoneChan, closer, conn, received, handled >>

Kinds == {"RRQ", "WRQ"}

\* What validate makes of a request: it returns nil or an error, or panics for
\* want of any NUL (ValidatePanics of module Datagram).
Forms == {"valid", "invalid", "noNul"}

\* A datagram, as far as pkt[1] and validate tell it; OTHER is a datagram of
\* a transfer.
Packets ==
    [addr : Addrs, kind : Kinds, form : Forms]
        \cup [addr : Addrs, kind : {"OTHER"}, form : {"valid"}]

NoPacket == [addr |-> "none"]

SinglePort == config.singlePort
Registered == config.registered

\* Server.close is closed.
closing == closer # "idle"

ASSUME ServerAssumption ==
    /\ Configs \subseteq [singlePort : BOOLEAN, registered : SUBSET Kinds]
    /\ Resends \in BOOLEAN
    /\ DispatchCap \in Nat /\ DoneCap \in Nat /\ ReqCap \in Nat
    /\ MaxPackets \in Nat

HandlerIds == DOMAIN handlers

\* A goroutine has panicked and taken the process with it.
Crashed == \E h \in HandlerIds : handlers[h].pc = "panicked"

Init ==
    /\ config \in Configs
    /\ serve = [pc |-> "idle", req |-> NoPacket]
    /\ manager = [pc |-> "idle", pkt |-> NoPacket, to |-> 0]
    /\ reqMap = [a \in Addrs |-> 0]
    /\ handlers = << >> /\ reqChans = << >>
    /\ dispatchChan = << >> /\ reqDoneChan = << >>
    /\ closer = "idle" /\ conn = "nil"
    /\ received = 0 /\ handled = 0

-----------------------------------------------------------------------------
(* Serve. *)

\* connMu: Serve waits for a Close that has begun.
ServeStarts ==
    /\ serve.pc = "idle"
    /\ \/ /\ Registered = {}         \* ErrNoRegisteredHandlers
          /\ serve' = [serve EXCEPT !.pc = "returned"]
          /\ UNCHANGED << manager, conn >>
       \/ /\ Registered # {} /\ closer # "signalled"
          /\ serve' = [serve EXCEPT !.pc = "select"]
          /\ manager' = [manager EXCEPT !.pc = "select"]
          /\ conn' = "open"
    /\ UNCHANGED << config, reqMap, handlers, reqChans, dispatchChan,
                    reqDoneChan, closer, received, handled >>

\* The first version is wrong: it goes on reading without a look at s.close.
SelectReads ==
    /\ serve.pc = "select"
    /\ serve' = [serve EXCEPT !.pc = "read"]
    /\ UNCHANGED << config, manager, reqMap, handlers, reqChans, dispatchChan,
                    reqDoneChan, closer, conn, received, handled >>

ServeSelect ==
    /\ serve.pc = "select"
    /\ serve' = [serve EXCEPT !.pc = IF closing THEN "returned" ELSE "read"]
    /\ UNCHANGED << config, manager, reqMap, handlers, reqChans, dispatchChan,
                    reqDoneChan, closer, conn, received, handled >>

\* A client that does not resend starts one transfer from an address.
MayArrive(p) ==
    p.kind # "OTHER" /\ ~Resends =>
      /\ \A h \in HandlerIds : handlers[h].addr # p.addr
      /\ \A i \in DOMAIN dispatchChan :
           dispatchChan[i].addr = p.addr => dispatchChan[i].kind = "OTHER"

ServeReceives(p) ==
    /\ serve.pc = "read" /\ conn = "open"
    /\ received < MaxPackets /\ MayArrive(p)
    /\ serve' = [pc |-> "send", req |-> p]
    /\ received' = received + 1
    /\ UNCHANGED << config, manager, reqMap, handlers, reqChans, dispatchChan,
                    reqDoneChan, closer, conn, handled >>

\* The read deadline of 500 ms passes (or the datagram is too short).
ServeDeadline ==
    /\ serve.pc = "read" /\ conn = "open"
    /\ serve' = [serve EXCEPT !.pc = "select"]
    /\ UNCHANGED << config, manager, reqMap, handlers, reqChans, dispatchChan,
                    reqDoneChan, closer, conn, received, handled >>

\* ReadFromUDP fails, since Close has closed the socket or for any reason but
\* the deadline: Serve returns, and leaves connManager behind.
ServeFails ==
    /\ serve.pc = "read"
    /\ serve' = [serve EXCEPT !.pc = "returned"]
    /\ UNCHANGED << config, manager, reqMap, handlers, reqChans, dispatchChan,
                    reqDoneChan, closer, conn, received, handled >>

\* s.dispatchChan <- req
ServeSends ==
    /\ serve.pc = "send" /\ Len(dispatchChan) < DispatchCap
    /\ dispatchChan' = Append(dispatchChan, serve.req)
    /\ serve' = [pc |-> "select", req |-> NoPacket]
    /\ UNCHANGED << config, manager, reqMap, handlers, reqChans, reqDoneChan,
                    closer, conn, received, handled >>

-----------------------------------------------------------------------------
(* connManager. *)

\* RRQ or WRQ: a new channel, an entry in reqMap, and a goroutine.
ManagerStartsHandler ==
    /\ manager.pc = "select" /\ dispatchChan # << >>
    /\ LET req == Head(dispatchChan)
       IN  /\ req.kind \in Kinds
           /\ handlers' = Append(handlers, [addr |-> req.addr, kind |-> req.kind,
                                            form |-> req.form, pc |-> "start"])
           /\ reqChans' = Append(reqChans, << >>)
           /\ reqMap' = IF SinglePort
                        THEN [reqMap EXCEPT ![req.addr] = Len(handlers) + 1]
                        ELSE reqMap
    /\ dispatchChan' = Tail(dispatchChan)
    /\ handled' = handled + 1
    /\ UNCHANGED << config, serve, manager, reqDoneChan, closer, conn, received >>

\* The reqChan that a datagram from a is sent to, 0 if there is none.  The
\* first version is wrong: it takes the variable of connManager's scope,
\* which holds the channel made last.
LastMade(a) == IF SinglePort /\ reqMap[a] # 0 THEN Len(handlers) ELSE 0
Route(a) == IF SinglePort THEN reqMap[a] ELSE 0

\* A datagram of a transfer: connManager is about to pass it on.
ManagerRoutes ==
    /\ manager.pc = "select" /\ dispatchChan # << >>
    /\ LET req == Head(dispatchChan)
       IN  /\ req.kind = "OTHER" /\ Route(req.addr) # 0
           /\ manager' = [pc |-> "send", pkt |-> req, to |-> Route(req.addr)]
    /\ dispatchChan' = Tail(dispatchChan)
    /\ UNCHANGED << config, serve, reqMap, handlers, reqChans, reqDoneChan, closer,
                    conn, received, handled >>

\* Whether a send to reqChans[h] goes through: the channel is buffered.  The
\* first version is wrong: without a buffer the handler must be receiving.
Rendezvous(h) == handlers[h].pc = "running" /\ reqChans[h] = << >>
HasRoom(h) == Len(reqChans[h]) < ReqCap

\* reqChan <- req.pkt
ManagerSends ==
    /\ manager.pc = "send" /\ HasRoom(manager.to)
    /\ reqChans' = [reqChans EXCEPT ![manager.to] = Append(@, manager.pkt)]
    /\ manager' = [pc |-> "select", pkt |-> NoPacket, to |-> 0]
    /\ handled' = handled + 1
    /\ UNCHANGED << config, serve, reqMap, handlers, dispatchChan, reqDoneChan,
                    closer, conn, received >>

\* Nobody to pass it on to: the sender is told "Unexpected TID".
ManagerRejects ==
    /\ manager.pc = "select" /\ dispatchChan # << >>
    /\ Head(dispatchChan).kind = "OTHER" /\ Route(Head(dispatchChan).addr) = 0
    /\ dispatchChan' = Tail(dispatchChan)
    /\ handled' = handled + 1
    /\ UNCHANGED << config, serve, manager, reqMap, handlers, reqChans, reqDoneChan, closer,
                    conn, received >>

\* A request is done: delete(reqMap, addr).
ManagerForgets ==
    /\ manager.pc = "select" /\ reqDoneChan # << >>
    /\ reqMap' = [reqMap EXCEPT ![Head(reqDoneChan)] = 0]
    /\ reqDoneChan' = Tail(reqDoneChan)
    /\ UNCHANGED << config, serve, manager, handlers, reqChans, dispatchChan, closer,
                    conn, received, handled >>

ManagerStops ==
    /\ manager.pc = "select" /\ closing
    /\ manager' = [manager EXCEPT !.pc = "returned"]
    /\ UNCHANGED << config, serve, reqMap, handlers, reqChans, dispatchChan,
                    reqDoneChan, closer, conn, received, handled >>

-----------------------------------------------------------------------------
(* dispatchReadRequest and dispatchWriteRequest. *)

HandlerAt(h, pc) == h \in HandlerIds /\ handlers[h].pc = pc

HandlerGoes(h, pc) ==
    /\ handlers' = [handlers EXCEPT ![h].pc = pc]
    /\ UNCHANGED << config, serve, manager, reqMap, dispatchChan, closer, conn,
                    received, handled >>

\* No handler is registered, or newConn fails: an early return.
HandlerRefuses(h) ==
    /\ HandlerAt(h, "start")
    /\ \/ handlers[h].kind \notin Registered
       \/ handlers[h].form = "invalid"
       \/ ~SinglePort /\ handlers[h].form = "valid"       \* the system gives no port
    /\ HandlerGoes(h, "ended")
    /\ UNCHANGED << reqChans, reqDoneChan >>

\* validate panics in newConn; or the handler, or its conn, panics on what its
\* client asks for or sends (windowsize 0, module Client).
HandlerPanics(h) ==
    /\ \/ /\ HandlerAt(h, "start")
          /\ handlers[h].kind \in Registered /\ handlers[h].form = "noNul"
       \/ HandlerAt(h, "running")
    /\ HandlerGoes(h, "panicked")
    /\ UNCHANGED << reqChans, reqDoneChan >>

HandlerStarts(h) ==
    /\ HandlerAt(h, "start")
    /\ handlers[h].kind \in Registered /\ handlers[h].form = "valid"
    /\ HandlerGoes(h, "running")
    /\ UNCHANGED << reqChans, reqDoneChan >>

\* readFromNet in single port mode.
HandlerReceives(h) ==
    /\ HandlerAt(h, "running") /\ reqChans[h] # << >>
    /\ HandlerGoes(h, "running")
    /\ reqChans' = [reqChans EXCEPT ![h] = Tail(@)]
    /\ UNCHANGED reqDoneChan

\* The handler and c.Close() have returned; the closer goes on to signal.
HandlerCloses(h) ==
    /\ HandlerAt(h, "running")
    /\ HandlerGoes(h, IF SinglePort THEN "done" ELSE "ended")
    /\ UNCHANGED << reqChans, reqDoneChan >>

\* s.reqDoneChan <- req.addr.String().  The first versions are wrong: one
\* waits for connManager to take the signal, the other one signals while
\* c.Close() still flushes the transfer.
SignalsInHand(h) ==
    /\ HandlerAt(h, "done") /\ manager.pc = "select" /\ reqDoneChan = << >>
    /\ HandlerGoes(h, "ended")
    /\ reqDoneChan' = Append(reqDoneChan, handlers[h].addr)
    /\ UNCHANGED reqChans

SignalsBeforeClose(h) ==
    /\ HandlerAt(h, "running") /\ Len(reqDoneChan) < DoneCap
    /\ HandlerGoes(h, "running")
    /\ reqDoneChan' = Append(reqDoneChan, handlers[h].addr)
    /\ UNCHANGED reqChans

HandlerSignals(h) ==
    /\ HandlerAt(h, "done") /\ Len(reqDoneChan) < DoneCap
    /\ HandlerGoes(h, "ended")
    /\ reqDoneChan' = Append(reqDoneChan, handlers[h].addr)
    /\ UNCHANGED reqChans

-----------------------------------------------------------------------------
(* Close: close(s.close), then s.conn.Close(), which only returns an error  *)
(* when Serve has not set s.conn.  A second Close is not called.           *)

CloseSignals ==
    /\ closer = "idle"
    /\ closer' = "signalled"
    /\ UNCHANGED << config, serve, manager, reqMap, handlers, reqChans,
                    dispatchChan, reqDoneChan, conn, received, handled >>

CloseConn ==
    /\ closer = "signalled"
    /\ closer' = "returned"
    /\ conn' = IF conn = "open" THEN "closed" ELSE conn
    /\ UNCHANGED << config, serve, manager, reqMap, handlers, reqChans,
                    dispatchChan, reqDoneChan, received, handled >>

-----------------------------------------------------------------------------
(* The goroutines run as long as the process does. *)

ServeStep ==
    /\ ~Crashed
    /\ ServeSelect \/ ServeDeadline \/ ServeFails \/ ServeSends

ManagerStep ==
    /\ ~Crashed
    /\ \/ ManagerStartsHandler \/ ManagerRoutes \/ ManagerSends
       \/ ManagerRejects \/ ManagerForgets \/ ManagerStops

HandlerStep(h) ==
    /\ ~Crashed
    /\ \/ HandlerRefuses(h) \/ HandlerPanics(h) \/ HandlerStarts(h)
       \/ HandlerReceives(h) \/ HandlerCloses(h) \/ HandlerSignals(h)

CloseStep == ~Crashed /\ CloseConn

Next ==
    \/ ServeStep \/ (\E p \in Packets : ~Crashed /\ ServeReceives(p))
    \/ ManagerStep
    \/ \E h \in 1 .. MaxPackets : HandlerStep(h)
    \/ ~Crashed /\ (ServeStarts \/ CloseSignals)
    \/ CloseStep

Spec == Init /\ [][Next]_vars

(***************************************************************************)
(* Every goroutine that can run does run: the fairness of Go's scheduler.  *)
(* A handler returns or panics in the end, since its conn retries only so  *)
(* often.                                                                  *)
(* Nothing is assumed of the clients, or that Close is ever called.        *)
(***************************************************************************)
Fairness ==
    /\ WF_vars(ServeStep) /\ WF_vars(CloseStep) /\ WF_vars(ManagerStep)
    /\ \A h \in 1 .. MaxPackets : WF_vars(HandlerStep(h))

FairSpec == Spec /\ Fairness

-----------------------------------------------------------------------------
(* Properties. *)

\* The state is well formed; in particular no channel exceeds its capacity
\* and no entry of reqMap names a channel that was never made.
TypeOK ==
    /\ serve \in [pc : {"idle", "select", "read", "send", "returned"},
                  req : Packets \cup {NoPacket}]
    /\ manager \in [pc : {"idle", "select", "send", "returned"},
                    pkt : Packets \cup {NoPacket}, to : Nat]
    /\ handlers \in Seq([addr : Addrs, kind : Kinds, form : Forms,
                         pc : {"start", "running", "done", "ended", "panicked"}])
    /\ reqChans \in Seq(Seq(Packets)) /\ Len(reqChans) = Len(handlers)
    /\ \A h \in DOMAIN reqChans : Len(reqChans[h]) <= ReqCap
    /\ reqMap \in [Addrs -> 0 .. Len(handlers)]
    /\ manager.pc = "send" => manager.to \in DOMAIN reqChans
    /\ dispatchChan \in Seq(Packets) /\ Len(dispatchChan) <= DispatchCap
    /\ reqDoneChan \in Seq(Addrs) /\ Len(reqDoneChan) <= DoneCap
    /\ config \in Configs /\ closer \in {"idle", "signalled", "returned"}
    /\ conn \in {"nil", "open", "closed"}
    /\ received \in Nat /\ handled \in Nat

\* A transfer is disturbed by no other client: connManager puts into the
\* reqChan of a request only datagrams from the address of that request.
NoCrossTalk ==
    \A h \in DOMAIN reqChans : \A i \in DOMAIN reqChans[h] :
      reqChans[h][i].addr = handlers[h].addr

\* A transfer is in progress: its handler has not finished yet.
Live(a) == \E h \in HandlerIds : handlers[h].addr = a
                                 /\ handlers[h].pc = "running"

\* In single port mode connManager answers "Unexpected TID" only to an
\* address that has no transfer in progress.
RejectsOnlyStrangers ==
    [][ManagerRejects /\ SinglePort => ~Live(Head(dispatchChan).addr)]_vars

\* connManager sends to the full reqChan of a handler that is gone.
Wedged ==
    /\ manager.pc = "send" /\ Len(reqChans[manager.to]) = ReqCap
    /\ handlers[manager.to].pc \in {"done", "ended"}

\* connManager keeps up: every datagram that Serve has read is dispatched,
\* passed on or rejected in the end, unless the server is closed, or a client
\* goes on to fill the reqChan of a handler that has returned, or a request
\* has brought the process down.
KeepsUp == []<>(handled = received \/ closing \/ Wedged \/ Crashed)

\* Serve has a datagram for a full dispatchChan, from which connManager takes
\* nothing any more: it has returned, or is wedged.
StuckSending ==
    /\ serve.pc = "send" /\ Len(dispatchChan) = DispatchCap
    /\ manager.pc = "returned" \/ Wedged

\* After Close, Serve returns, also if it is only called after Close, unless
\* it waits for ever to send: connManager returned first, or was wedged, and
\* left dispatchChan full.  A process that has crashed returns nothing.
CloseStopsServe ==
    closing /\ serve.pc # "idle" ~>
      serve.pc = "returned" \/ StuckSending \/ Crashed

\* The closer of a request waits for room in reqDoneChan, and connManager
\* will make none.
StuckSignalling(h) ==
    /\ handlers[h].pc = "done" /\ Len(reqDoneChan) = DoneCap
    /\ manager.pc = "returned" \/ Wedged

\* Every request goroutine comes to its end, except those that finish when
\* connManager has returned or is wedged and reqDoneChan is full, and except
\* when one of them brings the process down.
HandlersEnd ==
    []<>(\/ \A h \in HandlerIds : handlers[h].pc = "ended" \/ StuckSignalling(h)
         \/ Crashed)
=============================================================================
