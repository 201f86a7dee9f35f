---------------------------- MODULE ServerProofs ----------------------------
(***************************************************************************)
(* Proofs about module Server, for any clients, configurations, channel    *)
(* capacities and number of datagrams: the state is well formed, a         *)
(* datagram reaches only the request of its sender and, if no client sends *)
(* its request twice, connManager rejects strangers only.                  *)
(*                                                                         *)
(* TypeOK and NoCrossTalk need each other and Routing: what is sent to a   *)
(* channel is a datagram, from the address the channel was made for.       *)
(* RejectsOnlyStrangers needs to know that the entry of a request stands   *)
(* in reqMap until its goroutine has ended, and that in turn that no two   *)
(* requests of an address are on their way.                                *)
(***************************************************************************)
EXTENDS Server, TLAPS, SequenceTheorems

(***************************************************************************)
(* The inductive invariant behind NoCrossTalk and RejectsOnlyStrangers.    *)
(***************************************************************************)

\* What Serve and connManager carry from one step to the next is a datagram,
\* and a channel in reqMap, or in connManager's hand, is the channel of a
\* request from that address.
Routing ==
    /\ serve.pc = "send" => serve.req \in Packets
    /\ manager.pc = "send" =>
         manager.pkt \in Packets /\ handlers[manager.to].addr = manager.pkt.addr
    /\ \A a \in Addrs : reqMap[a] # 0 => handlers[reqMap[a]].addr = a

IsRequest(p) == p.kind # "OTHER"

\* A request that has not reached connManager is the only one of its address.
FreshRequests ==
    /\ \A i \in DOMAIN dispatchChan : IsRequest(dispatchChan[i]) =>
         \A h \in HandlerIds : handlers[h].addr # dispatchChan[i].addr
    /\ \A i, j \in DOMAIN dispatchChan :
         /\ IsRequest(dispatchChan[i]) /\ IsRequest(dispatchChan[j])
         /\ dispatchChan[i].addr = dispatchChan[j].addr
         => i = j
    /\ serve.pc = "send" /\ IsRequest(serve.req) =>
         /\ \A h \in HandlerIds : handlers[h].addr # serve.req.addr
         /\ \A i \in DOMAIN dispatchChan : IsRequest(dispatchChan[i]) =>
              dispatchChan[i].addr # serve.req.addr

\* The entry of a request in reqMap stands until its goroutine has ended; an
\* address is signalled as done only after that.
EntriesStand ==
    /\ \A h, k \in HandlerIds : handlers[h].addr = handlers[k].addr => h = k
    /\ \A h \in HandlerIds :
         handlers[h].pc # "ended" => reqMap[handlers[h].addr] = h
    /\ \A i \in DOMAIN reqDoneChan : \E h \in HandlerIds :
         handlers[h].addr = reqDoneChan[i] /\ handlers[h].pc = "ended"

\* Datagrams reach the request of their address only and, as long as no
\* client sends its request twice, every request that has not ended is found
\* in reqMap.
ServerInv ==
    /\ TypeOK /\ NoCrossTalk /\ Routing
    /\ SinglePort /\ ~Resends => FreshRequests /\ EntriesStand

HandlerRec == [addr : Addrs, kind : Kinds, form : Forms,
               pc : {"start", "running", "done", "ended", "panicked"}]

\* TypeOK, NoCrossTalk and Routing, the part of ServerInv about any clients.
RouteInv == TypeOK /\ NoCrossTalk /\ Routing

-----------------------------------------------------------------------------
(* Channels: what Append and Tail do to their elements. *)

\* A send on a channel that has room.
LEMMA Sent ==
    ASSUME NEW S, NEW q \in Seq(S), NEW e \in S, NEW cap \in Nat,
           Len(q) < cap
    PROVE  /\ Append(q, e) \in Seq(S) /\ Len(Append(q, e)) <= cap
           /\ Len(Append(q, e)) = Len(q) + 1
           /\ \A i \in DOMAIN Append(q, e) :
                \/ i \in DOMAIN q /\ Append(q, e)[i] = q[i]
                \/ i = Len(q) + 1 /\ Append(q, e)[i] = e
<1>1. Len(q) \in Nat
  OBVIOUS
<1>2. /\ Append(q, e) \in Seq(S) /\ Len(Append(q, e)) = Len(q) + 1
      /\ \A i \in 1 .. Len(q) : Append(q, e)[i] = q[i]
      /\ Append(q, e)[Len(q) + 1] = e
  BY AppendProperties
<1>3. DOMAIN Append(q, e) = 1 .. Len(q) + 1 /\ DOMAIN q = 1 .. Len(q)
  BY <1>2
<1> QED
  BY <1>1, <1>2, <1>3

\* A receive from a channel that is not empty.
LEMMA Received ==
    ASSUME NEW S, NEW q \in Seq(S), q # << >>, NEW cap \in Nat, Len(q) <= cap
    PROVE  /\ Head(q) \in S /\ Tail(q) \in Seq(S) /\ Len(Tail(q)) <= cap
           /\ 1 \in DOMAIN q /\ q[1] = Head(q)
           /\ \A i \in DOMAIN Tail(q) :
                i + 1 \in DOMAIN q /\ i # 0 /\ Tail(q)[i] = q[i + 1]
<1>1. Len(q) \in Nat /\ Len(q) # 0
  BY EmptySeq
<1>2. /\ Head(q) \in S /\ Tail(q) \in Seq(S) /\ Len(Tail(q)) = Len(q) - 1
      /\ \A i \in 1 .. Len(Tail(q)) : Tail(q)[i] = q[i + 1]
  BY HeadTailProperties
<1>3. DOMAIN Tail(q) = 1 .. Len(q) - 1 /\ DOMAIN q = 1 .. Len(q)
  BY <1>2
<1> QED
  BY <1>1, <1>2, <1>3

\* The domains of handlers and reqChans.
LEMMA Domains ==
    ASSUME TypeOK
    PROVE  /\ Len(handlers) \in Nat /\ HandlerIds = 1 .. Len(handlers)
           /\ DOMAIN reqChans = HandlerIds
           /\ \A h \in HandlerIds : handlers[h] \in HandlerRec
           /\ \A h \in HandlerIds : reqChans[h] \in Seq(Packets)
<1>1. handlers \in Seq(HandlerRec) /\ reqChans \in Seq(Seq(Packets))
      /\ Len(reqChans) = Len(handlers)
  BY DEF TypeOK, HandlerRec
<1>2. /\ Len(handlers) \in Nat /\ HandlerIds = 1 .. Len(handlers)
      /\ DOMAIN reqChans = 1 .. Len(reqChans)
  BY <1>1, LenProperties DEF HandlerIds
<1>3. \A h \in 1 .. Len(handlers) : handlers[h] \in HandlerRec
  BY <1>1, ElementOfSeq
<1>4. \A h \in 1 .. Len(reqChans) : reqChans[h] \in Seq(Packets)
  BY <1>1, ElementOfSeq
<1> QED
  BY <1>1, <1>2, <1>3, <1>4

\* A request goroutine goes on: only its pc changes.
LEMMA Goes ==
    ASSUME TypeOK, NEW h \in HandlerIds,
           NEW pc \in {"start", "running", "done", "ended", "panicked"},
           handlers' = [handlers EXCEPT ![h].pc = pc]
    PROVE  /\ handlers' \in Seq(HandlerRec)
           /\ Len(handlers') = Len(handlers) /\ HandlerIds' = HandlerIds
           /\ \A k \in HandlerIds :
                /\ handlers'[k].addr = handlers[k].addr
                /\ handlers'[k].pc = IF k = h THEN pc ELSE handlers[k].pc
<1> DEFINE e == [handlers[h] EXCEPT !.pc = pc]
<1>1. handlers \in Seq(HandlerRec) /\ h \in 1 .. Len(handlers)
      /\ HandlerIds = 1 .. Len(handlers) /\ handlers[h] \in HandlerRec
  BY Domains DEF TypeOK, HandlerRec
<1>2. e \in HandlerRec /\ e.addr = handlers[h].addr /\ e.pc = pc
  BY <1>1 DEF HandlerRec
<1>3. handlers' = [handlers EXCEPT ![h] = e]
  OBVIOUS
<1> HIDE DEF e
<1>4. /\ handlers' \in Seq(HandlerRec) /\ Len(handlers') = Len(handlers)
      /\ \A k \in 1 .. Len(handlers) :
           handlers'[k] = IF k = h THEN e ELSE handlers[k]
  BY <1>1, <1>2, <1>3, ExceptSeq
<1>5. HandlerIds' = HandlerIds
  BY <1>1, <1>4, LenProperties DEF HandlerIds
<1> QED
  BY <1>1, <1>2, <1>4, <1>5

-----------------------------------------------------------------------------
(* Any clients: RouteInv. *)

LEMMA InitRoute ==
    Init => RouteInv
<1> SUFFICES ASSUME Init PROVE RouteInv
  OBVIOUS
<1>1. DOMAIN handlers = {} /\ DOMAIN reqChans = {} /\ Len(handlers) = 0
      /\ Len(reqChans) = 0 /\ Len(dispatchChan) = 0 /\ Len(reqDoneChan) = 0
  BY DEF Init
<1>2. TypeOK
  BY <1>1, ServerAssumption, EmptySeq DEF Init, TypeOK
<1>3. NoCrossTalk /\ Routing
  BY <1>1 DEF Init, NoCrossTalk, Routing
<1> QED
  BY <1>2, <1>3 DEF RouteInv

\* Serve, Close and the steps of connManager that stop or drop something.
LEMMA SmallSteps ==
    ASSUME RouteInv,
           \/ ServeStarts \/ ServeSelect \/ ServeDeadline \/ ServeFails
           \/ (\E p \in Packets : ServeReceives(p))
           \/ ManagerStops \/ CloseSignals \/ CloseConn
    PROVE  RouteInv'
<1> USE DEF RouteInv
<1>1. /\ UNCHANGED << config, reqMap, handlers, reqChans, dispatchChan,
                       reqDoneChan, handled >>
      /\ manager'.pkt = manager.pkt /\ manager'.to = manager.to
      /\ manager' \in [pc : {"idle", "select", "send", "returned"},
                        pkt : Packets \cup {NoPacket}, to : Nat]
      /\ manager'.pc = "send" => manager.pc = "send"
  BY DEF TypeOK, ServeStarts, ServeSelect, ServeDeadline, ServeFails,
         ServeReceives, ManagerStops, CloseSignals, CloseConn
<1>2. /\ serve' \in [pc : {"idle", "select", "read", "send", "returned"},
                      req : Packets \cup {NoPacket}]
      /\ serve'.pc = "send" => serve'.req \in Packets
  BY DEF TypeOK, Routing, ServeStarts, ServeSelect, ServeDeadline, ServeFails,
         ServeReceives, ManagerStops, CloseSignals, CloseConn
<1>3. /\ closer' \in {"idle", "signalled", "returned"}
      /\ conn' \in {"nil", "open", "closed"} /\ received' \in Nat
  BY DEF TypeOK, ServeStarts, ServeSelect, ServeDeadline, ServeFails,
         ServeReceives, ManagerStops, CloseSignals, CloseConn
<1>4. TypeOK'
  BY <1>1, <1>2, <1>3 DEF TypeOK
<1>5. NoCrossTalk' /\ Routing'
  BY <1>1, <1>2 DEF NoCrossTalk, Routing
<1> QED
  BY <1>4, <1>5

LEMMA SendsRoute ==
    ASSUME RouteInv, ServeSends
    PROVE  RouteInv'
<1> USE DEF RouteInv
<1>1. serve.req \in Packets /\ dispatchChan \in Seq(Packets)
      /\ Len(dispatchChan) < DispatchCap /\ DispatchCap \in Nat
  BY ServerAssumption DEF TypeOK, Routing, ServeSends
<1>2. dispatchChan' \in Seq(Packets) /\ Len(dispatchChan') <= DispatchCap
  BY <1>1, Sent DEF ServeSends
<1>3. TypeOK'
  BY <1>2 DEF TypeOK, ServeSends
<1>4. NoCrossTalk' /\ Routing'
  BY DEF NoCrossTalk, Routing, ServeSends
<1> QED
  BY <1>3, <1>4

LEMMA StartsHandlerRoute ==
    ASSUME RouteInv, ManagerStartsHandler
    PROVE  RouteInv'
<1> USE DEF RouteInv
<1> DEFINE req == Head(dispatchChan)
           rec == [addr |-> req.addr, kind |-> req.kind, form |-> req.form,
                   pc |-> "start"]
           new == Len(handlers) + 1
<1>1. /\ req \in Packets /\ req.addr \in Addrs /\ rec \in HandlerRec
      /\ dispatchChan' \in Seq(Packets) /\ Len(dispatchChan') <= DispatchCap
  <2>1. dispatchChan \in Seq(Packets) /\ dispatchChan # << >>
        /\ Len(dispatchChan) <= DispatchCap /\ DispatchCap \in Nat
    BY ServerAssumption DEF TypeOK, ManagerStartsHandler
  <2>2. req \in Packets /\ Tail(dispatchChan) \in Seq(Packets)
        /\ Len(Tail(dispatchChan)) <= DispatchCap
    BY <2>1, Received
  <2>3. req.kind \in Kinds /\ dispatchChan' = Tail(dispatchChan)
    BY DEF ManagerStartsHandler
  <2>4. req.addr \in Addrs /\ req.form \in Forms
    BY <2>2 DEF Packets, Forms
  <2>5. rec \in HandlerRec
    BY <2>3, <2>4 DEF HandlerRec
  <2> QED
    BY <2>2, <2>3, <2>4, <2>5
<1>2. /\ handlers' = Append(handlers, rec) /\ reqChans' = Append(reqChans, << >>)
      /\ reqMap' = IF SinglePort THEN [reqMap EXCEPT ![req.addr] = new] ELSE reqMap
      /\ UNCHANGED << config, serve, manager, reqDoneChan, closer, conn, received >>
      /\ handled' = handled + 1
  BY DEF ManagerStartsHandler
<1> HIDE DEF req, rec
<1>3. /\ handlers \in Seq(HandlerRec) /\ reqChans \in Seq(Seq(Packets))
      /\ Len(reqChans) = Len(handlers) /\ Len(handlers) \in Nat
      /\ << >> \in Seq(Packets)
  BY Domains, EmptySeq DEF TypeOK, HandlerRec
<1>4. /\ handlers' \in Seq(HandlerRec) /\ Len(handlers') = new
      /\ \A h \in 1 .. Len(handlers) : handlers'[h] = handlers[h]
      /\ handlers'[new] = rec
  BY <1>1, <1>2, <1>3, AppendProperties
<1>5. /\ reqChans' \in Seq(Seq(Packets)) /\ Len(reqChans') = new
      /\ \A h \in 1 .. Len(handlers) : reqChans'[h] = reqChans[h]
      /\ reqChans'[new] = << >>
  BY <1>2, <1>3, AppendProperties
<1>6. /\ DOMAIN reqChans' = 1 .. new /\ DOMAIN reqChans = 1 .. Len(handlers)
      /\ \A h \in 1 .. new : h \in 1 .. Len(handlers) \/ h = new
  BY <1>3, <1>5, LenProperties
<1>7. reqMap' \in [Addrs -> 0 .. new] /\ reqMap \in [Addrs -> 0 .. Len(handlers)]
  BY <1>1, <1>2, <1>3 DEF TypeOK
<1>8. \A h \in DOMAIN reqChans' : Len(reqChans'[h]) <= ReqCap
  <2>1. Len(<< >>) = 0 /\ ReqCap \in Nat
    BY EmptySeq, ServerAssumption
  <2>2. \A h \in 1 .. Len(handlers) : Len(reqChans[h]) <= ReqCap
    BY <1>6 DEF TypeOK
  <2> QED
    BY <1>5, <1>6, <2>1, <2>2
<1>9. TypeOK'
  BY <1>1, <1>2, <1>3, <1>4, <1>5, <1>6, <1>7, <1>8 DEF TypeOK, HandlerRec
<1>10. NoCrossTalk'
  <2> SUFFICES ASSUME NEW h \in 1 .. new, NEW i \in DOMAIN reqChans'[h]
               PROVE  reqChans'[h][i].addr = handlers'[h].addr
    BY <1>6 DEF NoCrossTalk
  <2>1. h # new
    <3>1. DOMAIN << >> = {}
      OBVIOUS
    <3> QED
      BY <1>5, <3>1
  <2>2. h \in 1 .. Len(handlers)
    BY <1>6, <2>1
  <2> QED
    BY <1>4, <1>5, <1>6, <2>2 DEF NoCrossTalk
<1>11. Routing'
  <2>1. rec.addr = req.addr
    BY DEF rec
  <2>2. ASSUME NEW a \in Addrs, reqMap'[a] # 0
        PROVE  handlers'[reqMap'[a]].addr = a
    <3>1. CASE SinglePort /\ a = req.addr
      BY <1>2, <1>4, <1>7, <2>1, <3>1
    <3>2. CASE ~(SinglePort /\ a = req.addr)
      <4>1. reqMap'[a] = reqMap[a]
        BY <1>2, <1>7, <3>2
      <4>2. reqMap[a] \in 1 .. Len(handlers)
        BY <1>3, <1>7, <2>2, <4>1
      <4> QED
        BY <1>4, <2>2, <4>1, <4>2 DEF Routing
    <3> QED
      BY <3>1, <3>2
  <2>3. manager.pc = "send" => manager.to \in 1 .. Len(handlers)
    BY <1>6 DEF TypeOK
  <2> QED
    BY <1>2, <1>4, <2>2, <2>3 DEF Routing
<1> QED
  BY <1>9, <1>10, <1>11

\* connManager takes a datagram that is no request.
LEMMA TakesOther ==
    ASSUME RouteInv, dispatchChan # << >>, dispatchChan' = Tail(dispatchChan)
    PROVE  /\ Head(dispatchChan) \in Packets /\ Head(dispatchChan).addr \in Addrs
           /\ dispatchChan' \in Seq(Packets) /\ Len(dispatchChan') <= DispatchCap
<1>1. dispatchChan \in Seq(Packets) /\ Len(dispatchChan) <= DispatchCap
      /\ DispatchCap \in Nat
  BY ServerAssumption DEF RouteInv, TypeOK
<1>2. Head(dispatchChan) \in Packets /\ dispatchChan' \in Seq(Packets)
      /\ Len(dispatchChan') <= DispatchCap
  BY <1>1, Received
<1> QED
  BY <1>2 DEF Packets

LEMMA RoutesRoute ==
    ASSUME RouteInv, ManagerRoutes \/ ManagerRejects
    PROVE  RouteInv'
<1> USE DEF RouteInv
<1> DEFINE p == Head(dispatchChan)
<1>1. /\ p \in Packets /\ p.addr \in Addrs
      /\ dispatchChan' \in Seq(Packets) /\ Len(dispatchChan') <= DispatchCap
  BY TakesOther DEF ManagerRoutes, ManagerRejects
<1>2. /\ UNCHANGED << config, serve, reqMap, handlers, reqChans, reqDoneChan,
                       closer, conn, received >>
      /\ handled' \in Nat
  BY DEF TypeOK, ManagerRoutes, ManagerRejects
<1>3. \/ UNCHANGED manager
      \/ /\ manager' = [pc |-> "send", pkt |-> p, to |-> reqMap[p.addr]]
         /\ reqMap[p.addr] # 0
  BY DEF ManagerRoutes, ManagerRejects, Route
<1> HIDE DEF p
<1>4. reqMap[p.addr] \in Nat
      /\ (reqMap[p.addr] # 0 => reqMap[p.addr] \in DOMAIN reqChans)
  BY <1>1, Domains DEF TypeOK
<1>5. TypeOK'
  BY <1>1, <1>2, <1>3, <1>4 DEF TypeOK
<1>6. NoCrossTalk'
  BY <1>2 DEF NoCrossTalk
<1>7. Routing'
  BY <1>1, <1>2, <1>3 DEF Routing
<1> QED
  BY <1>5, <1>6, <1>7

LEMMA SendsToHandlerRoute ==
    ASSUME RouteInv, ManagerSends
    PROVE  RouteInv'
<1> USE DEF RouteInv
<1> DEFINE t == manager.to
           q == Append(reqChans[t], manager.pkt)
<1>1. /\ t \in HandlerIds /\ reqChans[t] \in Seq(Packets)
      /\ DOMAIN reqChans = HandlerIds /\ HandlerIds = 1 .. Len(reqChans)
      /\ manager.pkt \in Packets /\ manager.pkt.addr = handlers[t].addr
      /\ Len(reqChans[t]) < ReqCap /\ ReqCap \in Nat
  BY Domains, ServerAssumption DEF TypeOK, Routing, ManagerSends, HasRoom
<1>2. /\ reqChans' = [reqChans EXCEPT ![t] = q] /\ handled' = handled + 1
      /\ manager' = [pc |-> "select", pkt |-> NoPacket, to |-> 0]
      /\ UNCHANGED << config, serve, reqMap, handlers, dispatchChan,
                       reqDoneChan, closer, conn, received >>
  BY DEF ManagerSends
<1>3. /\ q \in Seq(Packets) /\ Len(q) <= ReqCap
      /\ \A i \in DOMAIN q : \/ i \in DOMAIN reqChans[t] /\ q[i] = reqChans[t][i]
                             \/ q[i] = manager.pkt
  BY <1>1, Sent
<1> HIDE DEF q, t
<1>4. /\ reqChans' \in Seq(Seq(Packets)) /\ Len(reqChans') = Len(reqChans)
      /\ \A h \in HandlerIds : reqChans'[h] = IF h = t THEN q ELSE reqChans[h]
  <2>1. reqChans \in Seq(Seq(Packets))
    BY DEF TypeOK
  <2> QED
    BY <1>1, <1>2, <1>3, <2>1, ExceptSeq
<1>5. DOMAIN reqChans' = HandlerIds
  BY <1>1, <1>4, LenProperties
<1>6. \A h \in HandlerIds : Len(reqChans'[h]) <= ReqCap
  BY <1>1, <1>3, <1>4 DEF TypeOK
<1>7. TypeOK'
  BY <1>1, <1>2, <1>4, <1>5, <1>6 DEF TypeOK
<1>8. NoCrossTalk'
  <2> SUFFICES ASSUME NEW h \in HandlerIds, NEW i \in DOMAIN reqChans'[h]
               PROVE  reqChans'[h][i].addr = handlers[h].addr
    BY <1>2, <1>5 DEF NoCrossTalk
  <2>1. \A k \in HandlerIds : \A j \in DOMAIN reqChans[k] :
          reqChans[k][j].addr = handlers[k].addr
    BY <1>1 DEF NoCrossTalk
  <2>2. CASE h = t
    <3>1. reqChans'[h] = q
      BY <1>4, <2>2
    <3> QED
      BY <1>1, <1>3, <2>1, <2>2, <3>1
  <2>3. CASE h # t
    <3>1. reqChans'[h] = reqChans[h]
      BY <1>4, <2>3
    <3> QED
      BY <2>1, <3>1
  <2> QED
    BY <2>2, <2>3
<1>9. Routing'
  BY <1>2 DEF Routing
<1> QED
  BY <1>7, <1>8, <1>9

LEMMA ForgetsRoute ==
    ASSUME RouteInv, ManagerForgets
    PROVE  RouteInv'
<1> USE DEF RouteInv
<1>1. reqDoneChan \in Seq(Addrs) /\ reqDoneChan # << >>
      /\ Len(reqDoneChan) <= DoneCap /\ DoneCap \in Nat
  BY ServerAssumption DEF TypeOK, ManagerForgets
<1>2. Head(reqDoneChan) \in Addrs /\ reqDoneChan' \in Seq(Addrs)
      /\ Len(reqDoneChan') <= DoneCap
  BY <1>1, Received DEF ManagerForgets
<1>3. /\ reqMap' = [reqMap EXCEPT ![Head(reqDoneChan)] = 0]
      /\ UNCHANGED << config, serve, manager, handlers, reqChans,
                       dispatchChan, closer, conn, received, handled >>
  BY DEF ManagerForgets
<1>4. reqMap' \in [Addrs -> 0 .. Len(handlers)]
      /\ \A a \in Addrs : reqMap'[a] # 0 => reqMap'[a] = reqMap[a]
  BY <1>2, <1>3, Domains DEF TypeOK
<1>5. TypeOK'
  BY <1>2, <1>3, <1>4 DEF TypeOK
<1>6. NoCrossTalk' /\ Routing'
  BY <1>3, <1>4 DEF NoCrossTalk, Routing
<1> QED
  BY <1>5, <1>6

\* The steps of a request goroutine.
LEMMA HandlerShape ==
    ASSUME TypeOK, NEW h, HandlerStep(h)
    PROVE  /\ h \in HandlerIds
           /\ \E pc \in {"start", "running", "done", "ended", "panicked"} :
                /\ handlers' = [handlers EXCEPT ![h].pc = pc]
                /\ pc # "ended" => handlers[h].pc # "ended"
           /\ UNCHANGED << config, serve, manager, reqMap, dispatchChan, closer,
                           conn, received, handled >>
           /\ \/ UNCHANGED reqChans
              \/ /\ reqChans[h] # << >>
                 /\ reqChans' = [reqChans EXCEPT ![h] = Tail(@)]
           /\ \/ UNCHANGED reqDoneChan
              \/ /\ Len(reqDoneChan) < DoneCap
                 /\ reqDoneChan' = Append(reqDoneChan, handlers[h].addr)
                 /\ handlers' = [handlers EXCEPT ![h].pc = "ended"]
BY DEF HandlerStep, HandlerRefuses, HandlerPanics, HandlerStarts,
       HandlerReceives, HandlerCloses, HandlerSignals, HandlerGoes, HandlerAt

LEMMA HandlerRoute ==
    ASSUME RouteInv, NEW h, HandlerStep(h)
    PROVE  RouteInv'
<1> USE DEF RouteInv
<1>1. h \in HandlerIds /\ HandlerIds = 1 .. Len(handlers)
      /\ DOMAIN reqChans = HandlerIds
      /\ UNCHANGED << config, serve, manager, reqMap, dispatchChan, closer,
                      conn, received, handled >>
  BY HandlerShape, Domains
<1>2. PICK pc \in {"start", "running", "done", "ended", "panicked"} :
        handlers' = [handlers EXCEPT ![h].pc = pc]
  BY HandlerShape
<1>3. /\ handlers' \in Seq(HandlerRec) /\ Len(handlers') = Len(handlers)
      /\ \A k \in HandlerIds : handlers'[k].addr = handlers[k].addr
  BY <1>1, <1>2, Goes
<1>4. /\ reqChans' \in Seq(Seq(Packets)) /\ Len(reqChans') = Len(reqChans)
      /\ DOMAIN reqChans' = HandlerIds
      /\ \A k \in HandlerIds :
           /\ Len(reqChans'[k]) <= ReqCap
           /\ \A i \in DOMAIN reqChans'[k] :
                \E j \in DOMAIN reqChans[k] : reqChans'[k][i] = reqChans[k][j]
  <2>1. reqChans \in Seq(Seq(Packets)) /\ h \in 1 .. Len(reqChans)
        /\ reqChans[h] \in Seq(Packets) /\ ReqCap \in Nat
        /\ \A k \in HandlerIds : Len(reqChans[k]) <= ReqCap
    BY <1>1, Domains, ServerAssumption DEF TypeOK
  <2>2. CASE UNCHANGED reqChans
    BY <1>1, <2>1, <2>2
  <2>3. CASE reqChans[h] # << >> /\ reqChans' = [reqChans EXCEPT ![h] = Tail(@)]
    <3> DEFINE q == Tail(reqChans[h])
    <3>1. /\ q \in Seq(Packets) /\ Len(q) <= ReqCap
          /\ \A i \in DOMAIN q : i + 1 \in DOMAIN reqChans[h]
                                /\ q[i] = reqChans[h][i + 1]
      <4>1. Len(reqChans[h]) <= ReqCap /\ reqChans[h] # << >>
        BY <1>1, <2>1, <2>3
      <4> QED
        BY <2>1, <4>1, Received
    <3>2. reqChans' = [reqChans EXCEPT ![h] = q]
      BY <2>3
    <3> HIDE DEF q
    <3>3. /\ reqChans' \in Seq(Seq(Packets)) /\ Len(reqChans') = Len(reqChans)
          /\ \A k \in 1 .. Len(reqChans) :
               reqChans'[k] = IF k = h THEN q ELSE reqChans[k]
      BY <2>1, <3>1, <3>2, ExceptSeq
    <3>4. DOMAIN reqChans' = HandlerIds /\ HandlerIds = 1 .. Len(reqChans)
      BY <1>1, <2>1, <3>3, LenProperties
    <3> QED
      BY <2>1, <3>1, <3>3, <3>4
  <2> QED
    BY <2>2, <2>3, HandlerShape
<1>5. reqDoneChan' \in Seq(Addrs) /\ Len(reqDoneChan') <= DoneCap
  <2>1. reqDoneChan \in Seq(Addrs) /\ Len(reqDoneChan) <= DoneCap
        /\ DoneCap \in Nat
    BY ServerAssumption DEF TypeOK
  <2>2. handlers[h].addr \in Addrs
    BY <1>1, Domains DEF HandlerRec
  <2>3. CASE UNCHANGED reqDoneChan
    BY <2>1, <2>3
  <2>4. CASE /\ Len(reqDoneChan) < DoneCap
             /\ reqDoneChan' = Append(reqDoneChan, handlers[h].addr)
    BY <2>1, <2>2, <2>4, Sent
  <2> QED
    BY <2>3, <2>4, HandlerShape
<1>6. TypeOK'
  BY <1>1, <1>3, <1>4, <1>5 DEF TypeOK, HandlerRec
<1>7. NoCrossTalk'
  BY <1>3, <1>4, <1>1 DEF NoCrossTalk
<1>8. Routing'
  <2>1. manager.pc = "send" => manager.to \in HandlerIds
    BY <1>1 DEF TypeOK
  <2>2. \A a \in Addrs : reqMap[a] # 0 => reqMap[a] \in HandlerIds
    BY <1>1, Domains DEF TypeOK
  <2> QED
    BY <1>1, <1>3, <2>1, <2>2 DEF Routing
<1> QED
  BY <1>6, <1>7, <1>8

LEMMA NextRoute ==
    RouteInv /\ [Next]_vars => RouteInv'
<1> SUFFICES ASSUME RouteInv, [Next]_vars PROVE RouteInv'
  OBVIOUS
<1>1. CASE UNCHANGED vars
  BY <1>1 DEF vars, RouteInv, TypeOK, NoCrossTalk, Routing
<1>2. CASE Next
  BY <1>2, SmallSteps, SendsRoute, StartsHandlerRoute, RoutesRoute,
     SendsToHandlerRoute, ForgetsRoute, HandlerRoute
     DEF Next, ServeStep, ManagerStep, CloseStep
<1> QED
  BY <1>1, <1>2

\* The state of the server is well formed: every channel keeps within its
\* capacity, and every channel in reqMap is that of a request that was made.
THEOREM ServerTypeCorrect ==
    Spec => []TypeOK
<1>1. RouteInv => TypeOK
  BY DEF RouteInv
<1> QED
  BY <1>1, InitRoute, NextRoute, PTL DEF Spec

\* connManager puts into the reqChan of a request only datagrams from the
\* address of that request, for any number of clients and in both modes.
THEOREM TransfersAreSeparate ==
    Spec => []NoCrossTalk
<1>1. RouteInv => NoCrossTalk
  BY DEF RouteInv
<1> QED
  BY <1>1, InitRoute, NextRoute, PTL DEF Spec

-----------------------------------------------------------------------------
(* Clients that send their request once: no stranger is taken for another. *)

OnceInv == SinglePort /\ ~Resends => FreshRequests /\ EntriesStand

LEMMA InitOnce ==
    Init => OnceInv
<1> SUFFICES ASSUME Init PROVE FreshRequests /\ EntriesStand
  BY DEF OnceInv
<1>1. DOMAIN handlers = {} /\ DOMAIN dispatchChan = {}
      /\ DOMAIN reqDoneChan = {} /\ serve.pc # "send"
  BY DEF Init
<1> QED
  BY <1>1 DEF FreshRequests, EntriesStand, HandlerIds

\* Serve reads a datagram, or leaves alone what it carries.
LEMMA SmallOnce ==
    ASSUME RouteInv, OnceInv,
           \/ ServeStarts \/ ServeSelect \/ ServeDeadline \/ ServeFails
           \/ (\E p \in Packets : ServeReceives(p))
           \/ ManagerStops \/ CloseSignals \/ CloseConn \/ ManagerSends
    PROVE  OnceInv'
<1>1. UNCHANGED << config, reqMap, handlers, dispatchChan, reqDoneChan >>
  BY DEF ServeStarts, ServeSelect, ServeDeadline, ServeFails, ServeReceives,
         ManagerStops, CloseSignals, CloseConn, ManagerSends
<1> SUFFICES ASSUME SinglePort, ~Resends
             PROVE  FreshRequests' /\ EntriesStand'
  BY <1>1 DEF OnceInv, SinglePort
<1>2. FreshRequests /\ EntriesStand
  BY DEF OnceInv
<1>3. EntriesStand'
  BY <1>1, <1>2 DEF EntriesStand, HandlerIds
<1>4. CASE \E p \in Packets : ServeReceives(p)
  <2>1. PICK p \in Packets : ServeReceives(p)
    BY <1>4
  <2>2. serve'.req = p /\ MayArrive(p)
    BY <2>1 DEF ServeReceives
  <2>3. IsRequest(p) =>
          /\ \A h \in HandlerIds : handlers[h].addr # p.addr
          /\ \A i \in DOMAIN dispatchChan : IsRequest(dispatchChan[i]) =>
               dispatchChan[i].addr # p.addr
    BY <2>2 DEF MayArrive, IsRequest
  <2> QED
    BY <1>1, <1>2, <1>3, <2>2, <2>3 DEF FreshRequests, HandlerIds, IsRequest
<1>5. CASE ~\E p \in Packets : ServeReceives(p)
  <2>1. serve'.pc = "send" => UNCHANGED serve
    <3>1. serve \in [pc : {"idle", "select", "read", "send", "returned"},
                     req : Packets \cup {NoPacket}]
      BY DEF RouteInv, TypeOK
    <3> QED
      BY <1>5, <3>1
         DEF ServeStarts, ServeSelect, ServeDeadline, ServeFails, ManagerStops,
             CloseSignals, CloseConn, ManagerSends
  <2> QED
    BY <1>1, <1>2, <1>3, <2>1 DEF FreshRequests, HandlerIds, IsRequest
<1> QED
  BY <1>4, <1>5

LEMMA SendsOnce ==
    ASSUME RouteInv, OnceInv, ServeSends
    PROVE  OnceInv'
<1>1. /\ UNCHANGED << config, reqMap, handlers, reqDoneChan >>
      /\ serve'.pc = "select" /\ serve.pc = "send"
      /\ dispatchChan' = Append(dispatchChan, serve.req)
  BY DEF ServeSends
<1> SUFFICES ASSUME SinglePort, ~Resends
             PROVE  FreshRequests' /\ EntriesStand'
  BY <1>1 DEF OnceInv, SinglePort
<1>2. FreshRequests /\ EntriesStand
  BY DEF OnceInv
<1>3. EntriesStand'
  BY <1>1, <1>2 DEF EntriesStand, HandlerIds
<1>4. \A i \in DOMAIN dispatchChan' :
        \/ i \in DOMAIN dispatchChan /\ dispatchChan'[i] = dispatchChan[i]
        \/ i = Len(dispatchChan) + 1 /\ dispatchChan'[i] = serve.req
  <2>1. serve.req \in Packets /\ dispatchChan \in Seq(Packets)
        /\ Len(dispatchChan) < DispatchCap /\ DispatchCap \in Nat
    BY ServerAssumption DEF RouteInv, TypeOK, Routing, ServeSends
  <2> QED
    BY <1>1, <2>1, Sent
<1>5. FreshRequests'
  BY <1>1, <1>2, <1>4 DEF FreshRequests, HandlerIds, IsRequest
<1> QED
  BY <1>3, <1>5

\* What connManager leaves in dispatchChan was there before.
LEMMA TakenFrom ==
    ASSUME RouteInv, dispatchChan # << >>, dispatchChan' = Tail(dispatchChan)
    PROVE  /\ 1 \in DOMAIN dispatchChan /\ dispatchChan[1] = Head(dispatchChan)
           /\ \A i \in DOMAIN dispatchChan' :
                /\ i \in Nat /\ i # 0 /\ i + 1 \in DOMAIN dispatchChan
                /\ dispatchChan'[i] = dispatchChan[i + 1]
<1>1. dispatchChan \in Seq(Packets) /\ Len(dispatchChan) <= DispatchCap
      /\ DispatchCap \in Nat
  BY ServerAssumption DEF RouteInv, TypeOK
<1>2. Tail(dispatchChan) \in Seq(Packets)
  BY <1>1, HeadTailProperties
<1>3. \A i \in DOMAIN dispatchChan' : i \in Nat
  BY <1>2
<1> QED
  BY <1>1, <1>3, Received

LEMMA StartsHandlerOnce ==
    ASSUME RouteInv, OnceInv, ManagerStartsHandler
    PROVE  OnceInv'
<1> DEFINE req == Head(dispatchChan)
           rec == [addr |-> req.addr, kind |-> req.kind, form |-> req.form,
                   pc |-> "start"]
           new == Len(handlers) + 1
<1>1. UNCHANGED << config, serve, reqDoneChan >>
  BY DEF ManagerStartsHandler
<1> SUFFICES ASSUME SinglePort, ~Resends
             PROVE  FreshRequests' /\ EntriesStand'
  BY <1>1 DEF OnceInv, SinglePort
<1>2. FreshRequests /\ EntriesStand
  BY DEF OnceInv
<1>3. /\ handlers' = Append(handlers, rec)
      /\ reqMap' = [reqMap EXCEPT ![req.addr] = new]
      /\ dispatchChan # << >> /\ dispatchChan' = Tail(dispatchChan)
      /\ req.kind \in Kinds
  BY DEF ManagerStartsHandler
<1>4. IsRequest(req)
  BY <1>3 DEF IsRequest, Kinds
<1>5. /\ 1 \in DOMAIN dispatchChan /\ dispatchChan[1] = req
      /\ \A i \in DOMAIN dispatchChan' :
           /\ i \in Nat /\ i # 0 /\ i + 1 \in DOMAIN dispatchChan
           /\ dispatchChan'[i] = dispatchChan[i + 1]
  BY <1>3, TakenFrom
<1>6. req.addr \in Addrs /\ rec.addr = req.addr /\ rec.pc = "start"
      /\ rec \in HandlerRec
  <2>1. req \in Packets /\ req.addr \in Addrs
    BY <1>3, TakesOther
  <2>2. req.form \in Forms
    BY <2>1 DEF Packets, Forms
  <2> QED
    BY <1>3, <2>1, <2>2 DEF HandlerRec
<1> HIDE DEF req, rec
<1>7. /\ HandlerIds = 1 .. Len(handlers) /\ Len(handlers) \in Nat
      /\ HandlerIds' = 1 .. new
      /\ \A h \in HandlerIds : handlers'[h] = handlers[h]
      /\ handlers'[new] = rec
  <2>1. handlers \in Seq(HandlerRec)
    BY DEF RouteInv, TypeOK, HandlerRec
  <2>2. /\ handlers' \in Seq(HandlerRec) /\ Len(handlers') = new
        /\ \A h \in 1 .. Len(handlers) : handlers'[h] = handlers[h]
        /\ handlers'[new] = rec
    BY <1>3, <1>6, <2>1, AppendProperties
  <2> QED
    BY <2>1, <2>2, LenProperties DEF HandlerIds
<1>8. /\ new \notin HandlerIds
      /\ \A h \in HandlerIds' : h \in HandlerIds \/ h = new
  BY <1>7
<1>9. \A h \in HandlerIds : handlers[h].addr # req.addr
  BY <1>2, <1>4, <1>5 DEF FreshRequests
<1>10. \A i \in DOMAIN dispatchChan' : IsRequest(dispatchChan'[i]) =>
         dispatchChan'[i].addr # req.addr
  <2> SUFFICES ASSUME NEW i \in DOMAIN dispatchChan',
                      IsRequest(dispatchChan'[i]),
                      dispatchChan'[i].addr = req.addr
               PROVE  FALSE
    OBVIOUS
  <2>1. i + 1 = 1
    BY <1>2, <1>4, <1>5 DEF FreshRequests
  <2> QED
    BY <1>5, <2>1
<1>11. \A i, j \in DOMAIN dispatchChan' :
         /\ IsRequest(dispatchChan'[i]) /\ IsRequest(dispatchChan'[j])
         /\ dispatchChan'[i].addr = dispatchChan'[j].addr
         => i = j
  <2> SUFFICES ASSUME NEW i \in DOMAIN dispatchChan',
                      NEW j \in DOMAIN dispatchChan',
                      IsRequest(dispatchChan'[i]), IsRequest(dispatchChan'[j]),
                      dispatchChan'[i].addr = dispatchChan'[j].addr
               PROVE  i = j
    OBVIOUS
  <2>1. i + 1 = j + 1
    BY <1>2, <1>5 DEF FreshRequests
  <2> QED
    BY <1>5, <2>1
<1>12. serve.pc = "send" /\ IsRequest(serve.req) =>
         /\ \A h \in HandlerIds' : handlers'[h].addr # serve.req.addr
         /\ \A i \in DOMAIN dispatchChan' : IsRequest(dispatchChan'[i]) =>
              dispatchChan'[i].addr # serve.req.addr
  <2> SUFFICES ASSUME serve.pc = "send", IsRequest(serve.req)
               PROVE  /\ \A h \in HandlerIds' : handlers'[h].addr # serve.req.addr
                      /\ \A i \in DOMAIN dispatchChan' : IsRequest(dispatchChan'[i]) =>
                           dispatchChan'[i].addr # serve.req.addr
    OBVIOUS
  <2>1. req.addr # serve.req.addr
    BY <1>2, <1>4, <1>5 DEF FreshRequests
  <2> QED
    BY <1>2, <1>5, <1>6, <1>7, <1>8, <2>1 DEF FreshRequests
<1>13. FreshRequests'
  <2>1. \A i \in DOMAIN dispatchChan' : IsRequest(dispatchChan'[i]) =>
          \A h \in HandlerIds' : handlers'[h].addr # dispatchChan'[i].addr
    BY <1>2, <1>5, <1>6, <1>7, <1>8, <1>10 DEF FreshRequests
  <2> QED
    BY <1>1, <1>11, <1>12, <2>1 DEF FreshRequests, IsRequest
<1>14. EntriesStand'
  <2>1. \A h, k \in HandlerIds' : handlers'[h].addr = handlers'[k].addr => h = k
    BY <1>2, <1>6, <1>7, <1>8, <1>9 DEF EntriesStand
  <2>2. \A h \in HandlerIds' :
          handlers'[h].pc # "ended" => reqMap'[handlers'[h].addr] = h
    <3>1. reqMap'[req.addr] = new
          /\ \A a \in Addrs : a # req.addr => reqMap'[a] = reqMap[a]
      BY <1>3, <1>6 DEF RouteInv, TypeOK
    <3>2. \A h \in HandlerIds : handlers[h].addr \in Addrs
      BY Domains DEF RouteInv, HandlerRec
    <3> QED
      BY <1>2, <1>6, <1>7, <1>8, <1>9, <3>1, <3>2 DEF EntriesStand
  <2>3. \A i \in DOMAIN reqDoneChan : \E h \in HandlerIds' :
          handlers'[h].addr = reqDoneChan[i] /\ handlers'[h].pc = "ended"
    <3>1. \A h \in HandlerIds : h \in HandlerIds'
      BY <1>7
    <3> QED
      BY <1>2, <1>7, <3>1 DEF EntriesStand
  <2> QED
    BY <1>1, <2>1, <2>2, <2>3 DEF EntriesStand
<1> QED
  BY <1>13, <1>14

LEMMA RoutesOnce ==
    ASSUME RouteInv, OnceInv, ManagerRoutes \/ ManagerRejects
    PROVE  OnceInv'
<1>1. UNCHANGED << config, serve, handlers, reqMap, reqDoneChan >>
      /\ dispatchChan # << >> /\ dispatchChan' = Tail(dispatchChan)
  BY DEF ManagerRoutes, ManagerRejects
<1> SUFFICES ASSUME SinglePort, ~Resends
             PROVE  FreshRequests' /\ EntriesStand'
  BY <1>1 DEF OnceInv, SinglePort
<1>2. FreshRequests /\ EntriesStand
  BY DEF OnceInv
<1>3. EntriesStand'
  BY <1>1, <1>2 DEF EntriesStand, HandlerIds
<1>4. \A i \in DOMAIN dispatchChan' :
        /\ i \in Nat /\ i # 0 /\ i + 1 \in DOMAIN dispatchChan
        /\ dispatchChan'[i] = dispatchChan[i + 1]
  BY <1>1, TakenFrom
<1>5. \A i, j \in DOMAIN dispatchChan' : i + 1 = j + 1 => i = j
  BY <1>4
<1>6. FreshRequests'
  BY <1>1, <1>2, <1>4, <1>5 DEF FreshRequests, HandlerIds, IsRequest
<1> QED
  BY <1>3, <1>6

LEMMA ForgetsOnce ==
    ASSUME RouteInv, OnceInv, ManagerForgets
    PROVE  OnceInv'
<1>1. /\ UNCHANGED << config, serve, handlers, dispatchChan >>
      /\ reqDoneChan # << >> /\ reqDoneChan' = Tail(reqDoneChan)
      /\ reqMap' = [reqMap EXCEPT ![Head(reqDoneChan)] = 0]
  BY DEF ManagerForgets
<1> SUFFICES ASSUME SinglePort, ~Resends
             PROVE  FreshRequests' /\ EntriesStand'
  BY <1>1 DEF OnceInv, SinglePort
<1>2. FreshRequests /\ EntriesStand
  BY DEF OnceInv
<1>3. FreshRequests'
  BY <1>1, <1>2 DEF FreshRequests, HandlerIds, IsRequest
<1>4. /\ 1 \in DOMAIN reqDoneChan /\ reqDoneChan[1] = Head(reqDoneChan)
      /\ \A i \in DOMAIN reqDoneChan' :
           i + 1 \in DOMAIN reqDoneChan /\ reqDoneChan'[i] = reqDoneChan[i + 1]
  <2>1. reqDoneChan \in Seq(Addrs) /\ Len(reqDoneChan) <= DoneCap
        /\ DoneCap \in Nat
    BY ServerAssumption DEF RouteInv, TypeOK
  <2> QED
    BY <1>1, <2>1, Received
<1>5. PICK g \in HandlerIds : handlers[g].addr = Head(reqDoneChan)
                              /\ handlers[g].pc = "ended"
  BY <1>2, <1>4 DEF EntriesStand
<1>6. \A h \in HandlerIds : handlers[h].pc # "ended" =>
        reqMap'[handlers[h].addr] = h
  <2>1. \A h \in HandlerIds : handlers[h].addr \in Addrs
    BY Domains DEF RouteInv, HandlerRec
  <2>2. \A h \in HandlerIds : handlers[h].pc # "ended" =>
          handlers[h].addr # Head(reqDoneChan)
    BY <1>2, <1>5 DEF EntriesStand
  <2>3. reqMap \in [Addrs -> 0 .. Len(handlers)]
    BY DEF RouteInv, TypeOK
  <2> QED
    BY <1>1, <1>2, <2>1, <2>2, <2>3 DEF EntriesStand
<1>7. EntriesStand'
  BY <1>1, <1>2, <1>4, <1>6 DEF EntriesStand, HandlerIds
<1> QED
  BY <1>3, <1>7

LEMMA HandlerOnce ==
    ASSUME RouteInv, OnceInv, NEW h, HandlerStep(h)
    PROVE  OnceInv'
<1>1. h \in HandlerIds
      /\ UNCHANGED << config, serve, manager, reqMap, dispatchChan >>
  BY HandlerShape DEF RouteInv
<1> SUFFICES ASSUME SinglePort, ~Resends
             PROVE  FreshRequests' /\ EntriesStand'
  BY <1>1 DEF OnceInv, SinglePort
<1>2. FreshRequests /\ EntriesStand
  BY DEF OnceInv
<1>3. PICK pc \in {"start", "running", "done", "ended", "panicked"} :
        /\ handlers' = [handlers EXCEPT ![h].pc = pc]
        /\ pc # "ended" => handlers[h].pc # "ended"
  BY HandlerShape DEF RouteInv
<1>4. /\ HandlerIds' = HandlerIds
      /\ \A k \in HandlerIds :
           /\ handlers'[k].addr = handlers[k].addr
           /\ handlers'[k].pc = IF k = h THEN pc ELSE handlers[k].pc
  BY <1>1, <1>3, Goes DEF RouteInv
<1>5. FreshRequests'
  BY <1>1, <1>2, <1>4 DEF FreshRequests, IsRequest
<1>6. \A k \in HandlerIds : handlers[k].pc = "ended" => handlers'[k].pc = "ended"
  BY <1>3, <1>4
<1>7. \A i \in DOMAIN reqDoneChan' : \E k \in HandlerIds :
        handlers'[k].addr = reqDoneChan'[i] /\ handlers'[k].pc = "ended"
  <2>1. CASE UNCHANGED reqDoneChan
    BY <1>2, <1>4, <1>6, <2>1 DEF EntriesStand
  <2>2. CASE /\ Len(reqDoneChan) < DoneCap
             /\ reqDoneChan' = Append(reqDoneChan, handlers[h].addr)
             /\ handlers' = [handlers EXCEPT ![h].pc = "ended"]
    <3>1. handlers'[h].pc = "ended"
      BY <1>1, <2>2, Domains DEF RouteInv, HandlerRec, HandlerIds
    <3>2. handlers[h].addr \in Addrs
      BY <1>1, Domains DEF RouteInv, HandlerRec
    <3>3. \A i \in DOMAIN reqDoneChan' :
            \/ i \in DOMAIN reqDoneChan /\ reqDoneChan'[i] = reqDoneChan[i]
            \/ reqDoneChan'[i] = handlers[h].addr
      <4>1. reqDoneChan \in Seq(Addrs) /\ DoneCap \in Nat
        BY ServerAssumption DEF RouteInv, TypeOK
      <4>2. PICK q : q = Append(reqDoneChan, handlers[h].addr)
        OBVIOUS
      <4>3. \A i \in DOMAIN q : \/ i \in DOMAIN reqDoneChan /\ q[i] = reqDoneChan[i]
                               \/ q[i] = handlers[h].addr
        BY <2>2, <3>2, <4>1, <4>2, Sent
      <4> QED
        BY <2>2, <4>2, <4>3
    <3> QED
      BY <1>1, <1>2, <1>4, <1>6, <3>1, <3>3 DEF EntriesStand
  <2> QED
    BY <2>1, <2>2, HandlerShape DEF RouteInv
<1>8. EntriesStand'
  BY <1>1, <1>2, <1>3, <1>4, <1>7 DEF EntriesStand
<1> QED
  BY <1>5, <1>8

LEMMA NextOnce ==
    RouteInv /\ OnceInv /\ [Next]_vars => OnceInv'
<1> SUFFICES ASSUME RouteInv, OnceInv, [Next]_vars PROVE OnceInv'
  OBVIOUS
<1>1. CASE UNCHANGED vars
  BY <1>1 DEF vars, OnceInv, FreshRequests, EntriesStand, HandlerIds,
              SinglePort, IsRequest
<1>2. CASE Next
  BY <1>2, SmallOnce, SendsOnce, StartsHandlerOnce, RoutesOnce, ForgetsOnce,
     HandlerOnce DEF Next, ServeStep, ManagerStep, CloseStep
<1> QED
  BY <1>1, <1>2

\* The inductive invariant of the server, which the run of module MCServer
\* checks on a small instance.
THEOREM ServerInvariance ==
    Spec => []ServerInv
<1>1. Init => RouteInv /\ OnceInv
  BY InitRoute, InitOnce
<1>2. RouteInv /\ OnceInv /\ [Next]_vars => RouteInv' /\ OnceInv'
  BY NextRoute, NextOnce
<1>3. RouteInv /\ OnceInv => ServerInv
  BY DEF RouteInv, OnceInv, ServerInv
<1> QED
  BY <1>1, <1>2, <1>3, PTL DEF Spec

\* In single port mode connManager answers "Unexpected TID" only to an
\* address that has no transfer in progress, if no client sends its request
\* a second time.
THEOREM StrangersOnly ==
    ASSUME ~Resends
    PROVE  Spec => RejectsOnlyStrangers
<1>1. ServerInv /\ [Next]_vars =>
        [ManagerRejects /\ SinglePort => ~Live(Head(dispatchChan).addr)]_vars
  <2> SUFFICES ASSUME ServerInv, ManagerRejects, SinglePort,
                      NEW h \in HandlerIds,
                      handlers[h].addr = Head(dispatchChan).addr,
                      handlers[h].pc = "running"
               PROVE  FALSE
    BY DEF Live
  <2>1. EntriesStand /\ TypeOK
    BY DEF ServerInv
  <2>2. reqMap[Head(dispatchChan).addr] = h
    BY <2>1 DEF EntriesStand
  <2>3. h # 0
    BY <2>1, Domains
  <2> QED
    BY <2>2, <2>3 DEF ManagerRejects, Route
<1> QED
  BY <1>1, ServerInvariance, PTL DEF Spec, RejectsOnlyStrangers

=============================================================================
