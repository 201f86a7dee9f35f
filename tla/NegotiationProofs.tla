------------------------- MODULE NegotiationProofs -------------------------
(***************************************************************************)
(* Proofs about module Negotiation, for any requests, any number of conns  *)
(* that the server makes for duplicates of a request, any retry limit and  *)
(* either kind of network.                                                 *)
(***************************************************************************)
EXTENDS Negotiation, NetworkProofs

(***************************************************************************)
(* The inductive invariant behind these properties.                        *)
(***************************************************************************)

\* Conn i has not parsed the options of the request yet.
Unset(i) ==
    \/ conns[i].pc \in {"idle", "dispatched"}
    \/ conns[i].pc = "handler" /\ req.kind = "RRQ"

IsSender == req.kind = "RRQ"

\* The size that the handler of conn i passed to WriteSize may have been ts.
ToldSize(i, ts) ==
    conns[i].tsize = ParsedSize(req.opts, ts, IsSender)

\* Conn i uses the options of the request, and acknowledges them if it must.
Configured(i) ==
    /\ ~Unset(i) /\ Parses(req.opts)
    /\ conns[i].size = Parsed(Defaults, req.opts)
    /\ \E ts \in {NoSize, FileSize} :
         ToldSize(i, ts)
         /\ conns[i].oack = (AckOpts(req.opts, ts, IsSender) # NoOptions)

\* A conn parses options once, and before it sends or expects anything.
ConnSetUp(i) ==
    /\ Unset(i) => /\ conns[i].size = Defaults /\ conns[i].tsize = NoSize
                   /\ ~conns[i].oack
    /\ \/ conns[i].pc \in {"getAck", "readData", "data"}
       \/ conns[i].pc = "handler" /\ ~IsSender
       => Configured(i)
    /\ conns[i].pc = "getAck" => IsSender
    /\ conns[i].pc = "readData" => ~IsSender

\* What is on the way to the client comes from a conn that is configured, and
\* DATA after an OACK only from the conn that the client has answered.
AnswerTrue(m) ==
    /\ m.op \in {"ACK", "OACK", "DATA", "ERROR"} /\ m.from \in ConnIds
    /\ m.block = IF m.op = "DATA" THEN 1 ELSE 0
    /\ m.op # "ERROR" => Configured(m.from)
    /\ m.op = "OACK" => \E ts \in {NoSize, FileSize} :
         ToldSize(m.from, ts) /\ m.opts = AckOpts(req.opts, ts, IsSender)
    /\ m.op = "ACK" => ~IsSender /\ m.opts = NoOptions
    /\ m.op = "DATA" => /\ IsSender /\ m.opts \in FirstBlocks
                        /\ conns[m.from].oack => client.peer = m.from

\* The client knows no conn of the server until it has been answered, and
\* sends to no other one afterwards.
PeerFixed ==
    /\ client.pc \in {"start", "receiveResponse"} =>
         /\ client.peer = Listener /\ client.block = 0
         /\ client.size = Defaults /\ client.tsize = NoSize
         /\ client.tries > 0 => client.err # "nil"
    /\ \A i \in ConnIds : Elems(mail[i]) # {} => client.peer = i
    /\ Granted => Answered
    /\ \A i \in ConnIds : Granted /\ client.peer = i => Configured(i)

\* Every port has a channel.
Mailboxes ==
    /\ mail = [n \in Ports |-> mail[n]]
    /\ \A n \in Ports : mail[n] \in Channel(Elems(mail[n]))

\* The invariant: each conn of the server takes the options of the request
\* once and says so, and the client sticks to the conn that answered first.
NegotiationInv ==
    /\ TypeOK /\ Mailboxes /\ PeerFixed /\ OnlyPeerTransfers
    /\ \A i \in ConnIds : ConnSetUp(i)
    /\ \A m \in Elems(mail[Client]) : AnswerTrue(m)

-----------------------------------------------------------------------------
(* Types. *)

ClientRec ==
    [pc : {"start", "receiveResponse", "ready", "data", "failed", "panicked"},
     tries : 0 .. Retransmit, err : Errors, block : {0, 1},
     size : [Echoed -> Nat], tsize : Int, peer : 0 .. MaxConns]

ConnRec ==
    [pc : {"idle", "dispatched", "handler", "getAck", "readData", "data",
           "failed", "ended"},
     tries : 0 .. Retransmit, err : Errors, oack : BOOLEAN,
     size : [Echoed -> Nat], tsize : Int]

-----------------------------------------------------------------------------
(* Ports and options. *)

LEMMA PortFacts ==
    /\ ConnIds \subseteq Ports /\ Client \in Ports /\ Listener \in Ports
    /\ Client \notin ConnIds /\ Listener \notin ConnIds /\ Client # Listener
    /\ \A i \in ConnIds : i \in 0 .. MaxConns /\ i # Listener /\ i # Client
BY NegotiationAssumption DEF ConnIds, Ports, Client, Listener

LEMMA NoTries ==
    0 \in 0 .. Retransmit
BY NegotiationAssumption

LEMMA OptionFacts ==
    /\ IsOptions(NoOptions) /\ DOMAIN NoOptions = {}
    /\ Defaults \in [Echoed -> Nat] /\ NoSize \in Int /\ FileSize \in Nat
    /\ FileSize # NoSize /\ "tsize" \notin Echoed
<1>1. NoOptions \in [{} -> Nat \cup {Bad}]
  BY DEF NoOptions
<1>2. {} \in SUBSET OptNames
  OBVIOUS
<1>3. IsOptions(NoOptions) /\ DOMAIN NoOptions = {}
  BY <1>1, <1>2 DEF IsOptions
<1>4. Defaults \in [Echoed -> Nat]
  BY DEF Defaults, Default
<1> QED
  BY <1>3, <1>4 DEF NoSize, FileSize, Echoed

\* The sizes and the transfer size of a conn that has parsed options.
LEMMA ParsedFacts ==
    ASSUME NEW opts, IsOptions(opts), Parses(opts),
           NEW size \in [Echoed -> Nat], NEW ts \in Int, NEW s \in BOOLEAN
    PROVE  /\ Parsed(size, opts) \in [Echoed -> Nat]
           /\ ParsedSize(opts, ts, s) \in Int
<1>1. \A o \in DOMAIN opts : opts[o] \in Nat
  BY DEF IsOptions, Parses
<1> QED
  BY <1>1 DEF Parsed, ParsedSize

\* An OACK has requested options only, it tells the size if there is one to
\* tell, and who parses it gets what the server has got from the request.
LEMMA AckOptsFacts ==
    ASSUME NEW opts, IsOptions(opts), NEW ts \in {NoSize, FileSize},
           NEW s \in BOOLEAN
    PROVE  /\ IsOptions(AckOpts(opts, ts, s))
           /\ DOMAIN AckOpts(opts, ts, s) \subseteq DOMAIN opts
           /\ Parsed(Defaults, AckOpts(opts, ts, s)) = Parsed(Defaults, opts)
           /\ TellsSize(opts, ts, s) =>
                /\ "tsize" \in DOMAIN AckOpts(opts, ts, s)
                /\ AckOpts(opts, ts, s)["tsize"] = ts
           /\ DOMAIN opts \cap Echoed \subseteq DOMAIN AckOpts(opts, ts, s)
<1> DEFINE S == {n \in DOMAIN opts : n \in Echoed \/ TellsSize(opts, ts, s)}
           acks == [o \in S |-> IF o = "tsize" THEN ts ELSE opts[o]]
<1>1. AckOpts(opts, ts, s) = acks /\ DOMAIN acks = S
  BY DEF AckOpts
<1>2. DOMAIN opts \subseteq OptNames /\ \A o \in DOMAIN opts : opts[o] \in Nat \cup {Bad}
  BY DEF IsOptions
<1>3. S \in SUBSET OptNames /\ S \subseteq DOMAIN opts
  BY <1>2
<1>4. ASSUME NEW o \in S PROVE acks[o] \in Nat \cup {Bad}
  <2>1. CASE o = "tsize"
    <3>1. TellsSize(opts, ts, s)
      BY <2>1, OptionFacts
    <3>2. ts \in Nat
      BY <3>1, OptionFacts DEF TellsSize
    <3> QED
      BY <2>1, <3>2
  <2>2. CASE o # "tsize"
    BY <1>2, <2>2
  <2> QED
    BY <2>1, <2>2
<1>5. IsOptions(acks)
  BY <1>3, <1>4 DEF IsOptions
<1>6. \A o \in Echoed : /\ o \in S <=> o \in DOMAIN opts
                        /\ o \in S => acks[o] = opts[o]
  BY OptionFacts
<1>7. Parsed(Defaults, acks) = Parsed(Defaults, opts)
  BY <1>1, <1>6 DEF Parsed
<1>8. TellsSize(opts, ts, s) => "tsize" \in S /\ acks["tsize"] = ts
  BY DEF TellsSize
<1> QED
  BY <1>1, <1>3, <1>5, <1>6, <1>7, <1>8

\* Without an OACK, the request changed no size.
LEMMA NoAckOpts ==
    ASSUME NEW opts, IsOptions(opts), NEW ts \in {NoSize, FileSize},
           NEW s \in BOOLEAN, AckOpts(opts, ts, s) = NoOptions
    PROVE  Parsed(Defaults, opts) = Defaults /\ ~TellsSize(opts, ts, s)
<1>1. DOMAIN opts \cap Echoed = {} /\ ~TellsSize(opts, ts, s)
  BY AckOptsFacts, OptionFacts
<1> QED
  BY <1>1 DEF Parsed, Defaults

LEMMA NoOptionsParse ==
    \A size \in [Echoed -> Nat] : Parsed(size, NoOptions) = size
BY OptionFacts DEF Parsed

-----------------------------------------------------------------------------
(* Mailboxes. *)

LEMMA MailSet ==
    ASSUME Mailboxes, NEW n \in Ports, NEW ch, ch \in Channel(Elems(ch)),
           mail' = [mail EXCEPT ![n] = ch]
    PROVE  Mailboxes' /\ mail'[n] = ch /\ \A k \in Ports \ {n} : mail'[k] = mail[k]
<1>1. \A k \in Ports : mail'[k] = IF k = n THEN ch ELSE mail[k]
  BY DEF Mailboxes
<1>2. mail' = [k \in Ports |-> mail'[k]]
  BY DEF Mailboxes
<1>3. \A k \in Ports : mail'[k] \in Channel(Elems(mail'[k]))
  BY <1>1 DEF Mailboxes
<1> QED
  BY <1>1, <1>2, <1>3 DEF Mailboxes

\* Send puts m into one mailbox, or does nothing.
LEMMA MailSend ==
    ASSUME Mailboxes, NEW n \in Ports, NEW m, Send(n, m)
    PROVE  /\ Mailboxes' /\ Elems(mail'[n]) \subseteq Elems(mail[n]) \cup {m}
           /\ \A k \in Ports \ {n} : mail'[k] = mail[k]
<1>1. CASE mail' = [mail EXCEPT ![n] = Put(@, m)]
  <2>1. /\ Put(mail[n], m) \in Channel(Elems(Put(mail[n], m)))
        /\ Elems(Put(mail[n], m)) = Elems(mail[n]) \cup {m}
    BY PutAny DEF Mailboxes
  <2>2. mail' = [mail EXCEPT ![n] = Put(mail[n], m)]
    BY <1>1
  <2> QED
    BY <2>1, <2>2, MailSet
<1>2. CASE UNCHANGED mail
  BY <1>2 DEF Mailboxes
<1> QED
  BY <1>1, <1>2 DEF Send

\* A datagram is received from a mailbox.
LEMMA MailTake ==
    ASSUME Mailboxes, NEW n \in Ports, Arrivals(mail[n]) # {},
           mail' = [mail EXCEPT ![n] = Rest(@)]
    PROVE  /\ Mailboxes' /\ Elems(mail'[n]) \subseteq Elems(mail[n])
           /\ \A k \in Ports \ {n} : mail'[k] = mail[k]
<1>1. /\ Rest(mail[n]) \in Channel(Elems(Rest(mail[n])))
      /\ Elems(Rest(mail[n])) \subseteq Elems(mail[n])
  BY RestAny DEF Mailboxes
<1>2. mail' = [mail EXCEPT ![n] = Rest(mail[n])]
  OBVIOUS
<1> QED
  BY <1>1, <1>2, MailSet

\* A datagram is received from one mailbox and m is put into another one.
LEMMA MailReply ==
    ASSUME Mailboxes, NEW n \in Ports, Arrivals(mail[n]) # {},
           NEW k \in Ports, k # n, NEW m,
           mail' = [mail EXCEPT ![n] = Rest(@), ![k] = Put(@, m)]
    PROVE  /\ Mailboxes' /\ Elems(mail'[n]) \subseteq Elems(mail[n])
           /\ Elems(mail'[k]) = Elems(mail[k]) \cup {m}
           /\ \A j \in Ports \ {n, k} : mail'[j] = mail[j]
<1>1. /\ Rest(mail[n]) \in Channel(Elems(Rest(mail[n])))
      /\ Elems(Rest(mail[n])) \subseteq Elems(mail[n])
  BY RestAny DEF Mailboxes
<1>2. /\ Put(mail[k], m) \in Channel(Elems(Put(mail[k], m)))
      /\ Elems(Put(mail[k], m)) = Elems(mail[k]) \cup {m}
  BY PutAny DEF Mailboxes
<1> DEFINE ch == Rest(mail[n])
           dh == Put(mail[k], m)
<1>3. mail' = [mail EXCEPT ![n] = ch, ![k] = dh]
  BY DEF Mailboxes
<1>4. ch \in Channel(Elems(ch)) /\ dh \in Channel(Elems(dh))
  BY <1>1, <1>2
<1> HIDE DEF ch, dh
<1>5. \A j \in Ports : mail'[j] = IF j = n THEN ch ELSE IF j = k THEN dh ELSE mail[j]
  BY <1>3 DEF Mailboxes
<1>6. mail' = [j \in Ports |-> mail'[j]]
  BY <1>3 DEF Mailboxes
<1>7. \A j \in Ports : mail'[j] \in Channel(Elems(mail'[j]))
  BY <1>4, <1>5 DEF Mailboxes
<1>8. mail'[n] = ch /\ mail'[k] = dh /\ \A j \in Ports \ {n, k} : mail'[j] = mail[j]
  BY <1>5
<1> QED
  BY <1>1, <1>2, <1>6, <1>7, <1>8 DEF Mailboxes, ch, dh

-----------------------------------------------------------------------------
(* What the properties need of the constants. *)

\* The first DATA of a file reads like no options at all.
PlainBlocks == FirstBlocks \subseteq {NoOptions, Garbled}

\* No write request is answered by an OACK.
WritesUnacked ==
    \A r \in Requests :
      r.kind = "WRQ" /\ Parses(r.opts) => DOMAIN r.opts \cap Echoed = {}

\* Client.Get asks for the size with 0 or, after a Put that told the size of
\* another file, with that size.  (A conn whose tsize is the size of the file
\* then has it from its handler, not from the request.)
AsksOtherSize ==
    \A r \in Requests :
      r.kind = "RRQ" /\ "tsize" \in DOMAIN r.opts => r.opts["tsize"] # FileSize

\* What is proved along with the invariant.
Outcome ==
    /\ PlainBlocks /\ WritesUnacked => Agreement
    /\ AsksOtherSize => SizeReported
    /\ Retransmit > 0 => NilMeansAnswered

Inv == NegotiationInv /\ Outcome

LEMMA InvTypes ==
    ASSUME Inv
    PROVE  /\ client \in ClientRec /\ conns \in [ConnIds -> ConnRec]
           /\ IsOptions(req.opts) /\ IsSender \in BOOLEAN
           /\ req.kind \in {"RRQ", "WRQ"} /\ req \in Requests
BY NegotiationAssumption
   DEF Inv, NegotiationInv, TypeOK, ClientRec, ConnRec, IsSender

LEMMA InitInv ==
    Init => Inv
<1> SUFFICES ASSUME Init PROVE Inv
  OBVIOUS
<1>1. TypeOK
  <2>1. 0 \in 0 .. Retransmit /\ Listener \in 0 .. MaxConns /\ "nil" \in Errors
    BY NegotiationAssumption DEF Listener, Errors
  <2>2. calm \in BOOLEAN
    BY NegotiationAssumption DEF Init
  <2> QED
    BY <2>1, <2>2, OptionFacts DEF Init, TypeOK
<1>2. Mailboxes /\ \A n \in Ports : Elems(mail[n]) = {}
  <2>1. CASE Ordered
    <3>1. mail = [n \in Ports |-> << >>]
      BY <2>1 DEF Init
    <3>2. Elems(<< >>) = {} /\ << >> \in Channel({})
      BY <2>1 DEF Elems, Channel
    <3> QED
      BY <3>1, <3>2 DEF Mailboxes
  <2>2. CASE ~Ordered
    <3>1. mail = [n \in Ports |-> {}]
      BY <2>2 DEF Init
    <3>2. Elems({}) = {} /\ {} \in Channel({})
      BY <2>2 DEF Elems, Channel
    <3> QED
      BY <3>1, <3>2 DEF Mailboxes
  <2> QED
    BY <2>1, <2>2
<1>3. client.pc = "start" /\ client.tries = 0 /\ client.peer = Listener
      /\ client.block = 0 /\ client.size = Defaults /\ client.tsize = NoSize
  BY DEF Init
<1>4. PeerFixed
  BY <1>2, <1>3, PortFacts DEF PeerFixed, Granted
<1>5. \A i \in ConnIds : /\ conns[i].pc = "idle" /\ conns[i].size = Defaults
                         /\ conns[i].tsize = NoSize /\ conns[i].oack = FALSE
  BY DEF Init
<1>6. OnlyPeerTransfers /\ \A i \in ConnIds : ConnSetUp(i)
  BY <1>5 DEF OnlyPeerTransfers, ConnSetUp
<1>7. \A m \in Elems(mail[Client]) : AnswerTrue(m)
  BY <1>2, PortFacts
<1>8. Outcome
  BY <1>3 DEF Outcome, Agreement, SizeReported, NilMeansAnswered, Granted
<1> QED
  BY <1>1, <1>2, <1>4, <1>6, <1>7, <1>8 DEF Inv, NegotiationInv

-----------------------------------------------------------------------------
(* The steps of a conn of the server. *)

\* The conn changes its options only before it has parsed them.
Frozen(i, c) ==
    ~Unset(i) =>
      /\ c.size = conns[i].size /\ c.tsize = conns[i].tsize
      /\ c.oack = conns[i].oack
      /\ c.pc \notin {"idle", "dispatched"} /\ (c.pc = "handler" => ~IsSender)

\* Conns send to the client only, and nothing that is not true.
MailStep ==
    /\ Mailboxes'
    /\ \A n \in Ports \ {Client} : Elems(mail'[n]) \subseteq Elems(mail[n])
    /\ \A m \in Elems(mail'[Client]) :
         m \in Elems(mail[Client]) \/ AnswerTrue(m)'

\* A step of conn i: the invariant for i and for what i has sent suffices.
LEMMA ConnFrame ==
    ASSUME Inv, NEW i \in ConnIds, NEW c \in ConnRec, Frozen(i, c),
           conns' = [conns EXCEPT ![i] = c], UNCHANGED << req, client, calm >>,
           ConnSetUp(i)', c.pc = "data" /\ c.oack => client.peer = i,
           MailStep
    PROVE  Inv'
<1> USE DEF Inv, NegotiationInv, MailStep
<1>1. conns \in [ConnIds -> ConnRec] /\ client \in ClientRec
  BY InvTypes
<1>2. /\ conns' \in [ConnIds -> ConnRec] /\ conns'[i] = c
      /\ \A j \in ConnIds \ {i} : conns'[j] = conns[j]
  BY <1>1
<1>3. TypeOK'
  BY <1>2 DEF TypeOK, ConnRec
<1>4. IsSender' = IsSender
  BY DEF IsSender
<1>5. \A j \in ConnIds : ~Unset(j) =>
        /\ ~Unset(j)' /\ conns'[j].size = conns[j].size
        /\ conns'[j].tsize = conns[j].tsize /\ conns'[j].oack = conns[j].oack
  BY <1>2 DEF Unset, Frozen, IsSender
<1>6. ASSUME NEW j \in ConnIds, Configured(j)
      PROVE  /\ Configured(j)' /\ conns'[j].oack = conns[j].oack
             /\ \A ts \in {NoSize, FileSize} : ToldSize(j, ts) => ToldSize(j, ts)'
  BY <1>4, <1>5, <1>6 DEF Configured, ToldSize
<1>7. ASSUME NEW m \in Elems(mail[Client]) PROVE AnswerTrue(m)'
  <2>1. AnswerTrue(m)
    OBVIOUS
  <2>2. m.from \in ConnIds /\ (m.op # "ERROR" => Configured(m.from))
    BY <2>1 DEF AnswerTrue
  <2>3. m.op # "ERROR" =>
          /\ Configured(m.from)' /\ conns'[m.from].oack = conns[m.from].oack
          /\ \A ts \in {NoSize, FileSize} :
               ToldSize(m.from, ts) => ToldSize(m.from, ts)'
    BY <1>6, <2>2
  <2> QED
    BY <1>4, <2>1, <2>3 DEF AnswerTrue
<1>8. ASSUME NEW j \in ConnIds PROVE ConnSetUp(j)'
  <2>1. CASE j = i
    BY <2>1
  <2>2. CASE j # i
    <3>1. ConnSetUp(j) /\ conns'[j] = conns[j]
      BY <1>2, <2>2
    <3>2. Unset(j)' <=> Unset(j)
      BY <3>1 DEF Unset
    <3> QED
      BY <1>4, <1>6, <3>1, <3>2 DEF ConnSetUp
  <2> QED
    BY <2>1, <2>2
<1>9. OnlyPeerTransfers'
  BY <1>2 DEF OnlyPeerTransfers
<1>10. Granted => client.peer \in ConnIds /\ Configured(client.peer)
  BY <1>1 DEF PeerFixed, Answered, ConnIds, Listener, ClientRec
<1>11. PeerFixed'
  <2>1. Granted' = Granted /\ Answered' = Answered
    BY DEF Granted, Answered
  <2>2. \A j \in ConnIds : Elems(mail'[j]) \subseteq Elems(mail[j])
    BY PortFacts
  <2>3. \A j \in ConnIds : Granted /\ client.peer = j => Configured(j)'
    BY <1>6, <1>10
  <2> QED
    BY <2>1, <2>2, <2>3 DEF PeerFixed
<1>12. Outcome'
  <2>1. Granted' = Granted /\ Answered' = Answered
    BY DEF Granted, Answered
  <2>2. Granted => /\ conns'[client.peer].size = conns[client.peer].size
                   /\ conns'[client.peer].tsize = conns[client.peer].tsize
    BY <1>5, <1>10 DEF Configured
  <2> QED
    BY <2>1, <2>2 DEF Outcome, Agreement, SizeReported, NilMeansAnswered
<1> QED
  BY <1>3, <1>7, <1>8, <1>9, <1>11, <1>12

LEMMA MailUnchanged ==
    ASSUME Inv, UNCHANGED mail
    PROVE  MailStep
BY DEF Inv, NegotiationInv, MailStep, Mailboxes

LEMMA MailTaken ==
    ASSUME Inv, NEW n \in Ports, n # Client, Arrivals(mail[n]) # {},
           mail' = [mail EXCEPT ![n] = Rest(@)]
    PROVE  MailStep
<1>1. /\ Mailboxes' /\ Elems(mail'[n]) \subseteq Elems(mail[n])
      /\ \A k \in Ports \ {n} : mail'[k] = mail[k]
  BY MailTake DEF Inv, NegotiationInv
<1> QED
  BY <1>1, PortFacts DEF MailStep

LEMMA MailSent ==
    ASSUME Inv, NEW m, AnswerTrue(m)', Send(Client, m)
    PROVE  MailStep
<1>1. /\ Mailboxes' /\ Elems(mail'[Client]) \subseteq Elems(mail[Client]) \cup {m}
      /\ \A k \in Ports \ {Client} : mail'[k] = mail[k]
  BY MailSend, PortFacts DEF Inv, NegotiationInv
<1> QED
  BY <1>1 DEF MailStep

LEMMA ErrorTrue ==
    ASSUME NEW i \in ConnIds
    PROVE  AnswerTrue(Msg("ERROR", i, NoOptions))'
BY DEF AnswerTrue, Msg

\* A conn that fails or ends keeps its options.
LEMMA EndsFrame ==
    ASSUME Inv, NEW i \in ConnIds, NEW c \in ConnRec,
           c.pc \in {"failed", "ended"}, c.size = conns[i].size,
           c.tsize = conns[i].tsize, c.oack = conns[i].oack,
           conns' = [conns EXCEPT ![i] = c], UNCHANGED << req, client, calm >>,
           MailStep
    PROVE  Inv'
<1>1. conns'[i] = c
  BY InvTypes
<1>2. ConnSetUp(i)'
  BY <1>1 DEF ConnSetUp, Unset
<1>3. Frozen(i, c)
  BY DEF Frozen
<1> QED
  BY <1>2, <1>3, ConnFrame

LEMMA FailsFrame ==
    ASSUME Inv, NEW i \in ConnIds, NEW err \in Errors, ConnFails(i, err),
           UNCHANGED << req, client, calm >>, MailStep
    PROVE  Inv'
<1> DEFINE c == [conns[i] EXCEPT !.pc = "failed", !.err = err]
<1>1. conns[i] \in ConnRec /\ conns \in [ConnIds -> ConnRec]
  BY InvTypes
<1>2. c \in ConnRec /\ c.pc = "failed" /\ c.size = conns[i].size
      /\ c.tsize = conns[i].tsize /\ c.oack = conns[i].oack
  BY <1>1 DEF ConnRec
<1>3. conns' = [conns EXCEPT ![i] = c]
  BY <1>1 DEF ConnFails
<1> HIDE DEF c
<1> QED
  BY <1>2, <1>3, EndsFrame

\* The conn moves on: only pc, tries and err change.
LEMMA MovesFrame ==
    ASSUME Inv, NEW i \in ConnIds, NEW c \in ConnRec,
           c.size = conns[i].size, c.tsize = conns[i].tsize,
           c.oack = conns[i].oack,
           conns' = [conns EXCEPT ![i] = c], UNCHANGED << req, client, calm >>,
           MailStep, ~Unset(i), Configured(i),
           c.pc \in {"getAck", "readData", "data"},
           c.pc = "getAck" => IsSender, c.pc = "readData" => ~IsSender,
           c.pc = "data" /\ c.oack => client.peer = i
    PROVE  Inv'
<1>1. conns'[i] = c
  BY InvTypes
<1>2. Frozen(i, c)
  BY DEF Frozen
<1>3. IsSender' = IsSender /\ ~Unset(i)'
  BY <1>1 DEF IsSender, Unset
<1>4. Configured(i)'
  BY <1>1, <1>3 DEF Configured, ToldSize
<1>5. ConnSetUp(i)'
  BY <1>1, <1>3, <1>4 DEF ConnSetUp
<1> QED
  BY <1>2, <1>5, ConnFrame

LEMMA DispatchInv ==
    ASSUME Inv, NEW i \in ConnIds, Dispatch(i)
    PROVE  Inv'
<1> DEFINE c == [conns[i] EXCEPT !.pc = "dispatched"]
<1>1. conns[i] \in ConnRec /\ conns \in [ConnIds -> ConnRec]
  BY InvTypes
<1>2. /\ c \in ConnRec /\ c.pc = "dispatched" /\ c.size = conns[i].size
      /\ c.tsize = conns[i].tsize /\ c.oack = conns[i].oack
  BY <1>1 DEF ConnRec
<1>3. conns' = [conns EXCEPT ![i] = c] /\ UNCHANGED << req, client, calm >>
      /\ conns[i].pc = "idle"
  BY <1>1 DEF Dispatch
<1> HIDE DEF c
<1>4. MailStep
  BY MailTaken, PortFacts DEF Dispatch
<1>5. Unset(i) /\ ConnSetUp(i)
  BY <1>3 DEF Unset, Inv, NegotiationInv
<1>6. conns'[i] = c /\ Frozen(i, c)
  BY <1>1, <1>3, <1>5 DEF Frozen
<1>7. ConnSetUp(i)'
  BY <1>2, <1>5, <1>6 DEF ConnSetUp
<1> QED
  BY <1>2, <1>3, <1>4, <1>6, <1>7, ConnFrame

LEMMA StartsInv ==
    ASSUME Inv, NEW i \in ConnIds, ConnStarts(i)
    PROVE  Inv'
<1> DEFINE c == [conns[i] EXCEPT !.pc = "handler"]
<1>1. conns[i] \in ConnRec /\ conns \in [ConnIds -> ConnRec]
  BY InvTypes
<1>2. /\ c \in ConnRec /\ c.pc = "handler" /\ c.size = conns[i].size
      /\ c.tsize = conns[i].tsize /\ c.oack = conns[i].oack
  BY <1>1 DEF ConnRec
<1>3. conns' = [conns EXCEPT ![i] = c] /\ UNCHANGED << req, client, calm >>
      /\ conns[i].pc = "dispatched" /\ req.kind = "RRQ"
  BY <1>1 DEF ConnStarts
<1> HIDE DEF c
<1>4. MailStep
  BY MailUnchanged DEF ConnStarts
<1>5. Unset(i) /\ ConnSetUp(i)
  BY <1>3 DEF Unset, Inv, NegotiationInv
<1>6. conns'[i] = c /\ Frozen(i, c)
  BY <1>1, <1>3, <1>5 DEF Frozen
<1>7. ConnSetUp(i)'
  BY <1>2, <1>3, <1>5, <1>6 DEF ConnSetUp, IsSender
<1> QED
  BY <1>2, <1>3, <1>4, <1>6, <1>7, ConnFrame

LEMMA HandlerEndsInv ==
    ASSUME Inv, NEW i \in ConnIds, HandlerRefuses(i) \/ HandlerReturns(i)
    PROVE  Inv'
<1> DEFINE c == [conns[i] EXCEPT !.pc = "ended"]
<1>1. conns[i] \in ConnRec /\ conns \in [ConnIds -> ConnRec]
  BY InvTypes
<1>2. /\ c \in ConnRec /\ c.pc = "ended" /\ c.size = conns[i].size
      /\ c.tsize = conns[i].tsize /\ c.oack = conns[i].oack
  BY <1>1 DEF ConnRec
<1>3. conns' = [conns EXCEPT ![i] = c] /\ UNCHANGED << req, client, calm >>
  BY <1>1 DEF HandlerRefuses, HandlerReturns
<1> HIDE DEF c
<1>4. MailStep
  BY MailUnchanged, MailSent, ErrorTrue DEF HandlerRefuses, HandlerReturns
<1> QED
  BY <1>2, <1>3, <1>4, EndsFrame

LEMMA GivesUpInv ==
    ASSUME Inv, NEW i \in ConnIds, ConnGetAckGivesUp(i) \/ ConnReadGivesUp(i)
    PROVE  Inv'
<1>1. MailStep
  BY MailSent, ErrorTrue DEF ConnGetAckGivesUp, ConnReadGivesUp
<1>2. ConnFails(i, "maxRetries") /\ UNCHANGED << req, client, calm >>
  BY DEF ConnGetAckGivesUp, ConnReadGivesUp
<1>3. "maxRetries" \in Errors
  BY DEF Errors
<1> QED
  BY <1>1, <1>2, <1>3, FailsFrame

LEMMA HandlerReadsInv ==
    ASSUME Inv, NEW i \in ConnIds, HandlerReads(i)
    PROVE  Inv'
<1> DEFINE c == [conns[i] EXCEPT !.pc = "readData"]
<1>1. conns[i] \in ConnRec /\ conns \in [ConnIds -> ConnRec]
  BY InvTypes
<1>2. /\ c \in ConnRec /\ c.pc = "readData" /\ c.size = conns[i].size
      /\ c.tsize = conns[i].tsize /\ c.oack = conns[i].oack
  BY <1>1 DEF ConnRec
<1>3. conns' = [conns EXCEPT ![i] = c] /\ UNCHANGED << req, client, calm >>
      /\ conns[i].pc = "handler" /\ ~IsSender
  BY <1>1 DEF HandlerReads, IsSender
<1> HIDE DEF c
<1>4. MailStep
  BY MailUnchanged DEF HandlerReads
<1>5. Configured(i) /\ ~Unset(i)
  BY <1>3 DEF Inv, NegotiationInv, ConnSetUp, Configured
<1> QED
  BY <1>2, <1>3, <1>4, <1>5, MovesFrame

LEMMA TimeoutInv ==
    ASSUME Inv, NEW i \in ConnIds, ConnGetAckTimeout(i) \/ ConnReadTimeout(i)
    PROVE  Inv'
<1>1. conns[i] \in ConnRec /\ conns \in [ConnIds -> ConnRec]
  BY InvTypes
<1>2. UNCHANGED << req, client, calm >>
      /\ conns[i].tries + 1 \in 0 .. Retransmit
  <2>1. conns[i].tries \in Nat /\ Retransmit \in Nat
    BY <1>1, NegotiationAssumption DEF ConnRec
  <2>2. conns[i].tries + 1 <= Retransmit
    BY <2>1 DEF ConnGetAckTimeout, ConnReadTimeout
  <2> QED
    BY <2>1, <2>2 DEF ConnGetAckTimeout, ConnReadTimeout
<1>3. ConnSetUp(i)
  BY DEF Inv, NegotiationInv
<1>4. CASE ConnGetAckTimeout(i)
  <2> DEFINE c == [conns[i] EXCEPT !.tries = @ + 1, !.err = "timeout"]
  <2>1. conns' = [conns EXCEPT ![i] = c] /\ conns[i].pc = "getAck"
    BY <1>1, <1>4 DEF ConnGetAckTimeout
  <2>2. /\ c \in ConnRec /\ c.pc = "getAck" /\ c.size = conns[i].size
        /\ c.tsize = conns[i].tsize /\ c.oack = conns[i].oack
    BY <1>1, <1>2, <2>1 DEF ConnRec, Errors
  <2>3. MailStep
    BY <1>4, MailUnchanged DEF ConnGetAckTimeout
  <2>4. Configured(i) /\ ~Unset(i) /\ IsSender
    BY <1>3, <2>1 DEF ConnSetUp, Configured
  <2> HIDE DEF c
  <2> QED
    BY <1>2, <2>1, <2>2, <2>3, <2>4, MovesFrame
<1>5. CASE ConnReadTimeout(i)
  <2> DEFINE c == [conns[i] EXCEPT !.tries = @ + 1]
  <2>1. conns' = [conns EXCEPT ![i] = c] /\ conns[i].pc = "readData"
    BY <1>1, <1>5 DEF ConnReadTimeout
  <2>2. /\ c \in ConnRec /\ c.pc = "readData" /\ c.size = conns[i].size
        /\ c.tsize = conns[i].tsize /\ c.oack = conns[i].oack
    BY <1>1, <1>2, <2>1 DEF ConnRec
  <2>3. Configured(i) /\ ~Unset(i) /\ ~IsSender
    BY <1>3, <2>1 DEF ConnSetUp, Configured
  <2> HIDE DEF c
  <2>4. AnswerTrue(Ack(i, 0))'
    <3>1. conns'[i] = c
      BY <1>1, <2>1
    <3>2. IsSender' = IsSender /\ ~Unset(i)'
      BY <1>2, <2>2, <3>1 DEF IsSender, Unset
    <3>3. Configured(i)'
      BY <1>2, <2>2, <2>3, <3>1, <3>2 DEF Configured, ToldSize
    <3> QED
      BY <2>3, <3>2, <3>3 DEF AnswerTrue, Ack
  <2>5. MailStep
    BY <1>5, <2>4, MailSent DEF ConnReadTimeout
  <2> QED
    BY <1>2, <2>1, <2>2, <2>3, <2>5, MovesFrame
<1> QED
  BY <1>4, <1>5

LEMMA ConnReadsInv ==
    ASSUME Inv, NEW i \in ConnIds, ConnReads(i)
    PROVE  Inv'
<1> DEFINE c == [conns[i] EXCEPT !.tries = 0, !.pc = "data"]
<1>1. conns[i] \in ConnRec /\ conns \in [ConnIds -> ConnRec]
  BY InvTypes
<1>2. conns' = [conns EXCEPT ![i] = c] /\ UNCHANGED << req, client, calm >>
      /\ conns[i].pc = "readData" /\ Arrivals(mail[i]) # {}
      /\ mail' = [mail EXCEPT ![i] = Rest(@)]
  BY <1>1 DEF ConnReads
<1>3. /\ c \in ConnRec /\ c.pc = "data" /\ c.size = conns[i].size
      /\ c.tsize = conns[i].tsize /\ c.oack = conns[i].oack
  BY <1>1, NoTries DEF ConnRec
<1> HIDE DEF c
<1>4. Configured(i) /\ ~Unset(i)
  BY <1>2 DEF Inv, NegotiationInv, ConnSetUp, Configured
<1>5. client.peer = i
  <2>1. Elems(mail[i]) # {}
    BY <1>2, RestAny, PortFacts DEF Inv, NegotiationInv, Mailboxes
  <2> QED
    BY <2>1 DEF Inv, NegotiationInv, PeerFixed
<1>6. MailStep
  BY <1>2, MailTaken, PortFacts
<1> QED
  BY <1>2, <1>3, <1>4, <1>5, <1>6, MovesFrame

LEMMA GetAckInv ==
    ASSUME Inv, NEW i \in ConnIds, ConnGetAck(i)
    PROVE  Inv'
<1>1. conns[i] \in ConnRec /\ conns \in [ConnIds -> ConnRec]
  BY InvTypes
<1>2. /\ UNCHANGED << req, client, calm >> /\ conns[i].pc = "getAck"
      /\ Arrivals(mail[i]) # {}
  BY DEF ConnGetAck
<1>3. Configured(i) /\ ~Unset(i) /\ IsSender
  BY <1>2 DEF Inv, NegotiationInv, ConnSetUp, Configured
<1>4. client.peer = i
  <2>1. Elems(mail[i]) # {}
    BY <1>2, RestAny, PortFacts DEF Inv, NegotiationInv, Mailboxes
  <2> QED
    BY <2>1 DEF Inv, NegotiationInv, PeerFixed
<1>5. PICK m \in Arrivals(mail[i]) :
        \/ /\ m.op = "ACK"
           /\ conns' = [conns EXCEPT ![i].tries = 0, ![i].pc = "data"]
           /\ \E opts \in FirstBlocks :
                mail' = [mail EXCEPT ![i] = Rest(@),
                                     ![Client] = Put(@, Data(i, opts))]
        \/ /\ m.op = "ERROR" \/ ~calm
           /\ ConnFails(i, IF m.op = "ERROR" THEN "remote" ELSE "network")
           /\ mail' = [mail EXCEPT ![i] = Rest(@)]
  BY DEF ConnGetAck
<1>6. CASE ConnFails(i, IF m.op = "ERROR" THEN "remote" ELSE "network")
           /\ mail' = [mail EXCEPT ![i] = Rest(@)]
  <2>1. MailStep
    BY <1>2, <1>6, MailTaken, PortFacts
  <2>2. (IF m.op = "ERROR" THEN "remote" ELSE "network") \in Errors
    BY DEF Errors
  <2> QED
    BY <1>2, <1>6, <2>1, <2>2, FailsFrame
<1>7. CASE /\ conns' = [conns EXCEPT ![i].tries = 0, ![i].pc = "data"]
           /\ \E opts \in FirstBlocks :
                mail' = [mail EXCEPT ![i] = Rest(@),
                                     ![Client] = Put(@, Data(i, opts))]
  <2> DEFINE c == [conns[i] EXCEPT !.tries = 0, !.pc = "data"]
  <2>1. conns' = [conns EXCEPT ![i] = c]
    BY <1>1, <1>7
  <2>2. /\ c \in ConnRec /\ c.pc = "data" /\ c.size = conns[i].size
        /\ c.tsize = conns[i].tsize /\ c.oack = conns[i].oack
    BY <1>1, NoTries DEF ConnRec
  <2> HIDE DEF c
  <2>3. PICK opts \in FirstBlocks :
          mail' = [mail EXCEPT ![i] = Rest(@), ![Client] = Put(@, Data(i, opts))]
    BY <1>7
  <2>4. AnswerTrue(Data(i, opts))'
    <3>1. conns'[i] = c
      BY <1>1, <2>1
    <3>2. IsSender' = IsSender /\ ~Unset(i)'
      BY <1>2, <2>2, <3>1 DEF IsSender, Unset
    <3>3. Configured(i)'
      BY <1>2, <1>3, <2>2, <3>1, <3>2 DEF Configured, ToldSize
    <3> QED
      BY <1>2, <1>3, <1>4, <3>2, <3>3 DEF AnswerTrue, Data
  <2>5. /\ Mailboxes' /\ Elems(mail'[i]) \subseteq Elems(mail[i])
        /\ Elems(mail'[Client]) = Elems(mail[Client]) \cup {Data(i, opts)}
        /\ \A j \in Ports \ {i, Client} : mail'[j] = mail[j]
    <3>1. Mailboxes /\ i \in Ports /\ Client \in Ports /\ Client # i
      BY PortFacts DEF Inv, NegotiationInv
    <3> QED
      BY <1>2, <2>3, <3>1, MailReply
  <2>6. MailStep
    BY <2>4, <2>5 DEF MailStep
  <2> QED
    BY <1>2, <1>3, <1>4, <2>1, <2>2, <2>6, MovesFrame
<1> QED
  BY <1>5, <1>6, <1>7

\* A conn parses the options of the request and sends its answer m.
LEMMA SetupFrame ==
    ASSUME Inv, NEW i \in ConnIds, Unset(i), Parses(req.opts),
           UNCHANGED << req, client, calm >>,
           NEW c \in ConnRec, NEW ts \in {NoSize, FileSize},
           c.size = Parsed(Defaults, req.opts),
           c.tsize = ParsedSize(req.opts, ts, IsSender),
           c.oack = (AckOpts(req.opts, ts, IsSender) # NoOptions),
           \/ c.pc = "handler" /\ ~IsSender
           \/ c.pc = "getAck" /\ IsSender
           \/ c.pc = "data" /\ ~c.oack,
           NEW m, m.from = i,
           \/ m.op = "ACK" /\ ~IsSender /\ m.opts = NoOptions /\ m.block = 0
           \/ m.op = "OACK" /\ m.opts = AckOpts(req.opts, ts, IsSender) /\ m.block = 0
           \/ /\ m.op = "DATA" /\ IsSender /\ ~c.oack
              /\ m.opts \in FirstBlocks /\ m.block = 1,
           ConnSends(i, c, m)
    PROVE  Inv'
<1>1. CASE ~calm /\ ConnFails(i, "network") /\ UNCHANGED mail
  <2>1. MailStep /\ "network" \in Errors
    BY <1>1, MailUnchanged DEF Errors
  <2> QED
    BY <1>1, <2>1, FailsFrame
<1>2. CASE /\ mail' = [mail EXCEPT ![Client] = Put(@, m)]
           /\ conns' = [conns EXCEPT ![i] = c]
  <2>1. conns'[i] = c
    BY <1>2, InvTypes
  <2>2. IsSender' = IsSender /\ ~Unset(i)'
    BY <2>1 DEF IsSender, Unset
  <2>3. ToldSize(i, ts)'
    BY <2>1, <2>2 DEF ToldSize
  <2>4. Configured(i)'
    BY <2>1, <2>2, <2>3 DEF Configured
  <2>5. ConnSetUp(i)'
    BY <2>1, <2>2, <2>4 DEF ConnSetUp
  <2>6. AnswerTrue(m)'
    BY <2>1, <2>2, <2>3, <2>4 DEF AnswerTrue
  <2>7. Send(Client, m)
    BY <1>2 DEF Send
  <2>8. MailStep
    BY <2>6, <2>7, MailSent
  <2>9. Frozen(i, c)
    BY DEF Frozen
  <2> QED
    BY <1>2, <2>5, <2>8, <2>9, ConnFrame
<1> QED
  BY <1>1, <1>2 DEF ConnSends

LEMMA ReadSetupInv ==
    ASSUME Inv, NEW i \in ConnIds, ConnReadSetup(i)
    PROVE  Inv'
<1>1. conns[i] \in ConnRec /\ conns \in [ConnIds -> ConnRec] /\ IsOptions(req.opts)
  BY InvTypes
<1>2. /\ conns[i].pc = "dispatched" /\ ~IsSender /\ Unset(i)
      /\ UNCHANGED << req, client, calm >>
  BY DEF ConnReadSetup, IsSender, Unset
<1>3. CASE ~Parses(req.opts)
  <2>1. ConnFails(i, "option") /\ UNCHANGED mail /\ "option" \in Errors
    BY <1>3 DEF ConnReadSetup, Errors
  <2> QED
    BY <1>2, <2>1, MailUnchanged, FailsFrame
<1>4. CASE Parses(req.opts)
  <2> DEFINE acks == AckOpts(req.opts, NoSize, FALSE)
             c == [ConnSetup(conns[i], FALSE) EXCEPT
                     !.pc = "handler", !.oack = (acks # NoOptions)]
             m == IF acks = NoOptions THEN Ack(i, 0) ELSE Msg("OACK", i, acks)
  <2>1. ConnSends(i, c, m)
    BY <1>4 DEF ConnReadSetup
  <2>2. conns[i].size = Defaults /\ conns[i].tsize = NoSize
    BY <1>2 DEF Inv, NegotiationInv, ConnSetUp
  <2>3. /\ Parsed(Defaults, req.opts) \in [Echoed -> Nat]
        /\ ParsedSize(req.opts, NoSize, FALSE) \in Int
    BY <1>1, <1>4, ParsedFacts, OptionFacts
  <2>4. /\ c \in ConnRec /\ c.pc = "handler"
        /\ c.size = Parsed(Defaults, req.opts)
        /\ c.tsize = ParsedSize(req.opts, NoSize, FALSE)
        /\ c.oack = (acks # NoOptions)
    BY <1>1, <2>2, <2>3 DEF ConnSetup, ConnRec
  <2>5. /\ m.from = i /\ m.block = 0
        /\ \/ m.op = "ACK" /\ m.opts = NoOptions
           \/ m.op = "OACK" /\ m.opts = acks
    BY DEF Ack, Msg
  <2>6. IsSender = FALSE
    BY <1>2, InvTypes
  <2> HIDE DEF c, m, acks
  <2>7. /\ c.tsize = ParsedSize(req.opts, NoSize, IsSender)
        /\ c.oack = (AckOpts(req.opts, NoSize, IsSender) # NoOptions)
        /\ acks = AckOpts(req.opts, NoSize, IsSender)
    BY <2>4, <2>6 DEF acks
  <2> QED
    BY <1>2, <1>4, <2>1, <2>4, <2>5, <2>7, SetupFrame
<1> QED
  BY <1>3, <1>4

LEMMA HandlerWritesInv ==
    ASSUME Inv, NEW i \in ConnIds, HandlerWrites(i)
    PROVE  Inv'
<1>1. conns[i] \in ConnRec /\ conns \in [ConnIds -> ConnRec] /\ IsOptions(req.opts)
  BY InvTypes
<1>2. /\ conns[i].pc = "handler" /\ IsSender /\ Unset(i)
      /\ UNCHANGED << req, client, calm >>
  BY DEF HandlerWrites, IsSender, Unset
<1>3. CASE ~Parses(req.opts)
  <2>1. ConnFails(i, "option") /\ UNCHANGED mail /\ "option" \in Errors
    BY <1>3 DEF HandlerWrites, Errors
  <2> QED
    BY <1>2, <2>1, MailUnchanged, FailsFrame
<1>4. CASE Parses(req.opts)
  <2>1. PICK ts \in {NoSize, FileSize} :
          LET acks == AckOpts(req.opts, ts, TRUE)
              c == ConnSetup([conns[i] EXCEPT !.tsize = ts], TRUE)
          IN  IF acks = NoOptions
              THEN \E opts \in FirstBlocks :
                     ConnSends(i, [c EXCEPT !.pc = "data"], Data(i, opts))
              ELSE ConnSends(i, [c EXCEPT !.pc = AfterOack, !.oack = TRUE],
                             Msg("OACK", i, acks))
    BY <1>4 DEF HandlerWrites
  <2> DEFINE acks == AckOpts(req.opts, ts, TRUE)
             s == ConnSetup([conns[i] EXCEPT !.tsize = ts], TRUE)
  <2>2. conns[i].size = Defaults /\ conns[i].oack = FALSE
    BY <1>1, <1>2 DEF Inv, NegotiationInv, ConnSetUp, ConnRec
  <2>3. /\ Parsed(Defaults, req.opts) \in [Echoed -> Nat]
        /\ ParsedSize(req.opts, ts, TRUE) \in Int /\ ts \in Int
    <3>1. ts \in Int /\ Defaults \in [Echoed -> Nat]
      BY OptionFacts DEF FileSize
    <3> QED
      BY <1>1, <1>4, <3>1, ParsedFacts
  <2>4. /\ s \in ConnRec /\ s.size = Parsed(Defaults, req.opts)
        /\ s.tsize = ParsedSize(req.opts, ts, TRUE) /\ s.oack = FALSE
    BY <1>1, <2>2, <2>3 DEF ConnSetup, ConnRec
  <2>5. IsSender = TRUE
    BY <1>2, InvTypes
  <2>6. CASE acks = NoOptions
    <3> DEFINE c == [s EXCEPT !.pc = "data"]
    <3>1. PICK opts \in FirstBlocks : ConnSends(i, c, Data(i, opts))
      BY <2>1, <2>6
    <3>2. /\ c \in ConnRec /\ c.size = s.size /\ c.tsize = s.tsize
          /\ c.oack = FALSE /\ c.pc = "data"
      BY <2>4 DEF ConnRec
    <3> DEFINE m == Data(i, opts)
    <3>3. m.from = i /\ m.op = "DATA" /\ m.opts \in FirstBlocks /\ m.block = 1
      BY DEF Data
    <3>4. c.oack = (AckOpts(req.opts, ts, IsSender) # NoOptions)
      BY <2>5, <2>6, <3>2
    <3>5. ConnSends(i, c, m)
      BY <3>1
    <3>6. c.size = Parsed(Defaults, req.opts)
          /\ c.tsize = ParsedSize(req.opts, ts, IsSender)
      BY <2>4, <2>5, <3>2
    <3> HIDE DEF c, m, s
    <3> QED
      BY <1>2, <1>4, <3>2, <3>3, <3>4, <3>5, <3>6, SetupFrame
  <2>7. CASE acks # NoOptions
    <3> DEFINE c == [s EXCEPT !.pc = AfterOack, !.oack = TRUE]
               m == Msg("OACK", i, acks)
    <3>1. ConnSends(i, c, m)
      BY <2>1, <2>7
    <3>2. /\ c \in ConnRec /\ c.size = s.size /\ c.tsize = s.tsize
          /\ c.oack = TRUE /\ c.pc = "getAck"
      BY <2>4 DEF ConnRec, AfterOack
    <3>3. m.from = i /\ m.op = "OACK" /\ m.opts = AckOpts(req.opts, ts, IsSender)
          /\ m.block = 0
      BY <2>5 DEF Msg
    <3>4. c.oack = (AckOpts(req.opts, ts, IsSender) # NoOptions)
      BY <2>5, <2>7, <3>2
    <3>5. c.size = Parsed(Defaults, req.opts)
          /\ c.tsize = ParsedSize(req.opts, ts, IsSender)
      BY <2>4, <2>5, <3>2
    <3> HIDE DEF c, m, s, acks
    <3> QED
      BY <1>2, <1>4, <3>1, <3>2, <3>3, <3>4, <3>5, SetupFrame
  <2> QED
    BY <2>6, <2>7
<1> QED
  BY <1>3, <1>4

LEMMA ConnStepInv ==
    ASSUME Inv, NEW i \in ConnIds, ConnStep(i)
    PROVE  Inv'
BY DispatchInv, ReadSetupInv, StartsInv, HandlerEndsInv, HandlerReadsInv,
   HandlerWritesInv, GivesUpInv, TimeoutInv, GetAckInv, ConnReadsInv
   DEF ConnStep

-----------------------------------------------------------------------------
(* The steps of the client. *)

\* The client takes what it is sent, and sends to its peer or the listener.
ClientMail ==
    /\ Mailboxes' /\ Elems(mail'[Client]) \subseteq Elems(mail[Client])
    /\ \A i \in ConnIds :
         Elems(mail'[i]) # {} => Elems(mail[i]) # {} \/ client'.peer = i

\* A step of the client, or of the network, that does not choose the peer.
LEMMA ClientFrame ==
    ASSUME Inv, NEW c \in ClientRec, client' = c,
           UNCHANGED << req, conns, calm >>, ClientMail,
           c.peer = client.peer, c.size = client.size, c.tsize = client.tsize,
           c.pc \in {"start", "receiveResponse"} =>
             /\ client.pc \in {"start", "receiveResponse"}
             /\ c.block = client.block /\ (c.tries > 0 => c.err # "nil"),
           c.pc \in {"ready", "data"} => Granted,
           Retransmit > 0 /\ c.pc = "panicked" => Answered
    PROVE  Inv'
<1> USE DEF Inv, NegotiationInv, ClientMail
<1>1. TypeOK'
  BY DEF TypeOK, ClientRec
<1>2. /\ IsSender' = IsSender /\ Answered' = Answered
      /\ Granted' => Granted
  BY DEF IsSender, Answered, Granted
<1>3. \A i \in ConnIds : Configured(i) => Configured(i)'
  BY <1>2 DEF Configured, Unset, ToldSize
<1>4. ASSUME NEW i \in ConnIds PROVE ConnSetUp(i)'
  <2>1. ConnSetUp(i) /\ (Unset(i)' <=> Unset(i))
    BY DEF Unset
  <2> QED
    BY <1>2, <1>3, <2>1 DEF ConnSetUp
<1>5. ASSUME NEW m \in Elems(mail'[Client]) PROVE AnswerTrue(m)'
  <2>1. AnswerTrue(m)
    OBVIOUS
  <2> QED
    BY <1>2, <1>3, <2>1 DEF AnswerTrue, ToldSize
<1>6. OnlyPeerTransfers'
  BY DEF OnlyPeerTransfers
<1>7. Granted => client.peer \in ConnIds /\ Configured(client.peer)
  BY InvTypes DEF PeerFixed, Answered, ConnIds, Listener, ClientRec
<1>8. PeerFixed'
  <2>1. \A i \in ConnIds : Granted' /\ client'.peer = i => Configured(i)'
    BY <1>2, <1>3, <1>7
  <2> QED
    BY <1>2, <2>1 DEF PeerFixed
<1>9. Outcome'
  BY <1>2 DEF Outcome, Agreement, SizeReported, NilMeansAnswered, Granted
<1> QED
  BY <1>1, <1>4, <1>5, <1>6, <1>8, <1>9

\* The client takes m, its first answer, and m's sender becomes the peer.
LEMMA PeerFrame ==
    ASSUME Inv, client.pc = "receiveResponse", NEW m \in Elems(mail[Client]),
           NEW c \in ClientRec, client' = c, UNCHANGED << req, conns, calm >>,
           ClientMail, c.peer = m.from,
           c.pc \in {"ready", "data", "failed", "panicked"},
           c.pc \in {"ready", "data"} =>
             /\ m.op # "ERROR"
             /\ PlainBlocks /\ WritesUnacked => c.size = conns[m.from].size
             /\ /\ AsksOtherSize /\ IsSender /\ "tsize" \in DOMAIN req.opts
                /\ conns[m.from].tsize = FileSize
                => c.tsize = FileSize
    PROVE  Inv'
<1> USE DEF Inv, NegotiationInv, ClientMail
<1>1. TypeOK'
  BY DEF TypeOK, ClientRec
<1>2. AnswerTrue(m) /\ m.from \in ConnIds /\ m.from # Listener
  BY PortFacts DEF AnswerTrue
<1>3. client.peer = Listener /\ \A i \in ConnIds : client.peer # i
  BY PortFacts DEF PeerFixed
<1>4. IsSender' = IsSender /\ Answered'
  BY <1>2 DEF IsSender, Answered, Listener
<1>5. \A i \in ConnIds : Configured(i) => Configured(i)'
  BY <1>4 DEF Configured, Unset, ToldSize
<1>6. ASSUME NEW i \in ConnIds PROVE ConnSetUp(i)'
  <2>1. ConnSetUp(i) /\ (Unset(i)' <=> Unset(i))
    BY DEF Unset
  <2> QED
    BY <1>4, <1>5, <2>1 DEF ConnSetUp
<1>7. ASSUME NEW x \in Elems(mail'[Client]) PROVE AnswerTrue(x)'
  <2>1. AnswerTrue(x)
    OBVIOUS
  <2> QED
    BY <1>3, <1>4, <1>5, <2>1 DEF AnswerTrue, ToldSize
<1>8. OnlyPeerTransfers'
  BY <1>3 DEF OnlyPeerTransfers
<1>9. PeerFixed'
  <2>1. Granted' => Configured(m.from)
    BY <1>2 DEF Granted, AnswerTrue
  <2>2. \A i \in ConnIds : Granted' /\ client'.peer = i => Configured(i)'
    BY <1>2, <1>5, <2>1
  <2>3. Answered'
    BY <1>4
  <2>4. \A i \in ConnIds : Elems(mail'[i]) # {} => client'.peer = i
    BY <1>3 DEF PeerFixed
  <2> QED
    BY <2>2, <2>3, <2>4 DEF PeerFixed
<1>10. Outcome'
  BY <1>4 DEF Outcome, Agreement, SizeReported, NilMeansAnswered, Granted, IsSender
<1> QED
  BY <1>1, <1>6, <1>7, <1>8, <1>9, <1>10

\* What an answer that is welcome says of the conn that sent it.
LEMMA WelcomeFacts ==
    ASSUME Inv, client.pc = "receiveResponse", NEW m \in Elems(mail[Client]),
           Welcome(m), Parses(m.opts)
    PROVE  /\ m.op # "ERROR" /\ IsOptions(m.opts)
           /\ PlainBlocks /\ WritesUnacked =>
                Parsed(Defaults, m.opts) = conns[m.from].size
           /\ /\ AsksOtherSize /\ IsSender /\ "tsize" \in DOMAIN req.opts
              /\ conns[m.from].tsize = FileSize
              => ParsedSize(m.opts, NoSize, FALSE) = FileSize
<1> USE DEF Inv, NegotiationInv
<1>1. /\ AnswerTrue(m) /\ m.op \in {"ACK", "OACK", "DATA"} /\ Configured(m.from)
      /\ m.from \in ConnIds
  BY DEF AnswerTrue, Welcome
<1>2. IsOptions(req.opts) /\ IsSender \in BOOLEAN /\ req \in Requests
      /\ req.kind \in {"RRQ", "WRQ"} /\ (IsSender <=> req.kind = "RRQ")
  BY InvTypes DEF IsSender
<1>3. conns[m.from].size = Parsed(Defaults, req.opts) /\ Parses(req.opts)
  BY <1>1 DEF Configured
<1>4. Defaults \in [Echoed -> Nat] /\ NoSize # FileSize
  BY OptionFacts DEF FileSize
<1>5. AsksOtherSize /\ IsSender /\ "tsize" \in DOMAIN req.opts =>
        req.opts["tsize"] # FileSize
  BY <1>2 DEF AsksOtherSize
<1>6. CASE m.op = "OACK"
  <2>1. PICK ts \in {NoSize, FileSize} :
          ToldSize(m.from, ts) /\ m.opts = AckOpts(req.opts, ts, IsSender)
    BY <1>1, <1>6 DEF AnswerTrue
  <2>2. IsOptions(m.opts) /\ Parsed(Defaults, m.opts) = conns[m.from].size
    BY <1>2, <1>3, <2>1, AckOptsFacts
  <2>3. ASSUME AsksOtherSize, IsSender, "tsize" \in DOMAIN req.opts,
               conns[m.from].tsize = FileSize
        PROVE  ParsedSize(m.opts, NoSize, FALSE) = FileSize
    <3>1. TellsSize(req.opts, ts, IsSender) /\ ts = FileSize
      BY <1>4, <1>5, <2>1, <2>3 DEF ToldSize, ParsedSize, TellsSize
    <3>2. "tsize" \in DOMAIN m.opts /\ m.opts["tsize"] = FileSize
      BY <1>2, <2>1, <3>1, AckOptsFacts
    <3> QED
      BY <3>2 DEF ParsedSize, TellsSize
  <2> QED
    BY <1>6, <2>2, <2>3
<1>7. CASE m.op = "ACK"
  <2>1. ~IsSender /\ m.opts = NoOptions
    BY <1>1, <1>7 DEF AnswerTrue
  <2>2. WritesUnacked => DOMAIN req.opts \cap Echoed = {}
    BY <1>2, <1>3, <2>1 DEF WritesUnacked
  <2>3. WritesUnacked => Parsed(Defaults, req.opts) = Defaults
    BY <2>2 DEF Parsed, Defaults
  <2> QED
    BY <1>3, <1>4, <1>7, <2>1, <2>3, NoOptionsParse, OptionFacts
<1>8. CASE m.op = "DATA"
  <2>1. m.opts \in FirstBlocks /\ IsSender /\ ~conns[m.from].oack
    BY <1>1, <1>8, PortFacts DEF AnswerTrue, PeerFixed
  <2>2. m.opts # Garbled
    BY DEF Parses
  <2>3. IsOptions(m.opts) /\ (PlainBlocks => m.opts = NoOptions)
    BY <2>1, <2>2, NegotiationAssumption DEF PlainBlocks
  <2>4. PICK ts \in {NoSize, FileSize} :
          ToldSize(m.from, ts) /\ AckOpts(req.opts, ts, IsSender) = NoOptions
    BY <1>1, <2>1 DEF Configured
  <2>5. Parsed(Defaults, req.opts) = Defaults /\ ~TellsSize(req.opts, ts, IsSender)
    BY <1>2, <2>4, NoAckOpts
  <2>6. AsksOtherSize /\ "tsize" \in DOMAIN req.opts =>
          conns[m.from].tsize # FileSize
    BY <1>4, <1>5, <2>1, <2>4, <2>5 DEF ToldSize, ParsedSize
  <2> QED
    BY <1>3, <1>4, <1>8, <2>3, <2>5, <2>6, NoOptionsParse
<1> QED
  BY <1>1, <1>6, <1>7, <1>8

LEMMA ClientMailUnchanged ==
    ASSUME Inv, UNCHANGED mail
    PROVE  ClientMail
BY DEF Inv, NegotiationInv, ClientMail, Mailboxes

\* The client receives a datagram.
LEMMA ClientMailTaken ==
    ASSUME Inv, Arrivals(mail[Client]) # {}, mail' = Taken
    PROVE  ClientMail
<1>1. /\ Mailboxes' /\ Elems(mail'[Client]) \subseteq Elems(mail[Client])
      /\ \A k \in Ports \ {Client} : mail'[k] = mail[k]
  BY MailTake, PortFacts DEF Inv, NegotiationInv, Taken
<1> QED
  BY <1>1, PortFacts DEF ClientMail

\* The client sends to the listener or to its peer.
LEMMA ClientMailSent ==
    ASSUME Inv, NEW n \in 0 .. MaxConns, n = Listener \/ n = client'.peer,
           NEW m, Send(n, m)
    PROVE  ClientMail
<1>1. n \in Ports /\ n # Client
  BY NegotiationAssumption DEF Ports, Client
<1>2. /\ Mailboxes' /\ \A k \in Ports \ {n} : mail'[k] = mail[k]
  BY <1>1, MailSend DEF Inv, NegotiationInv
<1> QED
  BY <1>1, <1>2, PortFacts DEF ClientMail

LEMMA SendRequestInv ==
    ASSUME Inv, SendRequest
    PROVE  Inv'
<1>1. client \in ClientRec /\ client.pc = "start" /\ UNCHANGED << req, conns, calm >>
  BY InvTypes DEF SendRequest
<1>2. client.tries > 0 => client.err # "nil"
  BY <1>1 DEF Inv, NegotiationInv, PeerFixed
<1>3. CASE /\ mail' = [mail EXCEPT ![Listener] =
                         Put(@, Msg(req.kind, Client, req.opts))]
           /\ client' = [client EXCEPT !.pc = "receiveResponse"]
  <2> DEFINE c == [client EXCEPT !.pc = "receiveResponse"]
             m == Msg(req.kind, Client, req.opts)
  <2>1. /\ c \in ClientRec /\ c.pc = "receiveResponse" /\ c.peer = client.peer
        /\ c.size = client.size /\ c.tsize = client.tsize
        /\ c.block = client.block /\ c.tries = client.tries /\ c.err = client.err
    BY <1>1 DEF ClientRec
  <2>2. Send(Listener, m) /\ Listener \in 0 .. MaxConns
    BY <1>3, NegotiationAssumption DEF Send, Listener
  <2>3. ClientMail
    <3> HIDE DEF m
    <3> QED
      BY <2>2, ClientMailSent
  <2>4. client' = c
    BY <1>3
  <2> HIDE DEF c
  <2> QED
    BY <1>1, <1>2, <2>1, <2>3, <2>4, ClientFrame
<1>4. CASE client' = [client EXCEPT !.pc = "failed", !.err = "network"]
           /\ UNCHANGED mail
  <2> DEFINE c == [client EXCEPT !.pc = "failed", !.err = "network"]
  <2>1. /\ c \in ClientRec /\ c.pc = "failed" /\ c.peer = client.peer
        /\ c.size = client.size /\ c.tsize = client.tsize
    BY <1>1 DEF ClientRec, Errors
  <2>2. ClientMail /\ client' = c
    BY <1>4, ClientMailUnchanged
  <2> HIDE DEF c
  <2> QED
    BY <1>1, <2>1, <2>2, ClientFrame
<1> QED
  BY <1>3, <1>4 DEF SendRequest

LEMMA ReceiveGivesUpInv ==
    ASSUME Inv, ReceiveGivesUp
    PROVE  Inv'
<1> DEFINE p == IF client.err = "nil" THEN "panicked" ELSE "failed"
           c == [client EXCEPT !.pc = p]
<1>1. /\ client \in ClientRec /\ UNCHANGED << req, conns, calm, mail >>
      /\ client.pc = "receiveResponse" /\ client.tries >= Retransmit /\ client' = c
  BY InvTypes DEF ReceiveGivesUp, OutOfTries
<1>2. /\ c \in ClientRec /\ c.pc = p /\ c.peer = client.peer
      /\ c.size = client.size /\ c.tsize = client.tsize
  BY <1>1 DEF ClientRec
<1>3. Retransmit > 0 => client.err # "nil"
  <2>1. client.tries > 0 => client.err # "nil"
    BY <1>1 DEF Inv, NegotiationInv, PeerFixed
  <2>2. client.tries \in Nat /\ Retransmit \in Nat
    BY <1>1, NegotiationAssumption DEF ClientRec
  <2> QED
    BY <1>1, <2>1, <2>2
<1>4. ClientMail
  BY <1>1, ClientMailUnchanged
<1>5. p \in {"failed", "panicked"} /\ (Retransmit > 0 => p = "failed")
  BY <1>3
<1> HIDE DEF c, p
<1> QED
  BY <1>1, <1>2, <1>4, <1>5, ClientFrame

LEMMA ReceiveTimeoutInv ==
    ASSUME Inv, ReceiveTimeout
    PROVE  Inv'
<1> DEFINE c == [client EXCEPT !.tries = @ + 1, !.err = "timeout"]
<1>1. /\ client \in ClientRec /\ UNCHANGED << req, conns, calm, mail >>
      /\ client.pc = "receiveResponse" /\ ~(client.tries >= Retransmit)
      /\ client' = c
  BY InvTypes DEF ReceiveTimeout, OutOfTries
<1>2. client.tries + 1 \in 0 .. Retransmit
  <2>1. client.tries \in Nat /\ Retransmit \in Nat
    BY <1>1, NegotiationAssumption DEF ClientRec
  <2> QED
    BY <1>1, <2>1
<1>3. /\ c \in ClientRec /\ c.pc = "receiveResponse" /\ c.peer = client.peer
      /\ c.size = client.size /\ c.tsize = client.tsize
      /\ c.block = client.block /\ c.err = "timeout"
  BY <1>1, <1>2 DEF ClientRec, Errors
<1>4. ClientMail
  BY <1>1, ClientMailUnchanged
<1> HIDE DEF c
<1> QED
  BY <1>1, <1>3, <1>4, ClientFrame

LEMMA ClientWritesInv ==
    ASSUME Inv, ClientWrites
    PROVE  Inv'
<1>1. client \in ClientRec /\ client.pc = "ready" /\ UNCHANGED << req, conns, calm >>
  BY InvTypes DEF ClientWrites
<1>2. CASE /\ client' = [client EXCEPT !.pc = "data"]
           /\ \E opts \in FirstBlocks :
                mail' = [mail EXCEPT ![client.peer] = Put(@, Data(Client, opts))]
  <2> DEFINE c == [client EXCEPT !.pc = "data"]
  <2>1. /\ c \in ClientRec /\ c.pc = "data" /\ c.peer = client.peer
        /\ c.size = client.size /\ c.tsize = client.tsize
    BY <1>1 DEF ClientRec
  <2>2. PICK opts \in FirstBlocks :
          mail' = [mail EXCEPT ![client.peer] = Put(@, Data(Client, opts))]
    BY <1>2
  <2>3. /\ Send(client.peer, Data(Client, opts)) /\ client.peer \in 0 .. MaxConns
        /\ client'.peer = client.peer
    BY <1>1, <1>2, <2>1, <2>2 DEF Send, ClientRec
  <2>4. ClientMail
    BY <2>3, ClientMailSent
  <2>5. client' = c /\ Granted
    BY <1>1, <1>2 DEF Granted
  <2> HIDE DEF c
  <2> QED
    BY <1>1, <2>1, <2>4, <2>5, ClientFrame
<1>3. CASE client' = [client EXCEPT !.pc = "failed", !.err = "network"]
           /\ UNCHANGED mail
  <2> DEFINE c == [client EXCEPT !.pc = "failed", !.err = "network"]
  <2>1. /\ c \in ClientRec /\ c.pc = "failed" /\ c.peer = client.peer
        /\ c.size = client.size /\ c.tsize = client.tsize
    BY <1>1 DEF ClientRec, Errors
  <2>2. ClientMail /\ client' = c
    BY <1>3, ClientMailUnchanged
  <2> HIDE DEF c
  <2> QED
    BY <1>1, <2>1, <2>2, ClientFrame
<1> QED
  BY <1>2, <1>3 DEF ClientWrites

LEMMA ClientReadsInv ==
    ASSUME Inv, ClientReads
    PROVE  Inv'
<1>1. /\ client \in ClientRec /\ client.pc = "ready"
      /\ UNCHANGED << req, conns, calm >> /\ client.tries < Retransmit
      /\ mail' = Taken /\ Arrivals(mail[Client]) # {}
  BY InvTypes DEF ClientReads
<1>2. client.tries + 1 \in 0 .. Retransmit
  <2>1. client.tries \in Nat /\ Retransmit \in Nat
    BY <1>1, NegotiationAssumption DEF ClientRec
  <2> QED
    BY <1>1, <2>1
<1>3. PICK m \in Arrivals(mail[Client]) :
        client' = IF m.op = "DATA"
                  THEN [client EXCEPT !.tries = 0, !.pc = "data"]
                  ELSE [client EXCEPT !.tries = @ + 1, !.pc = "failed",
                          !.err = IF m.op = "ERROR" THEN "remote"
                                  ELSE "unexpected"]
  BY DEF ClientReads
<1>4. /\ client' \in ClientRec /\ client'.pc \in {"data", "failed"}
      /\ client'.peer = client.peer /\ client'.size = client.size
      /\ client'.tsize = client.tsize
  BY <1>1, <1>2, <1>3, NoTries DEF ClientRec, Errors
<1>5. ClientMail
  BY <1>1, ClientMailTaken
<1>6. Granted
  BY <1>1 DEF Granted
<1>7. PICK c \in ClientRec : client' = c
  BY <1>4
<1> QED
  BY <1>1, <1>4, <1>5, <1>6, <1>7, ClientFrame

LEMMA ClientWaitsInv ==
    ASSUME Inv, ClientReadTimeout \/ ClientReadGivesUp
    PROVE  Inv'
<1>1. /\ client \in ClientRec /\ client.pc = "ready"
      /\ UNCHANGED << req, conns, calm >>
  BY InvTypes DEF ClientReadTimeout, ClientReadGivesUp
<1>2. ClientReadTimeout => client.tries + 1 \in 0 .. Retransmit
  <2>1. client.tries \in Nat /\ Retransmit \in Nat
    BY <1>1, NegotiationAssumption DEF ClientRec
  <2> QED
    BY <1>1, <2>1 DEF ClientReadTimeout
<1>3. /\ client' \in ClientRec /\ client'.pc \in {"ready", "failed"}
      /\ client'.peer = client.peer /\ client'.size = client.size
      /\ client'.tsize = client.tsize
  BY <1>1, <1>2 DEF ClientRec, Errors, ClientReadTimeout, ClientReadGivesUp
<1>4. ClientMail
  <2>1. PICK m : Send(client.peer, m)
    BY DEF ClientReadTimeout, ClientReadGivesUp
  <2>2. client.peer \in 0 .. MaxConns
    BY <1>1 DEF ClientRec
  <2> QED
    BY <1>3, <2>1, <2>2, ClientMailSent
<1>5. Granted
  BY <1>1 DEF Granted
<1>6. PICK c \in ClientRec : client' = c
  BY <1>3
<1> QED
  BY <1>1, <1>3, <1>4, <1>5, <1>6, ClientFrame

LEMMA ReceiveResponseInv ==
    ASSUME Inv, ReceiveResponse
    PROVE  Inv'
<1>1. /\ client \in ClientRec /\ client.pc = "receiveResponse"
      /\ UNCHANGED << req, conns, calm >>
      /\ client.size = Defaults /\ client.tsize = NoSize
  BY InvTypes DEF ReceiveResponse, Inv, NegotiationInv, PeerFixed
<1>2. PICK m \in Arrivals(mail[Client]) :
        LET c == [client EXCEPT !.tries = 0, !.peer = m.from, !.block = m.block]
        IN  \/ /\ Welcome(m) /\ Parses(m.opts)
               /\ IF req.kind = "WRQ" THEN ClientWriteSetup(c, m)
                                      ELSE ClientReadSetup(c, m)
            \/ /\ ~(Welcome(m) /\ Parses(m.opts))
               /\ client' = [c EXCEPT
                    !.pc = IF Welcome(m) /\ m.opts = Garbled
                           THEN "panicked" ELSE "failed",
                    !.err = CASE m.op = "ERROR" -> "remote"
                              [] Welcome(m)     -> "option"
                              [] OTHER          -> "unexpected"]
               /\ mail' = Taken
  BY DEF ReceiveResponse
<1> DEFINE c0 == [client EXCEPT !.tries = 0, !.peer = m.from, !.block = m.block]
<1>3. m \in Elems(mail[Client]) /\ AnswerTrue(m) /\ m.from \in ConnIds
      /\ m.block \in {0, 1} /\ m.from \in 0 .. MaxConns
  <2>1. m \in Elems(mail[Client])
    BY RestAny, PortFacts DEF Inv, NegotiationInv, Mailboxes
  <2>2. AnswerTrue(m)
    BY <2>1 DEF Inv, NegotiationInv
  <2>3. m.from \in ConnIds /\ m.block \in {0, 1}
    BY <2>2 DEF AnswerTrue
  <2> QED
    BY <2>1, <2>2, <2>3, PortFacts
<1>4. /\ c0 \in ClientRec /\ c0.peer = m.from /\ c0.size = Defaults
      /\ c0.tsize = NoSize
  BY <1>1, <1>3, NoTries DEF ClientRec
<1>5. CASE /\ ~(Welcome(m) /\ Parses(m.opts))
           /\ client' = [c0 EXCEPT
                !.pc = IF Welcome(m) /\ m.opts = Garbled
                       THEN "panicked" ELSE "failed",
                !.err = CASE m.op = "ERROR" -> "remote"
                          [] Welcome(m)     -> "option"
                          [] OTHER          -> "unexpected"]
           /\ mail' = Taken
  <2> DEFINE e == CASE m.op = "ERROR" -> "remote"
                    [] Welcome(m)     -> "option"
                    [] OTHER          -> "unexpected"
             p == IF Welcome(m) /\ m.opts = Garbled THEN "panicked" ELSE "failed"
  <2>1. e \in Errors /\ p \in {"panicked", "failed"}
    <3>1. CASE m.op = "ERROR"
      <4>1. ~Welcome(m)
        BY <3>1 DEF Welcome
      <4> QED
        BY <3>1, <4>1 DEF Errors
    <3>2. CASE m.op # "ERROR"
      BY <3>2 DEF Errors
    <3> QED
      BY <3>1, <3>2
  <2>2. client' = [c0 EXCEPT !.pc = p, !.err = e]
    BY <1>5
  <2> HIDE DEF e, p, c0
  <2>3. client' \in ClientRec /\ client'.pc = p /\ client'.peer = m.from
    BY <1>4, <2>1, <2>2 DEF ClientRec
  <2>4. ClientMail
    BY <1>5, ClientMailTaken
  <2>5. PICK c \in ClientRec : client' = c
    BY <2>3
  <2> QED
    BY <1>1, <1>3, <2>1, <2>3, <2>4, <2>5, PeerFrame
<1>6. CASE /\ Welcome(m) /\ Parses(m.opts)
           /\ IF req.kind = "WRQ" THEN ClientWriteSetup(c0, m)
                                  ELSE ClientReadSetup(c0, m)
  <2> DEFINE s == Setup(c0, m.opts)
  <2>1. /\ m.op # "ERROR" /\ IsOptions(m.opts)
        /\ PlainBlocks /\ WritesUnacked =>
             Parsed(Defaults, m.opts) = conns[m.from].size
        /\ /\ AsksOtherSize /\ IsSender /\ "tsize" \in DOMAIN req.opts
           /\ conns[m.from].tsize = FileSize
           => ParsedSize(m.opts, NoSize, FALSE) = FileSize
    BY <1>1, <1>3, <1>6, WelcomeFacts
  <2>2. /\ Parsed(Defaults, m.opts) \in [Echoed -> Nat]
        /\ ParsedSize(m.opts, NoSize, FALSE) \in Int
    BY <1>6, <2>1, ParsedFacts, OptionFacts
  <2>3. ParsedSize(m.opts, NoSize, req.kind = "WRQ")
          = ParsedSize(m.opts, NoSize, FALSE)
    BY DEF ParsedSize, TellsSize
  <2> HIDE DEF c0
  <2>4. /\ s \in ClientRec /\ s.peer = m.from
        /\ s.size = Parsed(Defaults, m.opts)
        /\ s.tsize = ParsedSize(m.opts, NoSize, FALSE)
    BY <1>4, <2>2, <2>3 DEF Setup, ClientRec
  <2> HIDE DEF s
  <2>5. /\ client' \in ClientRec /\ client'.peer = m.from
        /\ client'.size = s.size /\ client'.tsize = s.tsize
        /\ client'.pc \in {"ready", "data", "failed"}
    <3>1. \/ client' = Returns(s)
          \/ client' = [s EXCEPT !.pc = "failed", !.err = "network"]
      BY <1>6 DEF ClientWriteSetup, ClientReadSetup, s
    <3>2. CASE client' = Returns(s)
      BY <2>4, <3>2 DEF Returns, ClientRec
    <3>3. CASE client' = [s EXCEPT !.pc = "failed", !.err = "network"]
      BY <2>4, <3>3 DEF ClientRec, Errors
    <3> QED
      BY <3>1, <3>2, <3>3
  <2>6. ClientMail
    <3>1. CASE mail' = Taken
      BY <3>1, ClientMailTaken
    <3>2. CASE mail' = [Taken EXCEPT ![m.from] = Put(@, Ack(Client, c0.block))]
      <4> DEFINE a == Ack(Client, c0.block)
      <4>1. /\ Mailboxes /\ Client \in Ports /\ m.from \in Ports /\ m.from # Client
            /\ Arrivals(mail[Client]) # {} /\ DOMAIN mail = Ports
        BY <1>3, PortFacts DEF Inv, NegotiationInv, Mailboxes
      <4>2. mail' = [mail EXCEPT ![Client] = Rest(@), ![m.from] = Put(@, a)]
        BY <3>2, <4>1 DEF Taken
      <4> HIDE DEF a
      <4>3. /\ Mailboxes' /\ Elems(mail'[Client]) \subseteq Elems(mail[Client])
            /\ \A j \in Ports \ {Client, m.from} : mail'[j] = mail[j]
        BY <4>1, <4>2, MailReply
      <4> QED
        BY <2>5, <4>3, PortFacts DEF ClientMail
    <3> QED
      BY <1>6, <3>1, <3>2 DEF ClientWriteSetup, ClientReadSetup
  <2>7. PICK c \in ClientRec : client' = c
    BY <2>5
  <2> QED
    BY <1>1, <1>3, <2>1, <2>4, <2>5, <2>6, <2>7, PeerFrame
<1> QED
  BY <1>2, <1>5, <1>6

-----------------------------------------------------------------------------
(* All steps, and the theorems. *)

\* Nobody takes a step; datagrams may get lost.
LEMMA QuietFrame ==
    ASSUME Inv, UNCHANGED << req, client, conns, calm >>, ClientMail
    PROVE  Inv'
<1>1. PICK c \in ClientRec : client = c
  BY InvTypes
<1>2. client.pc \in {"start", "receiveResponse"} =>
        (client.tries > 0 => client.err # "nil")
  BY DEF Inv, NegotiationInv, PeerFixed
<1>3. /\ client.pc \in {"ready", "data"} => Granted
      /\ Retransmit > 0 /\ client.pc = "panicked" => Answered
  BY DEF Inv, Outcome, NilMeansAnswered, Granted
<1> QED
  BY <1>1, <1>2, <1>3, ClientFrame

LEMMA LoseInv ==
    ASSUME Inv, NEW n \in Ports, Lose(n)
    PROVE  Inv'
<1>1. /\ Ordered /\ mail[n] # << >> /\ mail' = [mail EXCEPT ![n] = Tail(@)]
      /\ UNCHANGED << req, client, conns, calm >>
  BY DEF Lose
<1>2. Mailboxes /\ mail[n] \in Channel(Elems(mail[n]))
  BY DEF Inv, NegotiationInv, Mailboxes
<1>3. /\ Tail(mail[n]) \in Channel(Elems(Tail(mail[n])))
      /\ Elems(Tail(mail[n])) \subseteq Elems(mail[n])
  BY <1>1, <1>2, TailAny
<1>4. mail' = [mail EXCEPT ![n] = Tail(mail[n])]
  BY <1>1
<1>5. /\ Mailboxes' /\ mail'[n] = Tail(mail[n])
      /\ \A k \in Ports \ {n} : mail'[k] = mail[k]
  BY <1>2, <1>3, <1>4, MailSet
<1>6. \A k \in Ports : Elems(mail'[k]) \subseteq Elems(mail[k])
  BY <1>3, <1>5
<1>7. ClientMail
  BY <1>5, <1>6, PortFacts DEF ClientMail
<1> QED
  BY <1>1, <1>7, QuietFrame

LEMMA NextInv ==
    Inv /\ [Next]_vars => Inv'
<1> SUFFICES ASSUME Inv, [Next]_vars PROVE Inv'
  OBVIOUS
<1>1. CASE UNCHANGED vars
  BY <1>1, ClientMailUnchanged, QuietFrame DEF vars
<1>2. CASE ClientStep
  BY <1>2, SendRequestInv, ReceiveGivesUpInv, ReceiveTimeoutInv,
     ReceiveResponseInv, ClientWritesInv, ClientReadsInv, ClientWaitsInv
     DEF ClientStep
<1>3. CASE Next
  BY <1>1, <1>2, <1>3, ConnStepInv, LoseInv DEF Next, Terminated
<1> QED
  BY <1>1, <1>3

LEMMA Invariance ==
    Spec => []Inv
BY InitInv, NextInv, PTL DEF Spec

\* The inductive invariant of the request phase, for every set of requests,
\* number of conns, retry limit and network.
THEOREM NegotiationInvariance ==
    Spec => []NegotiationInv
<1>1. Inv => NegotiationInv
  BY DEF Inv
<1> QED
  BY <1>1, Invariance, PTL

\* The state of the request phase is well formed.
THEOREM NegotiationTypeCorrect ==
    Spec => []TypeOK
<1>1. Inv => TypeOK
  BY DEF Inv, NegotiationInv
<1> QED
  BY <1>1, Invariance, PTL

\* An OACK has only options that the client asked for.
THEOREM OacksAreAsked ==
    Spec => []OnlyRequestedOptions
<1>1. Inv => OnlyRequestedOptions
  <2> SUFFICES ASSUME Inv, NEW m \in Elems(mail[Client]), m.op = "OACK"
               PROVE  DOMAIN m.opts \subseteq DOMAIN req.opts
    BY DEF OnlyRequestedOptions
  <2>1. PICK ts \in {NoSize, FileSize} : m.opts = AckOpts(req.opts, ts, IsSender)
    BY DEF Inv, NegotiationInv, AnswerTrue
  <2> QED
    BY <2>1, InvTypes, AckOptsFacts
<1> QED
  BY <1>1, Invariance, PTL

\* Of all the conns that the server made for a request and its duplicates,
\* and that negotiated options, at most the client's peer transfers data.
THEOREM DuplicatesStaySilent ==
    Spec => []OnlyPeerTransfers
<1>1. Inv => OnlyPeerTransfers
  BY DEF Inv, NegotiationInv
<1> QED
  BY <1>1, Invariance, PTL

\* A request that returns nil was answered, if at least one try is allowed:
\* with a retry limit of 0 receiveResponse returns nil before its first try.
THEOREM NilIsAnswered ==
    ASSUME Retransmit > 0
    PROVE  Spec => []NilMeansAnswered
<1>1. Inv => NilMeansAnswered
  BY DEF Inv, Outcome
<1> QED
  BY <1>1, Invariance, PTL

\* A client that asked for the size of a file, of a handler that called
\* WriteSize, knows it when its request is granted, whatever other size it
\* sent with the request.
THEOREM SizeIsReported ==
    ASSUME AsksOtherSize
    PROVE  Spec => []SizeReported
<1>1. Inv => SizeReported
  BY DEF Inv, Outcome
<1> QED
  BY <1>1, Invariance, PTL

\* Both sides of a transfer use the same options, if the first DATA does not
\* look like options and no write request is answered by an OACK: that OACK
\* may be lost, as the run negotiation_lost_oack shows.
THEOREM SidesAgree ==
    ASSUME PlainBlocks, WritesUnacked
    PROVE  Spec => []Agreement
<1>1. Inv => Agreement
  BY DEF Inv, Outcome
<1> QED
  BY <1>1, Invariance, PTL
=============================================================================
