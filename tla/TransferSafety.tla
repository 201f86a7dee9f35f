--------------------------- MODULE TransferSafety ---------------------------
(***************************************************************************)
(* Types, the inductive invariant of module Transfer, its safety           *)
(* properties, and that a transfer implements the abstract Pipe, for every *)
(* window size, retry limit, file length and network, as long as block     *)
(* numbers do not wrap around.                                             *)
(***************************************************************************)
EXTENDS Transfer, NetworkProofs

(***************************************************************************)
(* The inductive invariant behind the safety properties, for files short   *)
(* enough that block numbers do not wrap around.  Len(rcv.got) is how far  *)
(* the receiver is.  The sender is never more than a window ahead of it,   *)
(* so that a chunk leaves the ring only after it has been received; and a  *)
(* datagram that carries the wrong chunk, because a stale ACK rolled the   *)
(* sender back further than the ring reaches, has the number of a block    *)
(* that the receiver has already.                                          *)
(***************************************************************************)
NoWrap == MaxFull + 1 < BlockMod

Received == Len(rcv.got)

MayWrite == snd.pc = "writeData" \/ (snd.pc = "app" /\ snd.err = "nil")

SenderInv ==
    /\ snd.block = ring.current
    /\ snd.done => snd.closing
    /\ snd.pc = "app" => ~snd.closing
    /\ snd.pc = "getAck" => snd.window = 0 \/ snd.done
    /\ MayWrite /\ ~snd.done =>
         snd.window < WindowSize /\ ring.current <= Received + snd.window
    /\ snd.pc \in {"writeData", "getAck"} /\ ring.current > ring.wrote => snd.done

RingInv ==
    /\ ring.wrote <= MaxFull
    /\ 0 <= ring.current /\ ring.current <= ring.head
    /\ ring.head <= IF snd.closing THEN ring.wrote + 1 ELSE ring.wrote
    /\ ring.head <= Received + WindowSize
    /\ \A s \in 0 .. WindowSize - 1 :
         s < ring.head => ring.slots[s] \in 1 .. ring.head
    /\ \A i \in 0 .. ring.head - 1 :
         i >= ring.head - WindowSize => ring.slots[i % WindowSize] = i + 1

ReceiverInv ==
    /\ rcv.block = Received /\ Received <= ring.head
    /\ rcv.done => snd.closing /\ Received = ring.wrote + 1
    /\ rcv.pc \in {"read", "readData"} => rcv.err = "nil"

\* A DATA datagram on its way.
GoodData(m) ==
    /\ m.block \in 1 .. ring.head /\ m.chunk \in 1 .. ring.head
    /\ m.chunk = m.block \/ m.block <= Received
    /\ IF m.last THEN snd.closing /\ m.chunk = ring.wrote + 1
                 ELSE m.chunk <= ring.wrote

NetworkInv ==
    /\ \A m \in Elems(toRcv) : m.op = "DATA" => GoodData(m)
    /\ \A m \in Elems(toSnd) : m.op = "ACK" => m.block <= Received

\* All of it: the sender, its ring, the receiver and what is on its way.
IndInv ==
    /\ TypeOK /\ InOrder /\ EofMeansComplete
    /\ SenderInv /\ RingInv /\ ReceiverInv /\ NetworkInv


-----------------------------------------------------------------------------
(* Arithmetic. *)

\* A remainder is smaller than the divisor and than the number itself.
LEMMA ModRange ==
    ASSUME NEW a \in Int, NEW m \in Nat \ {0}
    PROVE  /\ a % m \in 0 .. m - 1
           /\ a >= 0 => a % m <= a
           /\ a \in 0 .. m - 1 => a % m = a
OBVIOUS

\* Different numbers less than m apart fall into different slots.
LEMMA ModDistinct ==
    ASSUME NEW m \in Nat \ {0}, NEW a \in Nat, NEW b \in Nat,
           a < b, b < a + m
    PROVE  a % m # b % m
<1> SUFFICES ASSUME a % m = b % m PROVE FALSE OBVIOUS
<1> DEFINE qa == a \div m  qb == b \div m
<1>1. /\ qa \in Int /\ qb \in Int /\ a % m \in Int
      /\ a = m * qa + (a % m) /\ b = m * qb + (b % m)
  OBVIOUS
<1> HIDE DEF qa, qb
<1>2. b - a = m * (qb - qa) BY <1>1
<1>3. CASE qb - qa >= 1
  <2>1. m * (qb - qa) >= m BY <1>1, <1>3
  <2> QED BY <1>2, <2>1
<1>4. CASE qb - qa <= 0
  <2>1. m * (qb - qa) <= 0 BY <1>1, <1>4
  <2> QED BY <1>2, <2>1
<1> QED BY <1>1, <1>3, <1>4

\* The difference of two block numbers is 1 modulo m, as ackData computes it,
\* only when the first one is the successor of the second one, unless it is 0.
LEMMA DiffOne ==
    ASSUME NEW m \in Nat \ {0, 1}, NEW a \in 1 .. m - 1, NEW b \in 0 .. m - 1,
           (a - b) % m = 1
    PROVE  a = b + 1
OBVIOUS

-----------------------------------------------------------------------------
(* Type correctness. *)

\* The arithmetic of conn.block stays in the range of a uint16.
LEMMA BlockNoFacts ==
    /\ BlockMod \in Nat \ {0, 1} /\ 0 \in BlockNo
    /\ \A n \in Int : U16(n) \in BlockNo
    /\ \A n \in BlockNo : n \in Nat /\ U16(n) = n
<1>1. BlockMod \in Nat \ {0, 1} BY ConstantsAssumption
<1>2. ASSUME NEW n \in Int PROVE U16(n) \in BlockNo
  BY <1>1, ModRange DEF BlockNo, U16
<1>3. ASSUME NEW n \in BlockNo PROVE n \in Nat /\ U16(n) = n
  BY <1>1, ModRange DEF BlockNo, U16
<1> QED BY <1>1, <1>2, <1>3 DEF BlockNo

\* ringBuffer.Read and UnreadSlots keep the ring buffer well formed, and a
\* slot that they use exists.
LEMMA RingTypes ==
    ASSUME ring \in Ring
    PROVE  /\ Slot \in 0 .. WindowSize - 1
           /\ NextChunk \in Nat
           /\ RingRead \in Ring
           /\ \A n \in Int : UnreadSlots(n) \in Ring
           /\ \A c \in Nat : Short(c) \in BOOLEAN
<1>1. Slot \in 0 .. WindowSize - 1
  BY ConstantsAssumption, ModRange DEF Slot, Ring
<1>2. NextChunk \in Nat BY <1>1, ConstantsAssumption DEF NextChunk, Ring
<1>3. RingRead \in Ring
  <2>1. CASE ring.current # ring.head BY <2>1 DEF RingRead, Ring
  <2>2. CASE ring.current = ring.head
    <3> DEFINE sl == [ring.slots EXCEPT ![Slot] = ring.head + 1]
    <3>1. sl \in [0 .. WindowSize - 1 -> Nat] BY <1>1 DEF Ring
    <3>2. RingRead = [wrote |-> ring.wrote, current |-> ring.current + 1,
                      head |-> ring.head + 1, slots |-> sl]
      BY <2>2 DEF RingRead, Ring
    <3>3. ring.wrote \in Nat /\ ring.current + 1 \in Int /\ ring.head + 1 \in Nat
      BY DEF Ring
    <3> HIDE DEF sl
    <3> QED BY <3>1, <3>2, <3>3 DEF Ring
  <2> QED BY <2>1, <2>2
<1>4. \A n \in Int : UnreadSlots(n) \in Ring BY DEF UnreadSlots, Ring
<1>5. \A c \in Nat : Short(c) \in BOOLEAN BY DEF Short
<1> QED BY <1>1, <1>2, <1>3, <1>4, <1>5

\* Every datagram that a conn sends is one that the other side can receive.
LEMMA SentMessages ==
    /\ \A b \in BlockNo : Ack(b) \in ToSender
    /\ \A o \in {"ERROR", "OACK", "STRAY"} : ToSndMsg(o) \in ToSender
    /\ \A o \in {"ERROR", "OACK"} : ToRcvMsg(o) \in ToReceiver
    /\ \A b \in BlockNo, c \in Nat, l \in BOOLEAN : Data(b, c, l) \in ToReceiver
BY BlockNoFacts DEF Ack, ToSndMsg, ToRcvMsg, Data, ToSender, ToReceiver

\* A channel for fewer kinds of datagrams is a channel for more.
LEMMA ChannelMono ==
    ASSUME NEW C, NEW D, C \subseteq D PROVE Channel(C) \subseteq Channel(D)
BY DEF Channel

\* The state in which the data phase starts is well formed.
LEMMA InitType == Init => TypeOK
<1> SUFFICES ASSUME Init PROVE TypeOK OBVIOUS
<1>1. snd \in Sender BY BlockNoFacts DEF Init, Sender, Errors
<1>2. ring \in Ring BY DEF Init, Ring
<1>3. rcv \in Receiver BY BlockNoFacts DEF Init, Receiver, Errors
<1>4. toRcv \in Channel(ToReceiver)
  BY LeftoversAssumption, SentMessages, ChannelMono DEF Init
<1>5. toSnd \in Channel(ToSender)
  <2>1. {Ack(0), ToSndMsg("OACK"), ToSndMsg("STRAY")} \subseteq ToSender
    BY SentMessages, BlockNoFacts
  <2> QED BY <2>1, LeftoversAssumption, ChannelMono DEF Init
<1> QED BY <1>1, <1>2, <1>3, <1>4, <1>5 DEF TypeOK, Init

\* A datagram that getAck or readData receives is well formed.
LEMMA ArrivalTypes ==
    ASSUME TypeOK
    PROVE  /\ \A m \in Arrivals(toSnd) : m \in ToSender
           /\ \A m \in Arrivals(toRcv) : m \in ToReceiver
           /\ Arrivals(toSnd) # {} => Rest(toSnd) \in Channel(ToSender)
           /\ Arrivals(toRcv) # {} => Rest(toRcv) \in Channel(ToReceiver)
BY RestElems DEF TypeOK

\* Every step of the state machine of Write and Close keeps the types.
LEMMA SenderTypes ==
    ASSUME TypeOK, SenderStep PROVE TypeOK'
<1>0. /\ snd \in Sender /\ ring \in Ring /\ rcv \in Receiver
      /\ toRcv \in Channel(ToReceiver) /\ toSnd \in Channel(ToSender)
      /\ losses \in Nat
      /\ snd.tries + 1 \in Nat /\ snd.window + 1 \in Nat
  BY DEF TypeOK, Sender
<1>1. CASE WriteReturns
  BY <1>0, <1>1 DEF TypeOK, WriteReturns, Returned, Sender
<1>2. CASE WriteData
  <2> DEFINE b == U16(snd.block + 1)  short == Short(NextChunk)
  <2>1. b \in BlockNo /\ short \in BOOLEAN /\ NextChunk \in Nat /\ RingRead \in Ring
    BY <1>0, BlockNoFacts, RingTypes DEF Sender, BlockNo
  <2>2. Put(toRcv, Data(b, NextChunk, short)) \in Channel(ToReceiver)
    BY <1>0, <2>1, SentMessages, PutElems
  <2>3. /\ ring' = RingRead /\ UNCHANGED << rcv, toSnd, losses >>
        /\ \/ /\ toRcv' = Put(toRcv, Data(b, NextChunk, short))
              /\ snd' = AfterData(b, short)
           \/ /\ snd' = [snd EXCEPT !.block = b, !.err = "network",
                                    !.pc = Returned]
              /\ UNCHANGED toRcv
    BY <1>2 DEF WriteData
  <2> HIDE DEF b, short
  <2>4. AfterData(b, short) \in Sender BY <1>0, <2>1 DEF AfterData, Sender
  <2>5. [snd EXCEPT !.block = b, !.err = "network", !.pc = Returned] \in Sender
    BY <1>0, <2>1 DEF Sender, Returned, Errors
  <2> QED BY <1>0, <2>1, <2>2, <2>3, <2>4, <2>5 DEF TypeOK
<1>3. CASE GetAckGivesUp
  <2>1. Put(toRcv, ToRcvMsg("ERROR")) \in Channel(ToReceiver)
    BY <1>0, SentMessages, PutElems
  <2>2. snd' \in Sender BY <1>0, <1>3 DEF GetAckGivesUp, Sender, Returned, Errors
  <2> QED BY <1>0, <1>3, <2>1, <2>2 DEF TypeOK, GetAckGivesUp
<1>4. CASE GetAckTimeout
  <2>1. snd' \in Sender BY <1>0, <1>4 DEF GetAckTimeout, Sender, Errors
  <2> QED BY <1>0, <1>4, <2>1 DEF TypeOK, GetAckTimeout
<1>5. CASE GetAck
  <2>1. PICK m \in Arrivals(toSnd) :
          \/ m.op = "ACK" /\ HandleAck(m.block)
          \/ /\ m.op # "ACK"
             /\ snd' = [snd EXCEPT !.tries = @ + 1,
                          !.err = CASE m.op = "ERROR" -> "remote"
                                    [] m.op = "OACK"  -> "unexpected"
                                    [] m.op = "STRAY" -> @,
                          !.pc = IF m.op = "STRAY" THEN @ ELSE Returned]
             /\ UNCHANGED ring
    BY <1>5 DEF GetAck
  <2>2. m \in ToSender BY ArrivalTypes
  <2>3. Rest(toSnd) \in Channel(ToSender) BY ArrivalTypes
  <2>4. CASE m.op = "ACK" /\ HandleAck(m.block)
    <3>1. m.block \in BlockNo /\ snd.block - m.block \in Int
      BY <1>0, <2>2, BlockNoFacts DEF ToSender, Sender
    <3>2. UnreadSlots(snd.block - m.block) \in Ring BY <1>0, <3>1, RingTypes
    <3>3. ring' \in Ring BY <1>0, <2>4, <3>2 DEF HandleAck
    <3>4. snd' \in Sender
      <4>1. \/ snd' = [snd EXCEPT !.block = m.block, !.window = 0,
                          !.done = FALSE, !.tries = 0, !.pc = "writeData"]
            \/ snd' = [snd EXCEPT !.tries = snd.tries + 1]
            \/ snd' = [snd EXCEPT !.tries = 0, !.pc = "writeData"]
        BY <2>4 DEF HandleAck, AfterRollback
      <4>2. [snd EXCEPT !.block = m.block, !.window = 0, !.done = FALSE,
                        !.tries = 0, !.pc = "writeData"] \in Sender
        BY <1>0, <3>1 DEF Sender
      <4>3. [snd EXCEPT !.tries = snd.tries + 1] \in Sender BY <1>0 DEF Sender
      <4>4. [snd EXCEPT !.tries = 0, !.pc = "writeData"] \in Sender
        BY <1>0 DEF Sender
      <4> QED BY <4>1, <4>2, <4>3, <4>4
    <3> QED BY <1>0, <1>5, <2>3, <3>3, <3>4 DEF GetAck, TypeOK
  <2>5. CASE m.op # "ACK"
    <3>1. m.op \in {"ERROR", "OACK", "STRAY"} BY <2>2, <2>5 DEF ToSender
    <3>2. snd' \in Sender /\ ring' = ring
      BY <1>0, <2>1, <2>5, <3>1 DEF Sender, Returned, Errors
    <3> QED BY <1>0, <1>5, <2>3, <3>2 DEF GetAck, TypeOK
  <2> QED BY <2>1, <2>4, <2>5
<1> QED BY <1>1, <1>2, <1>3, <1>4, <1>5 DEF SenderStep

\* Every step of the state machine of Read keeps the types.
LEMMA ReceiverTypes ==
    ASSUME TypeOK, ReceiverStep PROVE TypeOK'
<1>0. /\ snd \in Sender /\ ring \in Ring /\ rcv \in Receiver
      /\ toRcv \in Channel(ToReceiver) /\ toSnd \in Channel(ToSender)
      /\ losses \in Nat
      /\ rcv.tries + 1 \in Nat /\ rcv.window + 1 \in Nat
      /\ rcv.block \in BlockNo
  BY DEF TypeOK, Receiver
<1>a. Put(toSnd, Ack(rcv.block)) \in Channel(ToSender)
  BY <1>0, SentMessages, PutElems
<1>1. CASE ReadReturns
  <2>1. Len(rcv.got) \in Nat /\ rcv.out + rcv.want \in Nat BY <1>0 DEF Receiver
  <2>2. PICK upTo \in Nat : \E e \in {"EOF", rcv.err} :
          rcv' = [rcv EXCEPT !.out = upTo, !.err = e, !.pc = "app"]
    BY <1>1, <2>1 DEF ReadReturns, AtEnd
  <2>3. rcv' \in Receiver BY <1>0, <2>2 DEF Receiver, Errors
  <2> QED BY <1>0, <1>1, <2>3 DEF TypeOK, ReadReturns
<1>2. CASE ReadContinues
  <2>1. rcv' \in Receiver BY <1>0, <1>2 DEF ReadContinues, Receiver
  <2> QED BY <1>0, <1>2, <2>1 DEF TypeOK, ReadContinues
<1>3. CASE ReadDataGivesUp
  <2>1. Put(toSnd, ToSndMsg("ERROR")) \in Channel(ToSender)
    BY <1>0, SentMessages, PutElems
  <2>2. rcv' \in Receiver BY <1>0, <1>3 DEF ReadDataGivesUp, Receiver, Errors
  <2> QED BY <1>0, <1>3, <2>1, <2>2 DEF TypeOK, ReadDataGivesUp
<1>4. CASE ReadDataTimeout
  <2>1. rcv' \in Receiver BY <1>0, <1>4 DEF ReadDataTimeout, Receiver
  <2> QED BY <1>0, <1>a, <1>4, <2>1 DEF TypeOK, ReadDataTimeout
<1>5. CASE ReadData
  <2>1. PICK m \in Arrivals(toRcv) :
          \/ m.op = "DATA" /\ AckData(m)
          \/ /\ m.op # "DATA"
             /\ rcv' = [rcv EXCEPT !.tries = @ + 1, !.pc = "app",
                          !.err = IF m.op = "ERROR" THEN "remote"
                                  ELSE "unexpected"]
             /\ UNCHANGED toSnd
    BY <1>5 DEF ReadData
  <2>2. m \in ToReceiver BY ArrivalTypes
  <2>3. Rest(toRcv) \in Channel(ToReceiver) BY ArrivalTypes
  <2>4. rcv' \in Receiver /\ toSnd' \in Channel(ToSender)
    <3>1. CASE m.op = "DATA" /\ AcceptData(m)
      <4> DEFINE b == U16(rcv.block + 1)
                 g == Append(rcv.got, m.chunk)
                 d == rcv.done \/ m.last
                 r == [rcv EXCEPT !.tries = 0, !.block = b, !.catchup = FALSE,
                                  !.got = g, !.done = d, !.pc = "read"]
      <4>1. b \in BlockNo /\ g \in Seq(Nat) /\ d \in BOOLEAN
        BY <1>0, <2>2, BlockNoFacts DEF Receiver, ToReceiver
      <4>2. \/ rcv' = [r EXCEPT !.window = @ + 1] /\ UNCHANGED toSnd
            \/ SendAck(r.block, [r EXCEPT !.window = 0], [r EXCEPT !.window = 0])
        BY <3>1 DEF AcceptData
      <4> HIDE DEF b, g, d
      <4>3. r \in Receiver /\ r.block = b /\ r.window = rcv.window
        BY <1>0, <4>1 DEF Receiver
      <4> HIDE DEF r
      <4>4. Put(toSnd, Ack(b)) \in Channel(ToSender)
        BY <1>0, <4>1, SentMessages, PutElems
      <4>5. \/ rcv' = [r EXCEPT !.window = rcv.window + 1] /\ UNCHANGED toSnd
            \/ rcv' = [r EXCEPT !.window = 0] /\ toSnd' = Put(toSnd, Ack(b))
            \/ /\ rcv' = [r EXCEPT !.window = 0, !.err = "network", !.pc = "app"]
               /\ UNCHANGED toSnd
        BY <4>2, <4>3 DEF SendAck, Receiver
      <4>6. [r EXCEPT !.window = rcv.window + 1] \in Receiver
        BY <1>0, <4>3 DEF Receiver
      <4>7. [r EXCEPT !.window = 0] \in Receiver BY <4>3 DEF Receiver
      <4>8. [r EXCEPT !.window = 0, !.err = "network", !.pc = "app"] \in Receiver
        BY <4>3 DEF Receiver, Errors
      <4> QED BY <1>0, <4>4, <4>5, <4>6, <4>7, <4>8
    <3>2. CASE m.op = "DATA" /\ ReportGap
      <4>1. \/ /\ rcv' = [rcv EXCEPT !.tries = 0, !.pc = "read", !.window = 0,
                                      !.catchup = TRUE]
               /\ toSnd' = Put(toSnd, Ack(rcv.block))
            \/ /\ rcv' = [rcv EXCEPT !.tries = 0, !.err = "network", !.pc = "app"]
               /\ UNCHANGED toSnd
        BY <1>0, <3>2 DEF ReportGap, SendAck, Receiver
      <4>2. [rcv EXCEPT !.tries = 0, !.pc = "read", !.window = 0,
                        !.catchup = TRUE] \in Receiver
        BY <1>0 DEF Receiver
      <4>3. [rcv EXCEPT !.tries = 0, !.err = "network", !.pc = "app"] \in Receiver
        BY <1>0 DEF Receiver, Errors
      <4> QED BY <1>0, <1>a, <4>1, <4>2, <4>3
    <3>3. CASE m.op = "DATA" /\ IgnoreData
      BY <1>0, <3>3 DEF IgnoreData, Receiver
    <3>4. CASE m.op # "DATA"
      <4>1. PICK e \in {"remote", "unexpected"} :
              rcv' = [rcv EXCEPT !.tries = rcv.tries + 1, !.pc = "app", !.err = e]
        BY <2>1, <3>4
      <4>2. rcv' \in Receiver BY <1>0, <4>1 DEF Receiver, Errors
      <4> QED BY <1>0, <2>1, <3>4, <4>2
    <3> QED BY <2>1, <3>1, <3>2, <3>3, <3>4 DEF AckData
  <2> QED BY <1>0, <1>5, <2>3, <2>4 DEF ReadData, TypeOK
<1> QED BY <1>1, <1>2, <1>3, <1>4, <1>5 DEF ReceiverStep

\* So does a call of Write or of the sender's Close, ...
LEMMA CallTypes ==
    ASSUME TypeOK, NEW k \in Nat, Write(k) \/ CloseSender(k) PROVE TypeOK'
<1>0. /\ snd \in Sender /\ ring \in Ring /\ rcv \in Receiver
      /\ toRcv \in Channel(ToReceiver) /\ toSnd \in Channel(ToSender)
      /\ losses \in Nat /\ ring.wrote \in Nat
  BY DEF TypeOK, Ring
<1>1. ring.wrote + k \in Nat BY <1>0
<1>2. [ring EXCEPT !.wrote = ring.wrote + k] \in Ring BY <1>0, <1>1 DEF Ring
<1>3. ring' \in Ring BY <1>0, <1>2 DEF Write, CloseSender
<1>4. snd' \in Sender BY <1>0 DEF Write, CloseSender, Sender
<1> QED BY <1>0, <1>3, <1>4 DEF Write, CloseSender, TypeOK

\* ... and one of Read or of the receiver's Close.
LEMMA ApplicationTypes ==
    ASSUME TypeOK, WriterStep \/ ReaderStep PROVE TypeOK'
<1>0. /\ snd \in Sender /\ ring \in Ring /\ rcv \in Receiver
      /\ toRcv \in Channel(ToReceiver) /\ toSnd \in Channel(ToSender)
      /\ losses \in Nat /\ ring.wrote \in Nat
  BY DEF TypeOK, Ring
<1>1. CASE WriterStep
  <2>1. \A lo \in Nat : lo .. MaxFull - ring.wrote \subseteq Nat
    BY <1>0, ConstantsAssumption
  <2>2. PICK k \in Nat : Write(k) \/ CloseSender(k) BY <1>1, <2>1 DEF WriterStep
  <2> QED BY <2>2, CallTypes
<1>2. ASSUME NEW k \in 1 .. MaxRead, Read(k) PROVE TypeOK'
  <2>1. k \in Nat BY ConstantsAssumption
  <2>2. rcv' \in Receiver BY <1>0, <1>2, <2>1 DEF Read, Receiver
  <2> QED BY <1>0, <1>2, <2>2 DEF Read, TypeOK
<1>3. CASE CloseReceiver
  <2>1. rcv' \in Receiver BY <1>0, <1>3 DEF CloseReceiver, Receiver
  <2> QED BY <1>0, <1>3, <2>1 DEF CloseReceiver, TypeOK
<1> QED BY <1>1, <1>2, <1>3 DEF ReaderStep

\* No step spoils the types.
LEMMA NextType == TypeOK /\ [Next]_vars => TypeOK'
<1> SUFFICES ASSUME TypeOK, [Next]_vars PROVE TypeOK' OBVIOUS
<1>1. CASE LoseData BY <1>1, TailElems DEF LoseData, TypeOK
<1>2. CASE LoseAck BY <1>2, TailElems DEF LoseAck, TypeOK
<1>3. CASE Terminated \/ UNCHANGED vars BY <1>3 DEF Terminated, vars, TypeOK
<1> QED
  BY <1>1, <1>2, <1>3, SenderTypes, ReceiverTypes, ApplicationTypes DEF Next

\* The state of both conns, of the ring buffer and of the network is always
\* well formed; in particular block numbers stay in the range of a uint16 and
\* ringBuffer.Read never indexes a slot that does not exist.
THEOREM TypeCorrect == Spec => []TypeOK
BY InitType, NextType, PTL DEF Spec

-----------------------------------------------------------------------------
(* The invariant. *)

\* The types of the fields that the invariant speaks of.
LEMMA Fields ==
    ASSUME TypeOK
    PROVE  /\ WindowSize \in Nat \ {0} /\ MaxFull \in Nat /\ BlockMod \in Nat
           /\ snd.block \in Nat /\ snd.window \in Nat
           /\ snd.done \in BOOLEAN /\ snd.closing \in BOOLEAN
           /\ ring.wrote \in Nat /\ ring.current \in Int /\ ring.head \in Nat
           /\ rcv.block \in Nat /\ Len(rcv.got) \in Nat
           /\ rcv.done \in BOOLEAN
<1>1. snd.block \in BlockNo /\ rcv.block \in BlockNo BY DEF TypeOK, Sender, Receiver
<1>2. snd.block \in Nat /\ rcv.block \in Nat BY <1>1, BlockNoFacts
<1>3. Len(rcv.got) \in Nat BY DEF TypeOK, Receiver
<1> QED BY <1>2, <1>3, ConstantsAssumption DEF TypeOK, Sender, Ring, Receiver

\* The invariant holds when the data phase starts.
LEMMA InitInv == NoWrap /\ Init => IndInv
<1> SUFFICES ASSUME NoWrap, Init PROVE IndInv OBVIOUS
<1>1. TypeOK BY InitType
<1>2. /\ Len(rcv.got) = 0 /\ WindowSize \in Nat \ {0} /\ MaxFull \in Nat
  BY ConstantsAssumption DEF Init
<1>3. InOrder /\ EofMeansComplete BY <1>2 DEF Init, InOrder, EofMeansComplete
<1>4. SenderInv BY <1>2 DEF Init, SenderInv, MayWrite, Received
<1>5. RingInv BY <1>2 DEF Init, RingInv, Received
<1>6. ReceiverInv BY <1>2 DEF Init, ReceiverInv, Received
<1>7. \A m \in Elems(toRcv) : m.op # "DATA"
  <2>1. ASSUME NEW m \in Elems(toRcv)
        PROVE m \in {ToRcvMsg("OACK"), ToRcvMsg("ERROR")}
    BY LeftoversAssumption DEF Init, Elems, Channel
  <2> QED BY <2>1 DEF ToRcvMsg
<1>8. \A m \in Elems(toSnd) : m.block = 0
  <2>1. ASSUME NEW m \in Elems(toSnd)
        PROVE m \in {Ack(0), ToSndMsg("OACK"), ToSndMsg("STRAY")}
    BY LeftoversAssumption DEF Init, Elems, Channel
  <2> QED BY <2>1 DEF Ack, ToSndMsg
<1>9. NetworkInv BY <1>2, <1>7, <1>8 DEF NetworkInv, Received
<1> QED BY <1>1, <1>3, <1>4, <1>5, <1>6, <1>9 DEF IndInv

\* What is known of a DATA datagram stays true while the file and the ring
\* grow and the receiver advances.
LEMMA GoodDataStays ==
    ASSUME NEW m, GoodData(m),
           ring.head \in Nat, ring'.head \in Nat, ring.head <= ring'.head,
           ring.wrote \in Nat, ring'.wrote \in Nat, ring.wrote <= ring'.wrote,
           snd.closing => snd'.closing /\ ring'.wrote = ring.wrote,
           Len(rcv.got) \in Nat, Len(rcv'.got) \in Nat,
           Len(rcv.got) <= Len(rcv'.got)
    PROVE  GoodData(m)'
BY DEF GoodData, Received

-----------------------------------------------------------------------------
(* The sender. *)

\* What writeData knows when it sends a block.
LEMMA WriteDataFacts ==
    ASSUME NoWrap, IndInv, WriteData
    PROVE  /\ ~snd.done /\ ring.current <= ring.wrote
           /\ snd.closing \/ ring.current < ring.wrote
           /\ snd.window < WindowSize
           /\ ring.current <= Received + snd.window
           /\ U16(snd.block + 1) = ring.current + 1
<1>1. TypeOK /\ SenderInv /\ RingInv BY DEF IndInv
<1>2. snd.pc = "writeData" /\ ~NothingToWrite BY DEF WriteData
<1>3. ~snd.done /\ ring.current <= ring.wrote
      /\ (snd.closing \/ ring.current < ring.wrote)
  <2>1. CASE snd.closing BY <1>1, <1>2, <2>1, Fields DEF NothingToWrite, SenderInv
  <2>2. CASE ~snd.closing
    <3>1. HasBlock BY <1>2, <2>2 DEF NothingToWrite
    <3> QED BY <1>1, <2>2, <3>1, Fields DEF HasBlock, SenderInv, RingInv
  <2> QED BY <2>1, <2>2
<1>4. snd.window < WindowSize /\ ring.current <= Received + snd.window
  <2>1. MayWrite BY <1>2 DEF MayWrite
  <2> QED BY <1>1, <1>3, <2>1 DEF SenderInv
<1>5. snd.block + 1 = ring.current + 1 /\ ring.current + 1 \in 0 .. BlockMod - 1
  BY <1>1, <1>3, Fields DEF SenderInv, RingInv, NoWrap
<1>6. U16(snd.block + 1) = ring.current + 1
  BY <1>5, BlockNoFacts DEF BlockNo
<1> QED BY <1>3, <1>4, <1>6

\* The chunk that ringBuffer.Read returns to writeData.
LEMMA NextChunkFacts ==
    ASSUME NoWrap, IndInv, WriteData
    PROVE  /\ NextChunk \in 1 .. RingRead.head
           /\ NextChunk = ring.current + 1 \/ ring.current + 1 <= Received
           /\ Short(NextChunk) <=> NextChunk = ring.wrote + 1
           /\ Short(NextChunk) => snd.closing
           /\ ring.current + 1 > ring.wrote => Short(NextChunk)
<1>1. TypeOK /\ SenderInv /\ RingInv BY DEF IndInv
<1>2. CASE ring.current = ring.head
  <2>1. NextChunk = ring.head + 1 /\ RingRead.head = ring.head + 1
    BY <1>1, <1>2 DEF NextChunk, RingRead, TypeOK, Ring
  <2>2. ring.current <= ring.wrote /\ (snd.closing \/ ring.current < ring.wrote)
    BY WriteDataFacts
  <2>3. /\ ring.wrote \in Nat /\ ring.head \in Nat
        /\ snd.closing \in BOOLEAN
    BY <1>1, Fields
  <2> QED BY <1>2, <2>1, <2>2, <2>3 DEF Short
<1>3. CASE ring.current # ring.head
  <2>1. ring.current \in Nat /\ ring.current < ring.head
    BY <1>1, <1>3, Fields DEF RingInv
  <2>2. NextChunk = ring.slots[Slot] /\ RingRead.head = ring.head
    BY <1>1, <1>3 DEF NextChunk, RingRead, TypeOK, Ring
  <2>3. Slot \in 0 .. WindowSize - 1 /\ Slot <= ring.current
    <3>1. WindowSize \in Nat \ {0} BY ConstantsAssumption
    <3>2. ring.current \in Int /\ ring.current >= 0 BY <2>1
    <3> QED BY <3>1, <3>2, ModRange DEF Slot
  <2>4. NextChunk \in 1 .. ring.head
    <3>1. Slot < ring.head BY <2>1, <2>3, <1>1, Fields
    <3> QED BY <1>1, <2>2, <2>3, <3>1 DEF RingInv
  <2>5. ring.current >= ring.head - WindowSize => NextChunk = ring.current + 1
    <3>1. ring.current \in 0 .. ring.head - 1 BY <2>1, <1>1, Fields
    <3> QED BY <1>1, <2>2, <3>1 DEF RingInv, Slot
  <2>6. ring.current < ring.head - WindowSize => ring.current + 1 <= Received
    BY <1>1, <2>1, Fields DEF RingInv, Received
  <2>7. NextChunk = ring.current + 1 \/ ring.current + 1 <= Received
    BY <1>1, <2>1, <2>5, <2>6, Fields
  <2>8. ring.head <= IF snd.closing THEN ring.wrote + 1 ELSE ring.wrote
    BY <1>1 DEF RingInv
  <2>9. /\ Short(NextChunk) <=> NextChunk = ring.wrote + 1
        /\ Short(NextChunk) => snd.closing
    BY <1>1, <2>4, <2>8, Fields DEF Short
  <2>10. ring.current + 1 > ring.wrote => NextChunk = ring.wrote + 1
    <3>1. ring.current <= ring.wrote BY WriteDataFacts
    <3>2. /\ WindowSize \in Nat \ {0} /\ ring.wrote \in Nat /\ ring.head \in Nat
          /\ snd.closing \in BOOLEAN
      BY <1>1, Fields
    <3>3. ring.head <= ring.wrote + 1 BY <2>8, <3>2
    <3>4. ring.current + 1 > ring.wrote =>
            ring.current = ring.wrote /\ ring.current >= ring.head - WindowSize
      BY <2>1, <3>1, <3>2, <3>3
    <3> QED BY <2>5, <3>4
  <2> QED BY <2>2, <2>4, <2>7, <2>9, <2>10
<1> QED BY <1>2, <1>3

\* The ring buffer after writeData has read a block from it.
LEMMA WriteDataRing ==
    ASSUME NoWrap, IndInv, WriteData
    PROVE  /\ RingInv'
           /\ ring'.current = ring.current + 1 /\ ring'.wrote = ring.wrote
           /\ ring'.head \in Nat /\ ring'.head >= ring.head
<1>1. TypeOK /\ SenderInv /\ RingInv BY DEF IndInv
<1>2. /\ ring' = RingRead /\ rcv' = rcv /\ snd'.closing = snd.closing
  BY <1>1 DEF WriteData, AfterData, TypeOK, Sender
<1>3. CASE ring.current # ring.head
  <2>1. ring' = [ring EXCEPT !.current = @ + 1] BY <1>2, <1>3 DEF RingRead
  <2>2. /\ ring'.current = ring.current + 1 /\ ring'.wrote = ring.wrote
        /\ ring'.head = ring.head /\ ring'.slots = ring.slots
    BY <1>1, <2>1 DEF TypeOK, Ring
  <2> QED BY <1>1, <1>2, <1>3, <2>2, Fields, SMTT(30) DEF RingInv, Received
<1>4. CASE ring.current = ring.head
  <2>1. ring' = [ring EXCEPT !.slots[Slot] = ring.head + 1,
                             !.current = @ + 1, !.head = @ + 1]
    BY <1>2, <1>4 DEF RingRead
  <2>2. /\ ring'.current = ring.current + 1 /\ ring'.wrote = ring.wrote
        /\ ring'.head = ring.head + 1
        /\ ring'.slots = [ring.slots EXCEPT ![Slot] = ring.head + 1]
    BY <1>1, <2>1 DEF TypeOK, Ring
  <2>3. Slot \in 0 .. WindowSize - 1 /\ Slot = ring.head % WindowSize
    BY <1>1, <1>4, RingTypes DEF TypeOK, Slot
  <2>4. ring.slots \in [0 .. WindowSize - 1 -> Nat] BY <1>1 DEF TypeOK, Ring
  <2>5. /\ ring'.wrote <= MaxFull
        /\ 0 <= ring'.current /\ ring'.current <= ring'.head
        /\ ring'.head <= IF snd.closing THEN ring'.wrote + 1 ELSE ring'.wrote
        /\ ring'.head <= Received + WindowSize
    <3>1. ring.wrote <= MaxFull /\ 0 <= ring.current BY <1>1 DEF RingInv
    <3>2. /\ ring.current <= ring.wrote
          /\ snd.closing \/ ring.current < ring.wrote
          /\ snd.window < WindowSize /\ ring.current <= Len(rcv.got) + snd.window
      BY WriteDataFacts DEF Received
    <3>3. /\ WindowSize \in Nat \ {0} /\ snd.window \in Nat
          /\ ring.wrote \in Nat /\ ring.current \in Int /\ ring.head \in Nat
          /\ snd.closing \in BOOLEAN /\ Len(rcv.got) \in Nat
      BY <1>1, Fields
    <3>4. ring'.head <= Received + WindowSize
      BY <1>4, <2>2, <3>2, <3>3 DEF Received
    <3>5. ring'.head <= IF snd.closing THEN ring'.wrote + 1 ELSE ring'.wrote
      BY <1>4, <2>2, <3>2, <3>3
    <3> QED BY <1>4, <2>2, <3>1, <3>3, <3>4, <3>5
  <2>6. ASSUME NEW s \in 0 .. WindowSize - 1, s < ring'.head
        PROVE  ring'.slots[s] \in 1 .. ring'.head
    <3>1. CASE s = Slot
      <4>1. ring'.slots[s] = ring.head + 1 BY <2>2, <2>4, <3>1
      <4> QED BY <1>1, <2>2, <4>1, Fields
    <3>2. CASE s # Slot
      <4>1. ring'.slots[s] = ring.slots[s] BY <2>2, <2>4, <3>2
      <4>2. s < ring.head
        <5>1. CASE ring.head < WindowSize
          <6>1. /\ WindowSize \in Nat \ {0} /\ ring.head \in Int
                /\ ring.head \in 0 .. WindowSize - 1
            BY <5>1, <1>1, Fields
          <6>2. Slot = ring.head BY <2>3, <6>1, ModRange
          <6> QED BY <2>2, <2>6, <3>2, <6>2, <1>1, Fields
        <5>2. CASE ring.head >= WindowSize BY <5>2, <1>1, Fields
        <5> QED BY <5>1, <5>2, <1>1, Fields
      <4>3. ring.slots[s] \in 1 .. ring.head BY <1>1, <4>2 DEF RingInv
      <4> QED BY <1>1, <2>2, <4>1, <4>3, Fields, SMTT(30)
    <3> QED BY <3>1, <3>2
  <2>7. ASSUME NEW i \in 0 .. ring'.head - 1, i >= ring'.head - WindowSize
        PROVE  ring'.slots[i % WindowSize] = i + 1
    <3>0. i \in Nat /\ i <= ring.head /\ ring.head \in Nat /\ WindowSize \in Nat \ {0}
          /\ ring.head < i + WindowSize
      BY <2>2, <2>7, <1>1, Fields
    <3>1. CASE i = ring.head BY <2>2, <2>3, <2>4, <3>1
    <3>2. CASE i # ring.head
      <4>1. i < ring.head /\ i \in 0 .. ring.head - 1
            /\ i >= ring.head - WindowSize
        BY <3>0, <3>2
      <4>2. i % WindowSize # Slot BY <2>3, <3>0, <4>1, ModDistinct
      <4>3. i % WindowSize \in 0 .. WindowSize - 1 
        <5>1. i \in Int /\ WindowSize \in Nat \ {0} BY <3>0
        <5> QED BY <5>1, ModRange
      <4>4. ring.slots[i % WindowSize] = i + 1 BY <1>1, <4>1 DEF RingInv
      <4> QED BY <2>2, <2>4, <4>2, <4>3, <4>4
    <3> QED BY <3>1, <3>2
  <2>8. RingInv'
    BY <1>2, <2>5, <2>6, <2>7 DEF RingInv, Received
  <2> QED BY <2>2, <2>8, <1>1, Fields
<1> QED BY <1>3, <1>4

\* writeData keeps the sender within a window of the receiver, and what it
\* sends is good data.
LEMMA WriteDataInv ==
    ASSUME NoWrap, IndInv, WriteData PROVE SenderInv' /\ NetworkInv'
<1> DEFINE b == U16(snd.block + 1)  short == Short(NextChunk)
<1>1. TypeOK /\ SenderInv /\ RingInv /\ NetworkInv BY DEF IndInv
<1>2. /\ ring'.current = ring.current + 1 /\ ring'.wrote = ring.wrote
      /\ ring'.head \in Nat /\ ring'.head >= ring.head /\ rcv' = rcv
      /\ ring' = RingRead /\ toSnd' = toSnd
  BY WriteDataRing DEF WriteData
<1>3. b = ring.current + 1 BY WriteDataFacts
<1>4. \/ snd' = AfterData(b, short) /\ toRcv' = Put(toRcv, Data(b, NextChunk, short))
      \/ /\ snd' = [snd EXCEPT !.block = b, !.err = "network", !.pc = Returned]
         /\ toRcv' = toRcv
  BY DEF WriteData
<1>5. /\ b \in BlockNo /\ short \in BOOLEAN /\ NextChunk \in Nat
      /\ short => snd.closing
      /\ ring.current + 1 > ring.wrote => short
  BY <1>1, BlockNoFacts, RingTypes, NextChunkFacts DEF TypeOK, Sender, BlockNo
<1>6. SenderInv'
  <2> HIDE DEF b, short
  <2>1. CASE snd' = AfterData(b, short)
    <3>1. /\ snd'.block = b /\ snd'.done = (snd.done \/ short)
          /\ snd'.closing = snd.closing
          /\ \/ /\ ~short /\ snd.window + 1 < WindowSize
                /\ snd'.window = snd.window + 1 /\ snd'.pc = "writeData"
             \/ ~short /\ snd'.window = 0 /\ snd'.pc = "getAck"
             \/ short /\ snd'.pc = "getAck"
      BY <1>1, <1>5, <2>1 DEF AfterData, WindowOpen, TypeOK, Sender
    <3>2. ~snd.done /\ ring.current <= Len(rcv.got) + snd.window
      BY WriteDataFacts DEF Received
    <3>3. /\ ring.current \in Int /\ snd.window \in Nat /\ Len(rcv.got) \in Nat
          /\ snd.done => snd.closing
      BY <1>1, Fields DEF SenderInv
    <3>4. MayWrite' /\ ~snd'.done =>
            snd'.window < WindowSize /\ ring'.current <= Len(rcv'.got) + snd'.window
      BY <1>2, <3>1, <3>2, <3>3 DEF MayWrite
    <3>5. snd'.done => snd'.closing BY <1>5, <3>1, <3>3
    <3>6. snd'.pc = "getAck" => snd'.window = 0 \/ snd'.done BY <3>1
    <3>7. ring'.current > ring'.wrote => snd'.done BY <1>2, <1>5, <3>1
    <3> QED BY <1>2, <1>3, <3>1, <3>4, <3>5, <3>6, <3>7 DEF SenderInv, Received
  <2>2. CASE snd' = [snd EXCEPT !.block = b, !.err = "network", !.pc = Returned]
    <3>1. /\ snd'.block = b /\ snd'.done = snd.done
          /\ snd'.closing = snd.closing /\ snd'.err = "network"
          /\ IF snd.closing THEN snd'.pc = "closed" ELSE snd'.pc = "app"
      BY <1>1, <2>2 DEF Returned, TypeOK, Sender
    <3> QED BY <1>1, <1>2, <1>3, <3>1 DEF SenderInv, MayWrite, Received
  <2> QED BY <1>4, <2>1, <2>2
<1>7. NetworkInv'
  <2>0. snd'.closing = snd.closing
    BY <1>1, <1>4 DEF AfterData, TypeOK, Sender
  <2>1. ASSUME NEW m \in Elems(toRcv), m.op = "DATA" PROVE GoodData(m)'
    <3>1. GoodData(m) BY <1>1, <2>1 DEF NetworkInv
    <3>2. ring.wrote <= ring'.wrote BY <1>1, <1>2, Fields
    <3> QED BY <1>1, <1>2, <2>0, <3>1, <3>2, Fields, GoodDataStays
  <2>2. ASSUME NEW m, m = Data(b, NextChunk, short) PROVE GoodData(m)'
    <3>1. m.block = ring.current + 1 /\ m.chunk = NextChunk /\ m.last = short
      BY <1>3, <2>2 DEF Data
    <3>2. /\ NextChunk \in 1 .. ring'.head
          /\ NextChunk = ring.current + 1 \/ ring.current + 1 <= Received
          /\ short <=> NextChunk = ring.wrote + 1
          /\ short => snd.closing
      BY <1>2, NextChunkFacts
    <3>3. ring.current + 1 \in 1 .. ring'.head
      BY <1>1, <1>2, WriteDataRing, Fields DEF RingInv
    <3>4. ~short => NextChunk <= ring.wrote
      BY <1>1, <1>5, Fields DEF Short
    <3> HIDE DEF short, b
    <3>5. /\ m.block \in 1 .. ring'.head /\ m.chunk \in 1 .. ring'.head
          /\ m.chunk = m.block \/ m.block <= Len(rcv'.got)
          /\ IF m.last THEN snd'.closing /\ m.chunk = ring'.wrote + 1
                       ELSE m.chunk <= ring'.wrote
      BY <1>2, <2>0, <3>1, <3>2, <3>3, <3>4 DEF Received
    <3> QED BY <3>5, <1>2 DEF GoodData, Received
  <2>3. toRcv' = toRcv
        \/ Elems(toRcv') = Elems(toRcv) \cup {Data(b, NextChunk, short)}
    <3>1. Data(b, NextChunk, short) \in ToReceiver BY <1>5, SentMessages
    <3> QED BY <1>1, <1>4, <3>1, PutElems DEF TypeOK
  <2> HIDE DEF b, short
  <2>4. \A m \in Elems(toRcv') : m.op = "DATA" => GoodData(m)'
    BY <2>1, <2>2, <2>3
  <2>5. \A m \in Elems(toSnd') : m.op = "ACK" => m.block <= Received'
    BY <1>1, <1>2 DEF NetworkInv, Received
  <2> QED BY <2>4, <2>5 DEF NetworkInv
<1> QED BY <1>6, <1>7

\* What a step of the sender that reads nothing from the ring leaves alone.
LEMMA SenderFrame ==
    ASSUME IndInv, UNCHANGED rcv, snd'.closing = snd.closing,
           ring'.wrote = ring.wrote, ring'.head = ring.head,
           ring'.slots = ring.slots, ring'.current \in Int,
           0 <= ring'.current, ring'.current <= ring.current,
           \A m \in Elems(toRcv') : m \in Elems(toRcv) \/ m.op # "DATA",
           Elems(toSnd') \subseteq Elems(toSnd)
    PROVE  RingInv' /\ ReceiverInv' /\ NetworkInv' /\ InOrder' /\ EofMeansComplete'
<1>1. TypeOK /\ RingInv /\ ReceiverInv /\ NetworkInv /\ InOrder /\ EofMeansComplete
  BY DEF IndInv
<1>2. RingInv' BY <1>1, Fields DEF RingInv, Received
<1>3. ReceiverInv' BY <1>1 DEF ReceiverInv, Received
<1>4. NetworkInv'
  <2>1. ASSUME NEW m \in Elems(toRcv'), m.op = "DATA" PROVE GoodData(m)'
    <3>1. GoodData(m) BY <1>1, <2>1 DEF NetworkInv
    <3> QED BY <3>1 DEF GoodData, Received
  <2>2. ASSUME NEW m \in Elems(toSnd'), m.op = "ACK" PROVE m.block <= Received'
    BY <1>1, <2>2 DEF NetworkInv, Received
  <2> QED BY <2>1, <2>2 DEF NetworkInv
<1>5. InOrder' /\ EofMeansComplete' BY <1>1 DEF InOrder, EofMeansComplete
<1> QED BY <1>2, <1>3, <1>4, <1>5

\* Every step of the state machine of Write and Close keeps the invariant.
LEMMA SenderSafe ==
    ASSUME NoWrap, IndInv, SenderStep PROVE IndInv'
<1>0. TypeOK /\ SenderInv /\ RingInv /\ ReceiverInv /\ NetworkInv BY DEF IndInv
<1>t. TypeOK' BY <1>0, SenderTypes
<1>r. ring.current \in Int /\ 0 <= ring.current /\ ring.current <= ring.current
  BY <1>0, Fields DEF RingInv
<1>1. CASE WriteReturns
  <2>1. /\ snd'.block = snd.block /\ snd'.done = snd.done
        /\ snd'.closing = snd.closing /\ snd'.window = snd.window
        /\ IF snd.closing THEN snd'.pc = "closed" ELSE snd'.pc = "app"
        /\ snd.pc = "writeData"
    BY <1>0, <1>1 DEF WriteReturns, Returned, TypeOK, Sender
  <2>2. SenderInv' BY <1>0, <1>1, <2>1 DEF WriteReturns, SenderInv, MayWrite, Received
  <2> QED BY <1>t, <1>r, <1>1, <2>1, <2>2, SenderFrame DEF WriteReturns, IndInv
<1>2. CASE WriteData
  <2>1. ReceiverInv' /\ InOrder' /\ EofMeansComplete'
    <3>1. /\ rcv' = rcv /\ snd'.closing = snd.closing
          /\ ring'.wrote = ring.wrote /\ ring'.head \in Nat /\ ring'.head >= ring.head
      BY <1>0, <1>2, WriteDataRing DEF WriteData, AfterData, TypeOK, Sender
    <3>2. Received \in Nat /\ ring.head \in Nat BY <1>0, Fields DEF Received
    <3>3. ReceiverInv' BY <1>0, <3>1, <3>2 DEF ReceiverInv, Received
    <3> QED BY <3>1, <3>3 DEF IndInv, InOrder, EofMeansComplete
  <2> QED BY <1>t, <1>2, <2>1, WriteDataRing, WriteDataInv DEF IndInv
<1>3. CASE GetAckGivesUp
  <2>1. /\ snd'.block = snd.block /\ snd'.done = snd.done
        /\ snd'.closing = snd.closing /\ snd'.err = "maxRetries"
        /\ IF snd.closing THEN snd'.pc = "closed" ELSE snd'.pc = "app"
    BY <1>0, <1>3 DEF GetAckGivesUp, Returned, TypeOK, Sender
  <2>2. SenderInv' BY <1>0, <1>3, <2>1 DEF GetAckGivesUp, SenderInv, MayWrite, Received
  <2>3. \A m \in Elems(toRcv') : m \in Elems(toRcv) \/ m.op # "DATA"
    <3>1. Elems(Put(toRcv, ToRcvMsg("ERROR"))) = Elems(toRcv) \cup {ToRcvMsg("ERROR")}
      BY <1>0, SentMessages, PutElems DEF TypeOK
    <3>2. ToRcvMsg("ERROR").op # "DATA" BY DEF ToRcvMsg
    <3> QED BY <1>3, <3>1, <3>2 DEF GetAckGivesUp
  <2> QED BY <1>t, <1>r, <1>3, <2>1, <2>2, <2>3, SenderFrame DEF GetAckGivesUp, IndInv
<1>4. CASE GetAckTimeout
  <2>1. /\ snd'.block = snd.block /\ snd'.done = snd.done
        /\ snd'.closing = snd.closing /\ snd'.window = snd.window
        /\ snd'.pc = "getAck" /\ snd.pc = "getAck"
    BY <1>0, <1>4 DEF GetAckTimeout, TypeOK, Sender
  <2>2. SenderInv' BY <1>0, <1>4, <2>1 DEF GetAckTimeout, SenderInv, MayWrite, Received
  <2> QED BY <1>t, <1>r, <1>4, <2>1, <2>2, SenderFrame DEF GetAckTimeout, IndInv
<1>5. CASE GetAck
  <2>1. PICK m \in Arrivals(toSnd) :
          \/ m.op = "ACK" /\ HandleAck(m.block)
          \/ /\ m.op # "ACK"
             /\ snd' = [snd EXCEPT !.tries = @ + 1,
                          !.err = CASE m.op = "ERROR" -> "remote"
                                    [] m.op = "OACK"  -> "unexpected"
                                    [] m.op = "STRAY" -> @,
                          !.pc = IF m.op = "STRAY" THEN @ ELSE Returned]
             /\ UNCHANGED ring
    BY <1>5 DEF GetAck
  <2>2. m \in ToSender /\ m \in Elems(toSnd) /\ Elems(toSnd') \subseteq Elems(toSnd)
    BY <1>0, <1>5, RestElems DEF GetAck, TypeOK
  <2>3. m.block \in Nat BY <2>2, BlockNoFacts DEF ToSender
  <2>4. snd.pc = "getAck" /\ UNCHANGED << rcv, toRcv >> BY <1>5 DEF GetAck
  <2>5. CASE m.op = "ACK" /\ HandleAck(m.block) /\ RollsBack(m.block)
    <3>1. /\ ring' = [ring EXCEPT !.current = ring.current - (snd.block - m.block)]
          /\ snd' = [snd EXCEPT !.block = m.block, !.window = 0, !.done = FALSE,
                                !.tries = 0, !.pc = "writeData"]
      BY <2>5 DEF HandleAck, AfterRollback, UnreadSlots
    <3>2. /\ snd'.block = m.block /\ snd'.done = FALSE
          /\ snd'.closing = snd.closing /\ snd'.window = 0
          /\ snd'.pc = "writeData"
      BY <1>0, <3>1 DEF TypeOK, Sender
    <3>3. /\ ring'.current = ring.current - (snd.block - m.block)
          /\ ring'.wrote = ring.wrote /\ ring'.head = ring.head
          /\ ring'.slots = ring.slots
      BY <1>0, <3>1 DEF TypeOK, Ring
    <3>4. m.block < snd.block /\ m.block <= Len(rcv.got)
      BY <1>0, <2>2, <2>5 DEF RollsBack, NetworkInv, Received
    <3>5. ring'.current = m.block /\ ring'.current < ring.current
      BY <1>0, <2>3, <3>3, <3>4, Fields DEF SenderInv
    <3>6. m.block <= ring.wrote
      BY <1>0, <2>3, <3>4, Fields DEF SenderInv, RingInv
    <3>7. SenderInv'
      BY <1>0, <2>3, <2>4, <3>2, <3>3, <3>4, <3>5, <3>6, Fields
      DEF SenderInv, MayWrite, Received
    <3>8. ring'.current \in Int /\ 0 <= ring'.current /\ ring'.current <= ring.current
      BY <1>0, <2>3, <3>5, Fields
    <3> QED BY <1>t, <2>2, <2>4, <3>2, <3>3, <3>7, <3>8, SenderFrame DEF IndInv
  <2>6. CASE m.op = "ACK" /\ HandleAck(m.block) /\ ~RollsBack(m.block)
    <3>1. /\ snd' = IF m.block > snd.block THEN [snd EXCEPT !.tries = @ + 1]
                    ELSE [snd EXCEPT !.tries = 0, !.pc = "writeData"]
          /\ ring' = ring
      BY <2>6 DEF HandleAck
    <3>2. /\ snd'.block = snd.block /\ snd'.done = snd.done
          /\ snd'.closing = snd.closing /\ snd'.window = snd.window
          /\ snd'.pc = "getAck" \/ (snd'.pc = "writeData" /\ ~(m.block > snd.block))
      BY <1>0, <2>4, <3>1 DEF TypeOK, Sender
    <3>3. ~(m.block > snd.block) => snd.block <= Len(rcv.got)
      BY <1>0, <2>2, <2>3, <2>6, Fields DEF RollsBack, NetworkInv, Received
    <3>4. SenderInv'
      BY <1>0, <2>4, <3>1, <3>2, <3>3, Fields DEF SenderInv, MayWrite, Received
    <3> QED BY <1>t, <1>r, <2>2, <2>4, <3>1, <3>2, <3>4, SenderFrame DEF IndInv
  <2>7. CASE m.op # "ACK"
    <3>1. /\ snd'.block = snd.block /\ snd'.done = snd.done
          /\ snd'.closing = snd.closing /\ snd'.window = snd.window
          /\ ring' = ring
          /\ \/ snd'.pc = "getAck"
             \/ snd'.err # "nil" /\ snd'.pc = Returned
      <4>1. m.op \in {"ERROR", "OACK", "STRAY"} BY <2>2, <2>7 DEF ToSender
      <4> QED BY <1>0, <2>1, <2>4, <2>7, <4>1 DEF TypeOK, Sender
    <3>2. SenderInv'
      BY <1>0, <2>4, <3>1 DEF SenderInv, MayWrite, Received, Returned
    <3> QED BY <1>t, <1>r, <2>2, <2>4, <3>1, <3>2, SenderFrame DEF IndInv
  <2> QED BY <2>1, <2>5, <2>6, <2>7
<1> QED BY <1>1, <1>2, <1>3, <1>4, <1>5 DEF SenderStep
-----------------------------------------------------------------------------
(* The receiver. *)

\* A step of the receiver that accepts no data and sends at most an ACK of
\* the last block it has.
LEMMA ReceiverFrame ==
    ASSUME IndInv, UNCHANGED << snd, ring >>,
           rcv'.got = rcv.got, rcv'.block = rcv.block, rcv'.done = rcv.done,
           Elems(toRcv') \subseteq Elems(toRcv),
           \A m \in Elems(toSnd') :
             m \in Elems(toSnd) \/ m.op # "ACK" \/ m.block = rcv.block
    PROVE  SenderInv' /\ RingInv' /\ NetworkInv' /\ InOrder'
<1>1. TypeOK /\ SenderInv /\ RingInv /\ ReceiverInv /\ NetworkInv /\ InOrder
  BY DEF IndInv
<1>2. SenderInv' BY <1>1 DEF SenderInv, MayWrite, Received
<1>3. RingInv' BY <1>1 DEF RingInv, Received
<1>4. ASSUME NEW m \in Elems(toRcv'), m.op = "DATA" PROVE GoodData(m)'
  <2>1. GoodData(m) BY <1>1, <1>4 DEF NetworkInv
  <2> QED BY <2>1 DEF GoodData, Received
<1>5. ASSUME NEW m \in Elems(toSnd'), m.op = "ACK" PROVE m.block <= Received'
  <2>1. CASE m \in Elems(toSnd) BY <1>1, <1>5, <2>1 DEF NetworkInv, Received
  <2>2. CASE m.block = rcv.block
    BY <1>1, <2>2, Fields DEF ReceiverInv, Received
  <2> QED BY <1>5, <2>1, <2>2
<1>6. NetworkInv' BY <1>4, <1>5 DEF NetworkInv
<1>7. InOrder' BY <1>1 DEF InOrder
<1> QED BY <1>2, <1>3, <1>6, <1>7

\* The only block that ackData accepts is the next chunk of the file.
LEMMA AcceptedChunk ==
    ASSUME NoWrap, IndInv, NEW m \in Arrivals(toRcv), m.op = "DATA",
           U16(m.block - rcv.block) = 1
    PROVE  /\ m.chunk = Received + 1 /\ Received + 1 <= ring.head
           /\ U16(rcv.block + 1) = Received + 1
           /\ ~rcv.done
           /\ m.last => snd.closing /\ Received + 1 = ring.wrote + 1
<1>1. TypeOK /\ RingInv /\ ReceiverInv /\ NetworkInv BY DEF IndInv
<1>2. m \in Elems(toRcv) /\ m \in ToReceiver BY <1>1, RestElems DEF TypeOK
<1>3. GoodData(m) BY <1>1, <1>2 DEF NetworkInv
<1>4. m.block \in BlockNo /\ m.chunk \in Nat /\ m.last \in BOOLEAN
  BY <1>2 DEF ToReceiver
<1>5. Received \in Nat /\ rcv.block = Received
  BY <1>1, Fields DEF ReceiverInv, Received
<1>6. m.block = Received + 1
  <2>1. m.block \in 1 .. BlockMod - 1 BY <1>1, <1>3, <1>4, Fields DEF GoodData, BlockNo
  <2>2. rcv.block \in 0 .. BlockMod - 1 BY <1>1 DEF TypeOK, Receiver, BlockNo
  <2>3. BlockMod \in Nat \ {0, 1} BY BlockNoFacts
  <2>4. m.block = rcv.block + 1 BY <2>1, <2>2, <2>3, DiffOne DEF U16
  <2> QED BY <1>5, <2>4
<1>7. m.chunk = Received + 1 /\ Received + 1 <= ring.head
  BY <1>1, <1>3, <1>5, <1>6, Fields DEF GoodData
<1>8. ring.head <= ring.wrote + 1 /\ ring.wrote <= MaxFull
  BY <1>1, Fields DEF RingInv
<1>9. U16(rcv.block + 1) = Received + 1
  <2>1. Received + 1 \in BlockNo
    BY <1>1, <1>5, <1>7, <1>8, Fields DEF NoWrap, BlockNo
  <2> QED BY <1>5, <2>1, BlockNoFacts
<1>10. ~rcv.done BY <1>1, <1>5, <1>7, <1>8, Fields DEF ReceiverInv
<1>11. m.last => snd.closing /\ Received + 1 = ring.wrote + 1
  BY <1>3, <1>7 DEF GoodData
<1> QED BY <1>7, <1>9, <1>10, <1>11

\* What ackData changes when it accepts a block.
LEMMA AcceptFields ==
    ASSUME TypeOK, rcv.err = "nil", NEW m, AcceptData(m)
    PROVE  /\ rcv'.got = Append(rcv.got, m.chunk)
           /\ rcv'.block = U16(rcv.block + 1)
           /\ rcv'.done = (rcv.done \/ m.last)
           /\ rcv'.err \in {"nil", "network"}
           /\ rcv'.pc \in {"read", "readData"} => rcv'.err = "nil"
           /\ toSnd' = toSnd \/ toSnd' = Put(toSnd, Ack(rcv'.block))
<1> DEFINE g == Append(rcv.got, m.chunk)
           b == U16(rcv.block + 1)
           d == rcv.done \/ m.last
           r == [rcv EXCEPT !.tries = 0, !.block = b, !.catchup = FALSE,
                            !.got = g, !.done = d, !.pc = "read"]
<1>1. \/ rcv' = [r EXCEPT !.window = @ + 1] /\ UNCHANGED toSnd
      \/ SendAck(r.block, [r EXCEPT !.window = 0], [r EXCEPT !.window = 0])
  BY DEF AcceptData
<1> HIDE DEF b, g, d
<1>2. /\ r.block = b /\ r.got = g /\ r.done = d /\ r.pc = "read" /\ r.err = "nil"
      /\ DOMAIN r = DOMAIN rcv
  BY DEF TypeOK, Receiver
<1>3. /\ DOMAIN rcv = {"pc", "block", "window", "catchup", "tries", "err",
                       "done", "got", "out", "want"}
  BY DEF TypeOK, Receiver
<1> HIDE DEF r
<1>4. CASE rcv' = [r EXCEPT !.window = @ + 1] /\ UNCHANGED toSnd
  BY <1>2, <1>3, <1>4 DEF b, g, d
<1>5. CASE SendAck(r.block, [r EXCEPT !.window = 0], [r EXCEPT !.window = 0])
  <2>1. \/ rcv' = [r EXCEPT !.window = 0] /\ toSnd' = Put(toSnd, Ack(b))
        \/ /\ rcv' = [[r EXCEPT !.window = 0] EXCEPT !.err = "network", !.pc = "app"]
           /\ UNCHANGED toSnd
    BY <1>2, <1>5 DEF SendAck
  <2> QED BY <1>2, <1>3, <2>1 DEF b, g, d
<1> QED BY <1>1, <1>4, <1>5

\* ackData keeps the invariant when it takes the expected block.
LEMMA AcceptSafe ==
    ASSUME NoWrap, IndInv, ReadData, NEW m \in Arrivals(toRcv), m.op = "DATA",
           U16(m.block - rcv.block) = 1, AcceptData(m)
    PROVE  SenderInv' /\ RingInv' /\ ReceiverInv' /\ NetworkInv'
           /\ InOrder' /\ EofMeansComplete'
<1>1. /\ TypeOK /\ SenderInv /\ RingInv /\ ReceiverInv /\ NetworkInv
      /\ InOrder /\ EofMeansComplete
  BY DEF IndInv
<1>2. rcv.pc = "readData" /\ rcv.err = "nil" /\ UNCHANGED << snd, ring >>
  BY <1>1 DEF ReadData, ReceiverInv
<1>3. /\ rcv.got \in Seq(Nat) /\ rcv.done \in BOOLEAN /\ rcv.block \in Nat
      /\ m.chunk \in Nat /\ m.last \in BOOLEAN
  BY <1>1, Fields, ArrivalTypes DEF TypeOK, Receiver, ToReceiver
<1> DEFINE g == Append(rcv.got, m.chunk)
<1>4. /\ rcv'.got = g /\ rcv'.block = U16(rcv.block + 1)
      /\ rcv'.done = (rcv.done \/ m.last)
      /\ rcv'.err \in {"nil", "network"}
      /\ rcv'.pc \in {"read", "readData"} => rcv'.err = "nil"
      /\ toSnd' = toSnd \/ toSnd' = Put(toSnd, Ack(rcv'.block))
  BY <1>1, <1>2, AcceptFields
<1>5. /\ Len(g) = Len(rcv.got) + 1 /\ Len(rcv.got) \in Nat
      /\ \A i \in 1 .. Len(rcv.got) : g[i] = rcv.got[i]
      /\ g[Len(rcv.got) + 1] = m.chunk
  BY <1>3
<1> HIDE DEF g
<1>6. /\ m.chunk = Len(rcv.got) + 1 /\ Len(rcv.got) + 1 <= ring.head
      /\ rcv'.block = Len(rcv.got) + 1 /\ ~rcv.done
      /\ m.last => snd.closing /\ Len(rcv.got) + 1 = ring.wrote + 1
  BY <1>4, AcceptedChunk DEF Received
<1>7. InOrder' BY <1>1, <1>4, <1>5, <1>6 DEF InOrder
<1>8. EofMeansComplete' BY <1>4 DEF EofMeansComplete
<1>9. SenderInv'
  BY <1>1, <1>2, <1>4, <1>5, Fields, SMTT(30) DEF SenderInv, MayWrite, Received
<1>10. RingInv' BY <1>1, <1>2, <1>4, <1>5, Fields, SMTT(30) DEF RingInv, Received
<1>11. ReceiverInv' BY <1>2, <1>4, <1>5, <1>6 DEF ReceiverInv, Received
<1>12. NetworkInv'
  <2>1. Elems(toRcv') \subseteq Elems(toRcv) BY <1>1, RestElems DEF ReadData, TypeOK
  <2>2. ASSUME NEW x \in Elems(toRcv'), x.op = "DATA" PROVE GoodData(x)'
    <3>1. GoodData(x) BY <1>1, <2>1, <2>2 DEF NetworkInv
    <3>2. Len(rcv.got) <= Len(rcv'.got) /\ Len(rcv'.got) \in Nat BY <1>4, <1>5
    <3>3. ring.head <= ring'.head /\ ring.wrote <= ring'.wrote BY <1>1, <1>2, Fields
    <3> QED BY <1>1, <1>2, <1>5, <3>1, <3>2, <3>3, Fields, GoodDataStays
  <2>3. ASSUME NEW x \in Elems(toSnd'), x.op = "ACK" PROVE x.block <= Received'
    <3>1. U16(rcv.block + 1) \in BlockNo BY <1>3, BlockNoFacts
    <3>2. Ack(rcv'.block) \in ToSender BY <1>4, <3>1, SentMessages
    <3>3. x \in Elems(toSnd) \/ x = Ack(rcv'.block)
      BY <1>1, <1>4, <3>2, PutElems DEF TypeOK
    <3>4. CASE x \in Elems(toSnd)
      <4>1. x.block <= Len(rcv.got) BY <1>1, <2>3, <3>4 DEF NetworkInv, Received
      <4>2. x.block \in Nat
        <5>1. x \in ToSender BY <1>1, <3>4 DEF TypeOK, Elems, Channel
        <5> QED BY <5>1, BlockNoFacts DEF ToSender
      <4> QED BY <1>4, <1>5, <4>1, <4>2 DEF Received
    <3>5. CASE x = Ack(rcv'.block)
      BY <1>4, <1>5, <1>6, <3>5 DEF Ack, Received
    <3> QED BY <3>3, <3>4, <3>5
  <2> QED BY <2>2, <2>3 DEF NetworkInv
<1> QED BY <1>7, <1>8, <1>9, <1>10, <1>11, <1>12

\* Every step of the state machine of Read keeps the invariant.
LEMMA ReceiverSafe ==
    ASSUME NoWrap, IndInv, ReceiverStep PROVE IndInv'
<1>0. /\ TypeOK /\ SenderInv /\ RingInv /\ ReceiverInv /\ NetworkInv
      /\ EofMeansComplete
  BY DEF IndInv
<1>t. TypeOK' BY <1>0, ReceiverTypes
<1>a. /\ Elems(Put(toSnd, Ack(rcv.block))) = Elems(toSnd) \cup {Ack(rcv.block)}
      /\ Ack(rcv.block).block = rcv.block
  <2>1. Ack(rcv.block) \in ToSender BY <1>0, SentMessages DEF TypeOK, Receiver
  <2>2. Ack(rcv.block).block = rcv.block BY DEF Ack
  <2> QED BY <1>0, <2>1, <2>2, PutElems DEF TypeOK
<1>1. CASE ReadReturns
  <2>1. rcv.out \in Nat /\ rcv.want \in Nat /\ Len(rcv.got) \in Nat
    BY <1>0, Fields DEF TypeOK, Receiver
  <2>2. /\ rcv'.got = rcv.got /\ rcv'.block = rcv.block /\ rcv'.done = rcv.done
        /\ rcv'.pc = "app" /\ rcv.err = "nil"
        /\ rcv'.err = "EOF" => rcv.done /\ rcv'.out = Len(rcv.got)
    BY <1>0, <1>1 DEF ReadReturns, AtEnd, ReceiverInv, TypeOK, Receiver
  <2>3. UNCHANGED << snd, ring, toRcv, toSnd >> BY <1>1 DEF ReadReturns
  <2>4. ReceiverInv' BY <1>0, <2>2, <2>3 DEF ReceiverInv, Received
  <2>5. EofMeansComplete' BY <1>0, <2>2, <2>3 DEF EofMeansComplete, ReceiverInv, Received
  <2> QED BY <1>t, <2>2, <2>3, <2>4, <2>5, ReceiverFrame DEF IndInv
<1>2. CASE ReadContinues
  <2>1. /\ rcv'.got = rcv.got /\ rcv'.block = rcv.block /\ rcv'.done = rcv.done
        /\ rcv'.err = rcv.err /\ rcv.err = "nil"
    BY <1>0, <1>2 DEF ReadContinues, ReceiverInv, TypeOK, Receiver
  <2>2. UNCHANGED << snd, ring, toRcv, toSnd >> BY <1>2 DEF ReadContinues
  <2>3. ReceiverInv' BY <1>0, <2>1, <2>2 DEF ReceiverInv, Received
  <2>4. EofMeansComplete' BY <2>1 DEF EofMeansComplete
  <2> QED BY <1>t, <2>1, <2>2, <2>3, <2>4, ReceiverFrame DEF IndInv
<1>3. CASE ReadDataGivesUp
  <2>1. /\ rcv'.got = rcv.got /\ rcv'.block = rcv.block /\ rcv'.done = rcv.done
        /\ rcv'.err = "maxRetries" /\ rcv'.pc = "app"
    BY <1>0, <1>3 DEF ReadDataGivesUp, TypeOK, Receiver
  <2>2. UNCHANGED << snd, ring, toRcv >> BY <1>3 DEF ReadDataGivesUp
  <2>3. \A m \in Elems(toSnd') : m \in Elems(toSnd) \/ m.op # "ACK"
    <3>1. Elems(Put(toSnd, ToSndMsg("ERROR"))) = Elems(toSnd) \cup {ToSndMsg("ERROR")}
      BY <1>0, SentMessages, PutElems DEF TypeOK
    <3>2. ToSndMsg("ERROR").op # "ACK" BY DEF ToSndMsg
    <3> QED BY <1>3, <3>1, <3>2 DEF ReadDataGivesUp
  <2>4. ReceiverInv' BY <1>0, <2>1, <2>2 DEF ReceiverInv, Received
  <2>5. EofMeansComplete' BY <2>1 DEF EofMeansComplete
  <2> QED BY <1>t, <2>1, <2>2, <2>3, <2>4, <2>5, ReceiverFrame DEF IndInv
<1>4. CASE ReadDataTimeout
  <2>1. /\ rcv'.got = rcv.got /\ rcv'.block = rcv.block /\ rcv'.done = rcv.done
        /\ rcv'.err = rcv.err /\ rcv.err = "nil"
    BY <1>0, <1>4 DEF ReadDataTimeout, ReceiverInv, TypeOK, Receiver
  <2>2. UNCHANGED << snd, ring, toRcv >> BY <1>4 DEF ReadDataTimeout
  <2>3. \A m \in Elems(toSnd') : m \in Elems(toSnd) \/ m.block = rcv.block
    BY <1>4, <1>a DEF ReadDataTimeout
  <2>4. ReceiverInv' BY <1>0, <2>1, <2>2 DEF ReceiverInv, Received
  <2>5. EofMeansComplete' BY <2>1 DEF EofMeansComplete
  <2> QED BY <1>t, <2>1, <2>2, <2>3, <2>4, <2>5, ReceiverFrame DEF IndInv
<1>5. CASE ReadData
  <2>1. PICK m \in Arrivals(toRcv) :
          \/ m.op = "DATA" /\ AckData(m)
          \/ /\ m.op # "DATA"
             /\ rcv' = [rcv EXCEPT !.tries = @ + 1, !.pc = "app",
                          !.err = IF m.op = "ERROR" THEN "remote"
                                  ELSE "unexpected"]
             /\ UNCHANGED toSnd
    BY <1>5 DEF ReadData
  <2>2. CASE m.op = "DATA" /\ U16(m.block - rcv.block) = 1 /\ AcceptData(m)
    BY <1>t, <1>5, <2>2, AcceptSafe DEF IndInv
  <2>3. CASE ReportGap \/ IgnoreData \/ m.op # "DATA"
    <3>0. rcv.pc = "readData" /\ rcv.err = "nil" BY <1>0, <1>5 DEF ReadData, ReceiverInv
    <3>1. /\ rcv'.got = rcv.got /\ rcv'.block = rcv.block /\ rcv'.done = rcv.done
          /\ rcv'.err # "EOF"
          /\ rcv'.pc \in {"read", "readData"} => rcv'.err = "nil"
          /\ toSnd' = toSnd \/ toSnd' = Put(toSnd, Ack(rcv.block))
      <4>1. CASE ReportGap
        BY <1>0, <3>0, <4>1 DEF ReportGap, SendAck, TypeOK, Receiver
      <4>2. CASE IgnoreData BY <1>0, <3>0, <4>2 DEF IgnoreData, TypeOK, Receiver
      <4>3. CASE m.op # "DATA" BY <1>0, <2>1, <4>3 DEF TypeOK, Receiver
      <4> QED BY <2>3, <4>1, <4>2, <4>3
    <3>2. UNCHANGED << snd, ring >> BY <1>5 DEF ReadData
    <3>3. Elems(toRcv') \subseteq Elems(toRcv)
      BY <1>0, <1>5, RestElems DEF ReadData, TypeOK
    <3>4. \A x \in Elems(toSnd') : x \in Elems(toSnd) \/ x.block = rcv.block
      BY <1>a, <3>1
    <3>5. ReceiverInv' BY <1>0, <3>1, <3>2 DEF ReceiverInv, Received
    <3>6. EofMeansComplete' BY <3>1 DEF EofMeansComplete
    <3> QED BY <1>t, <3>1, <3>2, <3>3, <3>4, <3>5, <3>6, ReceiverFrame DEF IndInv
  <2> QED BY <2>1, <2>2, <2>3 DEF AckData, Expected
<1> QED BY <1>1, <1>2, <1>3, <1>4, <1>5 DEF ReceiverStep

-----------------------------------------------------------------------------
(* The applications and the network. *)

\* A call of Write or of the sender's Close keeps the invariant.
LEMMA CallSafe ==
    ASSUME NoWrap, IndInv, NEW k \in Nat, ring.wrote + k <= MaxFull,
           Write(k) \/ CloseSender(k)
    PROVE  IndInv'
<1>0. /\ TypeOK /\ SenderInv /\ RingInv /\ ReceiverInv /\ NetworkInv
      /\ InOrder /\ EofMeansComplete
  BY DEF IndInv
<1>t. TypeOK' BY <1>0, CallTypes
<1>1. /\ snd.pc = "app" /\ ~snd.closing
      /\ UNCHANGED << rcv, toRcv, toSnd >>
  BY <1>0 DEF Write, CloseSender, SenderInv
<1>2. /\ 0 <= k /\ ring.wrote + k <= MaxFull
      /\ \/ /\ snd' = [snd EXCEPT !.pc = "closed"] /\ ring' = ring
         \/ /\ snd.err = "nil"
            /\ \/ snd' = [snd EXCEPT !.pc = "writeData"]
               \/ snd' = [snd EXCEPT !.pc = "writeData", !.closing = TRUE]
            /\ ring' = [ring EXCEPT !.wrote = ring.wrote + k]
  <2>1. CASE Write(k) BY <2>1 DEF Write
  <2>2. CASE CloseSender(k) BY <2>2 DEF CloseSender
  <2> QED BY <2>1, <2>2
<1>3. CASE snd' = [snd EXCEPT !.pc = "closed"] /\ ring' = ring
  <2>1. /\ snd'.pc = "closed" /\ snd'.closing = snd.closing
        /\ snd'.done = snd.done /\ snd'.block = snd.block
    BY <1>0, <1>3 DEF TypeOK, Sender
  <2>2. SenderInv' BY <1>0, <1>1, <1>3, <2>1 DEF SenderInv, MayWrite, Received
  <2>3. ring.current \in Int /\ 0 <= ring.current /\ ring.current <= ring.current
    BY <1>0, Fields DEF RingInv
  <2> QED BY <1>t, <1>1, <1>3, <2>1, <2>2, <2>3, SenderFrame DEF IndInv
<1>4. CASE /\ snd.err = "nil"
           /\ \/ snd' = [snd EXCEPT !.pc = "writeData"]
              \/ snd' = [snd EXCEPT !.pc = "writeData", !.closing = TRUE]
           /\ ring' = [ring EXCEPT !.wrote = ring.wrote + k]
  <2>1. /\ snd'.pc = "writeData" /\ snd'.done = snd.done
        /\ snd'.block = snd.block /\ snd'.window = snd.window
    BY <1>0, <1>4 DEF TypeOK, Sender
  <2>2. /\ ring'.wrote = ring.wrote + k /\ ring'.current = ring.current
        /\ ring'.head = ring.head /\ ring'.slots = ring.slots
    BY <1>0, <1>4 DEF TypeOK, Ring
  <2>3. SenderInv'
    BY <1>0, <1>1, <1>2, <1>4, <2>1, <2>2, Fields
    DEF SenderInv, MayWrite, RingInv, Received
  <2>4. RingInv' BY <1>0, <1>1, <1>2, <2>2, Fields DEF RingInv, Received
  <2>5. ReceiverInv' /\ EofMeansComplete' /\ InOrder'
    BY <1>0, <1>1, <2>2 DEF ReceiverInv, Received, EofMeansComplete, InOrder
  <2>6. NetworkInv'
    <3>1. ASSUME NEW m \in Elems(toRcv'), m.op = "DATA" PROVE GoodData(m)'
      <4>1. GoodData(m) BY <1>0, <1>1, <3>1 DEF NetworkInv
      <4>2. /\ ring'.wrote \in Nat /\ ring.wrote <= ring'.wrote
            /\ ring.head <= ring'.head /\ Len(rcv.got) <= Len(rcv'.got)
        BY <1>0, <1>1, <1>2, <2>2, Fields
      <4> QED BY <1>0, <1>1, <2>2, <4>1, <4>2, Fields, GoodDataStays
    <3> QED BY <1>0, <1>1, <3>1 DEF NetworkInv, Received
  <2> QED BY <1>t, <2>3, <2>4, <2>5, <2>6 DEF IndInv
<1> QED BY <1>2, <1>3, <1>4

LEMMA WriterSafe ==
    ASSUME NoWrap, IndInv, WriterStep PROVE IndInv'
<1>1. ASSUME NEW k \in 0 .. MaxFull - ring.wrote
      PROVE  k \in Nat /\ ring.wrote + k <= MaxFull
  BY Fields DEF IndInv
<1>2. 1 .. MaxFull - ring.wrote \subseteq 0 .. MaxFull - ring.wrote OBVIOUS
<1>3. PICK k \in 0 .. MaxFull - ring.wrote : Write(k) \/ CloseSender(k)
  BY <1>2 DEF WriterStep
<1> QED BY <1>1, <1>3, CallSafe

\* A call of Read or of the receiver's Close keeps the invariant.
LEMMA ReaderSafe ==
    ASSUME NoWrap, IndInv, ReaderStep PROVE IndInv'
<1>0. TypeOK /\ ReceiverInv /\ EofMeansComplete BY DEF IndInv
<1>t. TypeOK' BY <1>0, ApplicationTypes
<1>1. /\ rcv'.got = rcv.got /\ rcv'.block = rcv.block /\ rcv'.done = rcv.done
      /\ rcv'.err = rcv.err /\ rcv'.out = rcv.out
      /\ rcv'.pc = "closed" \/ rcv.err = "nil"
  BY <1>0 DEF ReaderStep, Read, CloseReceiver, TypeOK, Receiver
<1>2. UNCHANGED << snd, ring, toRcv, toSnd >> BY DEF ReaderStep, Read, CloseReceiver
<1>3. ReceiverInv' BY <1>0, <1>1, <1>2 DEF ReceiverInv, Received
<1>4. EofMeansComplete' BY <1>0, <1>1, <1>2 DEF EofMeansComplete
<1> QED BY <1>t, <1>1, <1>2, <1>3, <1>4, ReceiverFrame DEF IndInv

\* A datagram that is lost does not hurt the invariant.
LEMMA NetworkSafe ==
    ASSUME IndInv, LoseData \/ LoseAck \/ Terminated \/ UNCHANGED vars PROVE IndInv'
<1>0. TypeOK /\ ReceiverInv /\ EofMeansComplete BY DEF IndInv
<1>1. [Next]_vars BY DEF Next, Terminated
<1>t. TypeOK' BY <1>0, <1>1, NextType
<1>2. UNCHANGED << snd, ring, rcv >> BY DEF LoseData, LoseAck, Terminated, vars
<1>3. Elems(toRcv') \subseteq Elems(toRcv) /\ Elems(toSnd') \subseteq Elems(toSnd)
  BY <1>0, TailElems DEF LoseData, LoseAck, Terminated, vars, TypeOK
<1>4. ReceiverInv' /\ EofMeansComplete'
  BY <1>0, <1>2 DEF ReceiverInv, Received, EofMeansComplete
<1> QED BY <1>t, <1>2, <1>3, <1>4, ReceiverFrame DEF IndInv

\* The invariant is inductive.
LEMMA NextInv == NoWrap /\ IndInv /\ [Next]_vars => IndInv'
BY SenderSafe, ReceiverSafe, WriterSafe, ReaderSafe, NetworkSafe DEF Next

\* The inductive invariant: the sender is at most a window ahead of the
\* receiver, the ring covers that window, and every datagram on its way
\* carries the chunk of its number or a number the receiver has passed.
THEOREM Invariance == NoWrap => (Spec => []IndInv)
<1> SUFFICES ASSUME NoWrap PROVE Spec => []IndInv OBVIOUS
<1> QED BY InitInv, NextInv, PTL DEF Spec
-----------------------------------------------------------------------------
(* The results. *)

\* As long as block numbers do not wrap around, conn.Read hands over the
\* chunks of the file in order, without loss or repetition: on every network,
\* FIFO or not, for every windowsize and retransmit.
THEOREM ReadsInOrder == NoWrap => (Spec => []InOrder)
<1> SUFFICES ASSUME NoWrap PROVE Spec => []InOrder OBVIOUS
<1>1. IndInv => InOrder BY DEF IndInv
<1> QED BY <1>1, Invariance, PTL

\* ... and io.EOF means that everything the writer wrote has been read.
THEOREM EofIsComplete == NoWrap => (Spec => []EofMeansComplete)
<1> SUFFICES ASSUME NoWrap PROVE Spec => []EofMeansComplete OBVIOUS
<1>1. IndInv => EofMeansComplete BY DEF IndInv
<1> QED BY <1>1, Invariance, PTL

\* ... and txBuf still holds every chunk that was sent and is not received,
\* although writeData reuses a slot every windowsize blocks.
THEOREM RingKeepsUnreceived == NoWrap => (Spec => []RingCoversUnreceived)
<1> SUFFICES ASSUME NoWrap PROVE Spec => []RingCoversUnreceived OBVIOUS
<1>1. ASSUME IndInv PROVE RingCoversUnreceived
  <2>1. TypeOK /\ RingInv /\ ReceiverInv BY <1>1 DEF IndInv
  <2>2. ASSUME NEW c \in Len(rcv.got) + 1 .. ring.head
        PROVE  ring.slots[(c - 1) % WindowSize] = c
    <3> DEFINE i == c - 1
    <3>1. i \in 0 .. ring.head - 1 /\ i >= ring.head - WindowSize /\ i + 1 = c
      BY <2>1, Fields, SMTT(30) DEF RingInv, Received
    <3> HIDE DEF i
    <3>2. ring.slots[i % WindowSize] = i + 1 BY <2>1, <3>1 DEF RingInv
    <3> QED BY <3>1, <3>2 DEF i
  <2> QED BY <2>2 DEF RingCoversUnreceived
<1>2. IndInv => RingCoversUnreceived BY <1>1
<1> QED BY <1>2, Invariance, PTL

\* An initial state of the transfer is one of the pipe.
LEMMA InitImplements == Init => P!Init
BY DEF Init, P!Init

\* The block that ackData accepts is the next one, and it has been written.
AcceptsNext ==
    \A m \in Arrivals(toRcv) :
      m.op = "DATA" /\ U16(m.block - rcv.block) = 1 =>
        /\ m.chunk = Len(rcv.got) + 1
        /\ Len(rcv.got) < IF snd.closing THEN ring.wrote + 1 ELSE ring.wrote

\* What a step of the state machine of Write and Close leaves alone.
LEMMA SenderKeepsPipe ==
    ASSUME TypeOK, SenderStep
    PROVE  /\ UNCHANGED rcv /\ snd.pc \in {"writeData", "getAck"}
           /\ snd'.closing = snd.closing /\ ring'.wrote = ring.wrote
           /\ snd'.pc = "closed" => snd.closing
<1>0. TypeOK OBVIOUS
<1>1. UNCHANGED rcv /\ snd.pc \in {"writeData", "getAck"}
  BY DEF SenderStep, WriteReturns, WriteData, GetAckGivesUp, GetAckTimeout, GetAck
<1> SUFFICES /\ snd'.closing = snd.closing /\ ring'.wrote = ring.wrote
             /\ snd'.pc = "closed" => snd.closing
  BY <1>1
<1>2. CASE WriteReturns BY <1>0, <1>2 DEF WriteReturns, Returned, TypeOK, Sender
<1>3. CASE WriteData
  <2>1. ring'.wrote = ring.wrote BY <1>0, <1>3 DEF WriteData, RingRead, TypeOK, Ring
  <2>2. snd'.closing = snd.closing /\ (snd'.pc = "closed" => snd.closing)
    BY <1>0, <1>3 DEF WriteData, AfterData, Returned, TypeOK, Sender
  <2> QED BY <2>1, <2>2
<1>4. CASE GetAckGivesUp BY <1>0, <1>4 DEF GetAckGivesUp, Returned, TypeOK, Sender
<1>5. CASE GetAckTimeout BY <1>0, <1>5 DEF GetAckTimeout, TypeOK, Sender
<1>6. CASE GetAck
  <2>1. PICK m \in Arrivals(toSnd) :
          \/ HandleAck(m.block)
          \/ /\ ring' = ring
             /\ snd' = [snd EXCEPT !.tries = @ + 1,
                          !.err = CASE m.op = "ERROR" -> "remote"
                                    [] m.op = "OACK"  -> "unexpected"
                                    [] m.op = "STRAY" -> @,
                          !.pc = IF m.op = "STRAY" THEN @ ELSE Returned]
    BY <1>6 DEF GetAck
  <2>0. snd.pc = "getAck" BY <1>6 DEF GetAck
  <2>2. CASE HandleAck(m.block)
    <3>1. ring'.wrote = ring.wrote
      BY <1>0, <2>2 DEF HandleAck, UnreadSlots, TypeOK, Ring
    <3>2. snd'.closing = snd.closing /\ snd'.pc # "closed"
      BY <1>0, <2>0, <2>2 DEF HandleAck, AfterRollback, TypeOK, Sender
    <3> QED BY <3>1, <3>2
  <2>3. CASE ~HandleAck(m.block)
    <3>1. snd'.closing = snd.closing /\ (snd'.pc = "closed" => snd.closing)
      BY <1>0, <2>0, <2>1, <2>3 DEF Returned, TypeOK, Sender
    <3> QED BY <2>1, <2>3, <3>1
  <2> QED BY <2>1, <2>2, <2>3
<1> QED BY <1>2, <1>3, <1>4, <1>5, <1>6 DEF SenderStep

\* A call of Write or of Close is a step of the pipe, or leaves it as it is.
LEMMA WriterImplements ==
    ASSUME TypeOK, NEW k \in Nat, Write(k) \/ CloseSender(k), ~snd.closing
    PROVE  [P!Next]_P!vars
<1>1. UNCHANGED rcv BY DEF Write, CloseSender
<1>2. ring'.wrote \in Nat /\ ring'.wrote >= ring.wrote
  <2>1. ring' = ring \/ ring' = [ring EXCEPT !.wrote = ring.wrote + k]
    BY DEF Write, CloseSender
  <2>2. ring'.wrote = ring.wrote \/ ring'.wrote = ring.wrote + k
    BY <2>1 DEF TypeOK, Ring
  <2> QED BY <2>2, Fields
<1>3. snd'.closing = snd.closing \/ snd'.closing = TRUE
  BY DEF Write, CloseSender, TypeOK, Sender
<1> QED BY <1>1, <1>2, <1>3 DEF P!Next, P!Send, P!Close, P!vars

\* A step of the transfer is a step of the pipe, or leaves it as it is,
\* provided that ackData accepts only the next block.
LEMMA StepImplements ==
    ASSUME TypeOK, [Next]_vars, EofMeansComplete', AcceptsNext,
           snd.pc = "app" => ~snd.closing,
           rcv.pc \in {"read", "readData"} => rcv.err = "nil"
    PROVE  [P!Next]_P!vars
<1>0. TypeOK /\ EofMeansComplete' OBVIOUS
<1>1. CASE WriterStep
  <2>0. /\ 0 .. MaxFull - ring.wrote \subseteq Nat
        /\ 1 .. MaxFull - ring.wrote \subseteq Nat
    BY <1>0, Fields
  <2>1. PICK k \in Nat : Write(k) \/ CloseSender(k) BY <1>1, <2>0 DEF WriterStep
  <2>3. ~snd.closing BY <2>1 DEF Write, CloseSender
  <2> QED BY <1>0, <2>1, <2>3, WriterImplements
<1>2. CASE SenderStep BY <1>0, <1>2, SenderKeepsPipe DEF P!vars
<1>3. CASE ReaderStep \/ LoseData \/ LoseAck \/ Terminated \/ UNCHANGED vars
  <2>1. UNCHANGED << snd, ring >> /\ rcv'.got = rcv.got /\ rcv'.err = rcv.err
    BY <1>0, <1>3 DEF ReaderStep, Read, CloseReceiver, LoseData, LoseAck,
                      Terminated, vars, TypeOK, Receiver
  <2> QED BY <2>1 DEF P!vars
<1>4. CASE ReceiverStep
  <2>0. UNCHANGED << snd, ring >> /\ rcv.err # "EOF"
    BY <1>0, <1>4 DEF ReceiverStep, ReadReturns, ReadContinues, ReadDataGivesUp,
                      ReadDataTimeout, ReadData
  <2>1. CASE rcv'.got = rcv.got
    <3>1. CASE rcv'.err # "EOF" BY <2>0, <2>1, <3>1 DEF P!vars
    <3>2. CASE rcv'.err = "EOF"
      <4>1. snd.closing /\ Len(rcv.got) = ring.wrote + 1
        BY <1>0, <2>0, <2>1, <3>2 DEF EofMeansComplete
      <4> QED BY <2>0, <2>1, <3>2, <4>1 DEF P!Next, P!End, P!Total
    <3> QED BY <3>1, <3>2
  <2>2. CASE rcv'.got # rcv.got
    <3>1. PICK m \in Arrivals(toRcv) :
            m.op = "DATA" /\ U16(m.block - rcv.block) = 1 /\ AcceptData(m)
      BY <1>0, <1>4, <2>2
      DEF ReceiverStep, ReadReturns, ReadContinues, ReadDataGivesUp, ReadDataTimeout,
          ReadData, AckData, Expected, ReportGap, IgnoreData, SendAck, TypeOK, Receiver
    <3>2. /\ m.chunk = Len(rcv.got) + 1
          /\ Len(rcv.got) < IF snd.closing THEN ring.wrote + 1 ELSE ring.wrote
      BY <3>1 DEF AcceptsNext
    <3>3. rcv'.got = Append(rcv.got, Len(rcv.got) + 1) /\ rcv'.err # "EOF"
      <4>1. rcv.err = "nil"
        BY <1>0, <1>4, <2>2
        DEF ReceiverStep, ReadReturns, ReadContinues, ReadDataGivesUp,
            ReadDataTimeout, ReadData
      <4> QED BY <1>0, <3>1, <3>2, <4>1, AcceptFields
    <3> QED BY <2>0, <3>2, <3>3 DEF P!Next, P!Receive, P!Total
  <2> QED BY <2>1, <2>2
<1> QED BY <1>1, <1>2, <1>3, <1>4 DEF Next

\* The invariant lets ackData accept only the next block.
LEMMA UdpAcceptsNext == ASSUME NoWrap, IndInv PROVE AcceptsNext
<1>0. TypeOK /\ RingInv BY DEF IndInv
<1>1. ASSUME NEW m \in Arrivals(toRcv), m.op = "DATA", U16(m.block - rcv.block) = 1
      PROVE  /\ m.chunk = Len(rcv.got) + 1
             /\ Len(rcv.got) < IF snd.closing THEN ring.wrote + 1 ELSE ring.wrote
  <2>1. m.chunk = Len(rcv.got) + 1 /\ Len(rcv.got) + 1 <= ring.head
    BY <1>1, AcceptedChunk DEF Received
  <2> QED BY <1>0, <2>1, Fields DEF RingInv
<1> QED BY <1>1 DEF AcceptsNext

LEMMA NextImplements ==
    ASSUME NoWrap, IndInv, IndInv', [Next]_vars PROVE [P!Next]_P!vars
BY UdpAcceptsNext, StepImplements DEF IndInv, SenderInv, ReceiverInv

\* The transfer implements the abstract Pipe: seen through Write, Close, Read
\* and io.EOF, two conns and an arbitrary network are a pipe that may stop.
THEOREM TransferImplementsPipe == NoWrap => (Spec => ImplementsPipe)
<1> SUFFICES ASSUME NoWrap PROVE Spec => P!Spec BY DEF ImplementsPipe
<1>1. IndInv /\ IndInv' /\ [Next]_vars => [P!Next]_P!vars BY NextImplements
<1> QED BY <1>1, InitImplements, Invariance, PTL DEF Spec, P!Spec
=============================================================================
