--------------------------- MODULE HandlersProofs ---------------------------
(***************************************************************************)
(* Proofs about module Handlers, for channels that keep the order and, for *)
(* files without wraparound, for any network.  The conns of the two        *)
(* applications take the steps of module Transfer, and a few that only an  *)
(* application makes them take, so that the lemmas of TransferFifo and     *)
(* TransferSafety carry over; what is new is what the applications know of *)
(* their conns.                                                            *)
(***************************************************************************)
EXTENDS Handlers, TransferFifo, SequenceTheorems

(***************************************************************************)
(* The inductive invariant.  The conns keep that of module Transfer for    *)
(* FIFO channels; the applications add when they may call a conn, what     *)
(* they take its error for, and where the ERROR of a handler is.           *)
(***************************************************************************)
AppTypes ==
    /\ flow \in {"put", "get"} /\ calm \in BOOLEAN
    /\ src \in [pc : {"open", "copy", "close", "closed"},
                wrote : BOOLEAN, refused : BOOLEAN, err : Errors \cup {"file"}]
    /\ dst \in [pc : {"request", "create", "copy", "readOnce", "write", "close",
                      "closed"},
                refused : BOOLEAN, err : Errors \cup {"file"}]

SourceInv ==
    /\ src.pc = "open" => snd.pc = "app" /\ snd.err = "nil" /\ src.err = "nil"
    /\ src.pc = "close" => snd.pc = "app" /\ src.err \in {snd.err, "file"}
    /\ snd.closing => src.pc = "closed" /\ src.err \in {"nil", "file"}
    /\ snd.pc = "closed" => src.pc = "closed"

\* Close returned nil: the receiver has the last block.
CloseInv == snd.pc = "closed" /\ snd.err = "nil" /\ HasTxBuf => rcv.done

SinkInv == dst.pc \in {"request", "create"} => rcv.pc = "app" /\ rcv.err = "nil"

\* The receiver will meet a datagram that ends its Read with an error before
\* any last block.
ErrorAhead ==
    \E i \in 1 .. Len(toRcv) :
      /\ toRcv[i].op # "DATA"
      /\ \A j \in 1 .. i - 1 : toRcv[j].op = "DATA" => ~toRcv[j].last

RefusalInv ==
    src.refused /\ losses = 0 =>
      rcv.err \notin {"nil", "EOF"} \/ (ErrorAhead /\ ~rcv.done)

\* What the applications know over any network, and all of it over channels
\* that keep the order.
AppInv == AppTypes /\ SourceInv /\ SinkInv
HandlersInv == FifoInv /\ AppInv /\ CloseInv /\ RefusalInv

\* Over a network that loses, duplicates and reorders the conns keep the other
\* invariant of module Transfer, as long as block numbers do not wrap around.
UdpHandlersInv == IndInv /\ AppInv

-----------------------------------------------------------------------------

\* What a step of the applications, the conns or the network does to the
\* conns: a step of module Transfer, a Write of less than a block, the Close
\* of a conn without txBuf, the ERROR of a WriteError, or the end of a request.
LEMMA StepKinds ==
    ASSUME TypeOK, [HNext]_hvars
    PROVE  \/ SenderStep \/ ReceiverStep \/ ReaderStep
           \/ LoseData \/ LoseAck \/ UNCHANGED vars
           \/ \E k \in Nat : ring.wrote + k <= MaxFull /\ (Write(k) \/ CloseSender(k))
           \/ /\ snd.pc = "app" /\ snd' = [snd EXCEPT !.pc = "closed"]
              /\ UNCHANGED << ring, rcv, toRcv, toSnd, losses >>
           \/ /\ toRcv' = Put(toRcv, ToRcvMsg("ERROR"))
              /\ UNCHANGED << snd, ring, rcv, toSnd, losses >>
           \/ /\ toSnd' = Put(toSnd, ToSndMsg("ERROR"))
              /\ UNCHANGED << snd, ring, rcv, toRcv, losses >>
           \/ GetFails
<1>1. CASE SourceStep
  <2>1. CASE Opens \/ CopyReturns \/ SourceFails
    BY <2>1 DEF Opens, CopyReturns, SourceFails
  <2>2. CASE SourceRefuses BY <2>2 DEF SourceRefuses, SourceSendsError, vars
  <2>3. ASSUME NEW k \in 0 .. MaxFull - ring.wrote, CopyWrites(k) \/ SourceCloses(k)
        PROVE  \/ Write(k) \/ CloseSender(k)
               \/ /\ snd.pc = "app" /\ snd' = [snd EXCEPT !.pc = "closed"]
                  /\ UNCHANGED << ring, rcv, toRcv, toSnd, losses >>
    BY <2>3 DEF CopyWrites, SourceCloses
  <2>4. \A k \in 0 .. MaxFull - ring.wrote : k \in Nat /\ ring.wrote + k <= MaxFull
    BY Fields
  <2> QED BY <1>1, <2>1, <2>2, <2>3, <2>4 DEF SourceStep
<1>2. CASE SinkStep
  <2>1. CASE GetReturns \/ Creates \/ CopyFinds \/ SinkFails
    BY <2>1 DEF GetReturns, Creates, CopyFinds, SinkFails
  <2>2. CASE SinkRefuses BY <2>2 DEF SinkRefuses, SinkSendsError, vars
  <2>3. CASE SinkCloses BY <2>3 DEF SinkCloses, ReaderStep
  <2>4. ASSUME NEW k \in 1 .. MaxRead, CopyReads(k) PROVE ReaderStep
    BY <2>4 DEF CopyReads, ReaderStep
  <2> QED BY <1>2, <2>1, <2>2, <2>3, <2>4 DEF SinkStep
<1>3. CASE SenderGoes BY <1>3 DEF SenderGoes, SenderStep
<1>4. CASE ReceiverGoes BY <1>4 DEF ReceiverGoes, ReceiverStep
<1>5. CASE NetworkLoses BY <1>5 DEF NetworkLoses
<1>6. CASE HTerminated \/ UNCHANGED hvars BY <1>6 DEF HTerminated, hvars
<1> QED BY <1>1, <1>2, <1>3, <1>4, <1>5, <1>6 DEF HNext

\* What the end of a Get does to its conn.
LEMMA GetFailsFields ==
    ASSUME TypeOK, GetFails
    PROVE  /\ UNCHANGED << snd, ring, toSnd, losses >>
           /\ toRcv' = toRcv \/ (Arrivals(toRcv) # {} /\ toRcv' = Rest(toRcv))
           /\ rcv'.got = rcv.got /\ rcv'.block = rcv.block /\ rcv'.done = rcv.done
           /\ rcv'.pc = "closed" /\ rcv'.err \in {"remote", "timeout"}
           /\ rcv' \in Receiver
<1>1. /\ UNCHANGED << snd, ring, toSnd, losses >>
      /\ toRcv' = toRcv \/ (Arrivals(toRcv) # {} /\ toRcv' = Rest(toRcv))
      /\ \/ rcv' = [rcv EXCEPT !.pc = "closed", !.err = "remote"]
         \/ rcv' = [rcv EXCEPT !.pc = "closed", !.err = "timeout"]
  BY DEF GetFails
<1> QED BY <1>1 DEF TypeOK, Receiver, Errors

\* The applications do not spoil the types of their conns.
LEMMA ConnTypes ==
    ASSUME TypeOK, [HNext]_hvars PROVE TypeOK'
<1>1. CASE \/ SenderStep \/ ReceiverStep \/ ReaderStep
           \/ LoseData \/ LoseAck \/ UNCHANGED vars
  <2>1. [Next]_vars BY <1>1 DEF Next
  <2> QED BY <2>1, NextType
<1>2. ASSUME NEW k \in Nat, Write(k) \/ CloseSender(k) PROVE TypeOK'
  BY <1>2, CallTypes
<1>3. CASE /\ snd.pc = "app" /\ snd' = [snd EXCEPT !.pc = "closed"]
           /\ UNCHANGED << ring, rcv, toRcv, toSnd, losses >>
  <2>1. snd' \in Sender BY <1>3 DEF TypeOK, Sender
  <2> QED BY <1>3, <2>1 DEF TypeOK
<1>4. CASE /\ toRcv' = Put(toRcv, ToRcvMsg("ERROR"))
           /\ UNCHANGED << snd, ring, rcv, toSnd, losses >>
  <2>1. toRcv' \in Channel(ToReceiver) BY <1>4, PutElems, SentMessages DEF TypeOK
  <2> QED BY <1>4, <2>1 DEF TypeOK
<1>5. CASE /\ toSnd' = Put(toSnd, ToSndMsg("ERROR"))
           /\ UNCHANGED << snd, ring, rcv, toRcv, losses >>
  <2>1. toSnd' \in Channel(ToSender) BY <1>5, PutElems, SentMessages DEF TypeOK
  <2> QED BY <1>5, <2>1 DEF TypeOK
<1>6. CASE GetFails
  <2>1. toRcv' \in Channel(ToReceiver)
    BY <1>6, GetFailsFields, RestElems DEF TypeOK
  <2> QED BY <1>6, <2>1, GetFailsFields DEF TypeOK
<1> QED BY <1>1, <1>2, <1>3, <1>4, <1>5, <1>6, StepKinds

\* The conns keep the invariant of a transfer over FIFO channels ...
LEMMA ConnsFifo ==
    ASSUME Ordered, FifoInv, [HNext]_hvars PROVE FifoInv'
<1>0. TypeOK /\ SenderFifo /\ ReceiverFifo /\ EofMeansComplete BY DEF FifoInv
<1>t. TypeOK' BY <1>0, ConnTypes
<1>1. CASE SenderStep BY <1>1, SenderFifoStep
<1>2. CASE ReceiverStep BY <1>2, ReceiverFifoStep
<1>3. CASE ReaderStep BY <1>3, ReaderFifoStep
<1>4. CASE LoseData \/ LoseAck \/ UNCHANGED vars
  <2>1. [Next]_vars BY <1>4 DEF Next
  <2> QED BY <2>1, NextFifo
<1>5. ASSUME NEW k \in Nat, Write(k) \/ CloseSender(k) PROVE FifoInv'
  BY <1>t, <1>5, WriterFifoStep
<1>6. CASE /\ snd.pc = "app" /\ snd' = [snd EXCEPT !.pc = "closed"]
           /\ UNCHANGED << ring, rcv, toRcv, toSnd, losses >>
  BY <1>t, <1>6, CloseFifo
<1>7. CASE /\ toRcv' = Put(toRcv, ToRcvMsg("ERROR"))
           /\ UNCHANGED << snd, ring, rcv, toSnd, losses >>
  <2>1. toRcv' = Append(toRcv, ToRcvMsg("ERROR")) BY <1>7 DEF Put
  <2>2. SenderFifo' BY <1>0, <1>7 DEF SenderFifo, MayWrite, Received
  <2>3. MayWrite' = MayWrite BY <1>7 DEF MayWrite
  <2> QED BY <1>0, <1>t, <1>7, <2>1, <2>2, <2>3, SenderKeeps
<1>8. CASE /\ toSnd' = Put(toSnd, ToSndMsg("ERROR"))
           /\ UNCHANGED << snd, ring, rcv, toRcv, losses >>
  <2>1. toSnd' = Append(toSnd, ToSndMsg("ERROR")) BY <1>8 DEF Put
  <2>2. EofMeansComplete' BY <1>0, <1>8 DEF EofMeansComplete
  <2>3. rcv.pc \in {"read", "readData"} => rcv.err = "nil" BY <1>0 DEF ReceiverFifo
  <2> QED BY <1>0, <1>t, <1>8, <2>1, <2>2, <2>3, ReceiverKeeps
<1>9. CASE GetFails
  <2>1. EofMeansComplete' BY <1>0, <1>9, GetFailsFields DEF EofMeansComplete
  <2>2. toRcv' = toRcv \/ (toRcv # << >> /\ toRcv' = Tail(toRcv))
    BY <1>0, <1>9, GetFailsFields DEF Arrivals, Rest
  <2> QED BY <1>0, <1>t, <1>9, <2>1, <2>2, GetFailsFields, ReceiverKeeps
<1> QED
  BY <1>0, <1>1, <1>2, <1>3, <1>4, <1>5, <1>6, <1>7, <1>8, <1>9, StepKinds

\* ... and that over any network.
LEMMA ConnsUdp ==
    ASSUME NoWrap, IndInv, [HNext]_hvars PROVE IndInv'
<1>0. TypeOK /\ SenderInv /\ RingInv /\ ReceiverInv /\ EofMeansComplete BY DEF IndInv
<1>t. TypeOK' BY <1>0, ConnTypes
<1>c. ring.current \in Int /\ 0 <= ring.current /\ ring.current <= ring.current
  BY <1>0, Fields DEF RingInv
<1>1. CASE \/ SenderStep \/ ReceiverStep \/ ReaderStep
           \/ LoseData \/ LoseAck \/ UNCHANGED vars
  <2>1. [Next]_vars BY <1>1 DEF Next
  <2> QED BY <2>1, NextInv
<1>2. ASSUME NEW k \in Nat, ring.wrote + k <= MaxFull, Write(k) \/ CloseSender(k)
      PROVE  IndInv'
  BY <1>2, CallSafe
<1>3. CASE /\ snd.pc = "app" /\ snd' = [snd EXCEPT !.pc = "closed"]
           /\ UNCHANGED << ring, rcv, toRcv, toSnd, losses >>
  <2>1. /\ snd'.pc = "closed" /\ snd'.closing = snd.closing
        /\ snd'.done = snd.done /\ snd'.block = snd.block
    BY <1>0, <1>3 DEF TypeOK, Sender
  <2>2. SenderInv' BY <1>0, <1>3, <2>1 DEF SenderInv, MayWrite, Received
  <2> QED BY <1>t, <1>c, <1>3, <2>1, <2>2, SenderFrame DEF IndInv
<1>4. CASE /\ toRcv' = Put(toRcv, ToRcvMsg("ERROR"))
           /\ UNCHANGED << snd, ring, rcv, toSnd, losses >>
  <2>1. Elems(toRcv') = Elems(toRcv) \cup {ToRcvMsg("ERROR")}
    BY <1>0, <1>4, PutElems, SentMessages DEF TypeOK
  <2>2. ToRcvMsg("ERROR").op # "DATA" BY DEF ToRcvMsg
  <2>3. SenderInv' BY <1>0, <1>4 DEF SenderInv, MayWrite, Received
  <2> QED BY <1>t, <1>c, <1>4, <2>1, <2>2, <2>3, SenderFrame DEF IndInv
<1>5. CASE /\ toSnd' = Put(toSnd, ToSndMsg("ERROR"))
           /\ UNCHANGED << snd, ring, rcv, toRcv, losses >>
  <2>1. Elems(toSnd') = Elems(toSnd) \cup {ToSndMsg("ERROR")}
    BY <1>0, <1>5, PutElems, SentMessages DEF TypeOK
  <2>2. ToSndMsg("ERROR").op # "ACK" BY DEF ToSndMsg
  <2>3. ReceiverInv' /\ EofMeansComplete'
    BY <1>0, <1>5 DEF ReceiverInv, Received, EofMeansComplete
  <2> QED BY <1>t, <1>5, <2>1, <2>2, <2>3, ReceiverFrame DEF IndInv
<1>6. CASE GetFails
  <2>1. Elems(toRcv') \subseteq Elems(toRcv)
    BY <1>0, <1>6, GetFailsFields, RestElems DEF TypeOK
  <2>2. ReceiverInv' /\ EofMeansComplete'
    BY <1>0, <1>6, GetFailsFields DEF ReceiverInv, Received, EofMeansComplete
  <2> QED BY <1>0, <1>t, <1>6, <2>1, <2>2, GetFailsFields, ReceiverFrame DEF IndInv
<1> QED BY <1>0, <1>1, <1>2, <1>3, <1>4, <1>5, <1>6, StepKinds

-----------------------------------------------------------------------------
(* What the applications know of their conns, over any network. *)

\* The applications keep their types.
LEMMA AppTypesStep ==
    ASSUME TypeOK, AppTypes, [HNext]_hvars PROVE AppTypes'
<1>0. snd.err \in Errors /\ rcv.err \in Errors BY DEF TypeOK, Sender, Receiver
<1>1. CASE SourceStep
  <2>1. CASE Opens BY <2>1 DEF Opens, AppTypes
  <2>2. CASE CopyReturns BY <1>0, <2>2 DEF CopyReturns, AppTypes
  <2>3. CASE SourceFails BY <2>3 DEF SourceFails, AppTypes
  <2>4. CASE SourceRefuses BY <2>4 DEF SourceRefuses, SourceSendsError, AppTypes
  <2>5. ASSUME NEW k, CopyWrites(k) \/ SourceCloses(k) PROVE AppTypes'
    BY <2>5 DEF CopyWrites, SourceCloses, AppTypes
  <2> QED BY <1>1, <2>1, <2>2, <2>3, <2>4, <2>5 DEF SourceStep
<1>2. CASE SinkStep
  <2>1. CASE GetReturns \/ GetFails \/ Creates
    BY <2>1 DEF GetReturns, GetFails, Creates, AppTypes
  <2>2. CASE SinkRefuses BY <2>2 DEF SinkRefuses, SinkSendsError, AppTypes
  <2>3. CASE CopyFinds
    <3>1. "nil" \in Errors BY DEF Errors
    <3> QED BY <1>0, <2>3, <3>1 DEF CopyFinds, AppTypes
  <2>4. CASE SinkFails \/ SinkCloses BY <2>4 DEF SinkFails, SinkCloses, AppTypes
  <2>5. ASSUME NEW k, CopyReads(k) PROVE AppTypes' BY <2>5 DEF CopyReads, AppTypes
  <2> QED BY <1>2, <2>1, <2>2, <2>3, <2>4, <2>5 DEF SinkStep
<1>3. CASE SenderGoes \/ ReceiverGoes
  BY <1>3 DEF SenderGoes, ReceiverGoes, TimerFires, appVars, AppTypes
<1>4. CASE NetworkLoses \/ HTerminated \/ UNCHANGED hvars
  BY <1>4 DEF NetworkLoses, HTerminated, hvars, appVars, AppTypes
<1> QED BY <1>1, <1>2, <1>3, <1>4 DEF HNext

\* What the receiving side and the network leave alone.
LEMMA ReceivingFrame ==
    ASSUME ReceiverStep \/ ReaderStep \/ LoseData \/ LoseAck
    PROVE  UNCHANGED << snd, ring >>
BY DEF ReceiverStep, ReadReturns, ReadContinues, ReadDataGivesUp, ReadDataTimeout,
       ReadData, ReaderStep, Read, CloseReceiver, LoseData, LoseAck

\* The steps of the sink, and of the receiver and the network, leave src and
\* the sending conn alone.
LEMMA SinkFrame ==
    ASSUME SinkStep \/ ReceiverGoes \/ NetworkLoses \/ HTerminated \/ UNCHANGED hvars
    PROVE  UNCHANGED << snd, src, flow >>
<1>1. CASE SinkStep
  <2>1. CASE GetReturns \/ GetFails \/ Creates \/ CopyFinds \/ SinkFails
    BY <2>1 DEF GetReturns, GetFails, Creates, CopyFinds, SinkFails, vars
  <2>2. CASE SinkRefuses BY <2>2 DEF SinkRefuses, SinkSendsError
  <2>3. CASE SinkCloses BY <2>3 DEF SinkCloses, CloseReceiver
  <2>4. ASSUME NEW k, CopyReads(k) PROVE UNCHANGED << snd, src, flow >>
    BY <2>4 DEF CopyReads, Read
  <2> QED BY <1>1, <2>1, <2>2, <2>3, <2>4 DEF SinkStep
<1>2. CASE ReceiverGoes
  <2>1. ReceiverStep BY <1>2 DEF ReceiverGoes, ReceiverStep
  <2> QED BY <1>2, <2>1, ReceivingFrame DEF ReceiverGoes, TimerFires, appVars
<1>3. CASE NetworkLoses BY <1>3 DEF NetworkLoses, LoseData, LoseAck, appVars
<1>4. CASE HTerminated \/ UNCHANGED hvars
  BY <1>4 DEF HTerminated, hvars, vars, appVars
<1> QED BY <1>1, <1>2, <1>3, <1>4

\* The source calls its conn only when it may, and closes it at the end.
LEMMA SourceInvStep ==
    ASSUME TypeOK, AppInv, snd.pc = "app" => ~snd.closing, [HNext]_hvars
    PROVE  SourceInv'
<1>0. AppTypes /\ SourceInv /\ snd.closing \in BOOLEAN
  BY Fields DEF AppInv
<1>1. CASE SinkStep \/ ReceiverGoes \/ NetworkLoses \/ HTerminated \/ UNCHANGED hvars
  BY <1>0, <1>1, SinkFrame DEF SourceInv
<1>2. CASE SenderGoes
  <2>1. SenderStep /\ UNCHANGED << src, flow >>
    BY <1>2 DEF SenderGoes, SenderStep, TimerFires, appVars
  <2>2. /\ snd.pc \in {"writeData", "getAck"} /\ snd'.closing = snd.closing
        /\ snd'.pc = "closed" => snd.closing
    BY <2>1, SenderKeepsPipe
  <2> QED BY <1>0, <2>1, <2>2 DEF SourceInv
<1>3. CASE SourceStep
  <2>1. CASE Opens BY <1>0, <2>1 DEF Opens, SourceInv, AppTypes, vars
  <2>2. CASE CopyReturns BY <1>0, <2>2 DEF CopyReturns, SourceInv, AppTypes, vars
  <2>3. CASE SourceFails
    BY <1>0, <2>3 DEF SourceFails, SourceMayWrite, SourceInv, AppTypes, vars
  <2>4. CASE SourceRefuses
    BY <1>0, <2>4 DEF SourceRefuses, SourceSendsError, SourceInv, AppTypes
  <2>5. ASSUME NEW k \in 0 .. MaxFull - ring.wrote, CopyWrites(k) PROVE SourceInv'
    <3>1. /\ snd.pc = "app" /\ src.pc = "copy" /\ src'.pc = "copy"
          /\ snd' = [snd EXCEPT !.pc = "writeData"]
      BY <1>0, <2>5 DEF CopyWrites, SourceMayWrite, Write, AppTypes
    <3>2. snd'.pc = "writeData" /\ snd'.closing = snd.closing
      BY <3>1 DEF TypeOK, Sender
    <3> QED BY <3>1, <3>2 DEF SourceInv
  <2>6. ASSUME NEW k \in 0 .. MaxFull - ring.wrote, SourceCloses(k) PROVE SourceInv'
    <3>1. /\ snd.pc = "app" /\ src.pc = "close" /\ src'.pc = "closed"
          /\ src'.err = src.err
      BY <1>0, <2>6 DEF SourceCloses, AppTypes
    <3>2. src.err \in {snd.err, "file"} BY <1>0, <3>1 DEF SourceInv
    <3>3. CASE snd.err = "nil" /\ HasTxBuf
      <4>1. snd'.pc = "writeData"
        BY <2>6, <3>3 DEF SourceCloses, CloseSender, TypeOK, Sender
      <4> QED BY <3>1, <3>2, <3>3, <4>1 DEF SourceInv
    <3>4. CASE ~(snd.err = "nil" /\ HasTxBuf)
      <4>1. snd' = [snd EXCEPT !.pc = "closed"]
        BY <2>6, <3>4 DEF SourceCloses, CloseSender
      <4>2. snd'.pc = "closed" /\ snd'.closing = snd.closing
        BY <4>1 DEF TypeOK, Sender
      <4> QED BY <3>1, <4>2 DEF SourceInv
    <3> QED BY <3>3, <3>4
  <2> QED BY <1>3, <2>1, <2>2, <2>3, <2>4, <2>5, <2>6 DEF SourceStep
<1> QED BY <1>1, <1>2, <1>3 DEF HNext

\* What the sending side leaves alone.
LEMMA SourceFrame ==
    ASSUME SourceStep \/ SenderGoes
    PROVE  UNCHANGED << rcv, dst, losses >>
<1>1. CASE SourceStep
  <2>1. ASSUME NEW k, CopyWrites(k) \/ SourceCloses(k)
        PROVE  UNCHANGED << rcv, dst, losses >>
    BY <2>1 DEF CopyWrites, SourceCloses, Write, CloseSender
  <2>2. CASE Opens \/ CopyReturns \/ SourceFails \/ SourceRefuses
    BY <2>2 DEF Opens, CopyReturns, SourceFails, SourceRefuses, vars
  <2> QED BY <1>1, <2>1, <2>2 DEF SourceStep
<1>2. CASE SenderGoes
  BY <1>2 DEF SenderGoes, TimerFires, appVars, WriteReturns, WriteData,
              GetAckGivesUp, GetAckTimeout, GetAck
<1> QED BY <1>1, <1>2

\* Nobody reads from a conn before its request is answered or its file made.
LEMMA SinkInvStep ==
    ASSUME AppInv, [HNext]_hvars PROVE SinkInv'
<1>0. AppTypes /\ SinkInv BY DEF AppInv
<1>1. CASE SourceStep \/ SenderGoes BY <1>0, <1>1, SourceFrame DEF SinkInv
<1>2. CASE ReceiverGoes
  <2>1. rcv.pc \in {"read", "readData"} /\ UNCHANGED dst
    BY <1>2 DEF ReceiverGoes, TimerFires, appVars, ReadReturns, ReadContinues,
                ReadDataGivesUp, ReadDataTimeout, ReadData
  <2> QED BY <1>0, <2>1 DEF SinkInv
<1>3. CASE NetworkLoses \/ HTerminated \/ UNCHANGED hvars
  BY <1>0, <1>3 DEF NetworkLoses, LoseData, LoseAck, HTerminated, hvars, vars,
                    appVars, SinkInv
<1>4. CASE SinkStep
  <2>1. CASE GetReturns \/ GetFails \/ Creates
    BY <1>0, <2>1 DEF GetReturns, GetFails, Creates, AppTypes, SinkInv
  <2>2. CASE SinkRefuses
    BY <1>0, <2>2 DEF SinkRefuses, SinkSendsError, AppTypes, SinkInv
  <2>3. CASE CopyFinds \/ SinkFails \/ SinkCloses
    BY <1>0, <2>3 DEF CopyFinds, SinkFails, SinkCloses, AppTypes, SinkInv
  <2>4. ASSUME NEW k, CopyReads(k) PROVE SinkInv'
    BY <1>0, <2>4 DEF CopyReads, AppTypes, SinkInv
  <2> QED BY <1>4, <2>1, <2>2, <2>3, <2>4 DEF SinkStep
<1> QED BY <1>1, <1>2, <1>3, <1>4 DEF HNext

\* Nothing that the applications know gets lost.
LEMMA AppInvStep ==
    ASSUME TypeOK, AppInv, snd.pc = "app" => ~snd.closing, [HNext]_hvars
    PROVE  AppInv'
<1>1. AppTypes' BY AppTypesStep DEF AppInv
<1> QED BY <1>1, SourceInvStep, SinkInvStep DEF AppInv

LEMMA InitApp == HInit => AppInv
<1> SUFFICES ASSUME HInit PROVE AppInv OBVIOUS
<1>1. AppTypes BY EnvironmentsAssumption DEF HInit, AppTypes, Errors
<1>2. SourceInv BY DEF HInit, Init, SourceInv
<1>3. SinkInv BY DEF HInit, Init, SinkInv
<1> QED BY <1>1, <1>2, <1>3 DEF AppInv

-----------------------------------------------------------------------------
(* The Close of the source, over channels that keep the order. *)

\* A receiver that has the last block keeps it.
LEMMA DoneKept ==
    ASSUME FifoInv, [HNext]_hvars, rcv.done PROVE rcv'.done
<1>0. TypeOK BY DEF FifoInv
<1>1. CASE SenderStep BY <1>0, <1>1, SenderKeepsPipe
<1>2. CASE ReceiverStep \/ ReaderStep BY <1>2, DoneStays
<1>3. CASE LoseData \/ LoseAck \/ UNCHANGED vars BY <1>3 DEF LoseData, LoseAck, vars
<1>4. ASSUME NEW k \in Nat, Write(k) \/ CloseSender(k) PROVE rcv'.done
  BY <1>4 DEF Write, CloseSender
<1>5. CASE GetFails BY <1>0, <1>5, GetFailsFields
<1> QED BY <1>0, <1>1, <1>2, <1>3, <1>4, <1>5, StepKinds

\* Close returns nil only when the last block has been received.
LEMMA CloseInvStep ==
    ASSUME Ordered, HandlersInv, [HNext]_hvars PROVE CloseInv'
<1>0. FifoInv /\ TypeOK /\ AppTypes /\ SourceInv /\ CloseInv
  BY DEF HandlersInv, FifoInv, AppInv
<1>1. CASE SinkStep \/ ReceiverGoes \/ NetworkLoses \/ HTerminated \/ UNCHANGED hvars
  BY <1>0, <1>1, SinkFrame, DoneKept DEF CloseInv, HasTxBuf
<1>2. CASE SenderGoes
  <2>1. SenderStep BY <1>2 DEF SenderGoes, SenderStep
  <2> QED BY <1>0, <2>1, NilSender DEF CloseInv
<1>3. CASE SourceStep
  <2>1. CASE Opens \/ CopyReturns \/ SourceFails \/ SourceRefuses
    <3>1. snd' = snd /\ src.pc # "closed"
      BY <2>1 DEF Opens, CopyReturns, SourceFails, SourceMayWrite, SourceRefuses, vars
    <3> QED BY <1>0, <3>1 DEF SourceInv, CloseInv
  <2>2. ASSUME NEW k, CopyWrites(k) PROVE CloseInv'
    <3>1. snd' = [snd EXCEPT !.pc = "writeData"] BY <2>2 DEF CopyWrites, Write
    <3>2. snd'.pc = "writeData" BY <1>0, <3>1 DEF TypeOK, Sender
    <3> QED BY <3>2 DEF CloseInv
  <2>3. ASSUME NEW k, SourceCloses(k) PROVE CloseInv'
    <3>1. HasTxBuf' = HasTxBuf BY <1>0, <2>3 DEF SourceCloses, AppTypes, HasTxBuf
    <3>2. CASE snd.err = "nil" /\ HasTxBuf
      <4>1. snd'.pc = "writeData"
        BY <1>0, <2>3, <3>2 DEF SourceCloses, CloseSender, TypeOK, Sender
      <4> QED BY <4>1 DEF CloseInv
    <3>3. CASE ~(snd.err = "nil" /\ HasTxBuf)
      <4>1. snd' = [snd EXCEPT !.pc = "closed"]
        BY <2>3, <3>3 DEF SourceCloses, CloseSender
      <4>2. snd'.err = snd.err BY <1>0, <4>1 DEF TypeOK, Sender
      <4> QED BY <3>1, <3>3, <4>2 DEF CloseInv
    <3> QED BY <3>2, <3>3
  <2> QED BY <1>3, <2>1, <2>2, <2>3 DEF SourceStep
<1> QED BY <1>1, <1>2, <1>3 DEF HNext

-----------------------------------------------------------------------------
(* The ERROR of a handler. *)

\* What is sent after the ERROR does not overtake it.
LEMMA ErrorStays ==
    ASSUME toRcv \in Seq(ToReceiver), ErrorAhead, NEW m \in ToReceiver,
           toRcv' = toRcv \/ toRcv' = Append(toRcv, m)
    PROVE  ErrorAhead'
<1>1. CASE toRcv' = toRcv BY <1>1 DEF ErrorAhead
<1>2. CASE toRcv' = Append(toRcv, m)
  <2>1. PICK i \in 1 .. Len(toRcv) :
          /\ toRcv[i].op # "DATA"
          /\ \A j \in 1 .. i - 1 : toRcv[j].op = "DATA" => ~toRcv[j].last
    BY DEF ErrorAhead
  <2>2. /\ Len(toRcv') = Len(toRcv) + 1 /\ Len(toRcv) \in Nat
        /\ \A j \in 1 .. Len(toRcv) : toRcv'[j] = toRcv[j]
    BY <1>2, AppendProperties
  <2>3. i \in 1 .. Len(toRcv') /\ \A j \in 1 .. i - 1 : j \in 1 .. Len(toRcv)
    BY <2>2
  <2> QED BY <2>1, <2>2, <2>3 DEF ErrorAhead
<1> QED BY <1>1, <1>2

\* The DATA that arrives before the ERROR is not the last.
LEMMA ErrorNears ==
    ASSUME toRcv \in Seq(ToReceiver), ErrorAhead, toRcv # << >>,
           Head(toRcv).op = "DATA", toRcv' = Tail(toRcv)
    PROVE  ErrorAhead' /\ ~Head(toRcv).last
<1>1. PICK i \in 1 .. Len(toRcv) :
        /\ toRcv[i].op # "DATA"
        /\ \A j \in 1 .. i - 1 : toRcv[j].op = "DATA" => ~toRcv[j].last
  BY DEF ErrorAhead
<1>2. /\ Head(toRcv) = toRcv[1] /\ Len(toRcv') = Len(toRcv) - 1
      /\ Len(toRcv) \in Nat
      /\ \A j \in 1 .. Len(toRcv) - 1 : toRcv'[j] = toRcv[j + 1]
  BY HeadTailProperties
<1>3. i # 1 BY <1>1, <1>2
<1>4. /\ 1 \in 1 .. i - 1 /\ i - 1 \in 1 .. Len(toRcv') /\ (i - 1) + 1 = i
      /\ \A j \in 1 .. (i - 1) - 1 : j \in 1 .. Len(toRcv) - 1 /\ j + 1 \in 1 .. i - 1
  BY <1>2, <1>3
<1>5. ~Head(toRcv).last BY <1>1, <1>2, <1>4
<1>6. toRcv'[i - 1].op # "DATA" BY <1>1, <1>2, <1>4
<1>7. \A j \in 1 .. (i - 1) - 1 : toRcv'[j].op = "DATA" => ~toRcv'[j].last
  BY <1>1, <1>2, <1>4
<1> QED BY <1>4, <1>5, <1>6, <1>7 DEF ErrorAhead

\* WriteError comes before the deferred Close, so that no last block is on its
\* way when the ERROR is sent.
LEMMA RefusesInTime ==
    ASSUME Ordered, FifoInv, ~snd.closing, UNCHANGED rcv,
           toRcv' = Put(toRcv, ToRcvMsg("ERROR"))
    PROVE  ErrorAhead' /\ ~rcv'.done
<1>0. TypeOK /\ RingFifo /\ ReceiverFifo /\ DataFifo BY DEF FifoInv
<1>1. /\ toRcv \in Seq(ToReceiver) /\ Len(toRcv) \in Nat /\ Len(rcv.got) \in Nat
      /\ ring.head \in Nat /\ ring.wrote \in Nat
  BY <1>0, FifoFields, FifoChannels
<1>2. ring.head <= ring.wrote BY <1>0 DEF RingFifo
<1>3. ~rcv.done BY <1>0, <1>1, <1>2 DEF ReceiverFifo, Received
<1> DEFINE e == ToRcvMsg("ERROR")
<1>4. e \in ToReceiver /\ e.op = "ERROR" BY SentMessages DEF ToRcvMsg
<1>5. toRcv' = Append(toRcv, e) BY DEF Put
<1> HIDE DEF e
<1>6. /\ Len(toRcv') = Len(toRcv) + 1 /\ toRcv'[Len(toRcv) + 1] = e
      /\ \A j \in 1 .. Len(toRcv) : toRcv'[j] = toRcv[j]
  BY <1>1, <1>4, <1>5, AppendProperties
<1>7. ASSUME NEW j \in 1 .. Len(toRcv), toRcv[j].op = "DATA" PROVE ~toRcv[j].last
  <2>1. /\ toRcv[j].chunk \in 1 .. ring.head
        /\ toRcv[j].last <=> toRcv[j].chunk = ring.wrote + 1
    BY <1>0, <1>7 DEF DataFifo
  <2> QED BY <1>1, <1>2, <2>1
<1>8. Len(toRcv) + 1 \in 1 .. Len(toRcv') /\ (Len(toRcv) + 1) - 1 = Len(toRcv)
  BY <1>1, <1>6
<1>9. ErrorAhead' BY <1>4, <1>6, <1>7, <1>8 DEF ErrorAhead
<1> QED BY <1>3, <1>9

\* A step of the sender only adds to the end of its channel.
LEMMA SenderSends ==
    ASSUME Ordered, TypeOK, SenderStep
    PROVE  \E m \in ToReceiver : toRcv' = toRcv \/ toRcv' = Append(toRcv, m)
<1>0. ToRcvMsg("ERROR") \in ToReceiver BY SentMessages
<1>1. CASE WriteReturns \/ GetAckTimeout \/ GetAck
  BY <1>0, <1>1 DEF WriteReturns, GetAckTimeout, GetAck
<1>2. CASE GetAckGivesUp BY <1>0, <1>2 DEF GetAckGivesUp, Put
<1>3. CASE WriteData
  <2> DEFINE d == Data(U16(snd.block + 1), NextChunk, Short(NextChunk))
  <2>1. /\ U16(snd.block + 1) \in BlockNo /\ NextChunk \in Nat
        /\ Short(NextChunk) \in BOOLEAN
    <3>1. snd.block + 1 \in Int BY Fields
    <3>2. ring \in Ring BY DEF TypeOK
    <3> QED BY <3>1, <3>2, BlockNoFacts, RingTypes
  <2>2. d \in ToReceiver BY <2>1, SentMessages
  <2>3. toRcv' = toRcv \/ toRcv' = Append(toRcv, d) BY <1>3 DEF WriteData, Put
  <2> QED BY <2>2, <2>3
<1> QED BY <1>1, <1>2, <1>3 DEF SenderStep

\* A receiver that has an ERROR ahead of it does not come to the end.
LEMMA ReceiverMeetsError ==
    ASSUME Ordered, FifoInv, ReceiverStep, ErrorAhead, ~rcv.done
    PROVE  rcv'.err \notin {"nil", "EOF"} \/ (ErrorAhead' /\ ~rcv'.done)
<1>0. TypeOK /\ ReceiverFifo BY DEF FifoInv
<1>1. CASE ReadReturns \/ ReadContinues \/ ReadDataGivesUp \/ ReadDataTimeout
  <2>1. toRcv' = toRcv /\ rcv'.done = rcv.done
    BY <1>0, <1>1 DEF ReadReturns, ReadContinues, ReadDataGivesUp, ReadDataTimeout,
                      TypeOK, Receiver
  <2> QED BY <2>1 DEF ErrorAhead
<1>2. CASE ReadData
  <2> DEFINE m == Head(toRcv)
  <2>0. /\ toRcv # << >> /\ toRcv' = Tail(toRcv) /\ toRcv \in Seq(ToReceiver)
        /\ rcv.err = "nil"
    BY <1>0, <1>2, FifoChannels DEF ReadData, Arrivals, Rest, ReceiverFifo
  <2>1. \/ m.op = "DATA" /\ AckData(m)
        \/ rcv' = [rcv EXCEPT !.tries = @ + 1, !.pc = "app",
                     !.err = IF m.op = "ERROR" THEN "remote" ELSE "unexpected"]
    BY <1>2, <2>0 DEF ReadData, Arrivals
  <2>2. CASE m.op = "DATA" /\ AckData(m)
    <3>1. ErrorAhead' /\ ~m.last BY <2>0, <2>2, ErrorNears
    <3> HIDE DEF m
    <3>2. CASE AcceptData(m)
      <4>1. rcv'.done = (rcv.done \/ m.last) BY <1>0, <2>0, <3>2, AcceptFields
      <4> QED BY <3>1, <4>1
    <3>3. CASE ReportGap \/ IgnoreData
      <4>1. rcv'.done = rcv.done
        BY <1>0, <3>3 DEF ReportGap, SendAck, IgnoreData, TypeOK, Receiver
      <4> QED BY <3>1, <4>1
    <3> QED BY <2>2, <3>2, <3>3 DEF AckData
  <2> HIDE DEF m
  <2>3. CASE rcv' = [rcv EXCEPT !.tries = @ + 1, !.pc = "app",
                       !.err = IF m.op = "ERROR" THEN "remote" ELSE "unexpected"]
    BY <1>0, <2>3 DEF TypeOK, Receiver
  <2> QED BY <2>1, <2>2, <2>3
<1> QED BY <1>1, <1>2 DEF ReceiverStep

\* A handler that has called WriteError keeps its ERROR ahead of the end.
LEMMA RefusalStep ==
    ASSUME Ordered, HandlersInv, [HNext]_hvars PROVE RefusalInv'
<1>0. /\ FifoInv /\ TypeOK /\ AppTypes /\ SourceInv /\ RefusalInv
      /\ toRcv \in Seq(ToReceiver) /\ losses \in Nat
      /\ rcv.pc \in {"read", "readData"} => rcv.err = "nil"
  BY FifoChannels DEF HandlersInv, AppInv, FifoInv, TypeOK, ReceiverFifo
<1> SUFFICES ASSUME src'.refused, losses' = 0
             PROVE  rcv'.err \notin {"nil", "EOF"} \/ (ErrorAhead' /\ ~rcv'.done)
  BY DEF RefusalInv
<1>1. CASE SourceRefuses
  <2>1. UNCHANGED << rcv, losses >> BY <1>1 DEF SourceRefuses
  <2>2. CASE toRcv' = Put(toRcv, ToRcvMsg("ERROR"))
    <3>1. ~snd.closing BY <1>0, <1>1 DEF SourceRefuses, SourceInv
    <3> QED BY <1>0, <2>1, <2>2, <3>1, RefusesInTime
  <2>3. CASE toRcv' = toRcv /\ src' = [src EXCEPT !.pc = "close"]
    <3>1. src.refused BY <1>0, <2>3 DEF AppTypes
    <3> QED BY <1>0, <2>1, <2>3, <3>1 DEF RefusalInv, ErrorAhead
  <2> QED BY <1>1, <2>2, <2>3 DEF SourceRefuses, SourceSendsError
<1>2. ASSUME UNCHANGED << rcv, toRcv, losses >>, src'.refused = src.refused
      PROVE  rcv'.err \notin {"nil", "EOF"} \/ (ErrorAhead' /\ ~rcv'.done)
  BY <1>0, <1>2 DEF RefusalInv, ErrorAhead
<1>3. CASE SourceStep
  <2>1. CASE Opens \/ CopyReturns \/ SourceFails
    <3>1. UNCHANGED << rcv, toRcv, losses >> /\ src'.refused = src.refused
      BY <1>0, <2>1 DEF Opens, CopyReturns, SourceFails, vars, AppTypes
    <3> QED BY <1>2, <3>1
  <2>2. ASSUME NEW k, CopyWrites(k) \/ SourceCloses(k)
        PROVE  UNCHANGED << rcv, toRcv, losses >> /\ src'.refused = src.refused
    <3>1. UNCHANGED << rcv, toRcv, losses >>
      BY <2>2 DEF CopyWrites, SourceCloses, Write, CloseSender
    <3>2. src'.refused = src.refused
      BY <1>0, <2>2 DEF CopyWrites, SourceCloses, AppTypes
    <3> QED BY <3>1, <3>2
  <2> QED BY <1>1, <1>2, <1>3, <2>1, <2>2 DEF SourceStep
<1>4. CASE SenderGoes
  <2>1. SenderStep /\ UNCHANGED << src, rcv, losses >>
    <3>1. SenderStep /\ UNCHANGED src
      BY <1>4 DEF SenderGoes, SenderStep, TimerFires, appVars
    <3> QED BY <1>4, <3>1, SourceFrame
  <2>2. PICK m \in ToReceiver : toRcv' = toRcv \/ toRcv' = Append(toRcv, m)
    BY <1>0, <2>1, SenderSends
  <2>3. ErrorAhead => ErrorAhead' BY <1>0, <2>2, ErrorStays
  <2> QED BY <1>0, <2>1, <2>3 DEF RefusalInv
<1>5. CASE ReceiverGoes
  <2>1. /\ ReceiverStep /\ UNCHANGED << src, losses >>
        /\ rcv.pc \in {"read", "readData"}
    BY <1>5 DEF ReceiverGoes, ReceiverStep, TimerFires, appVars, ReadReturns,
                ReadContinues, ReadDataGivesUp, ReadDataTimeout, ReadData
  <2>2. ErrorAhead /\ ~rcv.done BY <1>0, <2>1 DEF RefusalInv
  <2> QED BY <1>0, <2>1, <2>2, ReceiverMeetsError
<1>6. CASE NetworkLoses
  <2>1. losses' = losses + 1 BY <1>6 DEF NetworkLoses, LoseData, LoseAck
  <2> QED BY <1>0, <2>1
<1>7. CASE HTerminated \/ UNCHANGED hvars
  BY <1>2, <1>7 DEF HTerminated, hvars, vars, appVars
<1>8. CASE SinkStep
  <2>1. CASE GetReturns \/ Creates \/ CopyFinds \/ SinkFails \/ SinkRefuses
    BY <1>2, <2>1 DEF GetReturns, Creates, CopyFinds, SinkFails, SinkRefuses,
                      SinkSendsError, vars
  <2>2. CASE GetFails BY <1>0, <2>2 DEF GetFails, TypeOK, Receiver
  <2>3. ASSUME UNCHANGED << toRcv, losses, src >>,
               rcv'.err = rcv.err, rcv'.done = rcv.done
        PROVE  rcv'.err \notin {"nil", "EOF"} \/ (ErrorAhead' /\ ~rcv'.done)
    BY <1>0, <2>3 DEF RefusalInv, ErrorAhead
  <2>4. CASE SinkCloses
    BY <1>0, <2>3, <2>4 DEF SinkCloses, CloseReceiver, TypeOK, Receiver
  <2>5. ASSUME NEW k, CopyReads(k)
        PROVE  rcv'.err \notin {"nil", "EOF"} \/ (ErrorAhead' /\ ~rcv'.done)
    <3>1. /\ UNCHANGED << toRcv, losses, src >>
          /\ rcv'.err = rcv.err /\ rcv'.done = rcv.done
      BY <1>0, <2>5 DEF CopyReads, Read, TypeOK, Receiver
    <3> QED BY <2>3, <3>1
  <2> QED BY <1>8, <2>1, <2>2, <2>4, <2>5 DEF SinkStep
<1> QED BY <1>3, <1>4, <1>5, <1>6, <1>7, <1>8 DEF HNext

-----------------------------------------------------------------------------
(* The results. *)

\* The applications start with an empty file or an unanswered request, and
\* nothing in the conns.
LEMMA InitHandlers == Ordered /\ HInit => HandlersInv
<1> SUFFICES ASSUME Ordered, HInit PROVE HandlersInv OBVIOUS
<1>1. FifoInv BY InitFifo DEF HInit
<1>2. CloseInv /\ RefusalInv BY DEF HInit, Init, CloseInv, RefusalInv
<1> QED BY <1>1, <1>2, InitApp DEF HandlersInv

\* The invariant is inductive.
LEMMA NextHandlers == Ordered /\ HandlersInv /\ [HNext]_hvars => HandlersInv'
<1> SUFFICES ASSUME Ordered, HandlersInv, [HNext]_hvars PROVE HandlersInv' OBVIOUS
<1>1. FifoInv' BY ConnsFifo DEF HandlersInv
<1>2. AppInv' BY AppInvStep DEF HandlersInv, FifoInv, SenderFifo
<1>3. CloseInv' BY CloseInvStep
<1>4. RefusalInv' BY RefusalStep
<1> QED BY <1>1, <1>2, <1>3, <1>4 DEF HandlersInv

\* The inductive invariant of two applications and their conns.
THEOREM HandlersInvariance == Ordered => (HSpec => []HandlersInv)
<1> SUFFICES ASSUME Ordered PROVE HSpec => []HandlersInv OBVIOUS
<1> QED BY InitHandlers, NextHandlers, PTL DEF HSpec

\* Over channels that keep the order, a Put that returns nil has read its file
\* to the end, and the server's conn has all of it: neither io.Copy's error nor
\* that of the deferred Close gets lost, and getAck takes no stale ACK for that
\* of the last block.
THEOREM PutIsHonest == Ordered => (HSpec => []PutNilMeansReceived)
<1> SUFFICES ASSUME Ordered PROVE HSpec => []PutNilMeansReceived OBVIOUS
<1>1. ASSUME HandlersInv PROVE PutNilMeansReceived
  <2> SUFFICES ASSUME flow = "put", SourceReturned, PutErr = "nil"
               PROVE  rcv.done /\ src.err = "nil" /\ Len(rcv.got) = ring.wrote + 1
    BY DEF PutNilMeansReceived
  <2>1. src.err = "nil" /\ snd.err = "nil" BY DEF PutErr
  <2>2. rcv.done BY <1>1, <2>1 DEF SourceReturned, HandlersInv, CloseInv, HasTxBuf
  <2> QED BY <1>1, <2>1, <2>2 DEF HandlersInv, FifoInv, ReceiverFifo, Received
<1>2. HandlersInv => PutNilMeansReceived BY <1>1
<1> QED BY <1>2, HandlersInvariance, PTL

\* Over channels that keep the order, a reader that is told io.EOF has all that
\* the writer wrote before its Close, in order and once, and the writer's
\* io.Copy failed at most on the file, never on the conn.
THEOREM EofIsTheWritersEnd == Ordered => (HSpec => []EofMeansWholeFile)
<1> SUFFICES ASSUME Ordered PROVE HSpec => []EofMeansWholeFile OBVIOUS
<1>1. HandlersInv => EofMeansWholeFile
  BY DEF HandlersInv, AppInv, FifoInv, EofMeansComplete, SourceInv,
         EofMeansWholeFile
<1> QED BY <1>1, HandlersInvariance, PTL

\* The receiver of a handler that has called WriteError does not see io.EOF,
\* although the deferred Close sends a last block, unless a datagram is lost.
THEOREM ErrorsArrive == Ordered => (HSpec => []ErrorBeforeEof)
<1> SUFFICES ASSUME Ordered PROVE HSpec => []ErrorBeforeEof OBVIOUS
<1>1. ASSUME HandlersInv PROVE ErrorBeforeEof
  <2>1. rcv.err = "EOF" => rcv.done
    BY <1>1 DEF HandlersInv, FifoInv, EofMeansComplete, ReceiverFifo, Received
  <2> QED BY <1>1, <2>1 DEF HandlersInv, RefusalInv, ErrorBeforeEof
<1>2. HandlersInv => ErrorBeforeEof BY <1>1
<1> QED BY <1>2, HandlersInvariance, PTL

\* What a step of the applications is to the abstract Pipe.
LEMMA CopiesStep ==
    ASSUME TypeOK, SinkInv, EofMeansComplete', AcceptsNext, [HNext]_hvars,
           snd.pc = "app" => ~snd.closing,
           rcv.pc \in {"read", "readData"} => rcv.err = "nil"
    PROVE  [P!Next]_P!vars
<1>1. CASE [Next]_vars BY <1>1, StepImplements
<1>2. CASE \/ SenderStep \/ ReceiverStep \/ ReaderStep
           \/ LoseData \/ LoseAck \/ UNCHANGED vars
  BY <1>1, <1>2 DEF Next
<1>3. ASSUME NEW k \in Nat, Write(k) \/ CloseSender(k) PROVE [P!Next]_P!vars
  <2>1. ~snd.closing BY <1>3 DEF Write, CloseSender
  <2> QED BY <1>3, <2>1, WriterImplements
<1>4. CASE /\ snd.pc = "app" /\ snd' = [snd EXCEPT !.pc = "closed"]
           /\ UNCHANGED << ring, rcv, toRcv, toSnd, losses >>
  <2>1. snd'.closing = snd.closing BY <1>4 DEF TypeOK, Sender
  <2> QED BY <1>4, <2>1 DEF P!vars
<1>5. CASE GetFails
  <2>1. rcv.err = "nil" BY <1>5 DEF GetFails, SinkInv
  <2>2. /\ UNCHANGED << snd, ring >>
        /\ rcv'.err \in {"remote", "timeout"} /\ rcv'.got = rcv.got
    BY <1>5, GetFailsFields
  <2> QED BY <2>1, <2>2 DEF P!vars
<1>6. CASE UNCHANGED << snd, ring, rcv >> BY <1>6 DEF P!vars
<1> QED BY <1>2, <1>3, <1>4, <1>5, <1>6, StepKinds

\* Put and Get with their handlers are a pipe, whichever of them fails.
THEOREM CopiesImplementPipe == Ordered => (HSpec => ImplementsPipe)
<1> SUFFICES ASSUME Ordered PROVE HSpec => P!Spec BY DEF ImplementsPipe
<1>1. ASSUME HandlersInv, HandlersInv', [HNext]_hvars PROVE [P!Next]_P!vars
  BY <1>1, FifoAcceptsNext, CopiesStep
  DEF HandlersInv, AppInv, FifoInv, SenderFifo, ReceiverFifo
<1>2. HandlersInv /\ HandlersInv' /\ [HNext]_hvars => [P!Next]_P!vars BY <1>1
<1>3. HInit => P!Init BY InitImplements DEF HInit
<1> QED BY <1>2, <1>3, HandlersInvariance, PTL DEF HSpec, P!Spec

-----------------------------------------------------------------------------
(* The same over a network that loses, duplicates and reorders. *)

\* The inductive invariant of the applications and their conns over any
\* network, for files that do not exhaust the block numbers.
THEOREM UdpHandlersInvariance == NoWrap => (HSpec => []UdpHandlersInv)
<1> SUFFICES ASSUME NoWrap PROVE HSpec => []UdpHandlersInv OBVIOUS
<1>1. HInit => UdpHandlersInv BY InitInv, InitApp DEF HInit, UdpHandlersInv
<1>2. ASSUME UdpHandlersInv, [HNext]_hvars PROVE UdpHandlersInv'
  <2>1. IndInv' BY <1>2, ConnsUdp DEF UdpHandlersInv
  <2>2. AppInv' BY <1>2, AppInvStep DEF UdpHandlersInv, IndInv, SenderInv
  <2> QED BY <2>1, <2>2 DEF UdpHandlersInv
<1>3. UdpHandlersInv /\ [HNext]_hvars => UdpHandlersInv' BY <1>2
<1> QED BY <1>1, <1>3, PTL DEF HSpec

\* Whatever UDP does to the datagrams, also to an ERROR, a reader that is told
\* io.EOF has all that the writer wrote before its Close, in order and once,
\* and the writer's io.Copy failed at most on the file.
THEOREM UdpEofIsTheWritersEnd == NoWrap => (HSpec => []EofMeansWholeFile)
<1> SUFFICES ASSUME NoWrap PROVE HSpec => []EofMeansWholeFile OBVIOUS
<1>1. UdpHandlersInv => EofMeansWholeFile
  BY DEF UdpHandlersInv, AppInv, IndInv, EofMeansComplete, SourceInv,
         EofMeansWholeFile
<1> QED BY <1>1, UdpHandlersInvariance, PTL

\* ... and Put and Get with their handlers are a pipe, whichever of them fails.
THEOREM UdpCopiesImplementPipe == NoWrap => (HSpec => ImplementsPipe)
<1> SUFFICES ASSUME NoWrap PROVE HSpec => P!Spec BY DEF ImplementsPipe
<1>1. ASSUME UdpHandlersInv, UdpHandlersInv', [HNext]_hvars PROVE [P!Next]_P!vars
  BY <1>1, UdpAcceptsNext, CopiesStep
  DEF UdpHandlersInv, AppInv, IndInv, SenderInv, ReceiverInv
<1>2. UdpHandlersInv /\ UdpHandlersInv' /\ [HNext]_hvars => [P!Next]_P!vars BY <1>1
<1>3. HInit => P!Init BY InitImplements DEF HInit
<1> QED BY <1>2, <1>3, UdpHandlersInvariance, PTL DEF HSpec, P!Spec
=============================================================================
