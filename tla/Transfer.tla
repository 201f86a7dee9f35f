------------------------------ MODULE Transfer ------------------------------
(***************************************************************************)
(* The DATA/ACK phase of a TFTP transfer: two conns of conn.go, one that   *)
(* sends (Write, Close) and one that receives (Read), after the options    *)
(* have been negotiated, over the channels of module Network.              *)
(*                                                                         *)
(* Data is counted in blocks of blksize bytes.  Chunk c of the file is its *)
(* c-th block; chunks 1 .. wrote are full, and the chunk that Close makes  *)
(* of what is left (possibly nothing) is short.  A DATA datagram carries a *)
(* chunk and whether it is short.  Which chunk it carries is independent   *)
(* of its block number: that the two agree is what has to be shown.        *)
(*                                                                         *)
(* A state function of conn.go (writeData, getAck, read, readData) is a    *)
(* value of the field pc, and the actions of a conn are the ways through   *)
(* that function.  pc = "app" means that the state machine has returned    *)
(* nil and the application (or Close's caller) has the control.            *)
(***************************************************************************)
EXTENDS Network, Integers

CONSTANTS
    WindowSize,     \* conn.windowsize, the same on both sides
    BlockMod,       \* number of block numbers: 2^16 for a uint16
    Retransmit,     \* conn.retransmit, the same on both sides
    MaxFull,        \* bound: full blocks an application writes at most
    MaxRead,        \* bound: blocks that fit in the p of one Read
    MaxLosses,      \* bound: datagrams lost by an Ordered network
    Lateness,       \* how early a timer may fire, see CanExpire
    NetFails,       \* whether WriteTo may return an error
    ReaderQuits,    \* whether the reader may stop before EOF
    LeftToSender,   \* datagrams of the negotiation that are still on their
    LeftToReceiver  \* way (or duplicated) when the first DATA is sent

VARIABLES
    snd,        \* conn fields of the sending side
    ring,       \* its txBuf
    rcv,        \* conn fields of the receiving side
    toRcv,      \* channel from the sender to the receiver
    toSnd,      \* channel from the receiver to the sender
    losses      \* datagrams lost so far

vars == << snd, ring, rcv, toRcv, toSnd, losses >>

-----------------------------------------------------------------------------
\* Arithmetic on block numbers wraps around, as on a uint16.
U16(n) == n % BlockMod

BlockNo == 0 .. BlockMod - 1

ToReceiver == [op : {"DATA", "ERROR", "OACK"}, block : BlockNo, chunk : Nat,
               last : BOOLEAN]

\* A STRAY is any datagram that comes from another address than remoteAddr.
ToSender == [op : {"ACK", "ERROR", "OACK", "STRAY"}, block : BlockNo]

Data(b, c, short) == [op |-> "DATA", block |-> b, chunk |-> c, last |-> short]
ToRcvMsg(o) == [op |-> o, block |-> 0, chunk |-> 0, last |-> FALSE]
Ack(b) == [op |-> "ACK", block |-> b]
ToSndMsg(o) == [op |-> o, block |-> 0]

ASSUME ConstantsAssumption ==
    /\ WindowSize \in Nat \ {0}
    /\ BlockMod \in Nat /\ WindowSize < BlockMod
    /\ Retransmit \in Nat
    /\ MaxFull \in Nat /\ MaxRead \in Nat \ {0}
    /\ MaxLosses \in Nat /\ Lateness \in Nat
    /\ NetFails \in BOOLEAN /\ ReaderQuits \in BOOLEAN

\* What the negotiation may leave behind: the ACK of block 0, an OACK, a
\* datagram from elsewhere, the OACK or the ERROR of a conn that the server
\* made for a duplicate of the request, but never DATA.
ASSUME LeftoversAssumption ==
    /\ LeftToSender \in Channel({Ack(0), ToSndMsg("OACK"), ToSndMsg("STRAY")})
    /\ LeftToReceiver \in Channel({ToRcvMsg("OACK"), ToRcvMsg("ERROR")})

Errors == {"nil", "timeout", "maxRetries", "remote", "unexpected", "network",
           "EOF"}

Sender ==
    [pc : {"app", "writeData", "getAck", "closed"}, block : BlockNo,
     window : Nat, tries : Nat, err : Errors,
     closing : BOOLEAN, done : BOOLEAN]

Ring == [wrote : Nat, current : Int, head : Nat,
         slots : [0 .. WindowSize - 1 -> Nat]]

Receiver ==
    [pc : {"app", "read", "readData", "closed"}, block : BlockNo,
     window : Nat, catchup : BOOLEAN, tries : Nat,
     err : Errors, done : BOOLEAN, got : Seq(Nat), out : Nat, want : Nat]

Init ==
    /\ snd = [pc |-> "app", block |-> 0, window |-> 0, tries |-> 0,
              err |-> "nil", closing |-> FALSE, done |-> FALSE]
    /\ ring = [wrote |-> 0, current |-> 0, head |-> 0,
               slots |-> [s \in 0 .. WindowSize - 1 |-> 0]]
    /\ rcv = [pc |-> "app", block |-> 0, window |-> 0, catchup |-> FALSE,
              tries |-> 0, err |-> "nil", done |-> FALSE,
              got |-> << >>, out |-> 0, want |-> 0]
    /\ toRcv = LeftToReceiver
    /\ toSnd = LeftToSender
    /\ losses = 0

(***************************************************************************)
(* readFromNet returns an error when its deadline passes.  The deadline    *)
(* may pass at any time, but a bound is needed for FIFO channels, where    *)
(* every expiry of the receiver adds a datagram: it passes only while at   *)
(* most Lateness datagrams are on the way.  Lateness = 0 stands for a      *)
(* prompt environment: a timer fires only when both sides wait and no      *)
(* datagram is left to deliver.  A closed socket receives nothing more.    *)
(***************************************************************************)
OnTheWay ==
    (IF rcv.pc = "closed" THEN 0 ELSE InFlight(toRcv))
    + (IF snd.pc = "closed" THEN 0 ELSE InFlight(toSnd))

CanExpire ==
    /\ OnTheWay <= Lateness
    /\ (Ordered /\ Lateness = 0) => /\ snd.pc \in {"getAck", "closed"}
                                    /\ rcv.pc \in {"readData", "closed"}

-----------------------------------------------------------------------------
(* The ring buffer.  Chunks head+1 .. wrote are in the bytes.Buffer; slot  *)
(* (c - 1) % WindowSize is where chunk c is kept for retransmission.       *)

Slot == ring.current % WindowSize

\* ringBuffer.Len() >= blksize.
HasBlock == ring.current < ring.head \/ ring.head < ring.wrote

\* ringBuffer.Read: the chunk it returns ...
NextChunk ==
    IF ring.current # ring.head THEN ring.slots[Slot] ELSE ring.head + 1

\* ... and its effect.
RingRead ==
    IF ring.current # ring.head
    THEN [ring EXCEPT !.current = @ + 1]
    ELSE [ring EXCEPT !.slots[Slot] = ring.head + 1,
                      !.current = @ + 1, !.head = @ + 1]

\* ringBuffer.UnreadSlots.
UnreadSlots(n) == [ring EXCEPT !.current = @ - n]

\* n < blksize, of the n bytes of chunk c.
Short(c) == c \notin 1 .. ring.wrote

-----------------------------------------------------------------------------
(* The sending conn. *)

\* Where the state machine returns to: Close has called Write itself.
Returned == IF snd.closing THEN "closed" ELSE "app"

\* conn.Write, called with enough data to complete k blocks.
Write(k) ==
    /\ snd.pc = "app" /\ snd.err = "nil"
    /\ ring' = [ring EXCEPT !.wrote = @ + k]
    /\ snd' = [snd EXCEPT !.pc = "writeData"]
    /\ UNCHANGED << rcv, toRcv, toSnd, losses >>

\* conn.Close; flushing the netascii writer completes k more blocks.  The
\* first version is wrong: it does not look at the error of the conn.
CloseSenderAnyway(k) ==
    /\ snd.pc = "app"
    /\ snd' = [snd EXCEPT !.pc = "writeData", !.closing = TRUE]
    /\ ring' = [ring EXCEPT !.wrote = @ + k]
    /\ UNCHANGED << rcv, toRcv, toSnd, losses >>
CloseSender(k) ==
    /\ snd.pc = "app"
    /\ IF snd.err # "nil"
       THEN /\ snd' = [snd EXCEPT !.pc = "closed"]
            /\ UNCHANGED ring
       ELSE /\ snd' = [snd EXCEPT !.pc = "writeData", !.closing = TRUE]
            /\ ring' = [ring EXCEPT !.wrote = @ + k]
    /\ UNCHANGED << rcv, toRcv, toSnd, losses >>

\* conn.writeData has nothing to send and returns nil.
NothingToWrite ==
    IF snd.closing THEN snd.done ELSE ~HasBlock

WriteReturns ==
    /\ snd.pc = "writeData" /\ NothingToWrite
    /\ snd' = [snd EXCEPT !.pc = Returned]
    /\ UNCHANGED << ring, rcv, toRcv, toSnd, losses >>

\* c.window < c.windowsize, after c.window++.  The first version is wrong.
WindowOpenTooLong == snd.window < WindowSize
WindowOpen == snd.window + 1 < WindowSize

\* The conn after writeData has sent block number b.
AfterData(b, short) ==
    LET more == ~short /\ WindowOpen
    IN  [snd EXCEPT !.block = b,
                    !.window = IF more \/ short THEN @ + 1 ELSE 0,
                    !.done = @ \/ short,
                    !.pc = IF more THEN "writeData" ELSE "getAck"]

\* conn.writeData sends one DATA datagram, or WriteTo fails.
WriteData ==
    /\ snd.pc = "writeData" /\ ~NothingToWrite
    /\ ring' = RingRead
    /\ LET b == U16(snd.block + 1)
           short == Short(NextChunk)
       IN  \/ /\ toRcv' = Put(toRcv, Data(b, NextChunk, short))
              /\ snd' = AfterData(b, short)
           \/ /\ NetFails
              /\ snd' = [snd EXCEPT !.block = b, !.err = "network",
                                    !.pc = Returned]
              /\ UNCHANGED toRcv
    /\ UNCHANGED << rcv, toSnd, losses >>

\* c.tries > c.retransmit, after c.tries++.
GetAckExhausted == snd.tries + 1 > Retransmit

\* conn.getAck gives up; sendError's own failure is only logged.
GetAckGivesUp ==
    /\ snd.pc = "getAck" /\ GetAckExhausted
    /\ snd' = [snd EXCEPT !.tries = @ + 1, !.err = "maxRetries",
                          !.pc = Returned]
    /\ \/ toRcv' = Put(toRcv, ToRcvMsg("ERROR"))
       \/ NetFails /\ UNCHANGED toRcv
    /\ UNCHANGED << ring, rcv, toSnd, losses >>

\* conn.getAck: readFromNet fails; the error is kept and getAck runs again.
\* The first version is wrong: it does not count the try.
GetAckTimeoutUncounted ==
    /\ snd.pc = "getAck" /\ ~GetAckExhausted
    /\ CanExpire
    /\ snd' = [snd EXCEPT !.err = "timeout"]
    /\ UNCHANGED << ring, rcv, toRcv, toSnd, losses >>

GetAckTimeout ==
    /\ snd.pc = "getAck" /\ ~GetAckExhausted
    /\ CanExpire
    /\ snd' = [snd EXCEPT !.tries = @ + 1, !.err = "timeout"]
    /\ UNCHANGED << ring, rcv, toRcv, toSnd, losses >>

\* The conn after a rollback to block b.  The first version is wrong.
StillDone(b) ==
    [snd EXCEPT !.block = b, !.window = 0, !.tries = 0, !.pc = "writeData"]
AfterRollback(b) ==
    [snd EXCEPT !.block = b, !.window = 0, !.done = FALSE,
                !.tries = 0, !.pc = "writeData"]

\* conn.getAck handles an ACK: it rolls back, ignores it, or goes on.
RollsBack(b) == b < snd.block

HandleAck(b) ==
    IF RollsBack(b)
    THEN /\ ring' = UnreadSlots(snd.block - b)
         /\ snd' = AfterRollback(b)
    ELSE /\ snd' = IF b > snd.block THEN [snd EXCEPT !.tries = @ + 1]
                   ELSE [snd EXCEPT !.tries = 0, !.pc = "writeData"]
         /\ UNCHANGED ring

\* conn.getAck receives a datagram.
GetAck ==
    /\ snd.pc = "getAck" /\ ~GetAckExhausted
    /\ \E m \in Arrivals(toSnd) :
         /\ \/ m.op = "ACK" /\ HandleAck(m.block)
            \/ /\ m.op # "ACK"
               /\ snd' = [snd EXCEPT !.tries = @ + 1,
                            !.err = CASE m.op = "ERROR" -> "remote"
                                      [] m.op = "OACK"  -> "unexpected"
                                      [] m.op = "STRAY" -> @,
                            !.pc = IF m.op = "STRAY" THEN @ ELSE Returned]
               /\ UNCHANGED ring
    /\ toSnd' = Rest(toSnd)
    /\ UNCHANGED << rcv, toRcv, losses >>

-----------------------------------------------------------------------------
(* The receiving conn.  got is all that was ever written to rxBuf, out the *)
(* number of its chunks the application has read.                          *)

\* conn.Read with room for k blocks.
Read(k) ==
    /\ rcv.pc = "app" /\ rcv.err = "nil"
    /\ rcv' = [rcv EXCEPT !.want = k, !.pc = "read"]
    /\ UNCHANGED << snd, ring, toRcv, toSnd, losses >>

\* conn.Close; the receiving conn has no txBuf to flush.
CloseReceiver ==
    /\ rcv.pc = "app" /\ (rcv.err # "nil" \/ ReaderQuits)
    /\ rcv' = [rcv EXCEPT !.pc = "closed"]
    /\ UNCHANGED << snd, ring, toRcv, toSnd, losses >>

\* conn.read: the buffer can fill p, or nothing more will come.
CanReturn == Len(rcv.got) - rcv.out >= rcv.want \/ rcv.done

\* c.done && c.rxBuf.Len() == 0.  The first version is wrong.
AtEndOfBuffer(upTo) == upTo = Len(rcv.got)
AtEnd(upTo) == rcv.done /\ upTo = Len(rcv.got)

ReadReturns ==
    /\ rcv.pc = "read" /\ CanReturn
    /\ LET upTo == IF Len(rcv.got) - rcv.out >= rcv.want
                   THEN rcv.out + rcv.want ELSE Len(rcv.got)
       IN  rcv' = [rcv EXCEPT
                     !.out = upTo,
                     !.err = IF AtEnd(upTo) THEN "EOF" ELSE @,
                     !.pc = "app"]
    /\ UNCHANGED << snd, ring, toRcv, toSnd, losses >>

ReadContinues ==
    /\ rcv.pc = "read" /\ ~CanReturn
    /\ rcv' = [rcv EXCEPT !.pc = "readData"]
    /\ UNCHANGED << snd, ring, toRcv, toSnd, losses >>

\* c.tries >= c.retransmit.
ReadDataExhausted == rcv.tries >= Retransmit

\* conn.readData gives up; sendError's own failure is only logged.
ReadDataGivesUp ==
    /\ rcv.pc = "readData" /\ ReadDataExhausted
    /\ rcv' = [rcv EXCEPT !.err = "maxRetries", !.pc = "app"]
    /\ \/ toSnd' = Put(toSnd, ToSndMsg("ERROR"))
       \/ NetFails /\ UNCHANGED toSnd
    /\ UNCHANGED << snd, ring, toRcv, losses >>

\* conn.readData: readFromNet fails; the last ACK is sent again.
ReadDataTimeout ==
    /\ rcv.pc = "readData" /\ ~ReadDataExhausted
    /\ CanExpire
    /\ rcv' = [rcv EXCEPT !.tries = @ + 1, !.window = 0]
    /\ \/ toSnd' = Put(toSnd, Ack(rcv.block))
       \/ NetFails /\ UNCHANGED toSnd
    /\ UNCHANGED << snd, ring, toRcv, losses >>

\* conn.sendAck for block b: the conn is then r, or failed if WriteTo fails.
SendAck(b, r, failed) ==
    \/ /\ toSnd' = Put(toSnd, Ack(b))
       /\ rcv' = r
    \/ /\ NetFails
       /\ rcv' = [failed EXCEPT !.err = "network", !.pc = "app"]
       /\ UNCHANGED toSnd

\* c.window < c.windowsize, after c.window++.  The first version is wrong.
AckWithheld == rcv.window < WindowSize
AckNotDue == rcv.window + 1 < WindowSize

\* conn.ackData, diff = 1: the expected block.
AcceptData(m) ==
    LET r == [rcv EXCEPT !.tries = 0, !.block = U16(@ + 1), !.catchup = FALSE,
                         !.got = Append(@, m.chunk), !.done = @ \/ m.last,
                         !.pc = "read"]
        acked == [r EXCEPT !.window = 0]
    IN  IF AckNotDue /\ ~m.last
        THEN /\ rcv' = [r EXCEPT !.window = @ + 1]
             /\ UNCHANGED toSnd
        ELSE SendAck(r.block, acked, acked)

\* conn.ackData, 1 < diff <= windowsize: blocks are missing.
ReportGap ==
    LET r == [rcv EXCEPT !.tries = 0, !.pc = "read"]
    IN  SendAck(rcv.block, [r EXCEPT !.window = 0, !.catchup = TRUE], r)

\* conn.ackData: an old block, or one of a window that was reset.
IgnoreData ==
    /\ rcv' = [rcv EXCEPT !.tries = 0, !.pc = "read"]
    /\ UNCHANGED toSnd

\* case diff == 1.  The first version is wrong.
AnyInWindow(diff) == diff \in 1 .. WindowSize
Expected(diff) == diff = 1

AckData(m) ==
    LET diff == U16(m.block - rcv.block)
    IN  IF Expected(diff) THEN AcceptData(m)
        ELSE IF diff \in 2 .. WindowSize /\ ~rcv.catchup THEN ReportGap
        ELSE IgnoreData

\* conn.readData receives a datagram.
ReadData ==
    /\ rcv.pc = "readData" /\ ~ReadDataExhausted
    /\ \E m \in Arrivals(toRcv) :
         \/ m.op = "DATA" /\ AckData(m)
         \/ /\ m.op # "DATA"
            /\ rcv' = [rcv EXCEPT !.tries = @ + 1, !.pc = "app",
                         !.err = IF m.op = "ERROR" THEN "remote"
                                 ELSE "unexpected"]
            /\ UNCHANGED toSnd
    /\ toRcv' = Rest(toRcv)
    /\ UNCHANGED << snd, ring, losses >>

-----------------------------------------------------------------------------
\* A FIFO network loses the datagram at the head of a channel.
LoseData ==
    /\ Ordered /\ losses < MaxLosses /\ toRcv # << >>
    /\ toRcv' = Tail(toRcv) /\ losses' = losses + 1
    /\ UNCHANGED << snd, ring, rcv, toSnd >>

LoseAck ==
    /\ Ordered /\ losses < MaxLosses /\ toSnd # << >>
    /\ toSnd' = Tail(toSnd) /\ losses' = losses + 1
    /\ UNCHANGED << snd, ring, rcv, toRcv >>

Finished == snd.pc = "closed" /\ rcv.pc = "closed"

\* The end of a transfer is not a deadlock.
Terminated == Finished /\ UNCHANGED vars

WriterStep ==
    \/ \E k \in 1 .. MaxFull - ring.wrote : Write(k)
    \/ \E k \in 0 .. MaxFull - ring.wrote : CloseSender(k)

SenderStep ==
    WriteReturns \/ WriteData \/ GetAckGivesUp \/ GetAckTimeout \/ GetAck

ReaderStep == (\E k \in 1 .. MaxRead : Read(k)) \/ CloseReceiver

ReceiverStep ==
    \/ ReadReturns \/ ReadContinues
    \/ ReadDataGivesUp \/ ReadDataTimeout \/ ReadData

Next ==
    \/ WriterStep \/ SenderStep \/ ReaderStep \/ ReceiverStep
    \/ LoseData \/ LoseAck \/ Terminated

Spec == Init /\ [][Next]_vars

(***************************************************************************)
(* A goroutine that can run does run, a timer that is set fires, and the   *)
(* applications keep calling: a writer ends with Close (Client.Put and the *)
(* server defer it), a reader reads until it gets an error.                *)
(***************************************************************************)
Fairness ==
    /\ WF_vars(WriterStep) /\ WF_vars(SenderStep)
    /\ WF_vars(ReaderStep) /\ WF_vars(ReceiverStep)

FairSpec == Spec /\ Fairness

-----------------------------------------------------------------------------
(* Properties. *)

\* The state is well formed.
TypeOK ==
    /\ snd \in Sender /\ ring \in Ring /\ rcv \in Receiver
    /\ toRcv \in Channel(ToReceiver) /\ toSnd \in Channel(ToSender)
    /\ losses \in Nat

\* What conn.Read hands to the application is the file, chunk by chunk from
\* its beginning: nothing is lost, repeated or out of order, whatever the
\* network did and however often getAck rolled back.
InOrder == \A i \in 1 .. Len(rcv.got) : rcv.got[i] = i

\* A receiver that sees io.EOF has read the whole of what the writer wrote
\* before it called Close.
EofMeansComplete ==
    rcv.err = "EOF" => /\ snd.closing
                       /\ Len(rcv.got) = ring.wrote + 1
                       /\ rcv.out = Len(rcv.got)

\* A chunk that has been sent and is not yet received is still in the ring
\* buffer: txBuf can serve every retransmission the receiver may need.
RingCoversUnreceived ==
    \A c \in Len(rcv.got) + 1 .. ring.head : ring.slots[(c - 1) % WindowSize] = c

\* getAck never rolls back by more slots than the ring buffer has.
UnreadWithinSlots == ring.head - ring.current <= WindowSize

\* A Close of the sender that returns nil means that the receiver has got
\* the whole file: getAck never takes a stale ACK for that of the last block.
NilCloseMeansReceived ==
    snd.pc = "closed" /\ snd.err = "nil" => rcv.done

\* Both sides come to an end, whatever is lost or late: max retries bounds
\* the waiting of getAck and of readData.
Termination == <>Finished

\* The transfer, as the two applications see it through Write, Close, Read
\* and io.EOF, is a pipe.
P == INSTANCE Pipe WITH
        sent <- ring.wrote, closed <- snd.closing,
        received <- rcv.got, eof <- (rcv.err = "EOF")

ImplementsPipe == P!Spec
=============================================================================
