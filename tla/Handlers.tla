------------------------------ MODULE Handlers ------------------------------
(***************************************************************************)
(* The two applications of a transfer: Client.Put with a handler that      *)
(* receives (FileServer.ReceiveTFTP), or a handler that serves             *)
(* (FileServer.ServeTFTP) with Client.Get.  Each side copies with io.Copy  *)
(* between its conn, which is that of module Transfer, and a file, and     *)
(* each has its own ways to fail: the file cannot be opened or created, it *)
(* cannot be read to its end, the disk is full, the handler calls          *)
(* WriteError.                                                             *)
(***************************************************************************)
EXTENDS Transfer

CONSTANTS
    Environments    \* whether the environment is calm: TRUE, FALSE or both

VARIABLES
    flow,   \* "put", or "get"
    src,    \* the application that writes
    dst,    \* the application that reads
    calm    \* nothing is lost, WriteTo does not fail, no file has an error,
            \* and no timer has fired

ASSUME EnvironmentsAssumption == Environments \subseteq BOOLEAN

appVars == << flow, src, dst, calm >>
hvars == << vars, appVars >>

HInit ==
    /\ Init
    /\ flow \in {"put", "get"} /\ calm \in Environments
    /\ src = [pc |-> IF flow = "put" THEN "copy" ELSE "open",
              wrote |-> FALSE, refused |-> FALSE, err |-> "nil"]
    /\ dst = [pc |-> IF flow = "put" THEN "create" ELSE "request",
              refused |-> FALSE, err |-> "nil"]

-----------------------------------------------------------------------------
(* The application that writes: Client.Put, or a ReadHandler. *)

\* WriteError of a ReadRequest: sendError, and nothing else.  The first
\* version is wrong: the ERROR is made and not sent.
SourceMakesError ==
    src' = [src EXCEPT !.pc = "close", !.refused = TRUE] /\ UNCHANGED toRcv
SourceSendsError ==
    \/ /\ toRcv' = Put(toRcv, ToRcvMsg("ERROR"))
       /\ src' = [src EXCEPT !.pc = "close", !.refused = TRUE]
    \/ NetFails /\ src' = [src EXCEPT !.pc = "close"] /\ UNCHANGED toRcv

\* ServeTFTP: os.Open.
Opens ==
    /\ src.pc = "open"
    /\ src' = [src EXCEPT !.pc = "copy"]
    /\ UNCHANGED << vars, flow, dst, calm >>

\* The conn is not working and has no error.
SourceMayWrite == src.pc = "copy" /\ snd.pc = "app" /\ snd.err = "nil"

\* io.Copy has read from the file and calls Write, which completes k blocks.
CopyWrites(k) ==
    /\ SourceMayWrite /\ (k = 0 => ~src.wrote)
    /\ Write(k)
    /\ src' = [src EXCEPT !.wrote = TRUE]
    /\ UNCHANGED << flow, dst, calm >>

\* io.Copy returns an error of Write; or it has come to the end of the file.
CopyReturns ==
    /\ src.pc = "copy" /\ snd.pc = "app"
    /\ src' = [src EXCEPT !.pc = "close", !.err = snd.err]
    /\ UNCHANGED << vars, flow, dst, calm >>

\* Reading the file fails: io.Copy returns that error.
SourceFails ==
    /\ ~calm /\ SourceMayWrite
    /\ src' = [src EXCEPT !.pc = "close", !.err = "file"]
    /\ UNCHANGED << vars, flow, dst, calm >>

\* A handler calls WriteError: ServeTFTP when it cannot open the file,
\* another one also after its copy has failed.
SourceRefuses ==
    /\ ~calm /\ flow = "get" /\ ~src.refused
    /\ src.pc = "open" \/ (src.pc = "close" /\ src.err # "nil" /\ snd.pc = "app")
    /\ SourceSendsError
    /\ UNCHANGED << snd, ring, rcv, toSnd, losses, flow, dst, calm >>

\* c.txBuf != nil, in Close.  A client has it from the negotiation, a server
\* from the first Write.
HasTxBuf == flow = "put" \/ src.wrote

\* The deferred Close, of Put or of the server's closer.
SourceCloses(k) ==
    /\ src.pc = "close" /\ snd.pc = "app"
    /\ src' = [src EXCEPT !.pc = "closed"]
    /\ IF HasTxBuf THEN CloseSender(k)
       ELSE /\ k = 0 /\ snd' = [snd EXCEPT !.pc = "closed"]
            /\ UNCHANGED << ring, rcv, toRcv, toSnd, losses >>
    /\ UNCHANGED << flow, dst, calm >>

SourceReturned == src.pc = "closed" /\ snd.pc = "closed"

\* What Put returns: the error of io.Copy, or else that of Close.  The first
\* version is wrong: the deferred function overwrites the error.
ErrOfClose == snd.err
PutErr == IF src.err # "nil" THEN src.err ELSE snd.err

-----------------------------------------------------------------------------
(* The application that reads: a WriteHandler, or the caller of Get. *)

\* Get returns when the server has answered, see module Negotiation.
GetReturns ==
    /\ dst.pc = "request" /\ src.wrote
    /\ dst' = [dst EXCEPT !.pc = "copy"]
    /\ UNCHANGED << vars, flow, src, calm >>

\* Get returns an error: the handler's, or that nothing came.
GetFails ==
    /\ dst.pc = "request"
    /\ \/ /\ \E m \in Arrivals(toRcv) : m.op = "ERROR"
          /\ toRcv' = Rest(toRcv)
          /\ rcv' = [rcv EXCEPT !.pc = "closed", !.err = "remote"]
       \/ /\ ~calm \/ (SourceReturned /\ ~src.wrote)
          /\ rcv' = [rcv EXCEPT !.pc = "closed", !.err = "timeout"]
          /\ UNCHANGED toRcv
    /\ dst' = [dst EXCEPT !.pc = "closed"]
    /\ UNCHANGED << snd, ring, toSnd, losses, flow, src, calm >>

\* ReceiveTFTP: os.Create.
Creates ==
    /\ dst.pc = "create"
    /\ dst' = [dst EXCEPT !.pc = "copy"]
    /\ UNCHANGED << vars, flow, src, calm >>

\* WriteError of a WriteRequest; the handler goes on at pc.
SinkSendsError(pc) ==
    /\ dst' = [dst EXCEPT !.pc = pc, !.refused = TRUE, !.err = "file"]
    /\ \/ toSnd' = Put(toSnd, ToSndMsg("ERROR"))
       \/ NetFails /\ UNCHANGED toSnd
    /\ UNCHANGED << snd, ring, rcv, toRcv, losses, flow, src, calm >>

\* ReceiveTFTP does not return when os.Create fails.  Whether io.Copy to a
\* nil file reads once before it fails depends on the Go version.  Another
\* handler may also call WriteError when its copy has failed.
SinkRefuses ==
    /\ ~calm /\ flow = "put" /\ ~dst.refused
    /\ \/ dst.pc = "create" /\ (SinkSendsError("readOnce") \/ SinkSendsError("close"))
       \/ dst.pc = "close" /\ dst.err = "file" /\ SinkSendsError("close")

\* io.Copy calls Read with room for k blocks.
CopyReads(k) ==
    /\ dst.pc \in {"copy", "readOnce"}
    /\ Read(k)
    /\ dst' = [dst EXCEPT !.pc = IF @ = "copy" THEN "copy" ELSE "write"]
    /\ UNCHANGED << flow, src, calm >>

\* Read has returned io.EOF or an error.
CopyFinds ==
    /\ dst.pc = "copy" /\ rcv.pc = "app" /\ rcv.err # "nil"
    /\ dst' = [dst EXCEPT !.pc = "close",
                          !.err = IF rcv.err = "EOF" THEN "nil" ELSE rcv.err]
    /\ UNCHANGED << vars, flow, src, calm >>

\* Writing what Read returned fails, to a full disk or to a nil file.
SinkFails ==
    /\ rcv.pc = "app"
    /\ (dst.pc = "copy" /\ rcv.out > 0 /\ ~calm) \/ dst.pc = "write"
    /\ dst' = [dst EXCEPT !.pc = "close", !.err = "file"]
    /\ UNCHANGED << vars, flow, src, calm >>

\* The server's closer.  A Response has no Close: nobody reads it any more.
SinkCloses ==
    /\ dst.pc = "close"
    /\ CloseReceiver
    /\ dst' = [dst EXCEPT !.pc = "closed"]
    /\ UNCHANGED << flow, src, calm >>

SinkReturned == dst.pc = "closed" /\ rcv.pc = "closed"

-----------------------------------------------------------------------------
(* The conns and the network. *)

CalmStep == snd'.err = "nil" /\ rcv'.err \in {"nil", "EOF"}

\* In a calm environment a timer fires only when both sides wait and nothing
\* is on the way; then the calm is over.
TimerFires ==
    /\ calm => /\ OnTheWay = 0
               /\ snd.pc \in {"getAck", "closed"}
               /\ rcv.pc \in {"readData", "closed"}
    /\ calm' = FALSE
    /\ UNCHANGED << flow, src, dst >>

SenderGoes ==
    \/ /\ WriteReturns \/ WriteData \/ GetAckGivesUp \/ GetAck
       /\ calm => CalmStep
       /\ UNCHANGED appVars
    \/ GetAckTimeout /\ TimerFires

ReceiverGoes ==
    \/ /\ ReadReturns \/ ReadContinues \/ ReadDataGivesUp \/ ReadData
       /\ calm => CalmStep
       /\ UNCHANGED appVars
    \/ ReadDataTimeout /\ TimerFires

NetworkLoses == ~calm /\ (LoseData \/ LoseAck) /\ UNCHANGED appVars

SourceStep ==
    \/ Opens \/ CopyReturns \/ SourceFails \/ SourceRefuses
    \/ \E k \in 0 .. MaxFull - ring.wrote : CopyWrites(k) \/ SourceCloses(k)

SinkStep ==
    \/ GetReturns \/ GetFails \/ Creates \/ SinkRefuses
    \/ CopyFinds \/ SinkFails \/ SinkCloses
    \/ \E k \in 1 .. MaxRead : CopyReads(k)

BothReturned == SourceReturned /\ SinkReturned

HTerminated == BothReturned /\ UNCHANGED hvars

HNext ==
    \/ SourceStep \/ SinkStep \/ SenderGoes \/ ReceiverGoes
    \/ NetworkLoses \/ HTerminated

HSpec == HInit /\ [][HNext]_hvars

\* As in module Transfer; io.Copy ends, because files do.
HFairSpec ==
    /\ HSpec
    /\ WF_hvars(SourceStep) /\ WF_hvars(SinkStep)
    /\ WF_hvars(SenderGoes) /\ WF_hvars(ReceiverGoes)

-----------------------------------------------------------------------------
(* Properties. *)

\* A Put that returns nil has read its file to the end, and the server's conn
\* has received all of it.
PutNilMeansReceived ==
    flow = "put" /\ SourceReturned /\ PutErr = "nil" =>
      rcv.done /\ src.err = "nil" /\ Len(rcv.got) = ring.wrote + 1

\* A reader that comes to io.EOF has been given every chunk that the other
\* application wrote, in order and once, and these are its whole file: the
\* writer's io.Copy has come to the end of it and Close was called.  The one
\* exception is an error on reading the file: Close then ends the transfer as
\* if the file ended there.
EofMeansWholeFile ==
    rcv.err = "EOF" =>
      /\ InOrder /\ Len(rcv.got) = ring.wrote + 1 /\ rcv.out = Len(rcv.got)
      /\ src.pc = "closed" /\ src.err \in {"nil", "file"}

\* A handler that has called WriteError is not taken for one that has served
\* its file, although the deferred Close sends the last block, as long as no
\* datagram at all is lost (and over channels that keep the order).
ErrorBeforeEof == src.refused /\ losses = 0 => rcv.err # "EOF"

\* Put and Get, and the handlers, return in the end, whatever fails.
BothReturn == <>BothReturned

FileArrived == BothReturned /\ PutErr = "nil" /\ dst.err = "nil" /\ rcv.err = "EOF"

\* When nothing fails, the file arrives, and without any timer: the windows of
\* the two sides never leave both waiting.  The exception is an empty file,
\* which is served without a call of Write.
CalmDelivers == calm ~> FileArrived \/ (SourceReturned /\ ~HasTxBuf)

\* ServeTFTP serves every file.
ServesEveryFile == calm ~> FileArrived
=============================================================================
