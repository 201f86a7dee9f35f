------------------------------ MODULE Netascii ------------------------------
(***************************************************************************)
(* A transfer in netascii mode, byte by byte: the Writer and the Reader of *)
(* netascii.go, each with the bufio buffer it wraps, between conn.Write    *)
(* and txBuf on one side and between rxBuf and conn.Read on the other.     *)
(* The transfer of the bytes in between is the pipe of module Pipe, cut    *)
(* into blocks of blksize; module Transfer shows that it is one.           *)
(*                                                                         *)
(* runtime.GOOS is not "windows": a new line is LF.                        *)
(***************************************************************************)
EXTENDS Naturals, Sequences, FiniteSets

CONSTANTS
    Plain,          \* bytes that are neither CR, LF nor NUL
    Chunks,         \* what one conn.Write may be called with
    ReadSizes,      \* len(p) of a conn.Read
    BlkSize,        \* conn.blksize
    WriterCap,      \* size of the bufio.Writer, 4096 in the code
    ReaderCap,      \* size of the bufio.Reader, 4096
    MaxText         \* bound: bytes that are written

VARIABLES
    text,           \* the bytes given to conn.Write so far
    enc,            \* netascii.Writer: p not yet encoded, last, bufio.Writer
    wire,           \* the bytes that have reached txBuf
    closed,         \* conn.Close of the sender has flushed the Writer
    rd,             \* the receiving conn and its netascii.Reader
    out             \* the bytes that conn.Read has returned

vars == << text, enc, wire, closed, rd, out >>

Byte == Plain \cup {"CR", "LF", "NUL"}

ASSUME NetasciiAssumption ==
    /\ Plain \cap {"CR", "LF", "NUL"} = {}
    /\ Chunks \subseteq Seq(Byte) /\ ReadSizes \subseteq Nat \ {0}
    /\ BlkSize \in Nat \ {0} /\ MaxText \in Nat
    /\ WriterCap \in Nat \ {0, 1} /\ ReaderCap \in Nat \ {0}

Init ==
    /\ text = << >> /\ wire = << >> /\ out = << >> /\ closed = FALSE
    /\ enc = [p |-> << >>, last |-> "NUL", buf |-> << >>]
    /\ rd = [pc |-> "app", arrived |-> 0, taken |-> 0, buf |-> << >>,
             done |-> FALSE, want |-> 0, n |-> 0, err |-> "nil"]

-----------------------------------------------------------------------------
(* The sender. *)

\* conn.Write(p), which calls Writer.Write(p).
Write(p) ==
    /\ ~closed /\ enc.p = << >>
    /\ p # << >> /\ Len(text) + Len(p) <= MaxText
    /\ text' = text \o p
    /\ enc' = [enc EXCEPT !.p = p]
    /\ UNCHANGED << wire, closed, rd, out >>

\* The bytes that b becomes.  The first version is wrong: a Writer that does
\* not look at the byte before.
EncodedAlone(b) == IF b = "LF" THEN << "CR", "LF" >> ELSE << b >>
Encoded(b) ==
    IF b = "LF" /\ enc.last # "CR" THEN << "CR", "LF" >>
    ELSE IF enc.last = "CR" /\ b \notin {"LF", "NUL"} THEN << "NUL", b >>
    ELSE << b >>

\* bufio.Writer.WriteByte flushes when its buffer is full.
Overflows(buf) == Len(buf) > WriterCap

\* One turn of the loop in Writer.Write.
EncodeByte ==
    /\ enc.p # << >>
    /\ LET b == Head(enc.p)
           all == enc.buf \o Encoded(b)
           full == Overflows(all)
       IN  /\ enc' = [p |-> Tail(enc.p), last |-> b,
                      buf |-> IF full THEN SubSeq(all, WriterCap + 1, Len(all))
                              ELSE all]
           /\ wire' = IF full THEN wire \o SubSeq(all, 1, WriterCap) ELSE wire
    /\ UNCHANGED << text, closed, rd, out >>

\* conn.Close flushes the Writer, then txBuf.  The first version is wrong: it
\* forgets the Writer.
CloseUnflushed ==
    /\ ~closed /\ enc.p = << >>
    /\ closed' = TRUE
    /\ UNCHANGED << text, wire, enc, rd, out >>
Close ==
    /\ ~closed /\ enc.p = << >>
    /\ closed' = TRUE
    /\ wire' = wire \o enc.buf
    /\ enc' = [enc EXCEPT !.buf = << >>]
    /\ UNCHANGED << text, rd, out >>

-----------------------------------------------------------------------------
(* The receiving conn.  rxBuf holds the bytes taken+1 .. arrived of wire. *)

RxLen == rd.arrived - rd.taken

\* conn.Read with len(p) = k.
Read(k) ==
    /\ rd.pc = "app" /\ rd.err = "nil"
    /\ rd' = [rd EXCEPT !.pc = "read", !.want = k, !.n = 0]
    /\ UNCHANGED << text, enc, wire, closed, out >>

\* c.rxBuf.Len() >= len(c.p) || c.done
CanReturn == RxLen >= rd.want \/ rd.done

StartDecode ==
    /\ rd.pc = "read" /\ CanReturn
    /\ rd' = [rd EXCEPT !.pc = "decode"]
    /\ UNCHANGED << text, enc, wire, closed, out >>

\* The bytes of the next DATA: a full block, or what is left after Close.
Left == Len(wire) - rd.arrived
HasData == Left >= BlkSize \/ closed

\* n < blksize.  The first version is wrong: an empty block ends nothing.
IsShortUnlessEmpty == Left \in 1 .. BlkSize - 1
IsShort == Left < BlkSize

\* readData and ackData put it into rxBuf.  So does handleRRQResponse with a
\* first DATA, before any Read.
Receive ==
    /\ (rd.pc = "read" /\ ~CanReturn) \/ (rd.pc = "app" /\ rd.arrived = 0)
    /\ ~rd.done /\ enc.p = << >> /\ HasData
    /\ rd' = [rd EXCEPT
                !.arrived = IF Left >= BlkSize THEN @ + BlkSize ELSE Len(wire),
                !.done = IsShort]
    /\ UNCHANGED << text, enc, wire, closed, out >>

\* bufio.Reader: an empty buffer is filled from rxBuf.  The first version is
\* wrong: it also throws away what the buffer holds.
FilledAnew(r) ==
    [r EXCEPT !.buf = SubSeq(wire, r.taken + 1, r.arrived), !.taken = r.arrived]
Filled(r) ==
    LET upTo == IF r.taken + ReaderCap < r.arrived THEN r.taken + ReaderCap
                ELSE r.arrived
    IN  IF r.buf # << >> THEN r
        ELSE [r EXCEPT !.buf = SubSeq(wire, r.taken + 1, upTo),
                       !.taken = upTo]

Consumed(r) == [r EXCEPT !.buf = Tail(@)]

\* conn.read, after Reader.Read has returned.
Returned(r) ==
    [r EXCEPT !.pc = "app",
              !.err = IF r.done /\ r.arrived = r.taken THEN "EOF" ELSE @]

\* p[written] = b; written++
Yields(r, b) ==
    /\ out' = Append(out, b)
    /\ rd' = [r EXCEPT !.n = @ + 1]

\* The loop of Reader.Read ends when p is full ...
DecodeStops ==
    /\ rd.pc = "decode" /\ rd.n = rd.want
    /\ rd' = Returned(rd)
    /\ UNCHANGED << text, enc, wire, closed, out >>

\* ... or when rxBuf has no byte, or none that follows a CR (which is lost).
\* Otherwise one turn yields a byte; UnreadByte gives back one that follows a
\* lone CR.
DecodeByte ==
    /\ rd.pc = "decode" /\ rd.n < rd.want
    /\ LET r1 == Filled(rd)
           r2 == Filled(Consumed(r1))
       IN  IF r1.buf = << >>
           THEN rd' = Returned(r1) /\ UNCHANGED out
           ELSE IF Head(r1.buf) # "CR"
           THEN Yields(Consumed(r1), Head(r1.buf))
           ELSE IF r2.buf = << >>
           THEN rd' = Returned(r2) /\ UNCHANGED out
           ELSE CASE Head(r2.buf) = "LF"  -> Yields(Consumed(r2), "LF")
                  [] Head(r2.buf) = "NUL" -> Yields(Consumed(r2), "CR")
                  [] OTHER                -> Yields(r2, "CR")
    /\ UNCHANGED << text, enc, wire, closed >>

-----------------------------------------------------------------------------
\* The end of a transfer is not a deadlock.
Terminated == closed /\ rd.pc = "app" /\ rd.err = "EOF" /\ UNCHANGED vars

SenderStep == EncodeByte \/ Close

ReceiverStep ==
    \/ (\E k \in ReadSizes : Read(k))
    \/ StartDecode \/ Receive \/ DecodeStops \/ DecodeByte

Next == (\E p \in Chunks : Write(p)) \/ SenderStep \/ ReceiverStep \/ Terminated

Spec == Init /\ [][Next]_vars

\* The writer closes in the end (Put and the server defer Close), and the
\* reader reads until it gets an error.
FairSpec == Spec /\ WF_vars(SenderStep) /\ WF_vars(ReceiverStep)

-----------------------------------------------------------------------------
(* Properties. *)

Reader ==
    [pc : {"app", "read", "decode"}, arrived : Nat, taken : Nat, buf : Seq(Byte),
     done : BOOLEAN, want : Nat, n : Nat, err : {"nil", "EOF"}]

\* The state is well formed; rxBuf never has less than nothing.
TypeOK ==
    /\ text \in Seq(Byte) /\ wire \in Seq(Byte) /\ out \in Seq(Byte)
    /\ closed \in BOOLEAN
    /\ enc \in [p : Seq(Byte), last : Byte, buf : Seq(Byte)]
    /\ Len(enc.buf) <= WriterCap
    /\ rd \in Reader
    /\ rd.taken <= rd.arrived /\ rd.arrived <= Len(wire) /\ rd.n <= rd.want

\* What has left the Writer, and what it still holds.
Produced == wire \o enc.buf

\* The last byte that the Writer has encoded is a CR.
EndsInCR ==
    LET n == Len(text) - Len(enc.p) IN n > 0 /\ text[n] = "CR"

\* The Writer makes netascii of a text, wherever conn.Write cuts it: LF only
\* after CR, and after CR a LF or NUL.  The one exception is a text that ends
\* in CR: the NUL is only written when another byte follows, so that what was
\* produced, also after Close, then ends in a lone CR.
WellFormed ==
    \A i \in 1 .. Len(Produced) :
      /\ Produced[i] = "LF" => i > 1 /\ Produced[i - 1] = "CR"
      /\ Produced[i] = "CR" => IF i = Len(Produced) THEN EndsInCR
                               ELSE Produced[i + 1] \in {"LF", "NUL"}

HasNoCR == \A i \in 1 .. Len(text) : text[i] # "CR"

\* A text without CR arrives as it was written, however it was cut into
\* writes, blocks, buffers and reads: also when a CR LF is cut in the middle.
TextArrives ==
    HasNoCR => /\ Len(out) <= Len(text)
               /\ \A i \in 1 .. Len(out) : out[i] = text[i]

\* A Read that returns io.EOF and has not filled p has returned all there is.
EofAfterShortRead ==
    HasNoCR /\ rd.err = "EOF" /\ rd.n < rd.want => out = text

\* io.EOF signals that there is nothing more to read.
EofMeansAllRead == HasNoCR /\ rd.err = "EOF" => out = text

\* The reader comes to the end of the file, also when its length is a
\* multiple of blksize and an empty block has to end it.
ReaderEnds == <>(rd.err = "EOF")
=============================================================================
