-------------------------------- MODULE Pipe --------------------------------
(***************************************************************************)
(* What a TFTP transfer promises to the two applications, whatever happens *)
(* to the datagrams: a pipe.  The writer appends chunks and closes, the    *)
(* reader gets the chunks one by one, in order, and sees the end of the    *)
(* file only after the writer has closed and everything has been read.     *)
(*                                                                         *)
(* The writer's Close adds one last chunk, the short block that ends every *)
(* TFTP transfer.                                                          *)
(***************************************************************************)
EXTENDS Naturals, Sequences

VARIABLES
    sent,       \* full chunks written so far
    closed,     \* the writer has called Close
    received,   \* the chunks that the reader's side has accepted
    eof         \* the reader has been told io.EOF

vars == << sent, closed, received, eof >>

Init == sent = 0 /\ closed = FALSE /\ received = << >> /\ eof = FALSE

\* The writer writes some chunks.
Send ==
    /\ ~closed
    /\ sent' \in Nat /\ sent' >= sent
    /\ UNCHANGED << closed, received, eof >>

\* The writer closes; what was still buffered may make more full chunks.
Close ==
    /\ ~closed
    /\ closed' = TRUE
    /\ sent' \in Nat /\ sent' >= sent
    /\ UNCHANGED << received, eof >>

\* The chunks that exist: the full ones and the one that Close makes.
Total == IF closed THEN sent + 1 ELSE sent

\* The reader's side accepts the next chunk.
Receive ==
    /\ ~eof /\ Len(received) < Total
    /\ received' = Append(received, Len(received) + 1)
    /\ UNCHANGED << sent, closed, eof >>

\* The reader is told that it has everything.
End ==
    /\ ~eof /\ closed /\ Len(received) = Total
    /\ eof' = TRUE
    /\ UNCHANGED << sent, closed, received >>

Next == Send \/ Close \/ Receive \/ End

Spec == Init /\ [][Next]_vars
=============================================================================
