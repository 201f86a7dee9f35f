----------------------------- MODULE MCTransfer -----------------------------
EXTENDS TransferFifo

\* What a network that duplicates and delays may still hold.
AllLeftToSender == {Ack(0), ToSndMsg("OACK"), ToSndMsg("STRAY")}
AllLeftToReceiver == {ToRcvMsg("OACK"), ToRcvMsg("ERROR")}
\* What is left in a FIFO channel: the ACK of block 0 has been sent twice.
FifoLeftToSender == << Ack(0) >>
FifoNothingLeft == << >>
=============================================================================
