----------------------------- MODULE MCHandlers -----------------------------
EXTENDS Handlers

\* The negotiation has left nothing in the FIFO channels.
NothingLeft == << >>
=============================================================================
