--------------------------- MODULE MCNegotiation ---------------------------
EXTENDS NegotiationProofs

\* A request with the options in names, as the options of a Client make it:
\* Get asks for the size with 0, if no Put went before, and Put tells it.
Request(k, names, v) ==
    [kind |-> k,
     opts |-> [o \in names |-> IF o # "tsize" THEN v
                               ELSE IF k = "RRQ" THEN 0 ELSE FileSize]]

Sizes == {"blksize", "windowsize"}
Everything == Sizes \cup {"tsize"}

\* A Get after a Put of this Client sends the size of what was put.
AfterPut == [Request("RRQ", {"tsize"}, 2) EXCEPT !.opts["tsize"] = 5]

\* Read requests of every sort, and write requests that get no OACK.
UdpRequests ==
    {Request("RRQ", o, 2) : o \in {{}, {"tsize"}, Sizes, Everything}}
      \cup {Request("WRQ", o, 2) : o \in {{}, {"tsize"}}}
      \cup {Request(k, {"timeout"}, Bad) : k \in {"RRQ", "WRQ"}}
      \cup {AfterPut}

\* Requests of either kind that a server can grant.
GoodRequests ==
    {Request(k, o, v) : k \in {"RRQ", "WRQ"}, o \in SUBSET OptNames,
                        v \in {2, 3}}

AllRequests == UdpRequests \cup GoodRequests

WriteRequests == {Request("WRQ", Everything, 2)}

\* The first block of a text file, and of one with NULs in odd number.
TextBlocks == {NoOptions}
BinaryBlocks == {NoOptions, Garbled}
=============================================================================
