------------------------------ MODULE MCClient ------------------------------
EXTENDS Client

CONSTANTS c1, c2    \* two clients

\* The ends of every range, and what lies just outside.
EdgeOpts ==
    [fn : {"blksize"}, arg : {7, 8, 65464, 65535}]
      \cup [fn : {"windowsize"}, arg : {0, 1, 65535, 65536}]
      \cup [fn : {"timeout"}, arg : {0, 255, 256}]
      \cup [fn : {"mode"}, arg : {"netascii", "mail"}]
      \cup [fn : {"retransmit"}, arg : {-1, 0}]
      \cup [fn : {"tsize"}, arg : BOOLEAN]

EdgeNumbers ==
    {0, 1, 5, 6, 7, 8, FileSize, 255, 256, 512, 65464, 65535, 65536}

Url(h, p, path, frag) ==
    [host |-> h, port |-> p, path |-> path, fragment |-> frag]

SomeUrls ==
    {Url("name", "none", << "a b" >>, << "c" >>),
     Url("number", "none", << "a" >>, << >>),
     Url("name", "number", << >>, << >>)}

\* Any short body, of atoms between which there is a NUL.
Bodies(n) ==
    {b \in UNION {[1 .. k -> {"tsize", "blksize", "8", "NUL"}] : k \in 0 .. n} :
       \A i \in 1 .. Len(b) - 1 : b[i] = "NUL" \/ b[i + 1] = "NUL"}

OtherReplies ==
    {Datagram("OACK", b) : b \in Bodies(5)}
      \cup {Datagram("unknown", << >>), Datagram("zero", << >>),
            Datagram("ERROR", << "NUL", "SOH" >>), Datagram("ACK", << "NUL" >>),
            WriteAck0, WriteData1(<< "text" >>), WriteData1(<< "NUL", "text" >>)}

\* The clients are interchangeable.
ClientSymmetry == Permutations(Clients)
=============================================================================
