------------------------------ MODULE Datagram ------------------------------
(***************************************************************************)
(* The datagrams of datagram.go: how requests and option acknowledgements  *)
(* are put together, validated and taken apart.                            *)
(*                                                                         *)
(* A datagram is an opcode and a body, a sequence of atoms: "NUL" is the   *)
(* byte 0, any other atom is a string of other bytes.  A field, which is   *)
(* what bytes.Split returns, is a sequence of atoms too.  An accessor that *)
(* indexes out of range panics.                                            *)
(***************************************************************************)
EXTENDS SequencesExt, Integers

Requests == {"RRQ", "WRQ"}
Modes == {"netascii", "octet"}

Datagram(op, body) == [op |-> op, body |-> body]

-----------------------------------------------------------------------------
(* Constructors.  A map is written in the order in which range yields its  *)
(* keys, which is any order.                                               *)

\* writeOption.  The first version is wrong: it does not end the value.
UnendedOption(opt, val) == << opt, "NUL", val, ";" >>
WriteOption(opt, val) == << opt, "NUL", val, "NUL" >>

\* One option, of four atoms, after the other.
WriteOptions(opts, order) ==
    [i \in 1 .. 4 * Len(order) |->
       LET o == order[(i + 3) \div 4] IN WriteOption(o, opts[o])[1 + ((i - 1) % 4)]]

\* writeReq, for a file name that is a field.
WriteReq(op, file, mode, opts, order) ==
    Datagram(op, file \o << "NUL", mode, "NUL" >> \o WriteOptions(opts, order))

WriteOptionAck(opts, order) == Datagram("OACK", WriteOptions(opts, order))

\* writeError, with the code 1.
WriteError(msg) == Datagram("ERROR", << "NUL", "SOH" >> \o msg \o << "NUL" >>)

\* writeAck and writeData; of the bytes of a block number only those of
\* blocks 0 and 1 occur.
WriteAck0 == Datagram("ACK", << "NUL", "NUL" >>)
WriteData1(data) == Datagram("DATA", << "NUL", "SOH" >> \o data)

-----------------------------------------------------------------------------
(* Accessors. *)

Nuls(s) == {i \in DOMAIN s : s[i] = "NUL"}

\* bytes.Split(s, []byte{0x0}): a field lies between two cuts, which are the
\* NULs and the ends of s.
Cuts(s) == Nuls(s) \cup {0, Len(s) + 1}
Cut(s, k) == CHOOSE i \in Cuts(s) : Cardinality({j \in Cuts(s) : j < i}) = k
Split(s) ==
    [k \in 1 .. Cardinality(Nuls(s)) + 1 |->
       SubSeq(s, Cut(s, k - 1) + 1, Cut(s, k) - 1)]

\* filename() and mode(), when they do not panic; see ValidatePanics.
Filename(d) == Split(d.body)[1]
Mode(d) == Split(d.body)[2]

\* The fields that options() takes in pairs: all but what follows the final
\* NUL, without the file name and the mode of a request.
OptionFields(d) ==
    LET fields == Split(Front(d.body))
    IN  IF d.op \in Requests THEN SubSeq(fields, 3, Len(fields)) ELSE fields

OptionsPanic(d) == d.body = << >> \/ Len(OptionFields(d)) % 2 # 0

\* options(), if it does not panic: the last of several values is kept.
Options(d) ==
    LET f == OptionFields(d)
        keys == {i \in DOMAIN f : i % 2 = 1}
        lastOf(k) == CHOOSE i \in keys : f[i] = k /\ \A j \in keys :
                                           f[j] = k => j <= i
    IN  [k \in {f[i] : i \in keys} |-> f[lastOf(k) + 1]]

-----------------------------------------------------------------------------
(* validate.  The opcode 0 is not one of TFTP's; those above 6 are unknown. *)

EndsWithNul(d) == d.body # << >> /\ Last(d.body) = "NUL"

\* The first version is wrong: it does not count the NULs.
AnyNuls(d) == TRUE
EvenNuls(d) == Cardinality(Nuls(d.body)) % 2 = 0

\* In a request without a NUL filename() slices buf[2:1] and panics, before
\* validate has looked at anything else, if the buffer is as long as the
\* datagram.  The server's copies are; in the receive buffer of a conn more
\* bytes follow, and validate refuses the request for its last byte.
ValidatePanics(d) == d.op \in Requests /\ Nuls(d.body) = {}

\* What validate returns when it does not panic.
Valid(d) ==
    CASE d.op \in Requests ->
           /\ Filename(d) # << >> /\ EndsWithNul(d) /\ EvenNuls(d)
           /\ Mode(d) \in {<< m >> : m \in Modes}
      [] d.op \in {"ACK", "DATA"} -> Len(d.body) >= 2
      [] d.op = "ERROR" ->
           /\ Len(d.body) >= 3 /\ EndsWithNul(d)
           /\ Cardinality(Nuls(SubSeq(d.body, 3, Len(d.body)))) <= 1
      [] d.op = "OACK" -> EndsWithNul(d) /\ EvenNuls(d)
      [] d.op = "zero" -> TRUE
      [] d.op = "unknown" -> FALSE
=============================================================================
