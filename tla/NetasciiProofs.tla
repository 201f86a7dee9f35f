--------------------------- MODULE NetasciiProofs ---------------------------
(***************************************************************************)
(* Proofs about module Netascii: what the Writer makes of a text is        *)
(* netascii, and what the Reader makes of that is the text, wherever       *)
(* conn.Write, the blocks, the bufio buffers and conn.Read cut it.         *)
(***************************************************************************)
EXTENDS Netascii, Integers, SequenceTheorems, FiniteSetTheorems, TLAPS

(***************************************************************************)
(* The inductive invariant.  The Writer has encoded the first bytes of the *)
(* text; of a text without CR, byte i ends at EndOf(i) of what it has      *)
(* produced.  The Reader has consumed the bytes up to Position, which is   *)
(* the end of the last byte that Read has returned, or after a CR whose LF *)
(* had not arrived: the CR is lost, and the LF then comes alone.           *)
(***************************************************************************)
EncodedBytes == Len(text) - Len(enc.p)

EndOf(i) == i + Cardinality({j \in 1 .. i : text[j] = "LF"})

\* LF only after CR, and after a CR that is not the last byte LF or NUL.
Paired ==
    \A i \in 1 .. Len(Produced) :
      /\ Produced[i] = "LF" => i > 1 /\ Produced[i - 1] = "CR"
      /\ Produced[i] = "CR" /\ i < Len(Produced) =>
           Produced[i + 1] \in {"LF", "NUL"}

WriterInv ==
    /\ Len(enc.p) <= Len(text)
    /\ \A j \in 1 .. Len(enc.p) : enc.p[j] = text[EncodedBytes + j]
    /\ enc.last = IF EncodedBytes = 0 THEN "NUL" ELSE text[EncodedBytes]
    /\ enc.last = IF Produced = << >> THEN "NUL" ELSE Produced[Len(Produced)]
    /\ closed => enc.p = << >> /\ enc.buf = << >>

TextProduced ==
    HasNoCR =>
      /\ Len(Produced) = EndOf(EncodedBytes)
      /\ \A i \in 1 .. EncodedBytes :
           /\ Produced[EndOf(i)] = text[i]
           /\ text[i] = "LF" => Produced[EndOf(i) - 1] = "CR"

Position == rd.taken - Len(rd.buf)

ReaderInv ==
    /\ Len(rd.buf) <= rd.taken
    /\ \A j \in 1 .. Len(rd.buf) : rd.buf[j] = wire[Position + j]
    /\ rd.done => closed /\ rd.arrived = Len(wire)
    /\ rd.err = "EOF" => /\ rd.pc = "app" /\ rd.done /\ rd.taken = rd.arrived
                         /\ rd.n < rd.want => rd.buf = << >>

TextRead ==
    HasNoCR =>
      /\ Len(out) <= EncodedBytes
      /\ \A i \in 1 .. Len(out) : out[i] = text[i]
      /\ \/ Position = EndOf(Len(out))
         \/ /\ Len(out) < EncodedBytes /\ text[Len(out) + 1] = "LF"
            /\ Position = EndOf(Len(out)) + 1

\* All of it.
NetasciiInv ==
    TypeOK /\ Paired /\ WriterInv /\ TextProduced /\ ReaderInv /\ TextRead

-----------------------------------------------------------------------------

(* Where a byte of the text ends. *)

\* The encoding starts at 0 and takes two bytes for an LF, one for another.
LEMMA EndNext ==
    ASSUME NEW i \in Nat
    PROVE  /\ EndOf(0) = 0 /\ EndOf(i) \in Nat
           /\ EndOf(i + 1) = EndOf(i) + IF text[i + 1] = "LF" THEN 2 ELSE 1
<1> DEFINE S(n) == {j \in 1 .. n : text[j] = "LF"}
<1>1. ASSUME NEW n \in Nat PROVE IsFiniteSet(S(n)) /\ Cardinality(S(n)) \in Nat
  <2>1. IsFiniteSet(1 .. n) BY FS_Interval
  <2>2. S(n) \in SUBSET (1 .. n) OBVIOUS
  <2> HIDE DEF S
  <2>3. IsFiniteSet(S(n)) BY <2>1, <2>2, FS_Subset
  <2> QED BY <2>3, FS_CardinalityType
<1>2. S(0) = {} /\ i + 1 \notin S(i) OBVIOUS
<1>3. S(i + 1) = IF text[i + 1] = "LF" THEN S(i) \cup {i + 1} ELSE S(i)
  <2>1. 1 .. i + 1 = (1 .. i) \cup {i + 1} OBVIOUS
  <2> QED BY <2>1
<1>4. EndOf(0) = 0 + Cardinality(S(0)) /\ EndOf(i) = i + Cardinality(S(i))
      /\ EndOf(i + 1) = (i + 1) + Cardinality(S(i + 1))
  BY DEF EndOf
<1> HIDE DEF S
<1>5. EndOf(0) = 0 BY <1>2, <1>4, FS_EmptySet
<1>6. Cardinality(S(i + 1)) = IF text[i + 1] = "LF" THEN Cardinality(S(i)) + 1
                              ELSE Cardinality(S(i))
  BY <1>1, <1>2, <1>3, FS_AddElement
<1>7. Cardinality(S(i)) \in Nat BY <1>1
<1> QED BY <1>4, <1>5, <1>6, <1>7

\* A later byte ends later.
LEMMA EndGrows ==
    ASSUME NEW i \in Nat, NEW k \in Nat, i < k PROVE EndOf(i) < EndOf(k)
<1> DEFINE S(n) == {j \in 1 .. n : text[j] = "LF"}
<1>1. IsFiniteSet(1 .. k) /\ S(k) \in SUBSET (1 .. k) /\ S(i) \in SUBSET S(k)
  BY FS_Interval
<1>2. EndOf(i) = i + Cardinality(S(i)) /\ EndOf(k) = k + Cardinality(S(k))
  BY DEF EndOf
<1> HIDE DEF S
<1>3. IsFiniteSet(S(k)) BY <1>1, FS_Subset
<1>4. /\ IsFiniteSet(S(i)) /\ Cardinality(S(i)) <= Cardinality(S(k))
  BY <1>1, <1>3, FS_Subset
<1>5. Cardinality(S(i)) \in Nat /\ Cardinality(S(k)) \in Nat
  BY <1>3, <1>4, FS_CardinalityType
<1> QED BY <1>2, <1>4, <1>5

\* Text that is added later does not move it.
LEMMA EndStays ==
    ASSUME NEW i \in Nat, \A j \in 1 .. i : text'[j] = text[j]
    PROVE  EndOf(i)' = EndOf(i)
<1>1. {j \in 1 .. i : text'[j] = "LF"} = {j \in 1 .. i : text[j] = "LF"} OBVIOUS
<1> QED BY <1>1 DEF EndOf

-----------------------------------------------------------------------------
(* The Writer. *)

\* One or two bytes at the end of a sequence.
LEMMA OneMore ==
    ASSUME NEW s \in Seq(Byte), NEW b \in Byte
    PROVE  /\ s \o << b >> \in Seq(Byte) /\ Len(s \o << b >>) = Len(s) + 1
           /\ \A i \in 1 .. Len(s) : (s \o << b >>)[i] = s[i]
           /\ (s \o << b >>)[Len(s) + 1] = b
<1>1. << b >> \in Seq(Byte) /\ Len(<< b >>) = 1 /\ << b >>[1] = b /\ Len(s) \in Nat
  OBVIOUS
<1> DEFINE t == << b >>
<1> HIDE DEF t
<1>2. t \in Seq(Byte) /\ Len(t) = 1 /\ t[1] = b BY <1>1 DEF t
<1>3. s \o t \in Seq(Byte) /\ Len(s \o t) = Len(s) + 1
      /\ \A i \in 1 .. Len(s) + 1 :
           (s \o t)[i] = IF i <= Len(s) THEN s[i] ELSE t[i - Len(s)]
  BY <1>2, ConcatProperties
<1>4. (s \o t)[Len(s) + 1] = b BY <1>1, <1>2, <1>3
<1>5. \A i \in 1 .. Len(s) : (s \o t)[i] = s[i] BY <1>1, <1>3
<1> QED BY <1>3, <1>4, <1>5 DEF t

LEMMA TwoMore ==
    ASSUME NEW s \in Seq(Byte), NEW a \in Byte, NEW b \in Byte
    PROVE  /\ s \o << a, b >> \in Seq(Byte) /\ Len(s \o << a, b >>) = Len(s) + 2
           /\ \A i \in 1 .. Len(s) : (s \o << a, b >>)[i] = s[i]
           /\ (s \o << a, b >>)[Len(s) + 1] = a
           /\ (s \o << a, b >>)[Len(s) + 2] = b
<1> DEFINE t == << a, b >>
<1>1. t \in Seq(Byte) /\ Len(t) = 2 /\ t[1] = a /\ t[2] = b /\ Len(s) \in Nat
  OBVIOUS
<1> HIDE DEF t
<1>2. s \o t \in Seq(Byte) /\ Len(s \o t) = Len(s) + Len(t)
      /\ \A i \in 1 .. Len(s) + Len(t) :
           (s \o t)[i] = IF i <= Len(s) THEN s[i] ELSE t[i - Len(s)]
  <2>1. t \in Seq(Byte) BY <1>1
  <2> QED BY <2>1, ConcatProperties
<1>3. (s \o t)[Len(s) + 1] = a /\ (s \o t)[Len(s) + 2] = b BY <1>1, <1>2
<1>4. \A i \in 1 .. Len(s) : (s \o t)[i] = s[i] BY <1>1, <1>2
<1> QED BY <1>1, <1>2, <1>3, <1>4 DEF t

\* A byte becomes one or two bytes, the last of which is the byte itself.
LEMMA EncodedBytesOf ==
    ASSUME NEW b \in Byte
    PROVE  /\ Encoded(b) \in Seq(Byte)
           /\ Len(Encoded(b)) \in Nat /\ Len(Encoded(b)) <= 2
           /\ \/ Encoded(b) = << b >>
              \/ Encoded(b) = << "CR", "LF" >> /\ b = "LF" /\ enc.last # "CR"
              \/ /\ Encoded(b) = << "NUL", b >> /\ b \notin {"LF", "NUL"}
                 /\ enc.last = "CR"
           /\ Encoded(b) = << b >> =>
                /\ b = "LF" => enc.last = "CR"
                /\ enc.last = "CR" => b \in {"LF", "NUL"}
<1>1. "CR" \in Byte /\ "LF" \in Byte /\ "NUL" \in Byte BY DEF Byte
<1>2. CASE b = "LF" /\ enc.last # "CR"
  <2>1. Encoded(b) = << "CR", "LF" >> BY <1>2 DEF Encoded
  <2>2. /\ << "CR", "LF" >> # << b >> /\ << "CR", "LF" >> \in Seq(Byte)
        /\ Len(<< "CR", "LF" >>) = 2
    BY <1>1
  <2>3. /\ Encoded(b) \in Seq(Byte)
        /\ Len(Encoded(b)) \in Nat /\ Len(Encoded(b)) <= 2
    BY <2>1, <2>2
  <2> QED BY <1>2, <2>1, <2>2, <2>3
<1>3. CASE enc.last = "CR" /\ b \notin {"LF", "NUL"}
  <2>1. Encoded(b) = << "NUL", b >> BY <1>3 DEF Encoded
  <2>2. /\ << "NUL", b >> # << b >> /\ << "NUL", b >> \in Seq(Byte)
        /\ Len(<< "NUL", b >>) = 2
    BY <1>1
  <2> QED BY <1>1, <1>3, <2>1, <2>2
<1>4. CASE ~(b = "LF" /\ enc.last # "CR") /\ ~(enc.last = "CR" /\ b \notin {"LF", "NUL"})
  <2>1. Encoded(b) = << b >> BY <1>4 DEF Encoded
  <2> QED BY <1>4, <2>1
<1> QED BY <1>2, <1>3, <1>4

\* Cutting a sequence after its first c bytes.
LEMMA Cut ==
    ASSUME NEW s \in Seq(Byte), NEW c \in Nat, c <= Len(s)
    PROVE  /\ SubSeq(s, 1, c) \in Seq(Byte) /\ SubSeq(s, c + 1, Len(s)) \in Seq(Byte)
           /\ Len(SubSeq(s, 1, c)) = c /\ Len(SubSeq(s, c + 1, Len(s))) = Len(s) - c
           /\ SubSeq(s, 1, c) \o SubSeq(s, c + 1, Len(s)) = s
<1>1. Len(s) \in Nat /\ \A i \in 1 .. Len(s) : s[i] \in Byte
  BY LenProperties, ElementOfSeq
<1>2. SubSeq(s, 1, c) \in Seq(Byte) /\ Len(SubSeq(s, 1, c)) = c
  <2>1. 1 \in Int /\ c \in Int /\ \A i \in 1 .. c : s[i] \in Byte BY <1>1
  <2>2. /\ SubSeq(s, 1, c) \in Seq(Byte)
        /\ Len(SubSeq(s, 1, c)) = IF 1 <= c THEN c - 1 + 1 ELSE 0
    BY <2>1, SubSeqProperties
  <2> QED BY <2>2
<1>3. /\ SubSeq(s, c + 1, Len(s)) \in Seq(Byte)
      /\ Len(SubSeq(s, c + 1, Len(s))) = Len(s) - c
  <2>1. c + 1 \in Int /\ Len(s) \in Int /\ \A i \in c + 1 .. Len(s) : s[i] \in Byte
    BY <1>1
  <2>2. /\ SubSeq(s, c + 1, Len(s)) \in Seq(Byte)
        /\ Len(SubSeq(s, c + 1, Len(s))) =
             IF c + 1 <= Len(s) THEN Len(s) - (c + 1) + 1 ELSE 0
    BY <2>1, SubSeqProperties
  <2> QED BY <1>1, <2>2
<1>4. SubSeq(s, 1, c) \o SubSeq(s, c + 1, Len(s)) = SubSeq(s, 1, Len(s))
  <2>1. 1 \in 1 .. Len(s) + 1 /\ c \in 1 - 1 .. Len(s) /\ Len(s) \in c .. Len(s)
    BY <1>1
  <2> QED BY <2>1, ConcatAdjacentSubSeq
<1> QED BY <1>2, <1>3, <1>4, SubSeqFull

\* Concatenation of bytes is associative.
LEMMA Associative ==
    ASSUME NEW s \in Seq(Byte), NEW t \in Seq(Byte), NEW u \in Seq(Byte)
    PROVE  (s \o t) \o u = s \o (t \o u)
BY ConcatAssociative

\* t starts with s.
Extends(t, s) == Len(s) <= Len(t) /\ \A i \in 1 .. Len(s) : t[i] = s[i]

LEMMA ConcatExtends ==
    ASSUME NEW s \in Seq(Byte), NEW t \in Seq(Byte) PROVE Extends(s \o t, s)
<1>1. Len(s) \in Nat /\ Len(t) \in Nat BY LenProperties
<1> QED BY <1>1, ConcatProperties DEF Extends

\* One turn of the loop in Writer.Write: what the Writer has produced grows by
\* the encoding of the byte, whether or not its buffer is flushed.
LEMMA EncodeProduces ==
    ASSUME TypeOK, EncodeByte
    PROVE  /\ Produced' = Produced \o Encoded(Head(enc.p))
           /\ wire' \in Seq(Byte) /\ Extends(wire', wire)
           /\ enc'.p = Tail(enc.p) /\ enc'.last = Head(enc.p)
           /\ enc'.buf \in Seq(Byte) /\ Len(enc'.buf) <= WriterCap
<1> DEFINE b == Head(enc.p)
           all == enc.buf \o Encoded(b)
<1>0. /\ enc.p \in Seq(Byte) /\ enc.buf \in Seq(Byte) /\ wire \in Seq(Byte)
      /\ enc.p # << >> /\ Len(enc.buf) \in Nat /\ Len(enc.buf) <= WriterCap
      /\ WriterCap \in Nat \ {0, 1}
  BY NetasciiAssumption DEF TypeOK, EncodeByte
<1>1. b \in Byte BY <1>0
<1> DEFINE e == Encoded(b)
<1>2. e \in Seq(Byte) /\ Len(e) \in Nat /\ Len(e) <= 2 BY <1>1, EncodedBytesOf
<1>3. /\ enc' = [p |-> Tail(enc.p), last |-> b,
                 buf |-> IF Overflows(all) THEN SubSeq(all, WriterCap + 1, Len(all))
                         ELSE all]
      /\ wire' = IF Overflows(all) THEN wire \o SubSeq(all, 1, WriterCap) ELSE wire
  BY DEF EncodeByte
<1> HIDE DEF b, e
<1>4. all \in Seq(Byte) /\ Len(all) \in Nat /\ Len(all) <= WriterCap + 2
  <2>1. all \in Seq(Byte) /\ Len(all) = Len(enc.buf) + Len(e)
    BY <1>0, <1>2, ConcatProperties DEF e
  <2> HIDE DEF all
  <2> QED BY <1>0, <1>2, <2>1
<1>5. (wire \o enc.buf) \o e = wire \o all
  <2>1. all = enc.buf \o e BY DEF e
  <2> HIDE DEF all
  <2>2. wire \in Seq(Byte) /\ enc.buf \in Seq(Byte) /\ e \in Seq(Byte) BY <1>0, <1>2
  <2>3. (wire \o enc.buf) \o e = wire \o (enc.buf \o e) BY <2>2, Associative
  <2> QED BY <2>1, <2>3
<1> HIDE DEF all
<1>6. CASE Overflows(all)
  <2>1. WriterCap \in Nat /\ WriterCap <= Len(all)
    BY <1>0, <1>4, <1>6 DEF Overflows
  <2> DEFINE s == SubSeq(all, 1, WriterCap)
             r == SubSeq(all, WriterCap + 1, Len(all))
  <2>2. /\ s \in Seq(Byte) /\ r \in Seq(Byte) /\ s \o r = all
        /\ Len(r) = Len(all) - WriterCap
    BY <1>4, <2>1, Cut
  <2>3. enc'.buf = r /\ wire' = wire \o s /\ enc'.p = Tail(enc.p) /\ enc'.last = b
    BY <1>3, <1>6
  <2> HIDE DEF s, r
  <2>4. wire \o s \in Seq(Byte) /\ Extends(wire \o s, wire)
    BY <1>0, <2>2, ConcatProperties, ConcatExtends
  <2>5. (wire \o s) \o r = wire \o all 
    <3>1. wire \in Seq(Byte) /\ s \in Seq(Byte) /\ r \in Seq(Byte) BY <1>0, <2>2
    <3>2. (wire \o s) \o r = wire \o (s \o r) BY <3>1, Associative
    <3> QED BY <2>2, <3>2
  <2>6. Produced' = wire \o all BY <2>3, <2>5 DEF Produced
  <2>7. Len(r) <= WriterCap BY <1>0, <1>4, <2>2
  <2> QED BY <1>5, <2>2, <2>3, <2>4, <2>6, <2>7 DEF Produced, e, b
<1>7. CASE ~Overflows(all)
  <2>1. enc'.buf = all /\ wire' = wire /\ enc'.p = Tail(enc.p) /\ enc'.last = b
    BY <1>3, <1>7
  <2>2. Len(all) <= WriterCap BY <1>0, <1>4, <1>7 DEF Overflows
  <2>3. Len(wire) \in Nat BY <1>0
  <2>4. Extends(wire', wire) BY <2>1, <2>3 DEF Extends
  <2> QED BY <1>0, <1>4, <1>5, <2>1, <2>2, <2>4 DEF Produced, e, b
<1> QED BY <1>6, <1>7

\* Close moves what the Writer holds to txBuf.
LEMMA CloseProduces ==
    ASSUME TypeOK, Close
    PROVE  /\ Produced' = Produced /\ wire' \in Seq(Byte) /\ Extends(wire', wire)
           /\ enc'.p = enc.p /\ enc'.last = enc.last /\ enc'.buf = << >>
<1>0. enc.buf \in Seq(Byte) /\ wire \in Seq(Byte) BY DEF TypeOK
<1>1. /\ wire' = wire \o enc.buf
      /\ enc'.p = enc.p /\ enc'.last = enc.last /\ enc'.buf = << >>
  BY DEF Close, TypeOK
<1>2. wire \o enc.buf \in Seq(Byte) /\ Extends(wire \o enc.buf, wire)
  BY <1>0, ConcatProperties, ConcatExtends
<1>3. Produced' = (wire \o enc.buf) \o << >> BY <1>1 DEF Produced
<1>4. Produced' = Produced BY <1>2, <1>3, ConcatEmptySeq DEF Produced
<1> QED BY <1>1, <1>2, <1>4

-----------------------------------------------------------------------------
(* The Reader. *)

Pos(r) == r.taken - Len(r.buf)

\* The buffer of the Reader r holds bytes of the wire.
Holds(r) ==
    /\ r \in Reader
    /\ r.taken <= r.arrived /\ r.arrived <= Len(wire) /\ r.n <= r.want
    /\ Len(r.buf) <= r.taken
    /\ \A j \in 1 .. Len(r.buf) : r.buf[j] = wire[Pos(r) + j]

\* q differs from r in its buffer only.
SameButBuffer(q, r) ==
    /\ q.pc = r.pc /\ q.arrived = r.arrived /\ q.done = r.done
    /\ q.want = r.want /\ q.n = r.n /\ q.err = r.err

\* Filling the buffer reads no byte; it stays empty only if rxBuf is.
LEMMA FilledFacts ==
    ASSUME wire \in Seq(Byte), NEW r, Holds(r)
    PROVE  /\ Holds(Filled(r)) /\ SameButBuffer(Filled(r), r)
           /\ Pos(Filled(r)) = Pos(r)
           /\ Filled(r).buf = << >> => Filled(r).taken = Filled(r).arrived
<1>0. /\ r.taken \in Nat /\ r.arrived \in Nat /\ r.buf \in Seq(Byte)
      /\ r.taken <= r.arrived /\ r.arrived <= Len(wire) /\ Len(wire) \in Nat
      /\ ReaderCap \in Nat \ {0} /\ r \in Reader /\ Len(r.buf) \in Nat
  BY NetasciiAssumption DEF Holds, Reader
<1>1. CASE r.buf # << >>
  <2>1. Filled(r) = r BY <1>1 DEF Filled
  <2> QED BY <1>1, <2>1 DEF SameButBuffer
<1>2. CASE r.buf = << >>
  <2> DEFINE upTo == IF r.taken + ReaderCap < r.arrived THEN r.taken + ReaderCap
                     ELSE r.arrived
             s == SubSeq(wire, r.taken + 1, upTo)
             q == Filled(r)
  <2>1. /\ upTo \in Nat /\ r.taken <= upTo /\ upTo <= r.arrived
        /\ upTo = r.taken => r.taken = r.arrived
    BY <1>0
  <2>2. q = [r EXCEPT !.buf = s, !.taken = upTo] BY <1>2 DEF Filled
  <2> HIDE DEF upTo
  <2>3. /\ s \in Seq(Byte) /\ Len(s) = upTo - r.taken
        /\ \A j \in 1 .. Len(s) : s[j] = wire[r.taken + j]
    <3>1. \A i \in 1 .. Len(wire) : wire[i] \in Byte BY ElementOfSeq
    <3>2. r.taken + 1 \in Int /\ upTo \in Int
          /\ \A i \in r.taken + 1 .. upTo : wire[i] \in Byte
      BY <1>0, <2>1, <3>1
    <3>3. /\ s \in Seq(Byte)
          /\ Len(s) = IF r.taken + 1 <= upTo THEN upTo - (r.taken + 1) + 1 ELSE 0
          /\ \A i \in 1 .. upTo - (r.taken + 1) + 1 : s[i] = wire[(r.taken + 1) + i - 1]
      BY <3>2, SubSeqProperties
    <3>4. Len(s) = upTo - r.taken BY <1>0, <2>1, <3>3
    <3>5. ASSUME NEW j \in 1 .. Len(s) PROVE s[j] = wire[r.taken + j]
      <4>0. Len(s) \in Nat BY <3>3, LenProperties
      <4>1. j \in 1 .. upTo - (r.taken + 1) + 1 /\ (r.taken + 1) + j - 1 = r.taken + j
        BY <1>0, <2>1, <3>4, <4>0
      <4> QED BY <3>3, <4>1
    <3> QED BY <3>3, <3>4, <3>5
  <2> HIDE DEF s, q
  <2>4. /\ q.buf = s /\ q.taken = upTo /\ SameButBuffer(q, r)
        /\ q \in Reader
    BY <1>0, <2>1, <2>2, <2>3 DEF Reader, SameButBuffer
  <2>5. Pos(q) = r.taken /\ Pos(r) = r.taken
    <3>1. Len(r.buf) = 0 BY <1>2
    <3>2. Len(q.buf) = upTo - r.taken BY <2>3, <2>4
    <3> QED BY <1>0, <2>1, <2>4, <3>1, <3>2 DEF Pos
  <2>6. Holds(q)
    <3>1. \A j \in 1 .. Len(q.buf) : q.buf[j] = wire[Pos(q) + j] BY <2>3, <2>4, <2>5
    <3>2. Len(q.buf) <= q.taken BY <1>0, <2>1, <2>3, <2>4
    <3>3. q.taken <= q.arrived /\ q.arrived <= Len(wire) /\ q.n <= q.want
      BY <1>0, <2>1, <2>4 DEF SameButBuffer, Holds
    <3> QED BY <2>4, <3>1, <3>2, <3>3 DEF Holds
  <2>7. q.buf = << >> => q.taken = q.arrived
    <3>1. q.buf = << >> => Len(s) = 0 BY <2>4
    <3> QED BY <1>0, <2>1, <2>3, <2>4, <3>1 DEF SameButBuffer
  <2> QED BY <2>4, <2>5, <2>6, <2>7 DEF q
<1> QED BY <1>1, <1>2

\* ReadByte takes the next byte of the wire.
LEMMA ConsumedFacts ==
    ASSUME wire \in Seq(Byte), NEW r, Holds(r), r.buf # << >>
    PROVE  /\ Holds(Consumed(r)) /\ SameButBuffer(Consumed(r), r)
           /\ Pos(Consumed(r)) = Pos(r) + 1
           /\ Head(r.buf) = wire[Pos(r) + 1]
           /\ Pos(r) \in Nat /\ Pos(r) + 1 <= Len(wire)
<1>0. /\ r.taken \in Nat /\ r.arrived \in Nat /\ r.buf \in Seq(Byte)
      /\ r.taken <= r.arrived /\ r.arrived <= Len(wire) /\ Len(wire) \in Nat
      /\ r \in Reader /\ Len(r.buf) \in Nat /\ Len(r.buf) <= r.taken
  BY DEF Holds, Reader
<1> DEFINE q == Consumed(r)
           s == Tail(r.buf)
<1>1. /\ s \in Seq(Byte) /\ Len(s) = Len(r.buf) - 1 /\ Len(r.buf) # 0
      /\ \A j \in 1 .. Len(s) : s[j] = r.buf[j + 1]
  <2>1. /\ s \in Seq(Byte) /\ Len(s) = Len(r.buf) - 1
        /\ \A j \in 1 .. Len(s) : s[j] = r.buf[j + 1]
    BY <1>0, HeadTailProperties
  <2>2. Len(r.buf) # 0 BY <1>0, EmptySeq
  <2> QED BY <2>1, <2>2
<1>2. q = [r EXCEPT !.buf = s] BY DEF Consumed
<1> HIDE DEF q, s
<1>3. q.buf = s /\ q.taken = r.taken /\ SameButBuffer(q, r) /\ q \in Reader
  BY <1>0, <1>1, <1>2 DEF Reader, SameButBuffer
<1>4. /\ Pos(r) \in Nat /\ Pos(q) = Pos(r) + 1 /\ Pos(r) + 1 <= Len(wire)
      /\ Pos(r) + Len(r.buf) = r.taken
  BY <1>0, <1>1, <1>3 DEF Pos
<1>5. Head(r.buf) = wire[Pos(r) + 1]
  <2>1. 1 \in 1 .. Len(r.buf) /\ Head(r.buf) = r.buf[1] BY <1>0, <1>1
  <2> QED BY <2>1 DEF Holds
<1>6. ASSUME NEW j \in 1 .. Len(q.buf) PROVE q.buf[j] = wire[Pos(q) + j]
  <2>0. Len(q.buf) = Len(s) /\ Len(s) \in Nat BY <1>1, <1>3, LenProperties
  <2>1. j + 1 \in 1 .. Len(r.buf) /\ Pos(r) + (j + 1) = Pos(q) + j
    <3>1. j \in 1 .. Len(s) /\ Len(s) = Len(r.buf) - 1 BY <1>1, <2>0
    <3>2. j \in Nat /\ Len(r.buf) \in Nat BY <1>0, <2>0, <3>1
    <3>3. j + 1 \in 1 .. Len(r.buf) BY <3>1, <3>2
    <3> QED BY <1>4, <3>2, <3>3
  <2>2. r.buf[j + 1] = wire[Pos(r) + (j + 1)] BY <2>1 DEF Holds
  <2> QED BY <1>1, <1>3, <2>0, <2>1, <2>2
<1>7. Holds(q)
  <2>1. Len(q.buf) <= q.taken BY <1>0, <1>1, <1>3
  <2> QED BY <1>0, <1>3, <1>6, <2>1 DEF Holds, SameButBuffer
<1> QED BY <1>3, <1>4, <1>5, <1>7 DEF q

\* conn.read returns from a decoding that has used up rxBuf.
LEMMA ReturnedFacts ==
    ASSUME NEW r, Holds(r), r.buf = << >>, r.taken = r.arrived
    PROVE  LET q == Returned(r)
           IN  /\ Holds(q) /\ Pos(q) = Pos(r)
               /\ q.pc = "app" /\ q.buf = << >> /\ q.taken = q.arrived
               /\ q.arrived = r.arrived /\ q.done = r.done
               /\ q.want = r.want /\ q.n = r.n
               /\ q.err = IF r.done THEN "EOF" ELSE r.err
<1> DEFINE q == Returned(r)
<1>1. /\ q \in Reader /\ q.pc = "app" /\ q.buf = r.buf /\ q.taken = r.taken
      /\ q.arrived = r.arrived /\ q.done = r.done /\ q.want = r.want /\ q.n = r.n
      /\ q.err = IF r.done THEN "EOF" ELSE r.err
  BY DEF Holds, Reader, Returned
<1> HIDE DEF q
<1>2. Pos(q) = Pos(r) BY <1>1 DEF Pos
<1>3. Holds(q) BY <1>1, <1>2 DEF Holds
<1>4. Holds(Returned(r)) /\ Pos(Returned(r)) = Pos(r) BY <1>2, <1>3 DEF q
<1> QED BY <1>1, <1>4 DEF q

\* A byte for p.
LEMMA YieldsFacts ==
    ASSUME NEW r, Holds(r), r.n < r.want, NEW b, Yields(r, b)
    PROVE  /\ Holds(rd') /\ Pos(rd') = Pos(r) /\ out' = Append(out, b)
           /\ rd'.pc = r.pc /\ rd'.arrived = r.arrived /\ rd'.done = r.done
           /\ rd'.want = r.want /\ rd'.n = r.n + 1 /\ rd'.err = r.err
<1>0. r.n \in Nat /\ r.want \in Nat BY DEF Holds, Reader
<1>1. r.n + 1 \in Nat /\ r.n + 1 <= r.want BY <1>0
<1>2. rd' = [r EXCEPT !.n = r.n + 1] /\ out' = Append(out, b) BY DEF Yields
<1>3. /\ rd' \in Reader /\ rd'.buf = r.buf /\ rd'.taken = r.taken
      /\ rd'.pc = r.pc /\ rd'.arrived = r.arrived /\ rd'.done = r.done
      /\ rd'.want = r.want /\ rd'.n = r.n + 1 /\ rd'.err = r.err
  BY <1>1, <1>2 DEF Holds, Reader
<1>4. Pos(rd') = Pos(r) BY <1>3 DEF Pos
<1>5. Holds(rd') BY <1>1, <1>3, <1>4 DEF Holds
<1> QED BY <1>2, <1>3, <1>4, <1>5

\* The turn finds no byte, or a CR and nothing after it, and Read returns.
TurnStops ==
    /\ rd'.pc = "app" /\ rd'.n = rd.n /\ out' = out
    /\ rd'.buf = << >> /\ rd'.taken = rd'.arrived
    /\ rd'.err = IF rd.done THEN "EOF" ELSE rd.err
    /\ \/ Pos(rd') = Pos(rd)
       \/ /\ Pos(rd') = Pos(rd) + 1 /\ Pos(rd) + 1 <= Len(wire)
          /\ wire[Pos(rd) + 1] = "CR"

\* The turn yields a byte.
TurnYields ==
    /\ rd'.pc = rd.pc /\ rd'.err = rd.err /\ rd'.n = rd.n + 1
    /\ Pos(rd) + 1 <= Len(wire)
    /\ \E b \in Byte :
         /\ out' = Append(out, b)
         /\ \/ /\ wire[Pos(rd) + 1] # "CR" /\ b = wire[Pos(rd) + 1]
               /\ Pos(rd') = Pos(rd) + 1
            \/ /\ wire[Pos(rd) + 1] = "CR" /\ Pos(rd) + 2 <= Len(wire)
               /\ \/ wire[Pos(rd) + 2] = "LF" /\ b = "LF" /\ Pos(rd') = Pos(rd) + 2
                  \/ wire[Pos(rd) + 2] # "LF"

\* What one turn of the loop in Reader.Read does.
LEMMA DecodeTurn ==
    ASSUME wire \in Seq(Byte), Holds(rd), DecodeByte
    PROVE  /\ Holds(rd') /\ (TurnStops \/ TurnYields)
           /\ rd'.arrived = rd.arrived /\ rd'.done = rd.done /\ rd'.want = rd.want
<1> DEFINE r1 == Filled(rd)
           c1 == Consumed(r1)
           r2 == Filled(c1)
<1>0. /\ rd.n < rd.want /\ rd.n \in Nat /\ rd.want \in Nat
      /\ \/ r1.buf = << >> /\ rd' = Returned(r1) /\ UNCHANGED out
         \/ /\ r1.buf # << >> /\ Head(r1.buf) # "CR"
            /\ Yields(c1, Head(r1.buf))
         \/ /\ r1.buf # << >> /\ Head(r1.buf) = "CR" /\ r2.buf = << >>
            /\ rd' = Returned(r2) /\ UNCHANGED out
         \/ /\ r1.buf # << >> /\ Head(r1.buf) = "CR" /\ r2.buf # << >>
            /\ \/ Head(r2.buf) = "LF" /\ Yields(Consumed(r2), "LF")
               \/ Head(r2.buf) = "NUL" /\ Yields(Consumed(r2), "CR")
               \/ /\ Head(r2.buf) \notin {"LF", "NUL"}
                  /\ Yields(r2, "CR")
  BY DEF DecodeByte, Holds, Reader
<1> HIDE DEF r1, c1, r2
<1>1. /\ Holds(r1) /\ SameButBuffer(r1, rd) /\ Pos(r1) = Pos(rd)
      /\ r1.buf = << >> => r1.taken = r1.arrived
  BY FilledFacts DEF r1
<1>2. CASE r1.buf = << >> /\ rd' = Returned(r1) /\ UNCHANGED out
  <2>1. /\ Holds(rd') /\ Pos(rd') = Pos(r1) /\ rd'.pc = "app" /\ rd'.buf = << >>
        /\ rd'.taken = rd'.arrived /\ rd'.arrived = r1.arrived /\ rd'.done = r1.done
        /\ rd'.want = r1.want /\ rd'.n = r1.n
        /\ rd'.err = IF r1.done THEN "EOF" ELSE r1.err
    BY <1>1, <1>2, ReturnedFacts
  <2> QED BY <1>1, <1>2, <2>1 DEF TurnStops, SameButBuffer
<1>3. CASE r1.buf # << >>
  <2>1. /\ Holds(c1) /\ SameButBuffer(c1, r1) /\ Pos(c1) = Pos(r1) + 1
        /\ Head(r1.buf) = wire[Pos(rd) + 1]
        /\ Pos(rd) \in Nat /\ Pos(rd) + 1 <= Len(wire)
    BY <1>1, <1>3, ConsumedFacts DEF c1
  <2>2. Len(wire) \in Nat /\ \A i \in 1 .. Len(wire) : wire[i] \in Byte
    BY ElementOfSeq, LenProperties
  <2>3. wire[Pos(rd) + 1] \in Byte BY <2>1, <2>2
  <2>4. SameButBuffer(c1, rd) BY <1>1, <2>1 DEF SameButBuffer
  <2>5. CASE Head(r1.buf) # "CR" /\ Yields(c1, Head(r1.buf))
    <3>1. c1.n < c1.want BY <1>0, <2>4 DEF SameButBuffer
    <3>2. /\ Holds(rd') /\ Pos(rd') = Pos(c1) /\ out' = Append(out, Head(r1.buf))
          /\ rd'.pc = c1.pc /\ rd'.arrived = c1.arrived /\ rd'.done = c1.done
          /\ rd'.want = c1.want /\ rd'.n = c1.n + 1 /\ rd'.err = c1.err
      BY <2>1, <2>5, <3>1, YieldsFacts
    <3>3. TurnYields
      BY <1>1, <2>1, <2>3, <2>4, <2>5, <3>2 DEF TurnYields, SameButBuffer
    <3> QED BY <2>4, <3>2, <3>3 DEF SameButBuffer
  <2>6. CASE Head(r1.buf) = "CR"
    <3>1. /\ Holds(r2) /\ SameButBuffer(r2, c1) /\ Pos(r2) = Pos(rd) + 1
          /\ r2.buf = << >> => r2.taken = r2.arrived
      BY <1>1, <2>1, FilledFacts DEF r2
    <3>2. SameButBuffer(r2, rd) BY <2>4, <3>1 DEF SameButBuffer
    <3>3. CASE r2.buf = << >> /\ rd' = Returned(r2) /\ UNCHANGED out
      <4>1. /\ Holds(rd') /\ Pos(rd') = Pos(r2) /\ rd'.pc = "app" /\ rd'.buf = << >>
            /\ rd'.taken = rd'.arrived /\ rd'.arrived = r2.arrived
            /\ rd'.done = r2.done /\ rd'.want = r2.want /\ rd'.n = r2.n
            /\ rd'.err = IF r2.done THEN "EOF" ELSE r2.err
        BY <3>1, <3>3, ReturnedFacts
      <4> QED BY <2>1, <2>6, <3>1, <3>2, <3>3, <4>1 DEF TurnStops, SameButBuffer
    <3>4. CASE r2.buf # << >>
      <4> DEFINE c2 == Consumed(r2)
      <4>1. /\ Holds(c2) /\ SameButBuffer(c2, r2) /\ Pos(c2) = Pos(r2) + 1
            /\ Head(r2.buf) = wire[Pos(r2) + 1] /\ Pos(r2) + 1 <= Len(wire)
        BY <3>1, <3>4, ConsumedFacts
      <4> HIDE DEF c2
      <4>2. /\ SameButBuffer(c2, rd) /\ Pos(c2) = Pos(rd) + 2
            /\ Head(r2.buf) = wire[Pos(rd) + 2] /\ Pos(rd) + 2 <= Len(wire)
        <5>1. Pos(r2) + 1 = Pos(rd) + 2 BY <2>1, <3>1
        <5> QED BY <3>2, <4>1, <5>1 DEF SameButBuffer
      <4>3. "LF" \in Byte /\ "CR" \in Byte BY DEF Byte
      <4>4. CASE Head(r2.buf) = "LF" /\ Yields(c2, "LF")
        <5>1. c2.n < c2.want BY <1>0, <4>2 DEF SameButBuffer
        <5>2. /\ Holds(rd') /\ Pos(rd') = Pos(c2) /\ out' = Append(out, "LF")
              /\ rd'.pc = c2.pc /\ rd'.arrived = c2.arrived /\ rd'.done = c2.done
              /\ rd'.want = c2.want /\ rd'.n = c2.n + 1 /\ rd'.err = c2.err
          BY <4>1, <4>4, <5>1, YieldsFacts
        <5>3. TurnYields
          BY <2>1, <2>6, <4>2, <4>3, <4>4, <5>2 DEF TurnYields, SameButBuffer
        <5> QED BY <4>2, <5>2, <5>3 DEF SameButBuffer
      <4>5. ASSUME NEW q, q = c2 \/ q = r2, Head(r2.buf) # "LF", Yields(q, "CR")
            PROVE  /\ Holds(rd') /\ TurnYields
                   /\ rd'.arrived = rd.arrived /\ rd'.done = rd.done
                   /\ rd'.want = rd.want
        <5>0. Holds(q) /\ SameButBuffer(q, rd) BY <3>1, <3>2, <4>1, <4>2, <4>5
        <5>1. q.n < q.want BY <1>0, <5>0 DEF SameButBuffer
        <5>2. /\ Holds(rd') /\ out' = Append(out, "CR")
              /\ rd'.pc = q.pc /\ rd'.arrived = q.arrived /\ rd'.done = q.done
              /\ rd'.want = q.want /\ rd'.n = q.n + 1 /\ rd'.err = q.err
          BY <4>5, <5>0, <5>1, YieldsFacts
        <5>3. TurnYields
          BY <2>1, <2>6, <4>2, <4>3, <4>5, <5>0, <5>2 DEF TurnYields, SameButBuffer
        <5> QED BY <5>0, <5>2, <5>3 DEF SameButBuffer
      <4>6. \/ Head(r2.buf) = "LF" /\ Yields(c2, "LF")
            \/ Head(r2.buf) # "LF" /\ Yields(c2, "CR")
            \/ Head(r2.buf) # "LF" /\ Yields(r2, "CR")
        BY <1>0, <1>3, <2>6, <3>4 DEF c2
      <4> QED BY <4>4, <4>5, <4>6
    <3> QED BY <1>0, <1>3, <2>6, <3>3, <3>4
  <2> QED BY <1>0, <1>3, <2>5, <2>6
<1> QED BY <1>0, <1>2, <1>3

-----------------------------------------------------------------------------
(* The inductive invariant. *)

\* The types of the sequences, and how far the Writer is.
LEMMA Lengths ==
    ASSUME TypeOK, Len(enc.p) <= Len(text)
    PROVE  /\ text \in Seq(Byte) /\ wire \in Seq(Byte) /\ out \in Seq(Byte)
           /\ enc.p \in Seq(Byte) /\ enc.buf \in Seq(Byte) /\ enc.last \in Byte
           /\ Produced \in Seq(Byte)
           /\ Len(text) \in Nat /\ Len(wire) \in Nat /\ Len(out) \in Nat
           /\ Len(enc.p) \in Nat /\ Len(Produced) \in Nat
           /\ Len(wire) <= Len(Produced)
           /\ \A i \in 1 .. Len(wire) : Produced[i] = wire[i]
           /\ EncodedBytes \in Nat /\ EncodedBytes <= Len(text)
           /\ EncodedBytes + Len(enc.p) = Len(text)
<1>1. /\ text \in Seq(Byte) /\ wire \in Seq(Byte) /\ out \in Seq(Byte)
      /\ enc.p \in Seq(Byte) /\ enc.buf \in Seq(Byte) /\ enc.last \in Byte
  BY DEF TypeOK
<1>2. Produced \in Seq(Byte) /\ Extends(Produced, wire)
  BY <1>1, ConcatProperties, ConcatExtends DEF Produced
<1>3. /\ Len(text) \in Nat /\ Len(wire) \in Nat /\ Len(out) \in Nat
      /\ Len(enc.p) \in Nat /\ Len(Produced) \in Nat
  BY <1>1, <1>2, LenProperties
<1>4. /\ EncodedBytes \in Nat /\ EncodedBytes <= Len(text)
      /\ EncodedBytes + Len(enc.p) = Len(text)
  BY <1>3 DEF EncodedBytes
<1> QED BY <1>1, <1>2, <1>3, <1>4 DEF Extends

\* What has been read stays right while text and encoding grow.
LEMMA TextReadStays ==
    ASSUME TypeOK, Len(enc.p) <= Len(text), TextRead, Extends(text', text),
           EncodedBytes' \in Nat, EncodedBytes <= EncodedBytes',
           out' = out, Position' = Position
    PROVE  TextRead'
<1>0. /\ Len(text) \in Nat /\ Len(out) \in Nat /\ EncodedBytes \in Nat
      /\ EncodedBytes <= Len(text)
  BY Lengths
<1> SUFFICES ASSUME HasNoCR'
             PROVE  /\ Len(out') <= EncodedBytes'
                    /\ \A i \in 1 .. Len(out') : out'[i] = text'[i]
                    /\ \/ Position' = EndOf(Len(out))'
                       \/ /\ Len(out') < EncodedBytes' /\ text'[Len(out') + 1] = "LF"
                          /\ Position' = EndOf(Len(out))' + 1
  BY DEF TextRead
<1>1. HasNoCR
  <2>1. ASSUME NEW i \in 1 .. Len(text) PROVE text[i] # "CR"
    <3>1. i \in 1 .. Len(text') /\ text'[i] = text[i]
      BY <1>0 DEF Extends
    <3> QED BY <3>1 DEF HasNoCR
  <2> QED BY <2>1 DEF HasNoCR
<1>2. PICK k \in Nat : k = Len(out) BY <1>0
<1>3. /\ k <= EncodedBytes /\ \A i \in 1 .. k : out[i] = text[i]
      /\ \/ Position = EndOf(k)
         \/ k < EncodedBytes /\ text[k + 1] = "LF" /\ Position = EndOf(k) + 1
  BY <1>1, <1>2 DEF TextRead
<1>4. \A j \in 1 .. k : j \in 1 .. Len(text) BY <1>0, <1>3
<1>5. \A j \in 1 .. k : text'[j] = text[j] BY <1>4 DEF Extends
<1>6. EndOf(k)' = EndOf(k) BY <1>5, EndStays
<1>7. EndOf(Len(out))' = EndOf(k)' BY <1>2 DEF EndOf
<1>8. k < EncodedBytes => text'[k + 1] = text[k + 1] /\ k < EncodedBytes'
  <2>1. k < EncodedBytes => k + 1 \in 1 .. Len(text) BY <1>0
  <2> QED BY <1>0, <2>1 DEF Extends
<1>9. k <= EncodedBytes' BY <1>0, <1>3
<1> QED BY <1>2, <1>3, <1>5, <1>6, <1>7, <1>8, <1>9

\* What the Reader holds stays there while the wire grows.
LEMMA ReaderStays ==
    ASSUME TypeOK, ReaderInv, UNCHANGED rd, Extends(wire', wire), ~rd.done
    PROVE  ReaderInv'
<1>0. /\ rd.taken \in Nat /\ rd.arrived \in Nat /\ rd.buf \in Seq(Byte)
      /\ rd.taken <= rd.arrived /\ rd.arrived <= Len(wire) /\ Len(rd.buf) \in Nat
      /\ Len(wire) \in Nat
  BY DEF TypeOK, Reader
<1>1. ASSUME NEW j \in 1 .. Len(rd.buf) PROVE rd.buf[j] = wire'[Position + j]
  <2>1. Position + j \in 1 .. Len(wire) BY <1>0 DEF Position, ReaderInv
  <2> QED BY <2>1 DEF ReaderInv, Extends
<1>2. Position' = Position BY DEF Position
<1> QED BY <1>1, <1>2 DEF ReaderInv

\* A call of conn.Write keeps the invariant.
LEMMA WriteStep ==
    ASSUME NetasciiInv, NEW p \in Chunks, Write(p) PROVE NetasciiInv'
<1>0. /\ TypeOK /\ Paired /\ WriterInv /\ TextProduced /\ ReaderInv /\ TextRead
      /\ Len(enc.p) <= Len(text)
  BY DEF NetasciiInv, WriterInv
<1>1. /\ text' = text \o p /\ UNCHANGED << wire, closed, rd, out >>
      /\ enc'.p = p /\ enc'.buf = enc.buf /\ enc'.last = enc.last
      /\ ~closed /\ enc.p = << >> /\ p \in Seq(Byte)
      /\ enc' \in [p : Seq(Byte), last : Byte, buf : Seq(Byte)]
  BY <1>0, NetasciiAssumption DEF Write, TypeOK
<1>2. /\ text \in Seq(Byte) /\ Len(text) \in Nat /\ EncodedBytes \in Nat
      /\ EncodedBytes = Len(text)
  BY <1>0, <1>1, Lengths DEF EncodedBytes
<1>3. /\ text' \in Seq(Byte) /\ Len(text') = Len(text) + Len(p)
      /\ Extends(text', text) /\ Len(p) \in Nat
      /\ \A j \in 1 .. Len(p) : text'[Len(text) + j] = p[j]
  <2>1. /\ text \o p \in Seq(Byte) /\ Len(text \o p) = Len(text) + Len(p)
        /\ \A i \in 1 .. Len(text) + Len(p) : (text \o p)[i] =
             IF i <= Len(text) THEN text[i] ELSE p[i - Len(text)]
    BY <1>1, <1>2, ConcatProperties
  <2>2. Len(p) \in Nat BY <1>1
  <2>3. Extends(text \o p, text) BY <1>1, <1>2, ConcatExtends
  <2>4. ASSUME NEW j \in 1 .. Len(p) PROVE (text \o p)[Len(text) + j] = p[j]
    <3>1. /\ Len(text) + j \in 1 .. Len(text) + Len(p) /\ ~(Len(text) + j <= Len(text))
          /\ (Len(text) + j) - Len(text) = j
      BY <1>2, <2>2
    <3> QED BY <2>1, <3>1
  <2> QED BY <1>1, <2>1, <2>2, <2>3, <2>4
<1>4. EncodedBytes' = EncodedBytes BY <1>1, <1>2, <1>3 DEF EncodedBytes
<1>5. TypeOK' BY <1>0, <1>1, <1>3 DEF TypeOK
<1>6. Produced' = Produced BY <1>1 DEF Produced
<1>7. Paired' BY <1>0, <1>6 DEF Paired
<1>8. \A i \in 1 .. EncodedBytes : text'[i] = text[i] BY <1>2, <1>3 DEF Extends
<1>9. WriterInv'
  <2>1. EncodedBytes # 0 => EncodedBytes \in 1 .. EncodedBytes BY <1>2
  <2>2. enc'.last = IF EncodedBytes = 0 THEN "NUL" ELSE text'[EncodedBytes]
    BY <1>0, <1>1, <1>8, <2>1 DEF WriterInv
  <2>3. Len(enc'.p) <= Len(text') BY <1>1, <1>2, <1>3
  <2> QED BY <1>0, <1>1, <1>2, <1>3, <1>4, <1>6, <2>2, <2>3 DEF WriterInv
<1>10. HasNoCR' => HasNoCR
  <2>1. \A i \in 1 .. Len(text) : i \in 1 .. Len(text') /\ text'[i] = text[i]
    BY <1>2, <1>3 DEF Extends
  <2> QED BY <2>1 DEF HasNoCR
<1>11. TextProduced'
  <2>1. PICK m \in Nat : m = EncodedBytes BY <1>2
  <2>2. ASSUME NEW i \in 0 .. m PROVE i \in Nat /\ EndOf(i)' = EndOf(i)
    <3>1. i \in Nat /\ \A j \in 1 .. i : j \in 1 .. EncodedBytes BY <2>1
    <3> QED BY <1>8, <3>1, EndStays
  <2>3. EndOf(EncodedBytes)' = EndOf(m)' /\ EndOf(EncodedBytes) = EndOf(m)
    BY <1>4, <2>1 DEF EndOf
  <2>4. EndOf(EncodedBytes)' = EndOf(EncodedBytes) BY <2>2, <2>3
  <2>5. \A i \in 1 .. m : EndOf(i)' = EndOf(i) BY <2>2
  <2> QED BY <1>0, <1>4, <1>6, <1>8, <1>10, <2>1, <2>4, <2>5 DEF TextProduced
<1>12. ReaderInv' BY <1>0, <1>1 DEF ReaderInv, Position
<1>13. TextRead'
  <2>1. Position' = Position BY <1>1 DEF Position
  <2> QED BY <1>0, <1>1, <1>2, <1>3, <1>4, <2>1, TextReadStays
<1> QED BY <1>5, <1>7, <1>9, <1>11, <1>12, <1>13 DEF NetasciiInv

\* s is netascii.
IsNetascii(s) ==
    \A i \in 1 .. Len(s) :
      /\ s[i] = "LF" => i > 1 /\ s[i - 1] = "CR"
      /\ s[i] = "CR" /\ i < Len(s) => s[i + 1] \in {"LF", "NUL"}

\* The bytes that were produced before stay netascii.
LEMMA NetasciiStays ==
    ASSUME NEW s \in Seq(Byte), NEW t, IsNetascii(s), NEW i \in 1 .. Len(s),
           \A j \in 1 .. Len(s) : t[j] = s[j]
    PROVE  /\ t[i] = "LF" => i > 1 /\ t[i - 1] = "CR"
           /\ t[i] = "CR" /\ i < Len(s) => t[i + 1] \in {"LF", "NUL"}
<1>0. Len(s) \in Nat BY LenProperties
<1>1. t[i] = s[i] OBVIOUS
<1>2. i > 1 => i - 1 \in 1 .. Len(s) BY <1>0
<1>3. i < Len(s) => i + 1 \in 1 .. Len(s) BY <1>0
<1>4. /\ i > 1 => t[i - 1] = s[i - 1]
      /\ i < Len(s) => t[i + 1] = s[i + 1]
  BY <1>2, <1>3
<1>5. /\ s[i] = "LF" => i > 1 /\ s[i - 1] = "CR"
      /\ s[i] = "CR" /\ i < Len(s) => s[i + 1] \in {"LF", "NUL"}
  BY DEF IsNetascii
<1> QED BY <1>1, <1>4, <1>5

\* A byte that is added to netascii, encoded after the byte before it, leaves
\* netascii, which ends with the byte.
LEMMA NetasciiGrows ==
    ASSUME NEW s \in Seq(Byte), NEW b \in Byte, NEW last, IsNetascii(s),
           last = IF s = << >> THEN "NUL" ELSE s[Len(s)],
           NEW t \in Seq(Byte),
           \/ /\ t = s \o << b >>
              /\ b = "LF" => last = "CR"
              /\ last = "CR" => b \in {"LF", "NUL"}
           \/ t = s \o << "CR", "LF" >> /\ b = "LF" /\ last # "CR"
           \/ t = s \o << "NUL", b >> /\ b \notin {"LF", "NUL"} /\ last = "CR"
    PROVE  t # << >> /\ t[Len(t)] = b /\ IsNetascii(t)
<1>0. Len(s) \in Nat /\ "CR" \in Byte /\ "LF" \in Byte /\ "NUL" \in Byte
      /\ (s # << >> => Len(s) # 0)
  BY EmptySeq, LenProperties DEF Byte
<1> DEFINE n == Len(s)
<1>1. last = "CR" => n # 0 /\ s[n] = "CR"
  <2>1. last = "CR" => s # << >> OBVIOUS
  <2> QED BY <1>0, <2>1
<1>2. n # 0 => s # << >> /\ last = s[n] BY <1>0
<1>3. CASE /\ t = s \o << b >>
           /\ b = "LF" => last = "CR"
           /\ last = "CR" => b \in {"LF", "NUL"}
  <2>1. Len(t) = n + 1 /\ (\A i \in 1 .. n : t[i] = s[i]) /\ t[n + 1] = b
    BY <1>3, OneMore
  <2>2. ASSUME NEW i \in 1 .. n + 1
        PROVE  /\ t[i] = "LF" => i > 1 /\ t[i - 1] = "CR"
               /\ t[i] = "CR" /\ i < n + 1 => t[i + 1] \in {"LF", "NUL"}
    <3>1. CASE i = n + 1
      <4>1. n # 0 => n \in 1 .. n /\ t[n] = s[n] BY <1>0, <2>1
      <4> QED BY <1>0, <1>1, <1>3, <2>1, <3>1, <4>1
    <3>2. CASE i # n + 1
      <4>1. i \in 1 .. n BY <1>0, <3>2
      <4>2. /\ t[i] = "LF" => i > 1 /\ t[i - 1] = "CR"
            /\ t[i] = "CR" /\ i < n => t[i + 1] \in {"LF", "NUL"}
        BY <2>1, <4>1, NetasciiStays
      <4>3. t[i] = s[i] BY <2>1, <4>1
      <4>4. i = n /\ t[i] = "CR" => t[i + 1] \in {"LF", "NUL"}
        <5>1. i = n => n # 0 BY <1>0, <4>1
        <5> QED BY <1>2, <1>3, <2>1, <4>3, <5>1
      <4>5. i < n \/ i = n BY <1>0, <4>1
      <4> QED BY <4>2, <4>4, <4>5
    <3> QED BY <3>1, <3>2
  <2>3. t # << >> /\ t[Len(t)] = b
    <3>1. Len(t) # 0 BY <1>0, <2>1
    <3> QED BY <2>1, <3>1, EmptySeq
  <2> QED BY <2>1, <2>2, <2>3 DEF IsNetascii
<1>4. ASSUME NEW a \in Byte, t = s \o << a, b >>,
             a = "CR" => b = "LF", a # "LF", b = "LF" => a = "CR",
             n # 0 => (s[n] = "CR" => a = "NUL")
      PROVE  t # << >> /\ t[Len(t)] = b /\ IsNetascii(t)
  <2>1. /\ Len(t) = n + 2 /\ (\A i \in 1 .. n : t[i] = s[i])
        /\ t[n + 1] = a /\ t[n + 2] = b
    BY <1>4, TwoMore
  <2>2. ASSUME NEW i \in 1 .. n + 2
        PROVE  /\ t[i] = "LF" => i > 1 /\ t[i - 1] = "CR"
               /\ t[i] = "CR" /\ i < n + 2 => t[i + 1] \in {"LF", "NUL"}
    <3>1. CASE i = n + 2
      <4>1. i - 1 = n + 1 /\ i > 1 BY <1>0, <3>1
      <4> QED BY <1>0, <1>4, <2>1, <3>1, <4>1
    <3>2. CASE i = n + 1
      <4>1. i + 1 = n + 2 BY <1>0, <3>2
      <4> QED BY <1>4, <2>1, <3>2, <4>1
    <3>3. CASE i # n + 1 /\ i # n + 2
      <4>1. i \in 1 .. n BY <1>0, <3>3
      <4>2. /\ t[i] = "LF" => i > 1 /\ t[i - 1] = "CR"
            /\ t[i] = "CR" /\ i < n => t[i + 1] \in {"LF", "NUL"}
        BY <2>1, <4>1, NetasciiStays
      <4>3. t[i] = s[i] BY <2>1, <4>1
      <4>4. i = n /\ t[i] = "CR" => t[i + 1] \in {"LF", "NUL"}
        <5>1. i = n => n # 0 BY <1>0, <4>1
        <5> QED BY <1>4, <2>1, <4>3, <5>1
      <4>5. i < n \/ i = n BY <1>0, <4>1
      <4> QED BY <4>2, <4>4, <4>5
    <3> QED BY <3>1, <3>2, <3>3
  <2>3. t # << >> /\ t[Len(t)] = b
    <3>1. Len(t) # 0 BY <1>0, <2>1
    <3> QED BY <2>1, <3>1, EmptySeq
  <2> QED BY <2>1, <2>2, <2>3 DEF IsNetascii
<1>5. CASE t = s \o << "CR", "LF" >> /\ b = "LF" /\ last # "CR"
  <2>1. n # 0 => (s[n] = "CR" => "CR" = "NUL") BY <1>2, <1>5
  <2> QED BY <1>0, <1>4, <1>5, <2>1
<1>6. CASE t = s \o << "NUL", b >> /\ b \notin {"LF", "NUL"} /\ last = "CR"
  BY <1>0, <1>4, <1>6
<1> QED BY <1>3, <1>5, <1>6

\* Byte i of the first m ends within the encoding of those, and so does the CR
\* before an LF.
LEMMA EndWithin ==
    ASSUME NEW m \in Nat, NEW i \in 1 .. m
    PROVE  /\ EndOf(m) \in Nat /\ EndOf(i) \in 1 .. EndOf(m)
           /\ text[i] = "LF" => EndOf(i) - 1 \in 1 .. EndOf(m)
<1>1. EndOf(m) \in Nat /\ EndOf(i) \in Nat /\ EndOf(0) = 0
  <2>1. i \in Nat OBVIOUS
  <2> QED BY <2>1, EndNext
<1>2. EndOf(0) < EndOf(i)
  <2>1. i \in Nat /\ 0 \in Nat /\ 0 < i OBVIOUS
  <2> QED BY <2>1, EndGrows
<1>3. EndOf(i) <= EndOf(m)
  <2>1. CASE i = m BY <1>1, <2>1
  <2>2. CASE i # m
    <3>1. i \in Nat /\ i < m BY <2>2
    <3>2. EndOf(i) < EndOf(m) BY <3>1, EndGrows
    <3> QED BY <1>1, <3>2
  <2> QED BY <2>1, <2>2
<1>4. ASSUME text[i] = "LF" PROVE EndOf(i) >= 2
  <2> DEFINE h == i - 1
  <2>1. h \in Nat /\ h + 1 = i OBVIOUS
  <2> HIDE DEF h
  <2>2. EndOf(h) \in Nat BY <2>1, EndNext
  <2>3. EndOf(h + 1) = EndOf(h) + IF text[h + 1] = "LF" THEN 2 ELSE 1
    BY <2>1, EndNext
  <2>4. EndOf(i) = EndOf(h) + 2 BY <1>4, <2>1, <2>3
  <2> QED BY <2>2, <2>4
<1> QED BY <1>1, <1>2, <1>3, <1>4

\* s is the encoding of the first m bytes of a text without CR.
Encodes(s, m) ==
    /\ Len(s) = EndOf(m)
    /\ \A i \in 1 .. m : /\ s[EndOf(i)] = text[i]
                         /\ text[i] = "LF" => s[EndOf(i) - 1] = "CR"

\* The encoding of one more byte.
LEMMA TextGrows ==
    ASSUME NEW m \in Nat, NEW s \in Seq(Byte), NEW b \in Byte, NEW t,
           Encodes(s, m), text[m + 1] = b,
           t = s \o IF b = "LF" THEN << "CR", "LF" >> ELSE << b >>
    PROVE  Encodes(t, m + 1)
<1> USE DEF Encodes
<1>0. /\ EndOf(m) \in Nat
      /\ EndOf(m + 1) = EndOf(m) + IF text[m + 1] = "LF" THEN 2 ELSE 1
  BY EndNext
<1>1. /\ \A i \in 1 .. Len(s) : t[i] = s[i]
      /\ Len(t) = EndOf(m + 1) /\ t[EndOf(m + 1)] = b
      /\ b = "LF" => t[EndOf(m + 1) - 1] = "CR"
  <2>1. CASE b = "LF"
    <3>1. t = s \o << "CR", "LF" >> /\ "CR" \in Byte /\ "LF" \in Byte
      BY <2>1 DEF Byte
    <3>2. /\ Len(t) = Len(s) + 2 /\ \A i \in 1 .. Len(s) : t[i] = s[i]
          /\ t[Len(s) + 1] = "CR" /\ t[Len(s) + 2] = "LF"
      BY <3>1, TwoMore
    <3>3. EndOf(m + 1) = Len(s) + 2 /\ EndOf(m + 1) - 1 = Len(s) + 1 BY <1>0, <2>1
    <3> QED BY <2>1, <3>2, <3>3
  <2>2. CASE b # "LF"
    <3>1. t = s \o << b >> BY <2>2
    <3>2. /\ Len(t) = Len(s) + 1 /\ \A i \in 1 .. Len(s) : t[i] = s[i]
          /\ t[Len(s) + 1] = b
      BY <3>1, OneMore
    <3>3. EndOf(m + 1) = Len(s) + 1 BY <1>0, <2>2
    <3> QED BY <2>2, <3>2, <3>3
  <2> QED BY <2>1, <2>2
<1>2. ASSUME NEW i \in 1 .. m + 1
      PROVE  /\ t[EndOf(i)] = text[i]
             /\ text[i] = "LF" => t[EndOf(i) - 1] = "CR"
  <2>1. CASE i = m + 1 BY <1>1, <2>1
  <2>2. CASE i # m + 1
    <3>1. i \in 1 .. m BY <2>2
    <3>2. /\ EndOf(i) \in 1 .. Len(s)
          /\ text[i] = "LF" => EndOf(i) - 1 \in 1 .. Len(s)
      BY <3>1, EndWithin
    <3> QED BY <1>1, <3>1, <3>2
  <2> QED BY <2>1, <2>2
<1> QED BY <1>1, <1>2

\* One turn of the loop in Writer.Write keeps the invariant.
LEMMA EncodeStep ==
    ASSUME NetasciiInv, EncodeByte PROVE NetasciiInv'
<1>0. /\ TypeOK /\ Paired /\ WriterInv /\ TextProduced /\ ReaderInv /\ TextRead
      /\ Len(enc.p) <= Len(text)
  BY DEF NetasciiInv, WriterInv
<1> DEFINE b == Head(enc.p)
           m == EncodedBytes
<1>1. /\ enc.p # << >> /\ UNCHANGED << text, closed, rd, out >>
      /\ enc' = [p |-> enc'.p, last |-> enc'.last, buf |-> enc'.buf]
  BY DEF EncodeByte
<1>2. /\ text \in Seq(Byte) /\ enc.p \in Seq(Byte) /\ Produced \in Seq(Byte)
      /\ Len(text) \in Nat /\ Len(enc.p) \in Nat /\ m \in Nat /\ m <= Len(text)
      /\ m + Len(enc.p) = Len(text) /\ Len(Produced) \in Nat /\ Len(wire) \in Nat
  BY <1>0, Lengths
<1>3. /\ Len(enc.p) # 0 /\ b = enc.p[1] /\ b \in Byte
      /\ Tail(enc.p) \in Seq(Byte) /\ Len(Tail(enc.p)) = Len(enc.p) - 1
      /\ \A j \in 1 .. Len(Tail(enc.p)) : Tail(enc.p)[j] = enc.p[j + 1]
  <2>1. Len(enc.p) # 0 BY <1>1, <1>2, EmptySeq
  <2>2. /\ Head(enc.p) \in Byte /\ Tail(enc.p) \in Seq(Byte)
        /\ Len(Tail(enc.p)) = Len(enc.p) - 1
        /\ \A j \in 1 .. Len(Tail(enc.p)) : Tail(enc.p)[j] = enc.p[j + 1]
    BY <1>1, <1>2, HeadTailProperties
  <2>3. Head(enc.p) = enc.p[1] BY <1>1, <1>2
  <2> QED BY <2>1, <2>2, <2>3
<1>4. /\ Produced' = Produced \o Encoded(b)
      /\ wire' \in Seq(Byte) /\ Extends(wire', wire)
      /\ enc'.p = Tail(enc.p) /\ enc'.last = b
      /\ enc'.buf \in Seq(Byte) /\ Len(enc'.buf) <= WriterCap
  BY <1>0, EncodeProduces
<1>5. /\ Encoded(b) \in Seq(Byte)
      /\ \/ Encoded(b) = << b >>
         \/ Encoded(b) = << "CR", "LF" >> /\ b = "LF" /\ enc.last # "CR"
         \/ /\ Encoded(b) = << "NUL", b >> /\ b \notin {"LF", "NUL"}
            /\ enc.last = "CR"
      /\ Encoded(b) = << b >> =>
           /\ b = "LF" => enc.last = "CR"
           /\ enc.last = "CR" => b \in {"LF", "NUL"}
  BY <1>3, EncodedBytesOf
<1> HIDE DEF b
<1>6. EncodedBytes' = m + 1
  <2>1. text' = text /\ Len(enc'.p) = Len(enc.p) - 1 BY <1>1, <1>3, <1>4
  <2>2. EncodedBytes' = Len(text) - Len(enc'.p) BY <2>1 DEF EncodedBytes
  <2>3. m = Len(text) - Len(enc.p) BY DEF EncodedBytes
  <2>4. Len(text) \in Nat /\ Len(enc.p) \in Nat BY <1>2
  <2>5. Len(enc'.p) = Len(enc.p) - 1 BY <2>1
  <2> HIDE DEF m
  <2> QED BY <2>2, <2>3, <2>4, <2>5
<1>7. b = text[m + 1] /\ m + 1 \in 1 .. Len(text)
  <2>1. 1 \in 1 .. Len(enc.p) /\ m + 1 \in 1 .. Len(text) BY <1>2, <1>3
  <2> QED BY <1>0, <1>3, <2>1 DEF WriterInv
<1> HIDE DEF m
<1>8. Produced' \in Seq(Byte) BY <1>2, <1>4, <1>5, ConcatProperties
<1>9. TypeOK'
  <2>1. enc' \in [p : Seq(Byte), last : Byte, buf : Seq(Byte)]
    BY <1>1, <1>3, <1>4
  <2>2. rd'.arrived <= Len(wire')
    <3>1. Len(wire') \in Nat BY <1>4, LenProperties
    <3>2. rd.arrived \in Nat /\ rd.arrived <= Len(wire) BY <1>0 DEF TypeOK, Reader
    <3> QED BY <1>1, <1>2, <1>4, <3>1, <3>2 DEF Extends
  <2> QED BY <1>0, <1>1, <1>4, <2>1, <2>2 DEF TypeOK
<1>10. Produced' # << >> /\ Produced'[Len(Produced')] = b /\ IsNetascii(Produced')
  <2>1. IsNetascii(Produced) BY <1>0 DEF Paired, IsNetascii
  <2>2. enc.last = IF Produced = << >> THEN "NUL" ELSE Produced[Len(Produced)]
    BY <1>0 DEF WriterInv
  <2>3. \/ /\ Produced' = Produced \o << b >>
           /\ b = "LF" => enc.last = "CR"
           /\ enc.last = "CR" => b \in {"LF", "NUL"}
        \/ Produced' = Produced \o << "CR", "LF" >> /\ b = "LF" /\ enc.last # "CR"
        \/ /\ Produced' = Produced \o << "NUL", b >> /\ b \notin {"LF", "NUL"}
           /\ enc.last = "CR"
    BY <1>4, <1>5
  <2>4. b \in Byte BY <1>3 DEF b
  <2>5. PICK t \in Seq(Byte) : t = Produced' BY <1>8
  <2>6. PICK s \in Seq(Byte) : s = Produced BY <1>2
  <2>7. IsNetascii(s) /\ enc.last = IF s = << >> THEN "NUL" ELSE s[Len(s)]
    BY <2>1, <2>2, <2>6
  <2>8. \/ /\ t = s \o << b >>
           /\ b = "LF" => enc.last = "CR"
           /\ enc.last = "CR" => b \in {"LF", "NUL"}
        \/ t = s \o << "CR", "LF" >> /\ b = "LF" /\ enc.last # "CR"
        \/ t = s \o << "NUL", b >> /\ b \notin {"LF", "NUL"} /\ enc.last = "CR"
    BY <2>3, <2>5, <2>6
  <2>9. t # << >> /\ t[Len(t)] = b /\ IsNetascii(t)
    BY <2>4, <2>7, <2>8, NetasciiGrows
  <2> QED BY <2>5, <2>9
<1>11. Paired' BY <1>10 DEF Paired, IsNetascii
<1>12. ~closed BY <1>0, <1>1 DEF WriterInv
<1>13. WriterInv'
  <2>1. ASSUME NEW j \in 1 .. Len(enc'.p) PROVE enc'.p[j] = text[m + 1 + j]
    <3>1. j \in 1 .. Len(Tail(enc.p)) BY <1>4
    <3>2. j + 1 \in 1 .. Len(enc.p) /\ m + (j + 1) = m + 1 + j BY <1>2, <1>3, <3>1
    <3>3. enc.p[j + 1] = text[m + (j + 1)] BY <1>0, <3>2 DEF WriterInv, m
    <3> QED BY <1>3, <1>4, <3>1, <3>2, <3>3
  <2>2. Len(enc'.p) <= Len(text) BY <1>2, <1>3, <1>4
  <2>3. m + 1 # 0 BY <1>2
  <2> QED BY <1>1, <1>4, <1>6, <1>7, <1>10, <1>12, <2>1, <2>2, <2>3 DEF WriterInv
<1>14. TextProduced'
  <2> SUFFICES ASSUME HasNoCR'
               PROVE  /\ Len(Produced') = EndOf(EncodedBytes)'
                      /\ \A i \in 1 .. EncodedBytes' :
                           /\ Produced'[EndOf(i)'] = text'[i]
                           /\ text'[i] = "LF" => Produced'[EndOf(i)' - 1] = "CR"
    BY DEF TextProduced
  <2>1. HasNoCR BY <1>1 DEF HasNoCR
  <2>2. enc.last # "CR" /\ b # "CR"
    <3>1. m # 0 => m \in 1 .. Len(text) BY <1>2
    <3>2. enc.last = IF m = 0 THEN "NUL" ELSE text[m] BY <1>0 DEF WriterInv, m
    <3> QED BY <1>7, <2>1, <3>1, <3>2 DEF HasNoCR
  <2>3. Produced' = Produced \o IF b = "LF" THEN << "CR", "LF" >> ELSE << b >>
    BY <1>4, <2>2 DEF Encoded
  <2>4. Encodes(Produced, m) BY <1>0, <2>1 DEF TextProduced, m, Encodes
  <2>5. PICK t : t = Produced' OBVIOUS
  <2>6. Encodes(t, m + 1)
    <3>1. b \in Byte /\ m \in Nat BY <1>2, <1>3 DEF b
    <3>2. PICK s \in Seq(Byte) : s = Produced BY <1>2
    <3>3. t = s \o IF b = "LF" THEN << "CR", "LF" >> ELSE << b >>
      BY <2>3, <2>5, <3>2
    <3>4. Encodes(s, m) BY <2>4, <3>2
    <3> QED BY <1>7, <3>1, <3>3, <3>4, TextGrows
  <2>7. /\ Len(Produced') = EndOf(m + 1)
        /\ \A i \in 1 .. m + 1 :
             /\ Produced'[EndOf(i)] = text[i]
             /\ text[i] = "LF" => Produced'[EndOf(i) - 1] = "CR"
    BY <2>5, <2>6 DEF Encodes
  <2>8. EndOf(EncodedBytes)' = EndOf(m + 1) BY <1>1, <1>6 DEF EndOf
  <2>9. \A i : EndOf(i)' = EndOf(i) BY <1>1 DEF EndOf
  <2> QED BY <1>1, <1>6, <2>7, <2>8, <2>9
<1>15. ReaderInv'
  <2>1. ~rd.done BY <1>0, <1>12 DEF ReaderInv
  <2> QED BY <1>0, <1>1, <1>4, <2>1, ReaderStays
<1>16. TextRead'
  <2>1. Position' = Position BY <1>1 DEF Position
  <2>2. Extends(text', text) BY <1>1, <1>2 DEF Extends
  <2>3. EncodedBytes' \in Nat /\ EncodedBytes <= EncodedBytes' BY <1>2, <1>6 DEF m
  <2> QED BY <1>0, <1>1, <2>1, <2>2, <2>3, TextReadStays
<1> QED BY <1>9, <1>11, <1>13, <1>14, <1>15, <1>16 DEF NetasciiInv

\* Close keeps the invariant.
LEMMA CloseStep ==
    ASSUME NetasciiInv, Close PROVE NetasciiInv'
<1>0. /\ TypeOK /\ Paired /\ WriterInv /\ TextProduced /\ ReaderInv /\ TextRead
      /\ Len(enc.p) <= Len(text)
  BY DEF NetasciiInv, WriterInv
<1>1. /\ ~closed /\ enc.p = << >> /\ closed' = TRUE /\ UNCHANGED << text, rd, out >>
      /\ enc' \in [p : Seq(Byte), last : Byte, buf : Seq(Byte)]
  BY <1>0 DEF Close, TypeOK
<1>2. /\ Produced' = Produced /\ wire' \in Seq(Byte) /\ Extends(wire', wire)
      /\ enc'.p = enc.p /\ enc'.last = enc.last /\ enc'.buf = << >>
  BY <1>0, CloseProduces
<1>3. /\ Len(text) \in Nat /\ Len(wire) \in Nat /\ Len(wire') \in Nat
      /\ EncodedBytes \in Nat /\ EncodedBytes' = EncodedBytes
  <2>1. Len(wire') \in Nat BY <1>2, LenProperties
  <2> QED BY <1>0, <1>1, <1>2, <2>1, Lengths DEF EncodedBytes
<1>4. TypeOK'
  <2>1. rd.arrived <= Len(wire')
    <3>1. rd.arrived \in Nat /\ rd.arrived <= Len(wire) BY <1>0 DEF TypeOK, Reader
    <3> QED BY <1>2, <1>3, <3>1 DEF Extends
  <2>2. Len(enc'.buf) <= WriterCap BY <1>2, NetasciiAssumption
  <2> QED BY <1>0, <1>1, <1>2, <2>1, <2>2 DEF TypeOK
<1>5. Paired' BY <1>0, <1>2 DEF Paired
<1>6. WriterInv' BY <1>0, <1>1, <1>2, <1>3 DEF WriterInv
<1>7. TextProduced'
  <2>1. HasNoCR' <=> HasNoCR BY <1>1 DEF HasNoCR
  <2>2. \A i : EndOf(i)' = EndOf(i) BY <1>1 DEF EndOf
  <2>3. EndOf(EncodedBytes)' = EndOf(EncodedBytes) BY <1>1, <1>3 DEF EndOf
  <2> QED BY <1>0, <1>1, <1>2, <1>3, <2>1, <2>2, <2>3 DEF TextProduced
<1>8. ReaderInv'
  <2>1. ~rd.done BY <1>0, <1>1 DEF ReaderInv
  <2> QED BY <1>0, <1>1, <1>2, <2>1, ReaderStays
<1>9. TextRead'
  <2>1. Position' = Position BY <1>1 DEF Position
  <2>2. Extends(text', text) BY <1>1, <1>3 DEF Extends
  <2>3. EncodedBytes' \in Nat /\ EncodedBytes <= EncodedBytes' BY <1>3
  <2> QED BY <1>0, <1>1, <2>1, <2>2, <2>3, TextReadStays
<1> QED BY <1>4, <1>5, <1>6, <1>7, <1>8, <1>9 DEF NetasciiInv

-----------------------------------------------------------------------------
(* The steps of the Reader. *)

\* The Reader of an invariant state holds bytes of the wire.
LEMMA ReaderHolds ==
    ASSUME NetasciiInv
    PROVE  Holds(rd) /\ Pos(rd) = Position /\ Position \in Nat
<1>1. TypeOK /\ ReaderInv BY DEF NetasciiInv
<1>2. Pos(rd) = Position BY DEF Pos, Position
<1>3. /\ rd \in Reader /\ rd.taken <= rd.arrived /\ rd.arrived <= Len(wire)
      /\ rd.n <= rd.want
  BY <1>1 DEF TypeOK
<1>4. Len(rd.buf) <= rd.taken
      /\ \A j \in 1 .. Len(rd.buf) : rd.buf[j] = wire[Position + j]
  BY <1>1 DEF ReaderInv
<1>5. Position \in Nat
  <2>1. rd.taken \in Nat /\ rd.buf \in Seq(Byte) BY <1>3 DEF Reader
  <2>2. Len(rd.buf) \in Nat BY <2>1, LenProperties
  <2> QED BY <1>4, <2>1, <2>2 DEF Position
<1> QED BY <1>2, <1>3, <1>4, <1>5 DEF Holds

\* A step of the Reader changes nothing that the Writer's parts speak of.
LEMMA ReaderFrame ==
    ASSUME NetasciiInv, UNCHANGED << text, enc, wire, closed >>,
           Holds(rd'), out' \in Seq(Byte),
           rd'.done => closed /\ rd'.arrived = Len(wire),
           rd'.err = "EOF" => /\ rd'.pc = "app" /\ rd'.done
                              /\ rd'.taken = rd'.arrived
                              /\ rd'.n < rd'.want => rd'.buf = << >>,
           TextRead'
    PROVE  NetasciiInv'
<1>0. TypeOK /\ Paired /\ WriterInv /\ TextProduced BY DEF NetasciiInv
<1>1. Produced' = Produced /\ EncodedBytes' = EncodedBytes
  BY DEF Produced, EncodedBytes
<1>2. TypeOK' BY <1>0 DEF TypeOK, Holds
<1>3. Paired' BY <1>0, <1>1 DEF Paired
<1>4. WriterInv' BY <1>0, <1>1 DEF WriterInv
<1>5. TextProduced'
  <2>1. HasNoCR' <=> HasNoCR BY DEF HasNoCR
  <2>2. \A i : EndOf(i)' = EndOf(i) BY DEF EndOf
  <2>3. EndOf(EncodedBytes)' = EndOf(EncodedBytes) BY <1>1 DEF EndOf
  <2> QED BY <1>0, <1>1, <2>1, <2>2, <2>3 DEF TextProduced
<1>6. ReaderInv'
  <2>1. Position' = Pos(rd') BY DEF Position, Pos
  <2> QED BY <2>1 DEF ReaderInv, Holds
<1> QED BY <1>2, <1>3, <1>4, <1>5, <1>6 DEF NetasciiInv

\* A step that reads no byte keeps what has been read.
LEMMA ReadsNothing ==
    ASSUME NetasciiInv, UNCHANGED << text, enc, wire, closed, out >>,
           rd'.taken = rd.taken, rd'.buf = rd.buf
    PROVE  TextRead' /\ out' \in Seq(Byte)
<1>0. TypeOK /\ WriterInv /\ TextRead /\ Len(enc.p) <= Len(text)
  BY DEF NetasciiInv, WriterInv
<1>1. Position' = Position BY DEF Position
<1>2. EncodedBytes \in Nat /\ Len(text) \in Nat /\ out \in Seq(Byte)
  BY <1>0, Lengths
<1>3. EncodedBytes' = EncodedBytes /\ EncodedBytes <= EncodedBytes'
      /\ Extends(text', text)
  BY <1>2 DEF EncodedBytes, Extends
<1> QED BY <1>0, <1>1, <1>2, <1>3, TextReadStays

\* A call of conn.Read.
LEMMA ReadStep ==
    ASSUME NetasciiInv, NEW k \in ReadSizes, Read(k) PROVE NetasciiInv'
<1>0. Holds(rd) /\ ReaderInv BY ReaderHolds DEF NetasciiInv
<1>1. k \in Nat BY NetasciiAssumption
<1>2. /\ UNCHANGED << text, enc, wire, closed, out >>
      /\ rd.err = "nil" /\ rd' = [rd EXCEPT !.pc = "read", !.want = k, !.n = 0]
      /\ rd \in Reader
  BY <1>0 DEF Read, Holds
<1>3. /\ rd' \in Reader /\ rd'.taken = rd.taken /\ rd'.arrived = rd.arrived
      /\ rd'.buf = rd.buf /\ rd'.done = rd.done /\ rd'.err = rd.err
      /\ rd'.n = 0 /\ rd'.want = k
  BY <1>1, <1>2 DEF Reader
<1>4. Pos(rd') = Pos(rd) BY <1>3 DEF Pos
<1>5. Holds(rd') BY <1>0, <1>1, <1>2, <1>3, <1>4 DEF Holds
<1>6. rd'.done => closed /\ rd'.arrived = Len(wire) BY <1>0, <1>3 DEF ReaderInv
<1>7. TextRead' /\ out' \in Seq(Byte) BY <1>2, <1>3, ReadsNothing
<1> QED BY <1>2, <1>3, <1>5, <1>6, <1>7, ReaderFrame

\* conn.read finds enough in rxBuf, or that nothing more will come.
LEMMA StartStep ==
    ASSUME NetasciiInv, StartDecode PROVE NetasciiInv'
<1>0. Holds(rd) /\ ReaderInv BY ReaderHolds DEF NetasciiInv
<1>1. /\ UNCHANGED << text, enc, wire, closed, out >>
      /\ rd.pc = "read" /\ rd' = [rd EXCEPT !.pc = "decode"] /\ rd \in Reader
  BY <1>0 DEF StartDecode, Holds
<1>2. /\ rd' \in Reader /\ rd'.taken = rd.taken /\ rd'.arrived = rd.arrived
      /\ rd'.buf = rd.buf /\ rd'.done = rd.done /\ rd'.err = rd.err
      /\ rd'.n = rd.n /\ rd'.want = rd.want
  BY <1>1 DEF Reader
<1>3. Pos(rd') = Pos(rd) BY <1>2 DEF Pos
<1>4. Holds(rd') BY <1>0, <1>1, <1>2, <1>3 DEF Holds
<1>5. rd'.done => closed /\ rd'.arrived = Len(wire) BY <1>0, <1>2 DEF ReaderInv
<1>6. rd'.err # "EOF" BY <1>0, <1>1, <1>2 DEF ReaderInv
<1>7. TextRead' /\ out' \in Seq(Byte) BY <1>1, <1>2, ReadsNothing
<1> QED BY <1>1, <1>4, <1>5, <1>6, <1>7, ReaderFrame

\* A block arrives in rxBuf.
LEMMA ReceiveStep ==
    ASSUME NetasciiInv, Receive PROVE NetasciiInv'
<1>0. Holds(rd) /\ ReaderInv /\ TypeOK BY ReaderHolds DEF NetasciiInv
<1>1. /\ UNCHANGED << text, enc, wire, closed, out >> /\ ~rd.done
      /\ rd' = [rd EXCEPT !.arrived = IF Left >= BlkSize THEN @ + BlkSize
                                      ELSE Len(wire),
                          !.done = IsShort]
      /\ rd \in Reader
  BY <1>0 DEF Receive, Holds
<1>2. /\ rd.arrived \in Nat /\ rd.taken \in Nat /\ Len(wire) \in Nat
      /\ BlkSize \in Nat /\ rd.taken <= rd.arrived /\ rd.arrived <= Len(wire)
  <2>1. wire \in Seq(Byte) BY <1>0 DEF TypeOK
  <2>2. Len(wire) \in Nat BY <2>1, LenProperties
  <2> QED BY <1>0, <2>2, NetasciiAssumption DEF Holds, Reader
<1> DEFINE a == IF Left >= BlkSize THEN rd.arrived + BlkSize ELSE Len(wire)
<1>3. a \in Nat /\ rd.arrived <= a /\ a <= Len(wire) BY <1>2 DEF Left
<1>4. IsShort \in BOOLEAN /\ (IsShort => a = Len(wire) /\ closed)
  <2>1. IsShort \in BOOLEAN BY DEF IsShort
  <2>2. IsShort <=> ~(Left >= BlkSize) BY <1>2 DEF IsShort, Left
  <2> QED BY <2>1, <2>2 DEF Receive, HasData
<1>5. rd' = [rd EXCEPT !.arrived = a, !.done = IsShort] BY <1>1
<1> HIDE DEF a
<1>6. /\ rd' \in Reader /\ rd'.taken = rd.taken /\ rd'.arrived = a
      /\ rd'.buf = rd.buf /\ rd'.done = IsShort /\ rd'.err = rd.err
      /\ rd'.n = rd.n /\ rd'.want = rd.want
  BY <1>1, <1>3, <1>4, <1>5 DEF Reader
<1>7. Pos(rd') = Pos(rd) BY <1>6 DEF Pos
<1>8. Holds(rd')
  <2>1. rd'.taken <= rd'.arrived /\ rd'.arrived <= Len(wire) BY <1>2, <1>3, <1>6
  <2> QED BY <1>0, <1>1, <1>6, <1>7, <2>1 DEF Holds
<1>9. rd'.done => closed /\ rd'.arrived = Len(wire) BY <1>4, <1>6
<1>10. rd'.err # "EOF" BY <1>0, <1>1, <1>6 DEF ReaderInv
<1>11. TextRead' /\ out' \in Seq(Byte) BY <1>1, <1>6, ReadsNothing
<1> QED BY <1>1, <1>8, <1>9, <1>10, <1>11, ReaderFrame

\* Read has filled p.
LEMMA StopStep ==
    ASSUME NetasciiInv, DecodeStops PROVE NetasciiInv'
<1>0. Holds(rd) /\ ReaderInv BY ReaderHolds DEF NetasciiInv
<1>1. /\ UNCHANGED << text, enc, wire, closed, out >>
      /\ rd.pc = "decode" /\ rd.n = rd.want /\ rd' = Returned(rd) /\ rd \in Reader
  BY <1>0 DEF DecodeStops, Holds
<1>2. /\ rd' \in Reader /\ rd'.taken = rd.taken /\ rd'.arrived = rd.arrived
      /\ rd'.buf = rd.buf /\ rd'.done = rd.done /\ rd'.pc = "app"
      /\ rd'.n = rd.n /\ rd'.want = rd.want /\ rd.n \in Nat
      /\ rd'.err = IF rd.done /\ rd.arrived = rd.taken THEN "EOF" ELSE rd.err
  BY <1>1 DEF Reader, Returned
<1>3. Pos(rd') = Pos(rd) BY <1>2 DEF Pos
<1>4. Holds(rd') BY <1>0, <1>1, <1>2, <1>3 DEF Holds
<1>5. rd'.done => closed /\ rd'.arrived = Len(wire) BY <1>0, <1>2 DEF ReaderInv
<1>6. rd'.err = "EOF" => rd'.done /\ rd'.taken = rd'.arrived
  BY <1>0, <1>1, <1>2 DEF ReaderInv
<1>7. ~(rd'.n < rd'.want) BY <1>1, <1>2
<1>8. TextRead' /\ out' \in Seq(Byte) BY <1>1, <1>2, ReadsNothing
<1> QED BY <1>1, <1>2, <1>4, <1>5, <1>6, <1>7, <1>8, ReaderFrame

\* What comes next on the wire, of a text without CR.
LEMMA NextByte ==
    ASSUME NetasciiInv, HasNoCR, Position + 1 <= Len(wire), NEW k \in Nat,
           k = Len(out)
    PROVE  /\ k < EncodedBytes
           /\ \/ /\ text[k + 1] \notin {"LF", "CR"}
                 /\ wire[Position + 1] = text[k + 1]
                 /\ Position + 1 = EndOf(k + 1)
              \/ /\ text[k + 1] = "LF" /\ wire[Position + 1] = "CR"
                 /\ Position = EndOf(k) /\ Position + 2 = EndOf(k + 1)
                 /\ Position + 2 <= Len(wire) => wire[Position + 2] = "LF"
              \/ /\ text[k + 1] = "LF" /\ wire[Position + 1] = "LF"
                 /\ Position + 1 = EndOf(k + 1)
<1>0. /\ TypeOK /\ TextProduced /\ TextRead /\ Len(enc.p) <= Len(text)
      /\ Position \in Nat
  BY ReaderHolds DEF NetasciiInv, WriterInv
<1>1. PICK e \in Nat : e = EncodedBytes BY <1>0, Lengths
<1>2. /\ e <= Len(text) /\ Len(text) \in Nat /\ Len(wire) \in Nat
      /\ Len(wire) <= Len(Produced) /\ Len(Produced) \in Nat
      /\ \A i \in 1 .. Len(wire) : wire[i] = Produced[i]
  BY <1>0, <1>1, Lengths
<1>3. /\ Len(Produced) = EndOf(e)
      /\ \A i \in 1 .. e : /\ Produced[EndOf(i)] = text[i]
                           /\ text[i] = "LF" => Produced[EndOf(i) - 1] = "CR"
  BY <1>0, <1>1 DEF TextProduced
<1>4. /\ k <= e
      /\ \/ Position = EndOf(k)
         \/ k < e /\ text[k + 1] = "LF" /\ Position = EndOf(k) + 1
  BY <1>0, <1>1 DEF TextRead
<1>5. /\ EndOf(k) \in Nat
      /\ EndOf(k + 1) = EndOf(k) + IF text[k + 1] = "LF" THEN 2 ELSE 1
  BY EndNext
<1>6. k < e
  <2>1. k = e => Position = EndOf(e) BY <1>1, <1>4
  <2>2. k # e BY <1>0, <1>2, <1>3, <2>1
  <2> QED BY <1>1, <1>4, <2>2
<1>7. k + 1 \in 1 .. e /\ k + 1 \in 1 .. Len(text) BY <1>1, <1>2, <1>6
<1>8. /\ Produced[EndOf(k + 1)] = text[k + 1] /\ text[k + 1] # "CR"
      /\ text[k + 1] = "LF" => Produced[EndOf(k + 1) - 1] = "CR"
  BY <1>3, <1>7 DEF HasNoCR
<1>9. /\ wire[Position + 1] = Produced[Position + 1]
      /\ Position + 2 <= Len(wire) => wire[Position + 2] = Produced[Position + 2]
  <2>1. Position + 1 \in 1 .. Len(wire) BY <1>0, <1>2
  <2>2. Position + 2 <= Len(wire) => Position + 2 \in 1 .. Len(wire) BY <1>0, <1>2
  <2> QED BY <1>2, <2>1, <2>2
<1>10. CASE Position = EndOf(k) /\ text[k + 1] # "LF"
  <2>1. Position + 1 = EndOf(k + 1) BY <1>5, <1>10
  <2> QED BY <1>1, <1>6, <1>8, <1>9, <1>10, <2>1
<1>11. CASE Position = EndOf(k) /\ text[k + 1] = "LF"
  <2>1. Position + 2 = EndOf(k + 1) /\ EndOf(k + 1) - 1 = Position + 1
    BY <1>5, <1>11
  <2> QED BY <1>1, <1>6, <1>8, <1>9, <1>11, <2>1
<1>12. CASE Position = EndOf(k) + 1 /\ text[k + 1] = "LF"
  <2>1. Position + 1 = EndOf(k + 1) BY <1>5, <1>12
  <2> QED BY <1>1, <1>6, <1>8, <1>9, <1>12, <2>1
<1> QED BY <1>4, <1>10, <1>11, <1>12

\* The byte that a turn yields is the next one of the text.
LEMMA TextReadGrows ==
    ASSUME NetasciiInv, UNCHANGED << text, enc, wire, closed >>,
           NEW b \in Byte, out' = Append(out, b),
           HasNoCR => /\ Len(out) < EncodedBytes /\ b = text[Len(out) + 1]
                      /\ Position' = EndOf(Len(out) + 1)
    PROVE  TextRead' /\ out' \in Seq(Byte)
<1>0. /\ TypeOK /\ TextRead /\ Len(enc.p) <= Len(text) BY DEF NetasciiInv, WriterInv
<1>1. out \in Seq(Byte) /\ EncodedBytes \in Nat BY <1>0, Lengths
<1>2. PICK k \in Nat : k = Len(out) BY <1>1, LenProperties
<1>3. /\ out' \in Seq(Byte) /\ Len(out') = k + 1 /\ out'[k + 1] = b
      /\ \A i \in 1 .. k : out'[i] = out[i]
  BY <1>1, <1>2, AppendProperties
<1>4. EncodedBytes' = EncodedBytes /\ (HasNoCR' <=> HasNoCR)
  BY DEF EncodedBytes, HasNoCR
<1>5. ASSUME HasNoCR
      PROVE  /\ Len(out') <= EncodedBytes'
             /\ \A i \in 1 .. Len(out') : out'[i] = text'[i]
             /\ Position' = EndOf(Len(out))'
  <2>1. /\ k < EncodedBytes /\ b = text[k + 1] /\ Position' = EndOf(k + 1)
        /\ \A i \in 1 .. k : out[i] = text[i]
    BY <1>0, <1>2, <1>5 DEF TextRead
  <2>2. k + 1 <= EncodedBytes BY <1>1, <1>2, <2>1
  <2>3. EndOf(Len(out))' = EndOf(k + 1) BY <1>3 DEF EndOf
  <2>4. ASSUME NEW i \in 1 .. k + 1 PROVE out'[i] = text[i]
    <3>1. CASE i = k + 1 BY <1>3, <2>1, <3>1
    <3>2. CASE i # k + 1
      <4>1. i \in 1 .. k BY <1>2, <3>2
      <4> QED BY <1>3, <2>1, <4>1
    <3> QED BY <3>1, <3>2
  <2> QED BY <1>3, <1>4, <2>1, <2>2, <2>3, <2>4
<1> QED BY <1>3, <1>4, <1>5 DEF TextRead

\* One turn of the loop in Reader.Read keeps the invariant.
LEMMA DecodeStep ==
    ASSUME NetasciiInv, DecodeByte PROVE NetasciiInv'
<1>0. /\ Holds(rd) /\ ReaderInv /\ TypeOK /\ TextRead /\ wire \in Seq(Byte)
      /\ Pos(rd) = Position /\ Position \in Nat
  BY ReaderHolds DEF NetasciiInv, TypeOK
<1>1. UNCHANGED << text, enc, wire, closed >> /\ rd.pc = "decode" BY DEF DecodeByte
<1>2. /\ Holds(rd') /\ (TurnStops \/ TurnYields)
      /\ rd'.arrived = rd.arrived /\ rd'.done = rd.done /\ rd'.want = rd.want
  BY <1>0, DecodeTurn
<1>3. rd.err # "EOF" BY <1>0, <1>1 DEF ReaderInv
<1>4. rd'.done => closed /\ rd'.arrived = Len(wire) BY <1>0, <1>2 DEF ReaderInv
<1>5. Pos(rd') = Position' BY DEF Pos, Position
<1>6. /\ out \in Seq(Byte) /\ Len(out) \in Nat
  <2>1. out \in Seq(Byte) BY <1>0 DEF TypeOK
  <2> QED BY <2>1, LenProperties
<1>7. PICK k \in Nat : k = Len(out) BY <1>6
<1>8. CASE TurnStops
  <2>1. /\ rd'.pc = "app" /\ out' = out /\ rd'.buf = << >> /\ rd'.taken = rd'.arrived
        /\ rd'.err = "EOF" => rd'.done
        /\ \/ Position' = Position
           \/ Position' = Position + 1 /\ Position + 1 <= Len(wire)
              /\ wire[Position + 1] = "CR"
    BY <1>0, <1>2, <1>3, <1>5, <1>8 DEF TurnStops
  <2>2. TextRead'
    <3>1. CASE Position' = Position
      <4>1. Len(enc.p) <= Len(text) BY DEF NetasciiInv, WriterInv
      <4>2. EncodedBytes \in Nat /\ Len(text) \in Nat BY <1>0, <4>1, Lengths
      <4>3. EncodedBytes' = EncodedBytes /\ EncodedBytes <= EncodedBytes'
            /\ Extends(text', text)
        BY <1>1, <4>2 DEF EncodedBytes, Extends
      <4> QED BY <1>0, <2>1, <3>1, <4>1, <4>2, <4>3, TextReadStays
    <3>2. CASE /\ Position' = Position + 1 /\ Position + 1 <= Len(wire)
               /\ wire[Position + 1] = "CR"
      <4> SUFFICES ASSUME HasNoCR'
                   PROVE  /\ Len(out') <= EncodedBytes'
                          /\ \A i \in 1 .. Len(out') : out'[i] = text'[i]
                          /\ Len(out') < EncodedBytes' /\ text'[Len(out') + 1] = "LF"
                          /\ Position' = EndOf(Len(out))' + 1
        BY DEF TextRead
      <4>1. HasNoCR BY <1>1 DEF HasNoCR
      <4>2. k < EncodedBytes /\ text[k + 1] = "LF" /\ Position = EndOf(k)
        BY <1>7, <3>2, <4>1, NextByte
      <4>3. EncodedBytes' = EncodedBytes BY <1>1 DEF EncodedBytes
      <4>4. EndOf(Len(out))' = EndOf(k) BY <1>1, <1>7, <2>1 DEF EndOf
      <4>5. Len(out) <= EncodedBytes /\ \A i \in 1 .. Len(out) : out[i] = text[i]
        BY <1>0, <4>1 DEF TextRead
      <4> QED BY <1>1, <1>7, <2>1, <3>2, <4>2, <4>3, <4>4, <4>5
    <3> QED BY <2>1, <3>1, <3>2
  <2>3. out' \in Seq(Byte) BY <1>6, <2>1
  <2> QED BY <1>1, <1>2, <1>4, <2>1, <2>2, <2>3, ReaderFrame
<1>9. CASE TurnYields
  <2>1. rd'.err # "EOF" /\ Position + 1 <= Len(wire) BY <1>0, <1>3, <1>9 DEF TurnYields
  <2>2. PICK b \in Byte :
          /\ out' = Append(out, b)
          /\ \/ /\ wire[Position + 1] # "CR" /\ b = wire[Position + 1]
                /\ Position' = Position + 1
             \/ /\ wire[Position + 1] = "CR" /\ Position + 2 <= Len(wire)
                /\ \/ wire[Position + 2] = "LF" /\ b = "LF" /\ Position' = Position + 2
                   \/ wire[Position + 2] # "LF"
    BY <1>0, <1>5, <1>9 DEF TurnYields
  <2>3. ASSUME HasNoCR
        PROVE  k < EncodedBytes /\ b = text[k + 1] /\ Position' = EndOf(k + 1)
    <3>1. /\ k < EncodedBytes
          /\ \/ /\ text[k + 1] \notin {"LF", "CR"}
                /\ wire[Position + 1] = text[k + 1]
                /\ Position + 1 = EndOf(k + 1)
             \/ /\ text[k + 1] = "LF" /\ wire[Position + 1] = "CR"
                /\ Position + 2 = EndOf(k + 1)
                /\ Position + 2 <= Len(wire) => wire[Position + 2] = "LF"
             \/ /\ text[k + 1] = "LF" /\ wire[Position + 1] = "LF"
                /\ Position + 1 = EndOf(k + 1)
      BY <1>7, <2>1, <2>3, NextByte
    <3> QED BY <2>2, <3>1
  <2>4. TextRead' /\ out' \in Seq(Byte) BY <1>1, <1>7, <2>2, <2>3, TextReadGrows
  <2> QED BY <1>1, <1>2, <1>4, <2>1, <2>4, ReaderFrame
<1> QED BY <1>2, <1>8, <1>9

-----------------------------------------------------------------------------
(* The theorems. *)

\* Nothing has been written or read.
LEMMA InitInv == ASSUME Init PROVE NetasciiInv
<1>1. /\ text = << >> /\ wire = << >> /\ out = << >> /\ closed = FALSE
      /\ enc = [p |-> << >>, last |-> "NUL", buf |-> << >>]
      /\ rd = [pc |-> "app", arrived |-> 0, taken |-> 0, buf |-> << >>,
               done |-> FALSE, want |-> 0, n |-> 0, err |-> "nil"]
      /\ << >> \in Seq(Byte) /\ Len(<< >>) = 0 /\ "NUL" \in Byte
  BY DEF Init, Byte
<1>2. TypeOK
  <2>1. enc \in [p : Seq(Byte), last : Byte, buf : Seq(Byte)] BY <1>1
  <2>2. rd \in Reader BY <1>1 DEF Reader
  <2>3. Len(enc.buf) <= WriterCap
    <3>1. Len(enc.buf) = 0 BY <1>1
    <3> QED BY <3>1, NetasciiAssumption
  <2>4. rd.taken <= rd.arrived /\ rd.arrived <= Len(wire) /\ rd.n <= rd.want
    BY <1>1
  <2> QED BY <1>1, <2>1, <2>2, <2>3, <2>4 DEF TypeOK
<1>3. Produced = << >> BY <1>1 DEF Produced
<1>4. EncodedBytes = 0 BY <1>1 DEF EncodedBytes
<1>5. Paired BY <1>3 DEF Paired
<1>6. WriterInv BY <1>1, <1>3, <1>4 DEF WriterInv
<1>7. EndOf(0) = 0 /\ EndOf(EncodedBytes) = 0
  <2>1. EndOf(0) = 0 BY EndNext
  <2> QED BY <1>4, <2>1
<1>8. TextProduced BY <1>3, <1>4, <1>7 DEF TextProduced
<1>9. Position = 0 BY <1>1 DEF Position
<1>10. ReaderInv BY <1>1 DEF ReaderInv
<1>11. TextRead BY <1>1, <1>4, <1>7, <1>9 DEF TextRead
<1> QED BY <1>2, <1>5, <1>6, <1>8, <1>10, <1>11 DEF NetasciiInv

\* Every step keeps the invariant.
LEMMA StepInv == ASSUME NetasciiInv, [Next]_vars PROVE NetasciiInv'
<1>1. CASE \E p \in Chunks : Write(p) BY <1>1, WriteStep
<1>2. CASE EncodeByte BY <1>2, EncodeStep
<1>3. CASE Close BY <1>3, CloseStep
<1>4. CASE \E k \in ReadSizes : Read(k) BY <1>4, ReadStep
<1>5. CASE StartDecode BY <1>5, StartStep
<1>6. CASE Receive BY <1>6, ReceiveStep
<1>7. CASE DecodeStops BY <1>7, StopStep
<1>8. CASE DecodeByte BY <1>8, DecodeStep
<1>9. CASE UNCHANGED vars
  <2>1. UNCHANGED << text, enc, wire, closed, rd, out >> BY <1>9 DEF vars
  <2>2. TextRead' /\ out' \in Seq(Byte) BY <2>1, ReadsNothing
  <2>3. Holds(rd) /\ ReaderInv BY ReaderHolds DEF NetasciiInv
  <2>4. Holds(rd') BY <2>1, <2>3
  <2> QED BY <2>1, <2>2, <2>3, <2>4, ReaderFrame DEF ReaderInv
<1>10. CASE Terminated BY <1>9, <1>10 DEF Terminated
<1> QED BY <1>1, <1>2, <1>3, <1>4, <1>5, <1>6, <1>7, <1>8, <1>9, <1>10
        DEF Next, SenderStep, ReceiverStep

\* The inductive invariant holds, for every buffer size, block size, text and
\* way of cutting it into calls of conn.Write and conn.Read (netascii.go).
THEOREM NetasciiInvariance == Spec => []NetasciiInv
<1>1. Init => NetasciiInv BY InitInv
<1>2. NetasciiInv /\ [Next]_vars => NetasciiInv' BY StepInv
<1> QED BY <1>1, <1>2, PTL DEF Spec

\* The state is well formed: the Writer's buffer never exceeds its size, rxBuf
\* never has less than nothing, and Read never fills more than p.
THEOREM NetasciiTypeCorrect == Spec => []TypeOK
<1>1. NetasciiInv => TypeOK BY DEF NetasciiInv
<1> QED BY <1>1, NetasciiInvariance, PTL

\* Writer.Write makes netascii of a text: LF only after CR, and after CR a LF or
\* NUL, also when the CR was the last byte of an earlier Write.  A lone CR is
\* left, also by Close, only at the end, and only of a text that ends in CR.
THEOREM WriterMakesNetascii == Spec => []WellFormed
<1>1. ASSUME NetasciiInv PROVE WellFormed
  <2>0. TypeOK /\ Paired /\ WriterInv BY <1>1 DEF NetasciiInv
  <2>1. Produced \in Seq(Byte)
    BY <2>0, ConcatProperties DEF TypeOK, Produced
  <2>2. Len(Produced) \in Nat /\ EncodedBytes \in Nat
    BY <2>0, <2>1, LenProperties DEF TypeOK, WriterInv, EncodedBytes
  <2>3. ASSUME NEW i \in 1 .. Len(Produced), Produced[i] = "CR", i = Len(Produced)
        PROVE  EndsInCR
    <3>1. Produced # << >> BY <2>1, <2>3, EmptySeq
    <3>2. enc.last = "CR" BY <2>0, <2>3, <3>1 DEF WriterInv
    <3>3. EncodedBytes # 0 /\ text[EncodedBytes] = "CR"
      BY <2>0, <3>2 DEF WriterInv
    <3> QED BY <2>2, <3>3 DEF EndsInCR, EncodedBytes
  <2>4. \A i \in 1 .. Len(Produced) : i # Len(Produced) => i < Len(Produced)
    BY <2>2
  <2> QED BY <2>0, <2>3, <2>4 DEF Paired, WellFormed
<1>2. NetasciiInv => WellFormed BY <1>1
<1> QED BY <1>2, NetasciiInvariance, PTL

\* A text without CR is read as it was written, wherever it was cut.
THEOREM TextIsKept == Spec => []TextArrives
<1>1. ASSUME NetasciiInv PROVE TextArrives
  <2>0. TypeOK /\ TextRead /\ Len(enc.p) <= Len(text)
    BY <1>1 DEF NetasciiInv, WriterInv
  <2>1. /\ EncodedBytes \in Nat /\ EncodedBytes <= Len(text) /\ Len(text) \in Nat
        /\ Len(out) \in Nat
    BY <2>0, Lengths
  <2>2. HasNoCR => Len(out) <= EncodedBytes /\ \A i \in 1 .. Len(out) : out[i] = text[i]
    BY <2>0 DEF TextRead
  <2>3. Len(out) <= EncodedBytes => Len(out) <= Len(text) BY <2>1
  <2> QED BY <2>2, <2>3 DEF TextArrives
<1> QED BY <1>1, NetasciiInvariance, PTL

\* A conn.Read that returns io.EOF with less than it was asked for has returned
\* the end of the text: nothing is left in txBuf, on the way, in rxBuf or in
\* the Reader's buffer.
THEOREM ShortEofIsComplete == Spec => []EofAfterShortRead
<1>1. ASSUME NetasciiInv PROVE EofAfterShortRead
  <2> SUFFICES ASSUME HasNoCR, rd.err = "EOF", rd.n < rd.want PROVE out = text
    BY DEF EofAfterShortRead
  <2>0. /\ TypeOK /\ WriterInv /\ TextProduced /\ ReaderInv /\ TextRead
        /\ Len(enc.p) <= Len(text)
    BY <1>1 DEF NetasciiInv, WriterInv
  <2>1. /\ rd.buf = << >> /\ rd.taken = Len(wire) /\ closed /\ rd.taken \in Nat
    BY <2>0 DEF ReaderInv, TypeOK, Reader
  <2>2. enc.p = << >> /\ enc.buf = << >> BY <2>0, <2>1 DEF WriterInv
  <2>3. /\ text \in Seq(Byte) /\ out \in Seq(Byte) /\ wire \in Seq(Byte)
        /\ Len(text) \in Nat /\ EncodedBytes + Len(enc.p) = Len(text)
        /\ EncodedBytes \in Nat
    BY <2>0, Lengths
  <2>4. EncodedBytes = Len(text)
    <3>1. Len(enc.p) = 0 BY <2>2
    <3> QED BY <2>3, <3>1
  <2>5. Produced = wire BY <2>2, <2>3, ConcatEmptySeq DEF Produced
  <2>6. PICK m \in Nat : m = Len(text) BY <2>3
  <2>7. PICK k \in Nat : k = Len(out) BY <2>3, LenProperties
  <2>8. Position = Len(wire)
    <3>1. Len(rd.buf) = 0 BY <2>1
    <3> QED BY <2>1, <3>1 DEF Position
  <2>9. Len(wire) = EndOf(m) BY <2>0, <2>4, <2>5, <2>6 DEF TextProduced
  <2>10. /\ k <= m /\ \A i \in 1 .. k : out[i] = text[i]
         /\ \/ EndOf(m) = EndOf(k)
            \/ k < m /\ text[k + 1] = "LF" /\ EndOf(m) = EndOf(k) + 1
    BY <2>0, <2>4, <2>6, <2>7, <2>8, <2>9 DEF TextRead
  <2>11. k = m
    <3> SUFFICES ASSUME k < m PROVE FALSE BY <2>6, <2>7, <2>10
    <3>1. EndOf(k) \in Nat /\ EndOf(m) \in Nat /\ EndOf(k + 1) \in Nat
          /\ EndOf(k + 1) = EndOf(k) + IF text[k + 1] = "LF" THEN 2 ELSE 1
      <4>1. k + 1 \in Nat BY <2>7
      <4> QED BY <2>6, <2>7, <4>1, EndNext
    <3>2. EndOf(k) < EndOf(m) BY <2>6, <2>7, EndGrows
    <3>3. EndOf(k + 1) <= EndOf(m)
      <4>1. k + 1 \in 1 .. m BY <2>6, <2>7
      <4>2. EndOf(k + 1) \in 1 .. EndOf(m) BY <4>1, EndWithin
      <4> QED BY <3>1, <4>2
    <3> QED BY <2>10, <3>1, <3>2, <3>3
  <2>12. Len(out) = Len(text) /\ \A i \in 1 .. Len(out) : out[i] = text[i]
    BY <2>6, <2>7, <2>10, <2>11
  <2> QED BY <2>3, <2>12, SeqEqual
<1> QED BY <1>1, NetasciiInvariance, PTL
=============================================================================
