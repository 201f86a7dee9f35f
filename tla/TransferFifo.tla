---------------------------- MODULE TransferFifo ----------------------------
(***************************************************************************)
(* The transfer over FIFO channels that lose datagrams: the invariant of   *)
(* module Transfer that holds also when block numbers wrap around, and     *)
(* what follows from it, for every window size that fits in a block        *)
(* number, every retry limit and every file length.                        *)
(***************************************************************************)
EXTENDS TransferSafety

(***************************************************************************)
(* The inductive invariant for FIFO channels, where block numbers may wrap *)
(* around.  Stale datagrams arrive in the order in which they were sent:   *)
(* no ACK on its way is older than the last one that the sender has taken, *)
(* so that the sender never rolls back further than the ring reaches, and  *)
(* no DATA on its way is a whole window behind the receiver.  A number is  *)
(* therefore never mistaken for that of another round.                     *)
(***************************************************************************)
SenderFifo ==
    /\ snd.block = U16(ring.current)
    /\ snd.done => ring.current = ring.wrote + 1
    /\ snd.pc = "app" => ~snd.closing
    /\ snd.pc = "getAck" =>
         /\ ring.current = ring.head
         /\ snd.done \/ (snd.window = 0 /\ ring.current <= ring.wrote)
    /\ MayWrite /\ ~snd.done =>
         /\ snd.window < WindowSize /\ ring.current <= ring.wrote
         /\ ring.current <= Received + snd.window
         /\ ring.head <= ring.current + WindowSize - snd.window
    /\ MayWrite /\ snd.done => rcv.done

RingFifo ==
    /\ 0 <= ring.current /\ ring.current <= ring.head
    /\ ring.head <= ring.current + WindowSize
    /\ ring.head <= IF snd.closing THEN ring.wrote + 1 ELSE ring.wrote
    /\ ring.head <= Received + WindowSize
    /\ \A i \in 0 .. ring.head - 1 :
         i >= ring.head - WindowSize => ring.slots[i % WindowSize] = i + 1

ReceiverFifo ==
    /\ rcv.block = U16(Received) /\ Received <= ring.head
    /\ rcv.done <=> Received = ring.wrote + 1
    /\ rcv.pc \in {"read", "readData"} => rcv.err = "nil"

\* The DATA on its way carries the chunk of its number; a later one is less
\* than a window behind an earlier one and behind the receiver.
DataFifo ==
    \A i \in 1 .. Len(toRcv) : toRcv[i].op = "DATA" =>
      /\ toRcv[i].chunk \in 1 .. ring.head
      /\ toRcv[i].block = U16(toRcv[i].chunk)
      /\ toRcv[i].last <=> toRcv[i].chunk = ring.wrote + 1
      /\ Received < toRcv[i].chunk + WindowSize
      /\ \A j \in 1 .. i - 1 : toRcv[j].op = "DATA" =>
           toRcv[j].chunk < toRcv[i].chunk + WindowSize

\* f[i] is how far the receiver was when it sent the i-th datagram.
AckedUpTo(f) ==
    \A i \in 1 .. Len(toSnd) :
      /\ toSnd[i].op = "ACK" => toSnd[i].block = U16(f[i])
      /\ ring.head <= f[i] + WindowSize
      /\ MayWrite /\ ~snd.done => ring.current <= f[i] + snd.window
      /\ \A j \in 1 .. i - 1 : f[j] <= f[i]

AckFifo == \E f \in [1 .. Len(toSnd) -> 0 .. Received] : AckedUpTo(f)

\* All of it, for FIFO channels.
FifoInv ==
    /\ TypeOK /\ InOrder /\ EofMeansComplete
    /\ SenderFifo /\ RingFifo /\ ReceiverFifo /\ DataFifo /\ AckFifo

-----------------------------------------------------------------------------
(* Arithmetic on block numbers. *)

\* Division with remainder.
LEMMA DivMod ==
    ASSUME NEW m \in Nat \ {0}, NEW a \in Int
    PROVE  \E q \in Int, r \in 0 .. m - 1 : a = m * q + r /\ r = a % m
<1> DEFINE q == a \div m
<1>1. q \in Int /\ a % m \in 0 .. m - 1 /\ a = m * q + (a % m) OBVIOUS
<1> HIDE DEF q
<1> QED BY <1>1

\* A multiple of m less than m away from 0 is 0.
LEMMA SmallMultiple ==
    ASSUME NEW m \in Nat \ {0}, NEW q \in Int, m * q < m, m * q > -m
    PROVE  q = 0
<1>1. CASE q >= 1
  <2>1. m * q >= m BY <1>1
  <2> QED BY <2>1
<1>2. CASE q <= -1
  <2>1. m * q <= -m BY <1>2
  <2> QED BY <2>1
<1> QED BY <1>1, <1>2

\* The quotient and the remainder are unique.
LEMMA ModUnique ==
    ASSUME NEW m \in Nat \ {0}, NEW a \in Int, NEW q \in Int,
           NEW r \in 0 .. m - 1, a = m * q + r
    PROVE  a % m = r
<1>1. PICK p \in Int, s \in 0 .. m - 1 : a = m * p + s /\ s = a % m BY DivMod
<1>a. a = m * p + s BY <1>1
<1>b. s = a % m BY <1>1
<1>2. m * (p - q) = r - s BY <1>a
<1>3. p - q = 0
  <2>1. p - q \in Int /\ m * (p - q) < m /\ m * (p - q) > -m BY <1>a, <1>2
  <2> QED BY <2>1, SmallMultiple
<1>4. p = q BY <1>3
<1>5. r = s BY <1>a, <1>4
<1> QED BY <1>b, <1>5

\* c.block + 1 is the number of the next block.
LEMMA ModSucc ==
    ASSUME NEW m \in Nat \ {0, 1}, NEW a \in Nat
    PROVE  ((a % m) + 1) % m = (a + 1) % m
<1>0. a \in Int OBVIOUS
<1>1. PICK q \in Int, r \in 0 .. m - 1 : a = m * q + r /\ r = a % m
  BY <1>0, DivMod
<1>a. a = m * q + r BY <1>1
<1>2. CASE r < m - 1
  <2> DEFINE a1 == a + 1  r1 == r + 1
  <2>1. a1 \in Int /\ r1 \in Int /\ r1 \in 0 .. m - 1 /\ a1 = m * q + r1
    BY <1>a, <1>2
  <2> HIDE DEF a1, r1
  <2>2. a1 % m = r1 BY <2>1, ModUnique
  <2>3. r1 % m = r1 BY <2>1, ModRange
  <2> QED BY <1>1, <2>2, <2>3 DEF a1, r1
<1>3. CASE r = m - 1
  <2> DEFINE a1 == a + 1  q1 == q + 1
  <2>1. a1 \in Int /\ a1 = m * q1 + 0 /\ q1 \in Int /\ 0 \in 0 .. m - 1
    BY <1>a, <1>3
  <2> HIDE DEF a1, q1
  <2>2. a1 % m = 0 BY <2>1, ModUnique
  <2>3. r + 1 = m /\ m = m * 1 + 0 /\ m \in Int /\ 0 \in 0 .. m - 1 BY <1>3
  <2>4. m % m = 0 BY <2>3, ModUnique
  <2> QED BY <1>1, <2>2, <2>3, <2>4 DEF a1
<1> QED BY <1>1, <1>2, <1>3

\* Numbers of one window are told apart, and so is how far they are apart,
\* unless the block number has wrapped around between them.
LEMMA ModDistance ==
    ASSUME NEW m \in Nat \ {0}, NEW a \in Nat, NEW b \in Nat,
           a <= b, b < a + m, a % m <= b % m
    PROVE  (b % m) - (a % m) = b - a
<1>0. a \in Int /\ b \in Int OBVIOUS
<1>1. PICK qa \in Int, ra \in 0 .. m - 1 : a = m * qa + ra /\ ra = a % m
  BY <1>0, DivMod
<1>2. PICK qb \in Int, rb \in 0 .. m - 1 : b = m * qb + rb /\ rb = b % m
  BY <1>0, DivMod
<1>3. m * (qb - qa) = (b - a) - (rb - ra) BY <1>1, <1>2
<1>4. qb - qa = 0
  <2>1. /\ qb - qa \in Int
        /\ m * (qb - qa) < m /\ m * (qb - qa) > -m
    BY <1>1, <1>2, <1>3
  <2> QED BY <2>1, SmallMultiple
<1> QED BY <1>1, <1>2, <1>3, <1>4

\* diff == 1 in ackData: of the blocks less than m away from the next one,
\* only that one has its number.
LEMMA ModNext ==
    ASSUME NEW m \in Nat \ {0, 1}, NEW a \in Nat, NEW b \in Nat,
           ((a % m) - (b % m)) % m = 1, a < b + 1 + m, b + 1 < a + m
    PROVE  a = b + 1
<1>0. a \in Int /\ b \in Int OBVIOUS
<1>1. PICK qa \in Int, ra \in 0 .. m - 1 : a = m * qa + ra /\ ra = a % m
  BY <1>0, DivMod
<1>2. PICK qb \in Int, rb \in 0 .. m - 1 : b = m * qb + rb /\ rb = b % m
  BY <1>0, DivMod
<1>3. \E k \in {0, -1} : ra - rb = m * k + 1
  <2>1. CASE ra >= rb
    <3>1. ra - rb \in 0 .. m - 1 /\ ra - rb \in Int BY <1>1, <1>2, <2>1
    <3>2. (ra - rb) % m = ra - rb BY <3>1, ModRange
    <3> QED BY <1>1, <1>2, <3>2
  <2>2. CASE ra < rb
    <3> DEFINE d == ra - rb  r == ra - rb + m
    <3>1. d \in Int /\ r \in 0 .. m - 1 /\ d = m * (-1) + r
      BY <1>1, <1>2, <2>2
    <3> HIDE DEF d, r
    <3>2. d % m = r BY <3>1, ModUnique
    <3>3. r = 1 BY <1>1, <1>2, <3>2 DEF d
    <3> QED BY <3>1, <3>3 DEF d
  <2> QED BY <1>1, <1>2, <2>1, <2>2
<1>4. PICK k \in {0, -1} : ra - rb = m * k + 1 BY <1>3
<1>5. m * (qa - qb + k) = a - b - 1 BY <1>1, <1>2, <1>4
<1>6. qa - qb + k = 0
  <2>1. /\ qa - qb + k \in Int
        /\ m * (qa - qb + k) < m /\ m * (qa - qb + k) > -m
    BY <1>1, <1>2, <1>4, <1>5
  <2> QED BY <2>1, SmallMultiple
<1> QED BY <1>5, <1>6

-----------------------------------------------------------------------------
(* The channels. *)

\* The types of the fields that the invariant speaks of.
LEMMA FifoFields ==
    ASSUME TypeOK
    PROVE  /\ WindowSize \in Nat \ {0} /\ MaxFull \in Nat
           /\ BlockMod \in Nat \ {0, 1} /\ WindowSize < BlockMod
           /\ snd.window \in Nat /\ snd.done \in BOOLEAN /\ snd.closing \in BOOLEAN
           /\ ring.wrote \in Nat /\ ring.current \in Int /\ ring.head \in Nat
           /\ Len(rcv.got) \in Nat /\ rcv.done \in BOOLEAN
BY BlockNoFacts, ConstantsAssumption DEF TypeOK, Sender, Ring, Receiver

\* FIFO channels are sequences.
LEMMA FifoChannels ==
    ASSUME Ordered, TypeOK
    PROVE  /\ toRcv \in Seq(ToReceiver) /\ toSnd \in Seq(ToSender)
           /\ Len(toRcv) \in Nat /\ Len(toSnd) \in Nat
BY DEF TypeOK, Channel

\* DATA on its way stays as good as it is while datagrams before it arrive or
\* are lost, and while the file and the ring grow.
LEMMA DataFrame ==
    ASSUME Ordered, TypeOK, TypeOK', DataFifo, NEW d \in {0, 1},
           Len(toRcv') + d = Len(toRcv),
           \A i \in 1 .. Len(toRcv') : toRcv'[i] = toRcv[i + d],
           ring.head <= ring'.head,
           \A i \in 1 + d .. Len(toRcv) : toRcv[i].op = "DATA" =>
             Len(rcv'.got) < toRcv[i].chunk + WindowSize,
           \/ ring'.wrote = ring.wrote
           \/ ring.head <= ring.wrote /\ ring.wrote <= ring'.wrote
    PROVE  DataFifo'
<1>0. /\ ring.head \in Nat /\ ring'.head \in Nat /\ Len(toRcv) \in Nat
      /\ ring.wrote \in Nat /\ ring'.wrote \in Nat /\ Len(toRcv') \in Nat
  BY FifoFields, FifoChannels DEF TypeOK, Ring, Channel
<1>1. ASSUME NEW i \in 1 .. Len(toRcv'), toRcv'[i].op = "DATA"
      PROVE  /\ toRcv'[i].chunk \in 1 .. ring'.head
             /\ toRcv'[i].block = U16(toRcv'[i].chunk)
             /\ toRcv'[i].last <=> toRcv'[i].chunk = ring'.wrote + 1
             /\ Len(rcv'.got) < toRcv'[i].chunk + WindowSize
  <2>1. /\ i + d \in 1 .. Len(toRcv) /\ i + d \in 1 + d .. Len(toRcv)
        /\ toRcv'[i] = toRcv[i + d]
    BY <1>0
  <2>2. /\ toRcv'[i].chunk \in 1 .. ring.head
        /\ toRcv'[i].block = U16(toRcv'[i].chunk)
        /\ toRcv'[i].last <=> toRcv'[i].chunk = ring.wrote + 1
        /\ Len(rcv'.got) < toRcv'[i].chunk + WindowSize
    BY <1>1, <2>1 DEF DataFifo, Received
  <2>3. toRcv'[i].chunk \in 1 .. ring'.head BY <1>0, <2>2
  <2>4. toRcv'[i].last <=> toRcv'[i].chunk = ring'.wrote + 1
    <3>1. CASE ring'.wrote = ring.wrote BY <2>2, <3>1
    <3>2. CASE ring.head <= ring.wrote /\ ring.wrote <= ring'.wrote
      <4>1. toRcv'[i].chunk # ring.wrote + 1 /\ toRcv'[i].chunk # ring'.wrote + 1
        BY <1>0, <2>2, <3>2
      <4> QED BY <2>2, <4>1
    <3> QED BY <3>1, <3>2
  <2> QED BY <2>2, <2>3, <2>4
<1>2. ASSUME NEW i \in 1 .. Len(toRcv'), NEW j \in 1 .. i - 1,
             toRcv'[i].op = "DATA", toRcv'[j].op = "DATA"
      PROVE  toRcv'[j].chunk < toRcv'[i].chunk + WindowSize
  <2>1. /\ i + d \in 1 .. Len(toRcv) /\ j + d \in 1 .. (i + d) - 1
        /\ toRcv'[i] = toRcv[i + d] /\ toRcv'[j] = toRcv[j + d]
    BY <1>0
  <2>2. PICK x, y : /\ x \in 1 .. Len(toRcv) /\ y \in 1 .. x - 1
                    /\ toRcv'[i] = toRcv[x] /\ toRcv'[j] = toRcv[y]
    BY <2>1
  <2> QED BY <1>2, <2>2 DEF DataFifo
<1> QED BY <1>1, <1>2 DEF DataFifo, Received

\* A datagram that the sender sends is behind all the others.
LEMMA DataSent ==
    ASSUME Ordered, TypeOK, TypeOK', DataFifo, NEW m \in ToReceiver,
           toRcv' = Append(toRcv, m),
           ring.head <= ring'.head, Len(rcv'.got) = Len(rcv.got),
           ring'.wrote = ring.wrote,
           m.op = "DATA" => /\ m.chunk \in 1 .. ring'.head
                            /\ m.block = U16(m.chunk)
                            /\ m.last <=> m.chunk = ring.wrote + 1
                            /\ Len(rcv.got) < m.chunk + WindowSize
                            /\ ring.head < m.chunk + WindowSize
    PROVE  DataFifo'
<1>0. /\ ring.head \in Nat /\ ring'.head \in Nat
      /\ ring.wrote \in Nat /\ toRcv \in Seq(ToReceiver) /\ Len(toRcv) \in Nat
      /\ WindowSize \in Nat
  BY FifoFields, FifoChannels DEF TypeOK, Ring
<1>1. /\ Len(toRcv') = Len(toRcv) + 1 /\ toRcv'[Len(toRcv) + 1] = m
      /\ \A i \in 1 .. Len(toRcv) : toRcv'[i] = toRcv[i]
  BY <1>0
<1>2. ASSUME NEW i \in 1 .. Len(toRcv'), toRcv'[i].op = "DATA"
      PROVE  /\ toRcv'[i].chunk \in 1 .. ring'.head
             /\ toRcv'[i].block = U16(toRcv'[i].chunk)
             /\ toRcv'[i].last <=> toRcv'[i].chunk = ring'.wrote + 1
             /\ Len(rcv'.got) < toRcv'[i].chunk + WindowSize
  <2>1. CASE i \in 1 .. Len(toRcv)
    <3>1. /\ toRcv'[i].chunk \in 1 .. ring.head
          /\ toRcv'[i].block = U16(toRcv'[i].chunk)
          /\ toRcv'[i].last <=> toRcv'[i].chunk = ring.wrote + 1
          /\ Len(rcv.got) < toRcv'[i].chunk + WindowSize
      BY <1>1, <1>2, <2>1 DEF DataFifo, Received
    <3> QED BY <1>0, <3>1
  <2>2. CASE i = Len(toRcv) + 1 BY <1>1, <1>2, <2>2
  <2> QED BY <1>0, <1>1, <2>1, <2>2
<1>3. ASSUME NEW i \in 1 .. Len(toRcv'), NEW j \in 1 .. i - 1,
             toRcv'[i].op = "DATA", toRcv'[j].op = "DATA"
      PROVE  toRcv'[j].chunk < toRcv'[i].chunk + WindowSize
  <2>1. j \in 1 .. Len(toRcv) /\ toRcv'[j] = toRcv[j] BY <1>0, <1>1
  <2>2. CASE i \in 1 .. Len(toRcv) BY <1>1, <1>3, <2>1, <2>2 DEF DataFifo
  <2>3. CASE i = Len(toRcv) + 1
    <3>1. toRcv'[i] = m BY <1>1, <2>3
    <3>2. toRcv[j].chunk \in 1 .. ring.head BY <1>3, <2>1 DEF DataFifo
    <3>3. m.chunk \in Nat /\ ring.head < m.chunk + WindowSize
      BY <1>3, <3>1 DEF ToReceiver
    <3>4. ring.head \in Nat /\ WindowSize \in Nat BY <1>0
    <3>5. toRcv[j].chunk < m.chunk + WindowSize BY <3>2, <3>3, <3>4
    <3> QED BY <2>1, <3>1, <3>5
  <2> QED BY <1>0, <1>1, <2>2, <2>3
<1> QED BY <1>2, <1>3 DEF DataFifo, Received

\* The ACKs on their way stay in order when the first one arrives or is lost.
LEMMA AckFrame ==
    ASSUME Ordered, TypeOK, TypeOK', NEW d \in {0, 1},
           Len(toSnd') + d = Len(toSnd),
           \A i \in 1 .. Len(toSnd') : toSnd'[i] = toSnd[i + d],
           Len(rcv.got) <= Len(rcv'.got),
           NEW f \in [1 .. Len(toSnd) -> 0 .. Received], AckedUpTo(f),
           \A i \in 1 + d .. Len(toSnd) :
             /\ ring'.head <= f[i] + WindowSize
             /\ MayWrite' /\ ~snd'.done => ring'.current <= f[i] + snd'.window
    PROVE  AckFifo'
<1>0. /\ Len(toSnd) \in Nat /\ Len(toSnd') \in Nat
      /\ Len(rcv.got) \in Nat /\ Len(rcv'.got) \in Nat
  <2>1. toSnd' \in Seq(ToSender) /\ rcv'.got \in Seq(Nat)
    BY DEF TypeOK, Channel, Receiver
  <2> QED BY <2>1, FifoFields, FifoChannels
<1>1. ASSUME NEW i \in 1 .. Len(toSnd')
      PROVE  /\ i + d \in 1 + d .. Len(toSnd) /\ i + d \in 1 .. Len(toSnd)
             /\ toSnd'[i] = toSnd[i + d]
             /\ f[i + d] \in 0 .. Len(rcv.got)
  BY <1>0 DEF Received
<1>2. PICK g \in [1 .. Len(toSnd') -> 0 .. Len(rcv'.got)] :
        \A i \in 1 .. Len(toSnd') : g[i] = f[i + d]
  <2> DEFINE h == [i \in 1 .. Len(toSnd') |-> f[i + d]]
  <2>1. h \in [1 .. Len(toSnd') -> 0 .. Len(rcv'.got)]
    <3>1. \A i \in 1 .. Len(toSnd') : f[i + d] \in 0 .. Len(rcv'.got)
      BY <1>0, <1>1
    <3> QED BY <3>1
  <2>2. \A i \in 1 .. Len(toSnd') : h[i] = f[i + d] OBVIOUS
  <2> QED BY <2>1, <2>2
<1>3. ASSUME NEW i \in 1 .. Len(toSnd')
      PROVE  /\ toSnd'[i].op = "ACK" => toSnd'[i].block = U16(g[i])
             /\ ring'.head <= g[i] + WindowSize
             /\ MayWrite' /\ ~snd'.done => ring'.current <= g[i] + snd'.window
  BY <1>1, <1>2 DEF AckedUpTo
<1>4. ASSUME NEW i \in 1 .. Len(toSnd'), NEW j \in 1 .. i - 1 PROVE g[j] <= g[i]
  <2>1. j \in 1 .. Len(toSnd') /\ j + d \in 1 .. (i + d) - 1 BY <1>0
  <2>2. g[j] = f[j + d] /\ g[i] = f[i + d] /\ i + d \in 1 .. Len(toSnd)
    BY <1>1, <1>2, <2>1
  <2>3. f[j + d] <= f[i + d] BY <2>1, <2>2 DEF AckedUpTo
  <2> QED BY <2>2, <2>3
<1>5. AckedUpTo(g)' BY <1>3, <1>4 DEF AckedUpTo
<1> QED BY <1>2, <1>5 DEF AckFifo, Received

\* What the receiver sends says how far it is now.
LEMMA AckSent ==
    ASSUME Ordered, TypeOK, TypeOK', AckFifo, NEW m \in ToSender,
           toSnd' = Append(toSnd, m), UNCHANGED << snd, ring >>,
           Len(rcv.got) <= Len(rcv'.got),
           m.op = "ACK" => m.block = U16(Len(rcv'.got)),
           ring.head <= Len(rcv.got) + WindowSize,
           MayWrite /\ ~snd.done => ring.current <= Len(rcv.got) + snd.window
    PROVE  AckFifo'
<1>0. /\ Len(toSnd) \in Nat /\ toSnd \in Seq(ToSender)
      /\ Len(rcv.got) \in Nat /\ Len(rcv'.got) \in Nat
      /\ WindowSize \in Nat /\ ring.head \in Nat /\ ring.current \in Int
      /\ snd.window \in Nat
  <2>1. rcv'.got \in Seq(Nat) BY DEF TypeOK, Receiver
  <2> QED BY <2>1, FifoFields, FifoChannels
<1>1. PICK f \in [1 .. Len(toSnd) -> 0 .. Len(rcv.got)] : AckedUpTo(f)
  BY DEF AckFifo, Received
<1>2. /\ Len(toSnd') = Len(toSnd) + 1 /\ toSnd'[Len(toSnd) + 1] = m
      /\ \A i \in 1 .. Len(toSnd) : toSnd'[i] = toSnd[i]
  BY <1>0
<1>3. PICK g \in [1 .. Len(toSnd') -> 0 .. Len(rcv'.got)] :
        /\ \A i \in 1 .. Len(toSnd) : g[i] = f[i] /\ f[i] \in 0 .. Len(rcv.got)
        /\ g[Len(toSnd) + 1] = Len(rcv'.got)
  <2> DEFINE h == [i \in 1 .. Len(toSnd') |->
                     IF i <= Len(toSnd) THEN f[i] ELSE Len(rcv'.got)]
  <2>1. h \in [1 .. Len(toSnd') -> 0 .. Len(rcv'.got)] BY <1>0, <1>1, <1>2
  <2>2. ASSUME NEW i \in 1 .. Len(toSnd)
        PROVE  h[i] = f[i] /\ f[i] \in 0 .. Len(rcv.got)
    <3>1. i \in 1 .. Len(toSnd') /\ i <= Len(toSnd) BY <1>0, <1>2
    <3>2. f[i] \in 0 .. Len(rcv.got) BY <1>1
    <3> QED BY <3>1, <3>2
  <2>3. h[Len(toSnd) + 1] = Len(rcv'.got) BY <1>0, <1>2
  <2> QED BY <2>1, <2>2, <2>3
<1>5. MayWrite' = MayWrite BY DEF MayWrite
<1>6. ASSUME NEW i \in 1 .. Len(toSnd')
      PROVE  /\ toSnd'[i].op = "ACK" => toSnd'[i].block = U16(g[i])
             /\ ring'.head <= g[i] + WindowSize
             /\ MayWrite' /\ ~snd'.done => ring'.current <= g[i] + snd'.window
             /\ \A j \in 1 .. i - 1 : g[j] <= g[i]
  <2>1. CASE i \in 1 .. Len(toSnd)
    <3>1. \A j \in 1 .. i - 1 : j \in 1 .. Len(toSnd) BY <1>0, <2>1
    <3> QED BY <1>1, <1>2, <1>3, <1>5, <2>1, <3>1 DEF AckedUpTo
  <2>2. CASE i = Len(toSnd) + 1
    <3>1. g[i] = Len(rcv'.got) /\ toSnd'[i] = m BY <1>2, <1>3, <2>2
    <3>2. \A j \in 1 .. i - 1 : g[j] <= g[i]
      <4> TAKE j \in 1 .. i - 1
      <4>1. j \in 1 .. Len(toSnd) BY <1>0, <2>2
      <4>2. g[j] \in 0 .. Len(rcv.got) BY <1>3, <4>1
      <4> QED BY <1>0, <3>1, <4>2
    <3>3. ring'.head <= g[i] + WindowSize BY <1>0, <3>1
    <3>4. MayWrite' /\ ~snd'.done => ring'.current <= g[i] + snd'.window
      <4>1. /\ Len(rcv.got) \in Nat /\ Len(rcv'.got) \in Nat
            /\ ring.current \in Int /\ snd.window \in Nat
        BY <1>0
      <4>2. ring.current <= Len(rcv.got) + snd.window =>
              ring.current <= Len(rcv'.got) + snd.window
        BY <4>1
      <4> QED BY <1>5, <3>1, <4>2
    <3> QED BY <3>1, <3>2, <3>3, <3>4
  <2>3. Len(toSnd) \in Nat /\ Len(toSnd') = Len(toSnd) + 1 BY <1>0, <1>2
  <2>4. i \in 1 .. Len(toSnd) \/ i = Len(toSnd) + 1 BY <2>3
  <2> QED BY <2>1, <2>2, <2>4
<1>7. AckedUpTo(g)' BY <1>6 DEF AckedUpTo
<1> QED BY <1>3, <1>7 DEF AckFifo, Received

\* A channel after nothing has happened to it, or after its first datagram is
\* gone, as a shift by d.
LEMMA Shift ==
    ASSUME NEW D, NEW s \in Seq(D), NEW t,
           t = s \/ (s # << >> /\ t = Tail(s))
    PROVE  \E d \in {0, 1} : /\ Len(t) + d = Len(s)
                             /\ \A i \in 1 .. Len(t) : t[i] = s[i + d]
                             /\ t # s => d = 1
<1>1. Len(s) \in Nat OBVIOUS
<1>2. CASE t = s
  <2>1. Len(t) + 0 = Len(s) /\ \A i \in 1 .. Len(t) : t[i] = s[i + 0] BY <1>1, <1>2
  <2> QED BY <1>2, <2>1
<1>3. CASE s # << >> /\ t = Tail(s)
  <2>1. Len(t) + 1 = Len(s) /\ \A i \in 1 .. Len(t) : t[i] = s[i + 1] BY <1>1, <1>3
  <2> QED BY <2>1
<1> QED BY <1>2, <1>3

\* DATA on its way when the receiver does not advance.
LEMMA DataStays ==
    ASSUME Ordered, TypeOK, TypeOK', DataFifo,
           toRcv' = toRcv \/ (toRcv # << >> /\ toRcv' = Tail(toRcv)),
           ring.head <= ring'.head, Len(rcv'.got) = Len(rcv.got),
           \/ ring'.wrote = ring.wrote
           \/ ring.head <= ring.wrote /\ ring.wrote <= ring'.wrote
    PROVE  DataFifo'
<1>1. toRcv \in Seq(ToReceiver) /\ Len(toRcv) \in Nat BY FifoChannels
<1>2. PICK d \in {0, 1} : /\ Len(toRcv') + d = Len(toRcv)
                          /\ \A i \in 1 .. Len(toRcv') : toRcv'[i] = toRcv[i + d]
  BY <1>1, Shift
<1>3. ASSUME NEW i \in 1 + d .. Len(toRcv), toRcv[i].op = "DATA"
      PROVE  Len(rcv'.got) < toRcv[i].chunk + WindowSize
  <2>1. i \in 1 .. Len(toRcv) BY <1>1
  <2> QED BY <1>3, <2>1 DEF DataFifo, Received
<1> QED BY <1>2, <1>3, DataFrame

\* ACKs on their way while the sender does not go back or forward.
LEMMA AckStays ==
    ASSUME Ordered, TypeOK, TypeOK', AckFifo,
           toSnd' = toSnd \/ (toSnd # << >> /\ toSnd' = Tail(toSnd)),
           Len(rcv.got) <= Len(rcv'.got), ring'.head = ring.head,
           MayWrite' /\ ~snd'.done =>
             /\ MayWrite /\ ~snd.done
             /\ ring'.current = ring.current /\ snd'.window = snd.window
    PROVE  AckFifo'
<1>1. toSnd \in Seq(ToSender) /\ Len(toSnd) \in Nat BY FifoChannels
<1>2. PICK d \in {0, 1} : /\ Len(toSnd') + d = Len(toSnd)
                          /\ \A i \in 1 .. Len(toSnd') : toSnd'[i] = toSnd[i + d]
  BY <1>1, Shift
<1>3. PICK f \in [1 .. Len(toSnd) -> 0 .. Received] : AckedUpTo(f) BY DEF AckFifo
<1>4. ASSUME NEW i \in 1 + d .. Len(toSnd)
      PROVE  /\ ring'.head <= f[i] + WindowSize
             /\ MayWrite' /\ ~snd'.done => ring'.current <= f[i] + snd'.window
  <2>1. i \in 1 .. Len(toSnd) BY <1>1
  <2> QED BY <1>3, <2>1 DEF AckedUpTo
<1> QED BY <1>2, <1>3, <1>4, AckFrame

-----------------------------------------------------------------------------
(* The sender. *)

\* The invariant holds when the data phase starts.
LEMMA InitFifo == Ordered /\ Init => FifoInv /\ NilCloseMeansReceived
<1> SUFFICES ASSUME Ordered, Init PROVE FifoInv /\ NilCloseMeansReceived OBVIOUS
<1>1. TypeOK BY InitType
<1>2. /\ Len(rcv.got) = 0 /\ WindowSize \in Nat \ {0} /\ U16(0) = 0
  BY ConstantsAssumption, BlockNoFacts DEF Init
<1>3. InOrder /\ EofMeansComplete /\ NilCloseMeansReceived
  BY <1>2 DEF Init, InOrder, EofMeansComplete, NilCloseMeansReceived
<1>4. SenderFifo BY <1>2 DEF Init, SenderFifo, MayWrite, Received
<1>5. RingFifo BY <1>2 DEF Init, RingFifo, Received
<1>6. ReceiverFifo BY <1>2 DEF Init, ReceiverFifo, Received
<1>7. DataFifo
  <2>1. toRcv \in Seq({ToRcvMsg("OACK"), ToRcvMsg("ERROR")})
    BY LeftoversAssumption DEF Init, Channel
  <2>2. ASSUME NEW i \in 1 .. Len(toRcv) PROVE toRcv[i].op # "DATA"
    <3>1. toRcv[i] \in {ToRcvMsg("OACK"), ToRcvMsg("ERROR")} BY <2>1
    <3> QED BY <3>1 DEF ToRcvMsg
  <2> QED BY <2>2 DEF DataFifo
<1>8. AckFifo
  <2>1. toSnd \in Seq({Ack(0), ToSndMsg("OACK"), ToSndMsg("STRAY")})
    BY LeftoversAssumption DEF Init, Channel
  <2>2. ASSUME NEW i \in 1 .. Len(toSnd) PROVE toSnd[i].block = 0
    <3>1. toSnd[i] \in {Ack(0), ToSndMsg("OACK"), ToSndMsg("STRAY")} BY <2>1
    <3> QED BY <3>1 DEF Ack, ToSndMsg
  <2> DEFINE f == [i \in 1 .. Len(toSnd) |-> 0]
  <2>3. f \in [1 .. Len(toSnd) -> 0 .. Received] BY <1>2 DEF Received
  <2>4. \A i \in 1 .. Len(toSnd) : f[i] = 0 /\ \A j \in 1 .. i - 1 : f[j] = 0
    <3>1. Len(toSnd) \in Nat BY <2>1
    <3>2. \A i \in 1 .. Len(toSnd) : \A j \in 1 .. i - 1 : j \in 1 .. Len(toSnd) BY <3>1
    <3> QED BY <3>2
  <2> HIDE DEF f
  <2>5. AckedUpTo(f) BY <1>2, <2>2, <2>4 DEF AckedUpTo, Init
  <2> QED BY <2>3, <2>5 DEF AckFifo
<1> QED BY <1>1, <1>3, <1>4, <1>5, <1>6, <1>7, <1>8 DEF FifoInv

\* What writeData knows when it sends a block, and what ringBuffer.Read
\* returns to it.
LEMMA WriteDataKnows ==
    ASSUME Ordered, FifoInv, WriteData
    PROVE  /\ ~snd.done /\ ring.current <= ring.wrote
           /\ snd.closing \/ ring.current < ring.wrote
           /\ snd.window < WindowSize
           /\ ring.current <= Len(rcv.got) + snd.window
           /\ ring.head <= ring.current + WindowSize - snd.window
           /\ U16(snd.block + 1) = U16(ring.current + 1)
           /\ NextChunk = ring.current + 1
           /\ Short(NextChunk) <=> ring.current = ring.wrote
<1>1. TypeOK /\ SenderFifo /\ RingFifo /\ ReceiverFifo BY DEF FifoInv
<1>f. /\ WindowSize \in Nat \ {0} /\ snd.window \in Nat
      /\ ring.wrote \in Nat /\ ring.current \in Int /\ ring.head \in Nat
      /\ Len(rcv.got) \in Nat /\ snd.closing \in BOOLEAN /\ snd.done \in BOOLEAN
      /\ BlockMod \in Nat \ {0, 1}
  BY <1>1, FifoFields
<1>r. /\ 0 <= ring.current /\ ring.current <= ring.head
      /\ ring.head <= ring.current + WindowSize
      /\ ring.head <= IF snd.closing THEN ring.wrote + 1 ELSE ring.wrote
      /\ Len(rcv.got) <= ring.head
      /\ rcv.done => Len(rcv.got) = ring.wrote + 1
  BY <1>1 DEF RingFifo, ReceiverFifo, Received
<1>2. MayWrite /\ ~NothingToWrite BY DEF WriteData, MayWrite
<1>3. ~snd.done
  <2>1. CASE snd.closing BY <1>2, <2>1 DEF NothingToWrite
  <2>2. CASE ~snd.closing
    <3>1. ~rcv.done BY <1>f, <1>r, <2>2
    <3> QED BY <1>1, <1>2, <3>1 DEF SenderFifo
  <2> QED BY <2>1, <2>2
<1>4. /\ ring.current <= ring.wrote
      /\ snd.window < WindowSize
      /\ ring.current <= Len(rcv.got) + snd.window
      /\ ring.head <= ring.current + WindowSize - snd.window
  BY <1>1, <1>2, <1>3 DEF SenderFifo, Received
<1>5. snd.closing \/ ring.current < ring.wrote
  <2>1. ~snd.closing => ring.current < ring.head \/ ring.head < ring.wrote
    BY <1>2 DEF NothingToWrite, HasBlock
  <2> QED BY <1>f, <1>r, <2>1
<1>6. U16(snd.block + 1) = U16(ring.current + 1)
  <2>1. snd.block = ring.current % BlockMod BY <1>1 DEF SenderFifo, U16
  <2>2. ring.current \in Nat BY <1>f, <1>r
  <2> QED BY <1>f, <2>1, <2>2, ModSucc DEF U16
<1>7. NextChunk = ring.current + 1
  <2>1. CASE ring.current = ring.head BY <2>1 DEF NextChunk
  <2>2. CASE ring.current # ring.head
    <3>1. ring.current \in 0 .. ring.head - 1 /\ ring.current >= ring.head - WindowSize
      BY <1>f, <1>r, <2>2
    <3>2. ring.slots[ring.current % WindowSize] = ring.current + 1
      BY <1>1, <3>1 DEF RingFifo
    <3> QED BY <2>2, <3>2 DEF NextChunk, Slot
  <2> QED BY <2>1, <2>2
<1>8. Short(NextChunk) <=> ring.current = ring.wrote
  BY <1>f, <1>r, <1>4, <1>7 DEF Short
<1> QED BY <1>3, <1>4, <1>5, <1>6, <1>7, <1>8

\* The ring buffer after writeData has read a block from it.
LEMMA WriteDataRings ==
    ASSUME Ordered, FifoInv, WriteData
    PROVE  /\ RingFifo'
           /\ ring'.current = ring.current + 1 /\ ring'.wrote = ring.wrote
           /\ ring'.head \in Nat /\ ring.head <= ring'.head
           /\ ring'.head = ring.head \/ ring'.head = ring.current + 1
           /\ ring'.current <= ring'.head
<1>1. TypeOK /\ SenderFifo /\ RingFifo BY DEF FifoInv
<1>2. /\ ring' = RingRead /\ rcv' = rcv /\ snd'.closing = snd.closing
  BY <1>1 DEF WriteData, AfterData, TypeOK, Sender
<1>f. /\ WindowSize \in Nat \ {0} /\ snd.window \in Nat
      /\ ring.wrote \in Nat /\ ring.current \in Int /\ ring.head \in Nat
      /\ Len(rcv.got) \in Nat /\ snd.closing \in BOOLEAN
  BY <1>1, FifoFields
<1>r. /\ 0 <= ring.current /\ ring.current <= ring.head
      /\ ring.head <= ring.current + WindowSize
      /\ ring.head <= IF snd.closing THEN ring.wrote + 1 ELSE ring.wrote
      /\ ring.head <= Len(rcv.got) + WindowSize
      /\ \A i \in 0 .. ring.head - 1 :
           i >= ring.head - WindowSize => ring.slots[i % WindowSize] = i + 1
  BY <1>1 DEF RingFifo, Received
<1>k. /\ ring.current <= ring.wrote /\ (snd.closing \/ ring.current < ring.wrote)
      /\ snd.window < WindowSize /\ ring.current <= Len(rcv.got) + snd.window
  BY WriteDataKnows
<1>3. CASE ring.current # ring.head
  <2>1. ring' = [ring EXCEPT !.current = @ + 1] BY <1>2, <1>3 DEF RingRead
  <2>2. /\ ring'.current = ring.current + 1 /\ ring'.wrote = ring.wrote
        /\ ring'.head = ring.head /\ ring'.slots = ring.slots
    BY <1>1, <2>1 DEF TypeOK, Ring
  <2>3. ring'.current <= ring'.head /\ ring.head <= ring'.head BY <1>3, <1>f, <1>r, <2>2
  <2>4. 0 <= ring'.current /\ ring'.head <= ring'.current + WindowSize
    BY <1>f, <1>r, <2>2
  <2>5. RingFifo' BY <1>2, <1>r, <2>2, <2>3, <2>4 DEF RingFifo, Received
  <2> QED BY <1>f, <2>2, <2>3, <2>5
<1>4. CASE ring.current = ring.head
  <2>1. ring' = [ring EXCEPT !.slots[Slot] = ring.head + 1,
                             !.current = @ + 1, !.head = @ + 1]
    BY <1>2, <1>4 DEF RingRead
  <2>2. /\ ring'.current = ring.current + 1 /\ ring'.wrote = ring.wrote
        /\ ring'.head = ring.head + 1
        /\ ring'.slots = [ring.slots EXCEPT ![Slot] = ring.head + 1]
    BY <1>1, <2>1 DEF TypeOK, Ring
  <2>3. Slot \in 0 .. WindowSize - 1 /\ Slot = ring.head % WindowSize
    BY <1>1, <1>4, RingTypes DEF TypeOK, Slot
  <2>4. ring.slots \in [0 .. WindowSize - 1 -> Nat] BY <1>1 DEF TypeOK, Ring
  <2>5. /\ 0 <= ring'.current /\ ring'.current <= ring'.head
        /\ ring.head <= ring'.head /\ ring'.head <= ring'.current + WindowSize
        /\ ring'.head \in Nat /\ ring'.head = ring.current + 1
    BY <1>4, <1>f, <1>r, <2>2
  <2>6. ring'.head <= IF snd.closing THEN ring'.wrote + 1 ELSE ring'.wrote
    BY <1>4, <1>f, <1>k, <2>2
  <2>7. ring'.head <= Len(rcv.got) + WindowSize BY <1>4, <1>f, <1>k, <2>2
  <2>8. ASSUME NEW i \in 0 .. ring'.head - 1, i >= ring'.head - WindowSize
        PROVE  ring'.slots[i % WindowSize] = i + 1
    <3>0. i \in Nat /\ i <= ring.head /\ ring.head < i + WindowSize
      BY <1>f, <2>2, <2>8
    <3>1. CASE i = ring.head BY <2>2, <2>3, <2>4, <3>1
    <3>2. CASE i # ring.head
      <4>1. i < ring.head /\ i \in 0 .. ring.head - 1 /\ i >= ring.head - WindowSize
        BY <1>f, <3>0, <3>2
      <4>2. i % WindowSize # Slot BY <1>f, <2>3, <3>0, <4>1, ModDistinct
      <4>3. i % WindowSize \in 0 .. WindowSize - 1
        <5>1. i \in Int BY <3>0
        <5> QED BY <1>f, <5>1, ModRange
      <4>4. ring.slots[i % WindowSize] = i + 1 BY <1>r, <4>1
      <4> QED BY <2>2, <2>4, <4>2, <4>3, <4>4
    <3> QED BY <3>1, <3>2
  <2>9. RingFifo' BY <1>2, <2>5, <2>6, <2>7, <2>8 DEF RingFifo, Received
  <2> QED BY <2>2, <2>5, <2>9
<1> QED BY <1>3, <1>4

\* Every ACK on its way still leaves the sender within a window of it.
LEMMA WriteDataAcks ==
    ASSUME Ordered, FifoInv, TypeOK', WriteData,
           MayWrite' /\ ~snd'.done => snd'.window = snd.window + 1
    PROVE  AckFifo'
<1>0. TypeOK /\ AckFifo BY DEF FifoInv
<1>1. /\ WindowSize \in Nat /\ snd.window \in Nat /\ Len(rcv.got) \in Nat
      /\ ring.current \in Int /\ Len(toSnd) \in Nat
  BY <1>0, FifoFields, FifoChannels
<1>2. PICK f \in [1 .. Len(toSnd) -> 0 .. Received] : AckedUpTo(f)
  BY <1>0 DEF AckFifo
<1>3. ~snd.done /\ snd.window < WindowSize /\ MayWrite
  BY WriteDataKnows DEF WriteData, MayWrite
<1>4. /\ ring'.current = ring.current + 1
      /\ ring'.head = ring.head \/ ring'.head = ring.current + 1
  BY WriteDataRings
<1>5. ASSUME NEW i \in 1 + 0 .. Len(toSnd)
      PROVE  /\ ring'.head <= f[i] + WindowSize
             /\ MayWrite' /\ ~snd'.done => ring'.current <= f[i] + snd'.window
  <2>1. f[i] \in Nat BY <1>1, <1>2 DEF Received
  <2>2. ring.head <= f[i] + WindowSize /\ ring.current <= f[i] + snd.window
    BY <1>2, <1>3 DEF AckedUpTo
  <2>3. ring'.head <= f[i] + WindowSize
    <3>1. ring.current + 1 <= f[i] + WindowSize BY <1>1, <1>3, <2>1, <2>2
    <3> QED BY <1>4, <2>2, <3>1
  <2>4. ring.current + 1 <= f[i] + (snd.window + 1) BY <1>1, <2>1, <2>2
  <2> QED BY <1>4, <2>3, <2>4
<1>6. /\ Len(toSnd') + 0 = Len(toSnd) /\ Len(rcv.got) <= Len(rcv'.got)
      /\ \A i \in 1 .. Len(toSnd') : toSnd'[i] = toSnd[i + 0]
  BY <1>1 DEF WriteData
<1>7. 0 \in {0, 1} OBVIOUS
<1> QED BY <1>0, <1>2, <1>5, <1>6, <1>7, AckFrame

\* writeData keeps the invariant.
LEMMA WriteDataFifo ==
    ASSUME Ordered, FifoInv, WriteData PROVE FifoInv'
<1> DEFINE b == U16(snd.block + 1)  short == Short(NextChunk)
<1>0. /\ TypeOK /\ SenderFifo /\ RingFifo /\ ReceiverFifo /\ DataFifo
      /\ InOrder /\ EofMeansComplete
  BY DEF FifoInv
<1>t. TypeOK' BY <1>0, SenderTypes DEF SenderStep
<1>f. /\ WindowSize \in Nat \ {0} /\ snd.window \in Nat
      /\ ring.wrote \in Nat /\ ring.current \in Int /\ ring.head \in Nat
      /\ Len(rcv.got) \in Nat
  BY <1>0, FifoFields
<1>k. /\ ~snd.done /\ ring.current <= ring.wrote
      /\ snd.window < WindowSize
      /\ ring.current <= Len(rcv.got) + snd.window
      /\ ring.head <= ring.current + WindowSize - snd.window
      /\ NextChunk = ring.current + 1
  BY WriteDataKnows
<1>s. b = U16(ring.current + 1) /\ (short <=> ring.current = ring.wrote)
  BY WriteDataKnows
<1>q. RingFifo' BY WriteDataRings
<1>r. /\ ring'.current = ring.current + 1 /\ ring'.wrote = ring.wrote
      /\ ring'.head \in Nat /\ ring.head <= ring'.head
      /\ ring'.head = ring.head \/ ring'.head = ring.current + 1
      /\ ring'.current <= ring'.head
  BY WriteDataRings
<1>b. /\ b \in BlockNo /\ short \in BOOLEAN /\ NextChunk \in Nat
  BY <1>0, BlockNoFacts, RingTypes DEF TypeOK, Sender, BlockNo
<1>1. UNCHANGED << rcv, toSnd >> BY DEF WriteData
<1>2. \/ snd' = AfterData(b, short) /\ toRcv' = Put(toRcv, Data(b, NextChunk, short))
      \/ /\ snd' = [snd EXCEPT !.block = b, !.err = "network", !.pc = Returned]
         /\ toRcv' = toRcv
  BY DEF WriteData
<1>h. /\ 0 <= ring.current /\ ring.head <= ring.current + WindowSize
      /\ ring.head <= ring.wrote + 1
      /\ Len(rcv.got) <= ring.head
  BY <1>0, FifoFields DEF RingFifo, ReceiverFifo, Received
<1>3. DataFifo'
  <2>1. CASE toRcv' = toRcv
    BY <1>0, <1>t, <1>1, <1>r, <2>1, DataStays
  <2>2. CASE toRcv' = Put(toRcv, Data(b, NextChunk, short))
    <3> DEFINE m == Data(b, NextChunk, short)
    <3>1. m \in ToReceiver BY <1>b, SentMessages
    <3>2. /\ m.chunk = ring.current + 1 /\ m.block = b /\ m.last = short
      BY <1>k DEF Data
    <3>3. toRcv' = Append(toRcv, m) BY <2>2 DEF Put
    <3> HIDE DEF m, b, short
    <3>6. m.block = U16(m.chunk) BY <1>s, <3>2
    <3>4. /\ m.chunk \in 1 .. ring'.head
          /\ Len(rcv.got) < m.chunk + WindowSize
          /\ ring.head < m.chunk + WindowSize
      <4>0. ring.current \in Nat /\ ring.head \in Nat /\ WindowSize \in Nat
        <5>1. ring.current \in Int /\ 0 <= ring.current BY <1>f, <1>h
        <5> QED BY <1>f, <5>1
      <4>1. /\ ring.current + 1 \in Nat /\ ring.current + 1 >= 1
            /\ ring.head < (ring.current + 1) + WindowSize
        <5>1. ring.head <= ring.current + WindowSize BY <1>h
        <5> QED BY <4>0, <5>1
      <4>2. Len(rcv.got) < (ring.current + 1) + WindowSize BY <1>f, <1>h, <4>1
      <4>3. ring.current + 1 \in 1 .. ring'.head BY <1>r, <4>1
      <4> QED BY <3>2, <4>1, <4>2, <4>3
    <3>5. m.last <=> m.chunk = ring.wrote + 1
      <4>1. m.chunk = ring.wrote + 1 <=> ring.current = ring.wrote BY <1>f, <3>2
      <4> QED BY <1>s, <3>2, <4>1
    <3> QED BY <1>0, <1>t, <1>1, <1>r, <3>1, <3>3, <3>4, <3>5, <3>6, DataSent
  <2> QED BY <1>2, <2>1, <2>2
<1>4. ReceiverFifo' /\ InOrder' /\ EofMeansComplete'
  <2>1. snd'.closing = snd.closing BY <1>0, <1>2 DEF AfterData, TypeOK, Sender
  <2>2. ReceiverFifo' BY <1>0, <1>1, <1>f, <1>r DEF ReceiverFifo, Received
  <2> QED BY <1>0, <1>1, <1>r, <2>1, <2>2 DEF InOrder, EofMeansComplete
<1> HIDE DEF b, short
<1>5. SenderFifo' /\ (MayWrite' /\ ~snd'.done => snd'.window = snd.window + 1)
  <2>1. CASE snd' = AfterData(b, short)
    <3>1. /\ snd'.block = b /\ snd'.done = short /\ snd'.pc # "app"
          /\ \/ /\ ~short /\ snd.window + 1 < WindowSize
                /\ snd'.window = snd.window + 1 /\ snd'.pc = "writeData"
             \/ /\ ~short /\ ~(snd.window + 1 < WindowSize)
                /\ snd'.window = 0 /\ snd'.pc = "getAck"
             \/ short /\ snd'.pc = "getAck"
      BY <1>0, <1>b, <1>k, <2>1 DEF AfterData, WindowOpen, TypeOK, Sender
    <3>2. snd'.block = U16(ring'.current) BY <1>s, <1>r, <3>1
    <3>3. snd'.done => ring'.current = ring'.wrote + 1 BY <1>s, <1>r, <3>1
    <3>4. snd'.pc = "getAck" =>
            /\ ring'.current = ring'.head
            /\ snd'.done \/ (snd'.window = 0 /\ ring'.current <= ring'.wrote)
      <4>1. CASE short
        <5>1. ring.head <= ring.current + 1 BY <1>h, <1>s, <4>1
        <5>2. ring'.current = ring'.head BY <1>f, <1>r, <5>1
        <5> QED BY <3>1, <4>1, <5>2
      <4>2. CASE ~short
        <5> HAVE snd'.pc = "getAck"
        <5>1. ~(snd.window + 1 < WindowSize) /\ snd'.window = 0 BY <3>1, <4>2
        <5>2. ring.head <= ring.current + 1 BY <1>f, <1>k, <5>1
        <5>3. ring'.current = ring'.head BY <1>f, <1>r, <5>2
        <5>4. ring.current + 1 <= ring.wrote BY <1>f, <1>k, <1>s, <4>2
        <5> QED BY <1>r, <5>1, <5>3, <5>4
      <4> QED BY <4>1, <4>2
    <3>5. MayWrite' /\ ~snd'.done =>
            /\ snd'.window = snd.window + 1
            /\ snd'.window < WindowSize /\ ring'.current <= ring'.wrote
            /\ ring'.current <= Len(rcv'.got) + snd'.window
            /\ ring'.head <= ring'.current + WindowSize - snd'.window
      <4> SUFFICES ASSUME MayWrite', ~snd'.done
                   PROVE  /\ snd'.window = snd.window + 1
                          /\ snd'.window < WindowSize /\ ring'.current <= ring'.wrote
                          /\ ring'.current <= Len(rcv'.got) + snd'.window
                          /\ ring'.head <= ring'.current + WindowSize - snd'.window
        OBVIOUS
      <4>1. /\ ring.current # ring.wrote /\ snd'.window = snd.window + 1
            /\ snd'.window < WindowSize
        BY <1>s, <3>1 DEF MayWrite
      <4>2. ring'.current <= ring'.wrote BY <1>f, <1>k, <1>r, <4>1
      <4>3. ring'.current <= Len(rcv'.got) + snd'.window
        <5>0. /\ ring.current \in Int /\ Len(rcv.got) \in Nat /\ snd.window \in Nat
              /\ ring.current <= Len(rcv.got) + snd.window
          BY <1>f, <1>k
        <5>1. ring.current + 1 <= Len(rcv.got) + (snd.window + 1) BY <5>0
        <5> QED BY <1>1, <1>r, <4>1, <5>1
      <4>4. ring'.head <= ring'.current + WindowSize - snd'.window
        <5>1. snd.window + 1 < WindowSize BY <4>1
        <5>0. /\ ring.current \in Int /\ ring.head \in Nat
              /\ WindowSize \in Nat /\ snd.window \in Nat
          BY <1>f, <1>k
        <5>2. ring.head <= ring.current + WindowSize - snd.window BY <1>k, <4>1, <1>s
        <5>3. ring.head <= (ring.current + 1) + WindowSize - (snd.window + 1)
          BY <5>0, <5>2
        <5>4. ring.current + 1 <= (ring.current + 1) + WindowSize - (snd.window + 1)
          BY <5>0, <5>1
        <5> QED BY <1>r, <4>1, <5>3, <5>4
      <4> QED BY <4>1, <4>2, <4>3, <4>4
    <3>6. ~(MayWrite' /\ snd'.done) BY <3>1 DEF MayWrite
    <3> QED BY <3>1, <3>2, <3>3, <3>4, <3>5, <3>6 DEF SenderFifo, Received
  <2>2. CASE snd' = [snd EXCEPT !.block = b, !.err = "network", !.pc = Returned]
    <3>1. /\ snd'.block = b /\ snd'.done = snd.done
          /\ snd'.closing = snd.closing /\ snd'.err = "network"
          /\ IF snd.closing THEN snd'.pc = "closed" ELSE snd'.pc = "app"
      BY <1>0, <2>2 DEF Returned, TypeOK, Sender
    <3> QED BY <1>k, <1>s, <1>r, <3>1 DEF SenderFifo, MayWrite, Received
  <2> QED BY <1>2, <2>1, <2>2
<1>6. AckFifo' BY <1>t, <1>5, WriteDataAcks
<1> QED BY <1>t, <1>q, <1>3, <1>4, <1>5, <1>6 DEF FifoInv

\* What a step of the sender that reads nothing from the ring leaves alone.
LEMMA SenderKeeps ==
    ASSUME Ordered, FifoInv, TypeOK', UNCHANGED << ring, rcv >>,
           snd'.closing = snd.closing,
           \/ toRcv' = toRcv \/ toRcv' = Append(toRcv, ToRcvMsg("ERROR")),
           toSnd' = toSnd \/ (toSnd # << >> /\ toSnd' = Tail(toSnd)),
           SenderFifo',
           MayWrite' /\ ~snd'.done =>
             MayWrite /\ ~snd.done /\ snd'.window = snd.window
    PROVE  FifoInv'
<1>0. /\ TypeOK /\ RingFifo /\ ReceiverFifo /\ DataFifo /\ AckFifo
      /\ InOrder /\ EofMeansComplete
  BY DEF FifoInv
<1>1. ring.head <= ring'.head /\ Len(rcv.got) <= Len(rcv'.got) BY <1>0, FifoFields
<1>2. RingFifo' /\ ReceiverFifo' /\ InOrder' /\ EofMeansComplete'
  BY <1>0 DEF RingFifo, ReceiverFifo, Received, InOrder, EofMeansComplete
<1>3. DataFifo'
  <2>1. CASE toRcv' = toRcv BY <1>0, <1>1, <2>1, DataStays
  <2>2. CASE toRcv' = Append(toRcv, ToRcvMsg("ERROR"))
    <3>1. ToRcvMsg("ERROR") \in ToReceiver BY SentMessages
    <3>2. ToRcvMsg("ERROR").op # "DATA" BY DEF ToRcvMsg
    <3> QED BY <1>0, <1>1, <2>2, <3>1, <3>2, DataSent
  <2> QED BY <2>1, <2>2
<1>4. AckFifo' BY <1>0, <1>1, AckStays
<1> QED BY <1>2, <1>3, <1>4 DEF FifoInv

\* The sender gives up: nothing more is written.
LEMMA SenderStops ==
    ASSUME Ordered, FifoInv, TypeOK', UNCHANGED << ring, rcv >>,
           snd'.closing = snd.closing, snd'.done = snd.done,
           snd'.block = snd.block, snd'.err # "nil", snd'.pc = Returned,
           \/ toRcv' = toRcv \/ toRcv' = Append(toRcv, ToRcvMsg("ERROR")),
           toSnd' = toSnd \/ (toSnd # << >> /\ toSnd' = Tail(toSnd))
    PROVE  FifoInv'
<1>0. TypeOK /\ SenderFifo BY DEF FifoInv
<1>1. ~MayWrite' /\ snd'.pc # "getAck" /\ (snd'.pc = "app" => ~snd'.closing)
  BY <1>0 DEF MayWrite, Returned, TypeOK, Sender
<1>2. SenderFifo' BY <1>0, <1>1 DEF SenderFifo, Received
<1> QED BY <1>1, <1>2, SenderKeeps

\* The number in an ACK that arrives: it is that of f[1], which is no more
\* than a window behind the sender, and at most how far the receiver is.
LEMMA FirstAck ==
    ASSUME Ordered, FifoInv, snd.pc = "getAck", toSnd # << >>,
           NEW f \in [1 .. Len(toSnd) -> 0 .. Received], AckedUpTo(f),
           Head(toSnd).op = "ACK"
    PROVE  /\ f[1] \in Nat /\ f[1] <= Len(rcv.got) /\ f[1] <= ring.current
           /\ ring.head <= f[1] + WindowSize
           /\ \A i \in 2 .. Len(toSnd) : f[1] <= f[i]
           /\ Head(toSnd).block = U16(f[1])
           /\ ~(Head(toSnd).block > snd.block) =>
                snd.block - Head(toSnd).block = ring.current - f[1]
<1>0. TypeOK /\ SenderFifo /\ RingFifo /\ ReceiverFifo BY DEF FifoInv
<1>1. /\ toSnd \in Seq(ToSender) /\ Len(toSnd) \in Nat /\ Len(rcv.got) \in Nat
      /\ WindowSize \in Nat /\ BlockMod \in Nat \ {0, 1} /\ WindowSize < BlockMod
      /\ ring.current \in Int /\ ring.head \in Nat
  BY <1>0, FifoFields, FifoChannels
<1>2. 1 \in 1 .. Len(toSnd) /\ Head(toSnd) = toSnd[1] BY <1>1
<1>3. f[1] \in 0 .. Len(rcv.got) BY <1>2 DEF Received
<1>4. /\ Head(toSnd).block = U16(f[1]) /\ ring.head <= f[1] + WindowSize
  BY <1>2 DEF AckedUpTo
<1>5. \A i \in 2 .. Len(toSnd) : f[1] <= f[i]
  <2>1. ASSUME NEW i \in 2 .. Len(toSnd)
        PROVE  i \in 1 .. Len(toSnd) /\ 1 \in 1 .. i - 1
    BY <1>1
  <2> QED BY <2>1 DEF AckedUpTo
<1>6. ring.current = ring.head /\ Len(rcv.got) <= ring.head
      /\ snd.block = ring.current % BlockMod
  BY <1>0 DEF SenderFifo, ReceiverFifo, Received, U16
<1>7. /\ f[1] \in Nat /\ ring.current \in Nat /\ f[1] <= ring.current
      /\ ring.current < f[1] + BlockMod
  BY <1>1, <1>3, <1>4, <1>6
<1>8. ASSUME ~(Head(toSnd).block > snd.block)
      PROVE  snd.block - Head(toSnd).block = ring.current - f[1]
  <2> DEFINE x == f[1] % BlockMod  y == ring.current % BlockMod
  <2>0. f[1] \in Int /\ BlockMod \in Nat \ {0} BY <1>1, <1>7
  <2>1. x \in 0 .. BlockMod - 1 /\ y \in 0 .. BlockMod - 1
    BY <1>1, <2>0, ModRange
  <2>2. Head(toSnd).block = x /\ snd.block = y BY <1>4, <1>6 DEF U16
  <2>3. x <= y
    <3> HIDE DEF x, y
    <3> QED BY <1>1, <1>8, <2>1, <2>2
  <2>4. y - x = ring.current - f[1] BY <1>7, <2>0, <2>3, ModDistance
  <2> HIDE DEF x, y
  <2> QED BY <2>2, <2>4
<1> QED BY <1>1, <1>3, <1>4, <1>5, <1>7, <1>8

\* getAck rolls back to a block that the ring buffer still holds.
LEMMA RollbackFifo ==
    ASSUME Ordered, FifoInv, TypeOK', GetAck, toSnd # << >>,
           Head(toSnd).op = "ACK", HandleAck(Head(toSnd).block),
           RollsBack(Head(toSnd).block)
    PROVE  FifoInv'
<1> DEFINE b == Head(toSnd).block
<1>0. /\ TypeOK /\ SenderFifo /\ RingFifo /\ ReceiverFifo /\ DataFifo /\ AckFifo
      /\ InOrder /\ EofMeansComplete
  BY DEF FifoInv
<1>1. /\ toSnd \in Seq(ToSender) /\ Len(toSnd) \in Nat /\ Len(rcv.got) \in Nat
      /\ WindowSize \in Nat \ {0} /\ ring.current \in Int /\ ring.head \in Nat
      /\ ring.wrote \in Nat
  BY <1>0, FifoFields, FifoChannels
<1>2. PICK f \in [1 .. Len(toSnd) -> 0 .. Received] : AckedUpTo(f)
  BY <1>0 DEF AckFifo
<1>3. /\ ring' = [ring EXCEPT !.current = ring.current - (snd.block - b)]
      /\ snd' = [snd EXCEPT !.block = b, !.window = 0, !.done = FALSE,
                            !.tries = 0, !.pc = "writeData"]
  BY DEF HandleAck, AfterRollback, UnreadSlots
<1>4. /\ b < snd.block /\ snd.pc = "getAck"
      /\ toSnd' = Tail(toSnd) /\ UNCHANGED << rcv, toRcv >>
  BY DEF RollsBack, GetAck, Rest
<1>5. b \in Nat /\ snd.block \in Nat
  <2>1. Head(toSnd) \in ToSender BY <1>1
  <2>2. b \in BlockNo BY <2>1 DEF ToSender
  <2>3. snd.block \in BlockNo BY <1>0 DEF TypeOK, Sender
  <2> QED BY <2>2, <2>3, BlockNoFacts
<1>6. /\ f[1] \in Nat /\ f[1] <= Len(rcv.got) /\ f[1] <= ring.current
      /\ ring.head <= f[1] + WindowSize
      /\ \A i \in 2 .. Len(toSnd) : f[1] <= f[i]
      /\ b = U16(f[1])
      /\ snd.block - b = ring.current - f[1]
  <2>1. ~(b > snd.block) BY <1>4, <1>5
  <2> QED BY <1>2, <1>4, <2>1, FirstAck
<1>7. /\ snd'.block = b /\ snd'.window = 0 /\ ~snd'.done /\ snd'.pc = "writeData"
      /\ snd'.closing = snd.closing
  BY <1>0, <1>3 DEF TypeOK, Sender
<1>8. /\ ring'.current = ring.current - (snd.block - b) /\ ring'.head = ring.head
      /\ ring'.wrote = ring.wrote /\ ring'.slots = ring.slots
  BY <1>0, <1>3 DEF TypeOK, Ring
<1> HIDE DEF b
<1>9. ring'.current = f[1] /\ f[1] < ring.current
  <2>1. ring.current \in Int /\ f[1] \in Nat BY <1>1, <1>6
  <2>2. ring'.current = ring.current - (ring.current - f[1]) BY <1>6, <1>8
  <2>3. ring'.current = f[1] BY <2>1, <2>2
  <2>4. 0 < ring.current - f[1] BY <1>4, <1>5, <1>6
  <2> QED BY <2>1, <2>3, <2>4
<1>10. /\ ring.current = ring.head /\ ring.head <= ring.wrote + 1
  BY <1>0, <1>4, FifoFields DEF SenderFifo, RingFifo
<1>11. SenderFifo'
  <2>1. /\ ring'.current <= ring'.wrote
        /\ ring'.current <= Len(rcv'.got) + snd'.window
        /\ ring'.head <= ring'.current + WindowSize - snd'.window
        /\ snd'.window < WindowSize
    BY <1>1, <1>4, <1>6, <1>7, <1>8, <1>9, <1>10
  <2> QED BY <1>6, <1>7, <1>9, <2>1 DEF SenderFifo, MayWrite, Received
<1>12. RingFifo'
  <2>1. /\ 0 <= ring'.current /\ ring'.current <= ring'.head
        /\ ring'.head <= ring'.current + WindowSize
    BY <1>1, <1>6, <1>8, <1>9, <1>10
  <2> QED BY <1>0, <1>4, <1>7, <1>8, <2>1 DEF RingFifo, Received
<1>13. ReceiverFifo' /\ InOrder' /\ EofMeansComplete'
  BY <1>0, <1>4, <1>7, <1>8 DEF ReceiverFifo, Received, InOrder, EofMeansComplete
<1>14. DataFifo'
  <2>1. ring.head <= ring'.head BY <1>1, <1>8
  <2> QED BY <1>0, <1>4, <1>8, <2>1, DataStays
<1>15. AckFifo'
  <2>1. /\ Len(toSnd') + 1 = Len(toSnd)
        /\ \A i \in 1 .. Len(toSnd') : toSnd'[i] = toSnd[i + 1]
    BY <1>1, <1>4
  <2>2. ASSUME NEW i \in 1 + 1 .. Len(toSnd)
        PROVE  /\ ring'.head <= f[i] + WindowSize
               /\ MayWrite' /\ ~snd'.done => ring'.current <= f[i] + snd'.window
    <3>1. i \in 2 .. Len(toSnd) /\ i \in 1 .. Len(toSnd) BY <1>1
    <3>2. f[i] \in 0 .. Len(rcv.got) BY <3>1 DEF Received
    <3> QED BY <1>1, <1>6, <1>7, <1>8, <1>9, <3>1, <3>2
  <2>3. 1 \in {0, 1} /\ Len(rcv.got) <= Len(rcv'.got) BY <1>1, <1>4
  <2> QED BY <1>0, <1>2, <2>1, <2>2, <2>3, AckFrame
<1> QED BY <1>11, <1>12, <1>13, <1>14, <1>15 DEF FifoInv

\* getAck takes an ACK for that of the last block it has sent only when it
\* is: the receiver then has all that was sent.
LEMMA AckedFifo ==
    ASSUME Ordered, FifoInv, TypeOK', GetAck, toSnd # << >>,
           Head(toSnd).op = "ACK", HandleAck(Head(toSnd).block),
           Head(toSnd).block = snd.block
    PROVE  FifoInv'
<1>0. /\ TypeOK /\ SenderFifo /\ RingFifo /\ ReceiverFifo /\ DataFifo /\ AckFifo
      /\ InOrder /\ EofMeansComplete
  BY DEF FifoInv
<1>1. /\ toSnd \in Seq(ToSender) /\ Len(toSnd) \in Nat /\ Len(rcv.got) \in Nat
      /\ WindowSize \in Nat \ {0} /\ ring.current \in Int /\ ring.head \in Nat
      /\ ring.wrote \in Nat /\ snd.block \in Nat /\ snd.done \in BOOLEAN
  BY <1>0, FifoFields, Fields, FifoChannels
<1>2. PICK f \in [1 .. Len(toSnd) -> 0 .. Received] : AckedUpTo(f)
  BY <1>0 DEF AckFifo
<1>3. snd' = [snd EXCEPT !.tries = 0, !.pc = "writeData"] /\ ring' = ring
  BY <1>1 DEF HandleAck, RollsBack
<1>4. /\ snd.pc = "getAck" /\ toSnd' = Tail(toSnd) /\ UNCHANGED << rcv, toRcv >>
  BY DEF GetAck, Rest
<1>5. /\ f[1] \in Nat /\ f[1] <= Len(rcv.got) /\ f[1] <= ring.current
      /\ \A i \in 2 .. Len(toSnd) : f[1] <= f[i]
      /\ snd.block - snd.block = ring.current - f[1]
  <2>1. ~(Head(toSnd).block > snd.block) BY <1>1
  <2> QED BY <1>2, <1>4, <2>1, FirstAck
<1>6. ring.current = f[1] BY <1>1, <1>5
<1>7. /\ snd'.block = snd.block /\ snd'.window = snd.window
      /\ snd'.done = snd.done /\ snd'.pc = "writeData"
      /\ snd'.closing = snd.closing
  BY <1>0, <1>3 DEF TypeOK, Sender
<1>8. /\ ring.current = ring.head /\ ring.current = Len(rcv.got)
      /\ snd.done \/ (snd.window = 0 /\ ring.current <= ring.wrote)
  <2>1. /\ ring.current = ring.head /\ Len(rcv.got) <= ring.head
        /\ snd.done \/ (snd.window = 0 /\ ring.current <= ring.wrote)
    BY <1>0, <1>4 DEF SenderFifo, ReceiverFifo, Received
  <2> QED BY <1>1, <1>5, <1>6, <2>1
<1>9. SenderFifo'
  <2>1. CASE snd.done
    <3>1. rcv.done BY <1>0, <1>8, <2>1 DEF SenderFifo, ReceiverFifo, Received
    <3> QED BY <1>0, <1>3, <1>4, <1>7, <2>1, <3>1 DEF SenderFifo, MayWrite, Received
  <2>2. CASE ~snd.done
    <3>1. /\ snd'.window < WindowSize /\ ring'.current <= ring'.wrote
          /\ ring'.current <= Len(rcv'.got) + snd'.window
          /\ ring'.head <= ring'.current + WindowSize - snd'.window
      BY <1>1, <1>3, <1>4, <1>7, <1>8, <2>2
    <3> QED BY <1>0, <1>3, <1>7, <2>2, <3>1 DEF SenderFifo, MayWrite, Received
  <2> QED BY <2>1, <2>2
<1>10. RingFifo' /\ ReceiverFifo' /\ InOrder' /\ EofMeansComplete'
  BY <1>0, <1>3, <1>4, <1>7
  DEF RingFifo, ReceiverFifo, Received, InOrder, EofMeansComplete
<1>11. DataFifo'
  <2>1. ring.head <= ring'.head BY <1>1, <1>3
  <2> QED BY <1>0, <1>3, <1>4, <2>1, DataStays
<1>12. AckFifo'
  <2>1. /\ Len(toSnd') + 1 = Len(toSnd)
        /\ \A i \in 1 .. Len(toSnd') : toSnd'[i] = toSnd[i + 1]
    BY <1>1, <1>4
  <2>2. ASSUME NEW i \in 1 + 1 .. Len(toSnd)
        PROVE  /\ ring'.head <= f[i] + WindowSize
               /\ MayWrite' /\ ~snd'.done => ring'.current <= f[i] + snd'.window
    <3>1. i \in 2 .. Len(toSnd) /\ i \in 1 .. Len(toSnd) BY <1>1
    <3>2. f[i] \in 0 .. Len(rcv.got) BY <3>1 DEF Received
    <3>3. ring.current <= f[i] BY <1>5, <1>6, <3>1
    <3>4. snd'.window \in Nat BY <1>0, <1>7, FifoFields
    <3> QED BY <1>1, <1>3, <1>8, <3>2, <3>3, <3>4
  <2>3. 1 \in {0, 1} /\ Len(rcv.got) <= Len(rcv'.got) BY <1>1, <1>4
  <2> QED BY <1>0, <1>2, <2>1, <2>2, <2>3, AckFrame
<1> QED BY <1>9, <1>10, <1>11, <1>12 DEF FifoInv

\* Every step of the state machine of Write and Close keeps the invariant.
LEMMA SenderFifoStep ==
    ASSUME Ordered, FifoInv, SenderStep PROVE FifoInv'
<1>0. TypeOK /\ SenderFifo BY DEF FifoInv
<1>t. TypeOK' BY <1>0, SenderTypes
<1>1. CASE WriteReturns
  <2>1. /\ snd'.block = snd.block /\ snd'.done = snd.done
        /\ snd'.closing = snd.closing /\ snd'.window = snd.window
        /\ IF snd.closing THEN snd'.pc = "closed" ELSE snd'.pc = "app"
        /\ snd.pc = "writeData"
    BY <1>0, <1>1 DEF WriteReturns, Returned, TypeOK, Sender
  <2>2. UNCHANGED << ring, rcv, toRcv, toSnd >> BY <1>1 DEF WriteReturns
  <2>3. SenderFifo' BY <1>0, <2>1, <2>2 DEF SenderFifo, MayWrite, Received
  <2>4. MayWrite' /\ ~snd'.done => MayWrite /\ ~snd.done /\ snd'.window = snd.window
    BY <2>1 DEF MayWrite
  <2> QED BY <1>t, <2>1, <2>2, <2>3, <2>4, SenderKeeps
<1>2. CASE WriteData BY <1>2, WriteDataFifo
<1>3. CASE GetAckGivesUp
  <2>1. /\ snd'.block = snd.block /\ snd'.done = snd.done
        /\ snd'.closing = snd.closing /\ snd'.err # "nil"
        /\ snd'.pc = Returned
    BY <1>0, <1>3 DEF GetAckGivesUp, TypeOK, Sender
  <2>2. /\ UNCHANGED << ring, rcv, toSnd >>
        /\ toRcv' = toRcv \/ toRcv' = Append(toRcv, ToRcvMsg("ERROR"))
    BY <1>3 DEF GetAckGivesUp, Put
  <2> QED BY <1>t, <2>1, <2>2, SenderStops
<1>4. CASE GetAckTimeout
  <2>1. /\ snd'.block = snd.block /\ snd'.done = snd.done
        /\ snd'.closing = snd.closing /\ snd'.window = snd.window
        /\ snd'.pc = "getAck" /\ snd.pc = "getAck"
    BY <1>0, <1>4 DEF GetAckTimeout, TypeOK, Sender
  <2>2. UNCHANGED << ring, rcv, toRcv, toSnd >> BY <1>4 DEF GetAckTimeout
  <2>3. SenderFifo' BY <1>0, <2>1, <2>2 DEF SenderFifo, MayWrite, Received
  <2>4. ~MayWrite' BY <2>1 DEF MayWrite
  <2> QED BY <1>t, <2>1, <2>2, <2>3, <2>4, SenderKeeps
<1>5. CASE GetAck
  <2>0. /\ toSnd # << >> /\ toSnd' = Tail(toSnd) /\ snd.pc = "getAck"
        /\ UNCHANGED << rcv, toRcv >>
    BY <1>5 DEF GetAck, Arrivals, Rest
  <2> DEFINE m == Head(toSnd)
  <2>1. \/ m.op = "ACK" /\ HandleAck(m.block)
        \/ /\ m.op # "ACK"
           /\ snd' = [snd EXCEPT !.tries = @ + 1,
                          !.err = CASE m.op = "ERROR" -> "remote"
                                    [] m.op = "OACK"  -> "unexpected"
                                    [] m.op = "STRAY" -> @,
                          !.pc = IF m.op = "STRAY" THEN @ ELSE Returned]
           /\ UNCHANGED ring
    BY <1>5, <2>0 DEF GetAck, Arrivals
  <2>2. m \in ToSender BY <1>0, <2>0, FifoChannels
  <2> HIDE DEF m
  <2>3. m.block \in Nat /\ snd.block \in Nat
    BY <1>0, <2>2, BlockNoFacts, Fields DEF ToSender
  <2>4. CASE m.op = "ACK" /\ HandleAck(m.block) /\ m.block < snd.block
    BY <1>t, <1>5, <2>0, <2>4, RollbackFifo DEF m, RollsBack
  <2>5. CASE m.op = "ACK" /\ HandleAck(m.block) /\ m.block = snd.block
    BY <1>t, <1>5, <2>0, <2>5, AckedFifo DEF m
  <2>6. CASE m.op = "ACK" /\ HandleAck(m.block) /\ m.block > snd.block
    <3>1. snd' = [snd EXCEPT !.tries = snd.tries + 1] /\ ring' = ring
      BY <2>3, <2>6 DEF HandleAck, RollsBack
    <3>2. /\ snd'.block = snd.block /\ snd'.done = snd.done
          /\ snd'.closing = snd.closing /\ snd'.window = snd.window
          /\ snd'.pc = "getAck"
      BY <1>0, <2>0, <3>1 DEF TypeOK, Sender
    <3>3. SenderFifo' BY <1>0, <2>0, <3>1, <3>2 DEF SenderFifo, MayWrite, Received
    <3>4. ~MayWrite' BY <3>2 DEF MayWrite
    <3> QED BY <1>t, <2>0, <3>1, <3>2, <3>3, <3>4, SenderKeeps
  <2>7. CASE m.op # "ACK"
    <3>0. m.op \in {"ERROR", "OACK", "STRAY"} BY <2>2, <2>7 DEF ToSender
    <3>1. /\ snd'.block = snd.block /\ snd'.done = snd.done
          /\ snd'.closing = snd.closing /\ snd'.window = snd.window
          /\ ring' = ring
          /\ \/ snd'.pc = "getAck"
             \/ snd'.err # "nil" /\ snd'.pc = Returned
      BY <1>0, <2>0, <2>1, <2>7, <3>0 DEF TypeOK, Sender
    <3>2. CASE snd'.pc = "getAck"
      <4>1. SenderFifo' BY <1>0, <2>0, <3>1, <3>2 DEF SenderFifo, MayWrite, Received
      <4>2. ~MayWrite' BY <3>2 DEF MayWrite
      <4> QED BY <1>t, <2>0, <3>1, <4>1, <4>2, SenderKeeps
    <3>3. CASE snd'.err # "nil" /\ snd'.pc = Returned
      BY <1>t, <2>0, <3>1, <3>3, SenderStops
    <3> QED BY <3>1, <3>2, <3>3
  <2> QED BY <2>1, <2>3, <2>4, <2>5, <2>6, <2>7
<1> QED BY <1>1, <1>2, <1>3, <1>4, <1>5 DEF SenderStep

\* A conn that may be written to has not sent its last block, unless it is
\* being closed.
LEMMA NotDoneYet ==
    ASSUME FifoInv, snd.pc = "app", snd.err = "nil"
    PROVE  /\ ~snd.done /\ ~snd.closing /\ MayWrite /\ ~rcv.done
           /\ ring.head <= ring.wrote /\ Len(rcv.got) <= ring.head
<1>0. TypeOK /\ SenderFifo /\ RingFifo /\ ReceiverFifo BY DEF FifoInv
<1>1. MayWrite /\ ~snd.closing BY <1>0 DEF MayWrite, SenderFifo
<1>2. ring.head <= ring.wrote /\ Len(rcv.got) <= ring.head
  BY <1>0, <1>1 DEF RingFifo, ReceiverFifo, Received
<1>3. ring.wrote \in Nat /\ ring.head \in Nat /\ Len(rcv.got) \in Nat BY <1>0, FifoFields
<1>4. Len(rcv.got) # ring.wrote + 1 BY <1>2, <1>3
<1>5. ~rcv.done BY <1>0, <1>4 DEF ReceiverFifo, Received
<1> QED BY <1>0, <1>1, <1>2, <1>5 DEF SenderFifo

\* A call of Write, or of Close when the conn has no error, keeps the
\* invariant: it completes k more blocks.
LEMMA CallFifo ==
    ASSUME Ordered, FifoInv, TypeOK', NEW k \in Nat,
           snd.pc = "app", snd.err = "nil", UNCHANGED << rcv, toRcv, toSnd >>,
           ring' = [ring EXCEPT !.wrote = @ + k],
           \/ snd' = [snd EXCEPT !.pc = "writeData"]
           \/ snd' = [snd EXCEPT !.pc = "writeData", !.closing = TRUE]
    PROVE  FifoInv'
<1>0. /\ TypeOK /\ SenderFifo /\ RingFifo /\ ReceiverFifo /\ DataFifo /\ AckFifo
      /\ InOrder /\ EofMeansComplete
  BY DEF FifoInv
<1>1. /\ ~snd.done /\ ~snd.closing /\ MayWrite /\ ~rcv.done
      /\ ring.head <= ring.wrote /\ Len(rcv.got) <= ring.head
  BY NotDoneYet
<1>2. /\ snd'.pc = "writeData" /\ snd'.done = snd.done
      /\ snd'.block = snd.block /\ snd'.window = snd.window
  BY <1>0 DEF TypeOK, Sender
<1>3. /\ ring'.wrote = ring.wrote + k /\ ring'.current = ring.current
      /\ ring'.head = ring.head /\ ring'.slots = ring.slots
  BY <1>0 DEF TypeOK, Ring
<1>4. /\ ring.wrote \in Nat /\ ring.head \in Nat /\ Len(rcv.got) \in Nat
      /\ ring.current \in Int /\ WindowSize \in Nat /\ snd.window \in Nat
  BY <1>0, FifoFields
<1>5. ring.wrote <= ring'.wrote /\ ring'.head <= ring'.wrote BY <1>1, <1>3, <1>4
<1>6. SenderFifo'
  <2>1. /\ snd.window < WindowSize /\ ring.current <= ring.wrote
        /\ ring.current <= Len(rcv.got) + snd.window
        /\ ring.head <= ring.current + WindowSize - snd.window
        /\ snd.block = U16(ring.current)
    BY <1>0, <1>1 DEF SenderFifo, Received
  <2>2. ring'.current <= ring'.wrote BY <1>3, <1>4, <2>1
  <2> QED BY <1>1, <1>2, <1>3, <2>1, <2>2 DEF SenderFifo, MayWrite, Received
<1>7. RingFifo'
  <2>1. ring'.head <= IF snd'.closing THEN ring'.wrote + 1 ELSE ring'.wrote
    BY <1>3, <1>4, <1>5
  <2> QED BY <1>0, <1>3, <2>1 DEF RingFifo, Received
<1>8. ReceiverFifo' /\ InOrder' /\ EofMeansComplete'
  <2>1. Len(rcv'.got) # ring'.wrote + 1 BY <1>1, <1>3, <1>4
  <2> QED BY <1>0, <1>1, <1>3, <2>1
          DEF ReceiverFifo, Received, InOrder, EofMeansComplete
<1>9. DataFifo'
  <2>1. ring.head <= ring'.head BY <1>3, <1>4
  <2> QED BY <1>0, <1>1, <1>5, <2>1, DataStays
<1>10. AckFifo'
  <2>1. Len(rcv.got) <= Len(rcv'.got) BY <1>4
  <2> QED BY <1>0, <1>1, <1>2, <1>3, <2>1, AckStays
<1> QED BY <1>6, <1>7, <1>8, <1>9, <1>10 DEF FifoInv

\* A Close that does not flush, because the conn has an error, or nothing
\* was ever written to it, keeps the invariant.
LEMMA CloseFifo ==
    ASSUME Ordered, FifoInv, TypeOK', UNCHANGED << ring, rcv, toRcv, toSnd >>,
           snd' = [snd EXCEPT !.pc = "closed"]
    PROVE  FifoInv'
<1>0. TypeOK /\ SenderFifo BY DEF FifoInv
<1>1. /\ snd'.pc = "closed" /\ snd'.closing = snd.closing
      /\ snd'.done = snd.done /\ snd'.block = snd.block
  BY <1>0 DEF TypeOK, Sender
<1>2. ~MayWrite' BY <1>1 DEF MayWrite
<1>3. SenderFifo' BY <1>0, <1>1, <1>2 DEF SenderFifo, Received
<1> QED BY <1>1, <1>2, <1>3, SenderKeeps

\* A call of Write or of the sender's Close keeps the invariant.
LEMMA WriterFifoStep ==
    ASSUME Ordered, FifoInv, TypeOK', NEW k \in Nat, Write(k) \/ CloseSender(k)
    PROVE  FifoInv'
<1>1. CASE Write(k) BY <1>1, CallFifo DEF Write
<1>2. CASE CloseSender(k) /\ snd.err = "nil" BY <1>2, CallFifo DEF CloseSender
<1>3. CASE CloseSender(k) /\ snd.err # "nil" BY <1>3, CloseFifo DEF CloseSender
<1> QED BY <1>1, <1>2, <1>3

-----------------------------------------------------------------------------
(* The receiver. *)

\* A step of the receiver, or of the network, that accepts no data, and sends
\* at most an ERROR or an ACK of the last block that it has.
LEMMA ReceiverKeeps ==
    ASSUME Ordered, FifoInv, TypeOK', UNCHANGED << snd, ring >>,
           rcv'.got = rcv.got, rcv'.block = rcv.block, rcv'.done = rcv.done,
           rcv'.pc \in {"read", "readData"} => rcv'.err = "nil",
           EofMeansComplete',
           toRcv' = toRcv \/ (toRcv # << >> /\ toRcv' = Tail(toRcv)),
           \/ toSnd' = toSnd \/ (toSnd # << >> /\ toSnd' = Tail(toSnd))
           \/ toSnd' = Append(toSnd, Ack(rcv.block))
           \/ toSnd' = Append(toSnd, ToSndMsg("ERROR"))
    PROVE  FifoInv'
<1>0. /\ TypeOK /\ SenderFifo /\ RingFifo /\ ReceiverFifo /\ DataFifo /\ AckFifo
      /\ InOrder
  BY DEF FifoInv
<1>1. ring.head <= ring'.head /\ Len(rcv.got) <= Len(rcv'.got) BY <1>0, FifoFields
<1>2. SenderFifo' BY <1>0 DEF SenderFifo, MayWrite, Received
<1>3. RingFifo' /\ ReceiverFifo' /\ InOrder'
  BY <1>0 DEF RingFifo, ReceiverFifo, Received, InOrder
<1>4. DataFifo' BY <1>0, <1>1, DataStays
<1>5. AckFifo'
  <2>1. CASE toSnd' = toSnd \/ (toSnd # << >> /\ toSnd' = Tail(toSnd))
    <3>1. MayWrite' = MayWrite BY DEF MayWrite
    <3> QED BY <1>0, <1>1, <2>1, <3>1, AckStays
  <2>2. ASSUME NEW m \in {Ack(rcv.block), ToSndMsg("ERROR")}, toSnd' = Append(toSnd, m)
        PROVE  AckFifo'
    <3>1. m \in ToSender BY <1>0, SentMessages DEF TypeOK, Receiver
    <3>2. m.op = "ACK" => m.block = U16(Len(rcv'.got))
      BY <1>0 DEF Ack, ToSndMsg, ReceiverFifo, Received
    <3>3. /\ ring.head <= Len(rcv.got) + WindowSize
          /\ MayWrite /\ ~snd.done => ring.current <= Len(rcv.got) + snd.window
      BY <1>0 DEF RingFifo, SenderFifo, Received
    <3> QED BY <1>0, <1>1, <2>2, <3>1, <3>2, <3>3, AckSent
  <2> QED BY <2>1, <2>2
<1> QED BY <1>2, <1>3, <1>4, <1>5 DEF FifoInv

\* The only block that ackData accepts is the next chunk of the file, although
\* its number is also that of chunks of earlier and of later rounds.
LEMMA AcceptedFifo ==
    ASSUME Ordered, FifoInv, toRcv # << >>, Head(toRcv).op = "DATA",
           U16(Head(toRcv).block - rcv.block) = 1
    PROVE  /\ Head(toRcv).chunk = Len(rcv.got) + 1
           /\ Len(rcv.got) + 1 <= ring.head
           /\ U16(rcv.block + 1) = U16(Len(rcv.got) + 1)
           /\ Head(toRcv).last <=> Len(rcv.got) + 1 = ring.wrote + 1
           /\ ~rcv.done
<1>0. TypeOK /\ RingFifo /\ ReceiverFifo /\ DataFifo BY DEF FifoInv
<1>1. /\ toRcv \in Seq(ToReceiver) /\ Len(toRcv) \in Nat /\ Len(rcv.got) \in Nat
      /\ WindowSize \in Nat /\ BlockMod \in Nat \ {0, 1} /\ WindowSize < BlockMod
      /\ ring.head \in Nat /\ ring.wrote \in Nat /\ snd.closing \in BOOLEAN
  BY <1>0, FifoFields, FifoChannels
<1>2. 1 \in 1 .. Len(toRcv) /\ Head(toRcv) = toRcv[1] BY <1>1
<1> DEFINE m == Head(toRcv)
<1>3. /\ m.chunk \in 1 .. ring.head /\ m.block = U16(m.chunk)
      /\ m.last <=> m.chunk = ring.wrote + 1
      /\ Len(rcv.got) < m.chunk + WindowSize
  BY <1>0, <1>2 DEF DataFifo, Received
<1>4. ring.head <= Len(rcv.got) + WindowSize BY <1>0 DEF RingFifo, Received
<1>5. rcv.block = U16(Len(rcv.got)) BY <1>0 DEF ReceiverFifo, Received
<1>6. m.chunk = Len(rcv.got) + 1
  <2> DEFINE a == m.chunk  b == Len(rcv.got)
  <2>1. a \in Nat /\ b \in Nat /\ a < b + 1 + BlockMod /\ b + 1 < a + BlockMod
    <3>1. a \in 1 .. ring.head /\ b < a + WindowSize /\ ring.head <= b + WindowSize
          /\ b \in Nat
      BY <1>1, <1>3, <1>4
    <3> HIDE DEF a, b
    <3> QED BY <1>1, <3>1
  <2>2. ((a % BlockMod) - (b % BlockMod)) % BlockMod = 1 BY <1>3, <1>5 DEF U16
  <2> HIDE DEF a, b, m
  <2>3. a = b + 1 BY <1>1, <2>1, <2>2, ModNext
  <2> QED BY <2>3 DEF a, b
<1> HIDE DEF m
<1>7. Len(rcv.got) + 1 <= ring.head BY <1>1, <1>3, <1>6
<1>8. U16(rcv.block + 1) = U16(Len(rcv.got) + 1) BY <1>1, <1>5, ModSucc DEF U16
<1>9. ~rcv.done
  <2>1. Len(rcv.got) # ring.wrote + 1 BY <1>0, <1>1, <1>7 DEF RingFifo
  <2> QED BY <1>0, <2>1 DEF ReceiverFifo, Received
<1> QED BY <1>3, <1>6, <1>7, <1>8, <1>9 DEF m

\* ackData keeps the invariant when it takes the expected block.
LEMMA AcceptFifo ==
    ASSUME Ordered, FifoInv, TypeOK', ReadData, toRcv # << >>,
           Head(toRcv).op = "DATA", U16(Head(toRcv).block - rcv.block) = 1,
           AcceptData(Head(toRcv))
    PROVE  FifoInv'
<1> DEFINE m == Head(toRcv)
<1>0. /\ TypeOK /\ SenderFifo /\ RingFifo /\ ReceiverFifo /\ DataFifo /\ AckFifo
      /\ InOrder
  BY DEF FifoInv
<1>1. /\ toRcv \in Seq(ToReceiver) /\ Len(toRcv) \in Nat /\ Len(rcv.got) \in Nat
      /\ WindowSize \in Nat /\ ring.head \in Nat /\ ring.wrote \in Nat
      /\ ring.current \in Int /\ snd.window \in Nat
      /\ rcv.got \in Seq(Nat)
  BY <1>0, FifoFields, FifoChannels DEF TypeOK, Receiver
<1>2. /\ rcv.pc = "readData" /\ rcv.err = "nil" /\ UNCHANGED << snd, ring >>
      /\ toRcv' = Tail(toRcv)
  BY <1>0 DEF ReadData, ReceiverFifo, Rest
<1>3. /\ m.chunk = Len(rcv.got) + 1 /\ Len(rcv.got) + 1 <= ring.head
      /\ U16(rcv.block + 1) = U16(Len(rcv.got) + 1)
      /\ m.last <=> Len(rcv.got) + 1 = ring.wrote + 1
      /\ ~rcv.done
  BY AcceptedFifo
<1>4. /\ rcv'.got = Append(rcv.got, m.chunk) /\ rcv'.block = U16(rcv.block + 1)
      /\ rcv'.done = (rcv.done \/ m.last)
      /\ rcv'.err \in {"nil", "network"}
      /\ rcv'.pc \in {"read", "readData"} => rcv'.err = "nil"
      /\ toSnd' = toSnd \/ toSnd' = Put(toSnd, Ack(rcv'.block))
  BY <1>0, <1>2, AcceptFields
<1> DEFINE g == Append(rcv.got, m.chunk)
<1>5. /\ Len(g) = Len(rcv.got) + 1
      /\ \A i \in 1 .. Len(rcv.got) : g[i] = rcv.got[i]
      /\ g[Len(rcv.got) + 1] = m.chunk
  BY <1>1, <1>3
<1> HIDE DEF g
<1>6. rcv'.got = g BY <1>4 DEF g
<1>7. Len(rcv'.got) = Len(rcv.got) + 1 /\ Len(rcv.got) <= Len(rcv'.got)
  BY <1>1, <1>5, <1>6
<1>8. InOrder'
  <2>1. ASSUME NEW i \in 1 .. Len(g) PROVE g[i] = i
    <3>1. CASE i = Len(rcv.got) + 1 BY <1>3, <1>5, <3>1
    <3>2. CASE i # Len(rcv.got) + 1
      <4>1. i \in 1 .. Len(rcv.got) BY <1>1, <1>5, <3>2
      <4> QED BY <1>0, <1>5, <4>1 DEF InOrder
    <3> QED BY <3>1, <3>2
  <2> QED BY <1>6, <2>1 DEF InOrder
<1>9. EofMeansComplete' BY <1>4 DEF EofMeansComplete
<1>10. rcv'.done <=> Len(rcv'.got) = ring'.wrote + 1
  BY <1>2, <1>3, <1>4, <1>7
<1>11. ReceiverFifo' BY <1>2, <1>3, <1>4, <1>7, <1>10 DEF ReceiverFifo, Received
<1>12. SenderFifo'
  <2>1. ring.current <= Len(rcv.got) + snd.window =>
          ring'.current <= Len(rcv'.got) + snd'.window
    BY <1>1, <1>2, <1>7
  <2>2. rcv.done => rcv'.done BY <1>3
  <2> QED BY <1>0, <1>2, <2>1, <2>2 DEF SenderFifo, MayWrite, Received
<1>13. RingFifo'
  <2>1. ring.head <= Len(rcv.got) + WindowSize => ring'.head <= Len(rcv'.got) + WindowSize
    BY <1>1, <1>2, <1>7
  <2> QED BY <1>0, <1>2, <2>1 DEF RingFifo, Received
<1>14. DataFifo'
  <2>1. /\ Len(toRcv') + 1 = Len(toRcv)
        /\ \A i \in 1 .. Len(toRcv') : toRcv'[i] = toRcv[i + 1]
    BY <1>1, <1>2
  <2>2. ASSUME NEW i \in 1 + 1 .. Len(toRcv), toRcv[i].op = "DATA"
        PROVE  Len(rcv'.got) < toRcv[i].chunk + WindowSize
    <3>1. i \in 1 .. Len(toRcv) /\ 1 \in 1 .. i - 1 /\ Head(toRcv) = toRcv[1]
      BY <1>1
    <3>2. toRcv[1].chunk < toRcv[i].chunk + WindowSize
      BY <1>0, <2>2, <3>1 DEF DataFifo
    <3> QED BY <1>3, <1>7, <3>1, <3>2
  <2>3. 1 \in {0, 1} /\ ring.head <= ring'.head /\ ring'.wrote = ring.wrote
    BY <1>1, <1>2
  <2> QED BY <1>0, <2>1, <2>2, <2>3, DataFrame
<1>15. AckFifo'
  <2>1. CASE toSnd' = toSnd
    <3>1. MayWrite' = MayWrite BY <1>2 DEF MayWrite
    <3> QED BY <1>0, <1>2, <1>7, <2>1, <3>1, AckStays
  <2>2. CASE toSnd' = Put(toSnd, Ack(rcv'.block))
    <3> DEFINE x == Ack(rcv'.block)
    <3>1. rcv'.block \in BlockNo BY DEF TypeOK, Receiver
    <3>2. x \in ToSender BY <3>1, SentMessages
    <3>3. x.block = U16(Len(rcv'.got)) BY <1>3, <1>4, <1>7 DEF Ack
    <3>4. toSnd' = Append(toSnd, x) BY <2>2 DEF Put
    <3> HIDE DEF x
    <3>5. /\ ring.head <= Len(rcv.got) + WindowSize
          /\ MayWrite /\ ~snd.done => ring.current <= Len(rcv.got) + snd.window
      BY <1>0 DEF RingFifo, SenderFifo, Received
    <3> QED BY <1>0, <1>2, <1>7, <3>2, <3>3, <3>4, <3>5, AckSent
  <2> QED BY <1>4, <2>1, <2>2
<1> QED BY <1>8, <1>9, <1>11, <1>12, <1>13, <1>14, <1>15 DEF FifoInv

\* Every step of the state machine of Read keeps the invariant.
LEMMA ReceiverFifoStep ==
    ASSUME Ordered, FifoInv, ReceiverStep PROVE FifoInv'
<1>0. TypeOK /\ SenderFifo /\ RingFifo /\ ReceiverFifo /\ EofMeansComplete
  BY DEF FifoInv
<1>t. TypeOK' BY <1>0, ReceiverTypes
<1>1. CASE ReadReturns
  <2>1. rcv.out \in Nat /\ rcv.want \in Nat /\ Len(rcv.got) \in Nat
    BY <1>0, FifoFields DEF TypeOK, Receiver
  <2>2. /\ rcv'.got = rcv.got /\ rcv'.block = rcv.block /\ rcv'.done = rcv.done
        /\ rcv'.pc = "app" /\ rcv.err = "nil"
        /\ rcv'.err = "EOF" => rcv.done /\ rcv'.out = Len(rcv.got)
    BY <1>0, <1>1 DEF ReadReturns, AtEnd, ReceiverFifo, TypeOK, Receiver
  <2>3. UNCHANGED << snd, ring, toRcv, toSnd >> BY <1>1 DEF ReadReturns
  <2>4. rcv.done => snd.closing /\ Len(rcv.got) = ring.wrote + 1
    <3>1. rcv.done => Len(rcv.got) = ring.wrote + 1
      BY <1>0 DEF ReceiverFifo, Received
    <3>2. /\ ring.head <= IF snd.closing THEN ring.wrote + 1 ELSE ring.wrote
          /\ Len(rcv.got) <= ring.head
      BY <1>0 DEF RingFifo, ReceiverFifo, Received
    <3>3. Len(rcv.got) = ring.wrote + 1 => snd.closing BY <1>0, <3>2, FifoFields
    <3> QED BY <3>1, <3>3
  <2>5. EofMeansComplete' BY <2>2, <2>3, <2>4 DEF EofMeansComplete
  <2> QED BY <1>t, <2>2, <2>3, <2>5, ReceiverKeeps
<1>2. CASE ReadContinues
  <2>1. /\ rcv'.got = rcv.got /\ rcv'.block = rcv.block /\ rcv'.done = rcv.done
        /\ rcv'.err = rcv.err /\ rcv.err = "nil"
    BY <1>0, <1>2 DEF ReadContinues, ReceiverFifo, TypeOK, Receiver
  <2>2. UNCHANGED << snd, ring, toRcv, toSnd >> BY <1>2 DEF ReadContinues
  <2>3. EofMeansComplete' BY <2>1 DEF EofMeansComplete
  <2> QED BY <1>t, <2>1, <2>2, <2>3, ReceiverKeeps
<1>3. CASE ReadDataGivesUp
  <2>1. /\ rcv'.got = rcv.got /\ rcv'.block = rcv.block /\ rcv'.done = rcv.done
        /\ rcv'.err = "maxRetries" /\ rcv'.pc = "app"
    BY <1>0, <1>3 DEF ReadDataGivesUp, TypeOK, Receiver
  <2>2. /\ UNCHANGED << snd, ring, toRcv >>
        /\ toSnd' = toSnd \/ toSnd' = Append(toSnd, ToSndMsg("ERROR"))
    BY <1>3 DEF ReadDataGivesUp, Put
  <2>3. EofMeansComplete' BY <2>1 DEF EofMeansComplete
  <2> QED BY <1>t, <2>1, <2>2, <2>3, ReceiverKeeps
<1>4. CASE ReadDataTimeout
  <2>1. /\ rcv'.got = rcv.got /\ rcv'.block = rcv.block /\ rcv'.done = rcv.done
        /\ rcv'.err = rcv.err /\ rcv.err = "nil"
    BY <1>0, <1>4 DEF ReadDataTimeout, ReceiverFifo, TypeOK, Receiver
  <2>2. /\ UNCHANGED << snd, ring, toRcv >>
        /\ toSnd' = toSnd \/ toSnd' = Append(toSnd, Ack(rcv.block))
    BY <1>4 DEF ReadDataTimeout, Put
  <2>3. EofMeansComplete' BY <2>1 DEF EofMeansComplete
  <2> QED BY <1>t, <2>1, <2>2, <2>3, ReceiverKeeps
<1>5. CASE ReadData
  <2> DEFINE m == Head(toRcv)
  <2>0. /\ toRcv # << >> /\ toRcv' = Tail(toRcv) /\ UNCHANGED << snd, ring >>
        /\ rcv.err = "nil" /\ rcv.pc = "readData"
    BY <1>0, <1>5 DEF ReadData, Arrivals, Rest, ReceiverFifo
  <2>1. \/ m.op = "DATA" /\ AckData(m)
        \/ /\ m.op # "DATA"
           /\ rcv' = [rcv EXCEPT !.tries = @ + 1, !.pc = "app",
                        !.err = IF m.op = "ERROR" THEN "remote"
                                ELSE "unexpected"]
           /\ UNCHANGED toSnd
    BY <1>5, <2>0 DEF ReadData, Arrivals
  <2>2. CASE m.op = "DATA" /\ U16(m.block - rcv.block) = 1 /\ AcceptData(m)
    BY <1>t, <1>5, <2>0, <2>2, AcceptFifo
  <2> HIDE DEF m
  <2>3. CASE ReportGap \/ IgnoreData \/ m.op # "DATA"
    <3>1. /\ rcv'.got = rcv.got /\ rcv'.block = rcv.block /\ rcv'.done = rcv.done
          /\ rcv'.err # "EOF"
          /\ rcv'.pc \in {"read", "readData"} => rcv'.err = "nil"
          /\ toSnd' = toSnd \/ toSnd' = Append(toSnd, Ack(rcv.block))
      <4>1. CASE ReportGap
        BY <1>0, <2>0, <4>1 DEF ReportGap, SendAck, Put, TypeOK, Receiver
      <4>2. CASE IgnoreData BY <1>0, <2>0, <4>2 DEF IgnoreData, TypeOK, Receiver
      <4>3. CASE m.op # "DATA" BY <1>0, <2>1, <4>3 DEF TypeOK, Receiver
      <4> QED BY <2>3, <4>1, <4>2, <4>3
    <3>2. EofMeansComplete' BY <3>1 DEF EofMeansComplete
    <3> QED BY <1>t, <2>0, <3>1, <3>2, ReceiverKeeps
  <2> QED BY <2>1, <2>2, <2>3 DEF AckData, Expected
<1> QED BY <1>1, <1>2, <1>3, <1>4, <1>5 DEF ReceiverStep

\* A call of Read or of the receiver's Close keeps the invariant.
LEMMA ReaderFifoStep ==
    ASSUME Ordered, FifoInv, ReaderStep PROVE FifoInv'
<1>0. TypeOK /\ ReceiverFifo /\ EofMeansComplete BY DEF FifoInv
<1>t. TypeOK' BY <1>0, ApplicationTypes
<1>1. /\ rcv'.got = rcv.got /\ rcv'.block = rcv.block /\ rcv'.done = rcv.done
      /\ rcv'.err = rcv.err /\ rcv'.out = rcv.out
      /\ rcv'.pc = "closed" \/ rcv.err = "nil"
  BY <1>0 DEF ReaderStep, Read, CloseReceiver, TypeOK, Receiver
<1>2. UNCHANGED << snd, ring, toRcv, toSnd >> BY DEF ReaderStep, Read, CloseReceiver
<1>3. EofMeansComplete' BY <1>0, <1>1, <1>2 DEF EofMeansComplete
<1> QED BY <1>t, <1>1, <1>2, <1>3, ReceiverKeeps

\* A datagram that is lost does not hurt the invariant.
LEMMA NetworkFifoStep ==
    ASSUME Ordered, FifoInv, TypeOK', LoseData \/ LoseAck \/ UNCHANGED vars
    PROVE  FifoInv'
<1>0. TypeOK /\ ReceiverFifo /\ EofMeansComplete BY DEF FifoInv
<1>1. /\ UNCHANGED << snd, ring, rcv >>
      /\ toRcv' = toRcv \/ (toRcv # << >> /\ toRcv' = Tail(toRcv))
      /\ toSnd' = toSnd \/ (toSnd # << >> /\ toSnd' = Tail(toSnd))
  BY DEF LoseData, LoseAck, vars
<1>2. EofMeansComplete' BY <1>0, <1>1 DEF EofMeansComplete
<1>3. rcv'.pc \in {"read", "readData"} => rcv'.err = "nil"
  BY <1>0, <1>1 DEF ReceiverFifo
<1> QED BY <1>1, <1>2, <1>3, ReceiverKeeps

\* The invariant is inductive.
LEMMA NextFifo == Ordered /\ FifoInv /\ [Next]_vars => FifoInv'
<1> SUFFICES ASSUME Ordered, FifoInv, [Next]_vars PROVE FifoInv' OBVIOUS
<1>0. TypeOK BY DEF FifoInv
<1>t. TypeOK' BY <1>0, NextType
<1>1. CASE WriterStep
  <2>1. PICK k \in 0 .. MaxFull - ring.wrote : Write(k) \/ CloseSender(k)
    <3>1. \A k \in 1 .. MaxFull - ring.wrote : k \in 0 .. MaxFull - ring.wrote
      BY <1>0, FifoFields
    <3> QED BY <1>1, <3>1 DEF WriterStep
  <2>2. k \in Nat BY <1>0, FifoFields
  <2> QED BY <1>t, <2>1, <2>2, WriterFifoStep
<1>2. CASE LoseData \/ LoseAck \/ Terminated \/ UNCHANGED vars
  BY <1>t, <1>2, NetworkFifoStep DEF Terminated
<1> QED BY <1>1, <1>2, SenderFifoStep, ReceiverFifoStep, ReaderFifoStep DEF Next

\* Close returns nil to the sender only at the end of writeData, and then the
\* ACK of the last block has been taken; no other step ends without an error.
LEMMA NilSender ==
    ASSUME Ordered, FifoInv, SenderStep, snd'.pc = "closed", snd'.err = "nil"
    PROVE  rcv'.done
<1>0. TypeOK /\ SenderFifo BY DEF FifoInv
<1>1. CASE WriteReturns
  <2>1. snd.pc = "writeData" /\ snd.closing /\ NothingToWrite /\ rcv' = rcv
    BY <1>0, <1>1 DEF WriteReturns, Returned, TypeOK, Sender
  <2>2. snd.done /\ MayWrite BY <2>1 DEF NothingToWrite, MayWrite
  <2> QED BY <1>0, <2>1, <2>2 DEF SenderFifo
<1>2. CASE WriteData
  <2>1. snd'.pc \in {"writeData", "getAck"} \/ snd'.err = "network"
    BY <1>0, <1>2 DEF WriteData, AfterData, TypeOK, Sender
  <2> QED BY <2>1
<1>3. CASE GetAckGivesUp BY <1>0, <1>3 DEF GetAckGivesUp, TypeOK, Sender
<1>4. CASE GetAckTimeout BY <1>0, <1>4 DEF GetAckTimeout, TypeOK, Sender
<1>5. CASE GetAck
  <2>1. PICK m \in Arrivals(toSnd) :
          \/ m.op = "ACK" /\ HandleAck(m.block)
          \/ /\ m.op # "ACK"
             /\ snd' = [snd EXCEPT !.tries = @ + 1,
                          !.err = CASE m.op = "ERROR" -> "remote"
                                    [] m.op = "OACK"  -> "unexpected"
                                    [] m.op = "STRAY" -> @,
                          !.pc = IF m.op = "STRAY" THEN @ ELSE Returned]
    BY <1>5 DEF GetAck
  <2>2. snd.pc = "getAck" /\ m \in ToSender
    BY <1>0, <1>5, ArrivalTypes DEF GetAck
  <2>3. CASE m.op = "ACK" /\ HandleAck(m.block)
    BY <1>0, <2>2, <2>3 DEF HandleAck, AfterRollback, TypeOK, Sender
  <2>4. CASE m.op # "ACK"
    <3>1. m.op \in {"ERROR", "OACK", "STRAY"} BY <2>2, <2>4 DEF ToSender
    <3> QED BY <1>0, <2>1, <2>2, <2>4, <3>1 DEF TypeOK, Sender
  <2> QED BY <2>1, <2>3, <2>4
<1> QED BY <1>1, <1>2, <1>3, <1>4, <1>5 DEF SenderStep

\* A receiver that has the last block keeps it.
LEMMA DoneStays ==
    ASSUME FifoInv, ReceiverStep \/ ReaderStep, rcv.done PROVE rcv'.done
<1>0. TypeOK /\ ReceiverFifo BY DEF FifoInv
<1>1. CASE ReaderStep
  BY <1>0, <1>1 DEF ReaderStep, Read, CloseReceiver, TypeOK, Receiver
<1>2. CASE ReadReturns BY <1>0, <1>2 DEF ReadReturns, TypeOK, Receiver
<1>3. CASE ReadContinues BY <1>0, <1>3 DEF ReadContinues, TypeOK, Receiver
<1>4. CASE ReadDataGivesUp BY <1>0, <1>4 DEF ReadDataGivesUp, TypeOK, Receiver
<1>5. CASE ReadDataTimeout BY <1>0, <1>5 DEF ReadDataTimeout, TypeOK, Receiver
<1>6. CASE ReadData
  <2>1. PICK m \in Arrivals(toRcv) :
          \/ m.op = "DATA" /\ AckData(m)
          \/ rcv' = [rcv EXCEPT !.tries = @ + 1, !.pc = "app",
                       !.err = IF m.op = "ERROR" THEN "remote" ELSE "unexpected"]
    BY <1>6 DEF ReadData
  <2>2. rcv.err = "nil" BY <1>0, <1>6 DEF ReadData, ReceiverFifo
  <2>3. CASE AcceptData(m) BY <1>0, <2>2, <2>3, AcceptFields
  <2>4. CASE ReportGap BY <1>0, <2>4 DEF ReportGap, SendAck, TypeOK, Receiver
  <2>5. CASE IgnoreData BY <1>0, <2>5 DEF IgnoreData, TypeOK, Receiver
  <2>6. CASE rcv' = [rcv EXCEPT !.tries = @ + 1, !.pc = "app",
                       !.err = IF m.op = "ERROR" THEN "remote" ELSE "unexpected"]
    BY <1>0, <2>6 DEF TypeOK, Receiver
  <2> QED BY <2>1, <2>3, <2>4, <2>5, <2>6 DEF AckData
<1> QED BY <1>1, <1>2, <1>3, <1>4, <1>5, <1>6 DEF ReceiverStep

\* Together with FifoInv the claim about Close is inductive.
LEMMA NextNilClose ==
    Ordered /\ FifoInv /\ NilCloseMeansReceived /\ [Next]_vars
      => NilCloseMeansReceived'
<1> SUFFICES ASSUME Ordered, FifoInv, NilCloseMeansReceived, [Next]_vars,
                    snd'.pc = "closed", snd'.err = "nil"
             PROVE  rcv'.done
  BY DEF NilCloseMeansReceived
<1>0. TypeOK BY DEF FifoInv
<1>1. CASE SenderStep BY <1>1, NilSender
<1>2. CASE WriterStep
  BY <1>0, <1>2 DEF WriterStep, Write, CloseSender, TypeOK, Sender
<1>3. CASE ReceiverStep \/ ReaderStep
  <2>1. snd' = snd
    BY <1>3 DEF ReceiverStep, ReadReturns, ReadContinues, ReadDataGivesUp,
                ReadDataTimeout, ReadData, ReaderStep, Read, CloseReceiver
  <2> QED BY <1>3, <2>1, DoneStays DEF NilCloseMeansReceived
<1>4. CASE LoseData \/ LoseAck \/ Terminated \/ UNCHANGED vars
  BY <1>4 DEF LoseData, LoseAck, Terminated, vars, NilCloseMeansReceived
<1> QED BY <1>1, <1>2, <1>3, <1>4 DEF Next

-----------------------------------------------------------------------------
(* The results, for channels that keep the order and may lose datagrams. *)

\* The inductive invariant for FIFO channels: stale datagrams arrive in the
\* order in which they were sent, so that a block number is never mistaken for
\* that of another round.
THEOREM FifoInvariance == Ordered => (Spec => [](FifoInv /\ NilCloseMeansReceived))
<1> SUFFICES ASSUME Ordered PROVE Spec => [](FifoInv /\ NilCloseMeansReceived) OBVIOUS
<1> QED BY InitFifo, NextFifo, NextNilClose, PTL DEF Spec

\* conn.Read hands over the chunks of the file in order, without loss or
\* repetition, however often the uint16 block number wraps around.
THEOREM ReadsInOrderFifo == Ordered => (Spec => []InOrder)
<1> SUFFICES ASSUME Ordered PROVE Spec => []InOrder OBVIOUS
<1>1. FifoInv => InOrder BY DEF FifoInv
<1> QED BY <1>1, FifoInvariance, PTL

\* ... and io.EOF means that everything the writer wrote has been read.
THEOREM EofIsCompleteFifo == Ordered => (Spec => []EofMeansComplete)
<1> SUFFICES ASSUME Ordered PROVE Spec => []EofMeansComplete OBVIOUS
<1>1. FifoInv => EofMeansComplete BY DEF FifoInv
<1> QED BY <1>1, FifoInvariance, PTL

\* Over channels that keep the order, getAck never unreads more slots than the
\* ring buffer has, beyond which Read would find other chunks in them.
THEOREM RollsBackWithinSlots == Ordered => (Spec => []UnreadWithinSlots)
<1> SUFFICES ASSUME Ordered PROVE Spec => []UnreadWithinSlots OBVIOUS
<1>1. ASSUME FifoInv PROVE UnreadWithinSlots
  <2>1. TypeOK /\ RingFifo BY <1>1 DEF FifoInv
  <2> QED BY <2>1, FifoFields DEF RingFifo, UnreadWithinSlots
<1>2. FifoInv => UnreadWithinSlots BY <1>1
<1> QED BY <1>2, FifoInvariance, PTL

\* Over channels that keep the order, a Close of the sender that returns nil
\* means that the receiver has the whole file: getAck never takes a stale ACK
\* for that of the last block.
THEOREM NilCloseIsHonest == Ordered => (Spec => []NilCloseMeansReceived)
<1> SUFFICES ASSUME Ordered PROVE Spec => []NilCloseMeansReceived OBVIOUS
<1> QED BY FifoInvariance, PTL

\* txBuf holds every chunk that was sent and is not received, also after the
\* block number has wrapped around.
THEOREM RingKeepsUnreceivedFifo == Ordered => (Spec => []RingCoversUnreceived)
<1> SUFFICES ASSUME Ordered PROVE Spec => []RingCoversUnreceived OBVIOUS
<1>1. ASSUME FifoInv PROVE RingCoversUnreceived
  <2>1. TypeOK /\ RingFifo BY <1>1 DEF FifoInv
  <2>2. ASSUME NEW c \in Len(rcv.got) + 1 .. ring.head
        PROVE  ring.slots[(c - 1) % WindowSize] = c
    <3> DEFINE i == c - 1
    <3>0. /\ WindowSize \in Nat /\ ring.head \in Nat /\ Len(rcv.got) \in Nat
          /\ ring.head <= Len(rcv.got) + WindowSize
      BY <2>1, FifoFields DEF RingFifo, Received
    <3>1. i \in 0 .. ring.head - 1 /\ i >= ring.head - WindowSize /\ i + 1 = c
      BY <3>0
    <3> HIDE DEF i
    <3>2. ring.slots[i % WindowSize] = i + 1 BY <2>1, <3>1 DEF RingFifo
    <3> QED BY <3>1, <3>2 DEF i
  <2> QED BY <2>2 DEF RingCoversUnreceived
<1>2. FifoInv => RingCoversUnreceived BY <1>1
<1> QED BY <1>2, FifoInvariance, PTL

\* The invariant lets ackData accept only the next block.
LEMMA FifoAcceptsNext == ASSUME Ordered, FifoInv PROVE AcceptsNext
<1>0. TypeOK /\ RingFifo BY DEF FifoInv
<1>1. ASSUME NEW m \in Arrivals(toRcv), m.op = "DATA", U16(m.block - rcv.block) = 1
      PROVE  /\ m.chunk = Len(rcv.got) + 1
             /\ Len(rcv.got) < IF snd.closing THEN ring.wrote + 1 ELSE ring.wrote
  <2>1. toRcv # << >> /\ m = Head(toRcv) BY DEF Arrivals
  <2>2. m.chunk = Len(rcv.got) + 1 /\ Len(rcv.got) + 1 <= ring.head
    BY <1>1, <2>1, AcceptedFifo
  <2> QED BY <1>0, <2>2, FifoFields DEF RingFifo
<1> QED BY <1>1 DEF AcceptsNext

\* A transfer of a file of any length implements the abstract Pipe when the
\* network keeps the order.
THEOREM FifoImplementsPipe == Ordered => (Spec => ImplementsPipe)
<1> SUFFICES ASSUME Ordered PROVE Spec => P!Spec BY DEF ImplementsPipe
<1>1. ASSUME FifoInv, FifoInv', [Next]_vars PROVE [P!Next]_P!vars
  <2>1. TypeOK /\ SenderFifo /\ ReceiverFifo /\ EofMeansComplete' BY <1>1 DEF FifoInv
  <2>2. AcceptsNext BY <1>1, FifoAcceptsNext
  <2> QED BY <1>1, <2>1, <2>2, StepImplements DEF SenderFifo, ReceiverFifo
<1>2. FifoInv /\ FifoInv' /\ [Next]_vars => [P!Next]_P!vars BY <1>1
<1> QED BY <1>2, InitImplements, FifoInvariance, PTL DEF Spec, P!Spec
=============================================================================
