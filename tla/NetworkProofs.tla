--------------------------- MODULE NetworkProofs ---------------------------
(***************************************************************************)
(* What sending and receiving do to the datagrams of a channel of module   *)
(* Network, whichever of its two kinds it is.                              *)
(***************************************************************************)
EXTENDS Network, TLAPS

-----------------------------------------------------------------------------
(* Channels of datagrams of a set D. *)

\* Sending adds the datagram and nothing else.
LEMMA PutElems ==
    ASSUME NEW D, NEW ch \in Channel(D), NEW m \in D
    PROVE  /\ Put(ch, m) \in Channel(D)
           /\ Elems(Put(ch, m)) = Elems(ch) \cup {m}
<1>1. CASE Ordered
  <2>1. ch \in Seq(D) BY <1>1 DEF Channel
  <2>2. Append(ch, m) \in Seq(D) /\ Len(Append(ch, m)) = Len(ch) + 1
        /\ \A i \in 1 .. Len(ch) : Append(ch, m)[i] = ch[i]
        /\ Append(ch, m)[Len(ch) + 1] = m
    BY <2>1
  <2>3. Len(ch) \in Nat BY <2>1
  <2>4. {Append(ch, m)[i] : i \in 1 .. Len(ch) + 1}
          = {ch[i] : i \in 1 .. Len(ch)} \cup {m}
    <3>1. 1 .. Len(ch) + 1 = 1 .. Len(ch) \cup {Len(ch) + 1} BY <2>3
    <3> QED BY <2>2, <3>1
  <2> QED BY <1>1, <2>2, <2>4 DEF Put, Elems, Channel
<1>2. CASE ~Ordered BY <1>2 DEF Put, Elems, Channel
<1> QED BY <1>1, <1>2

\* Removing the head of a queue removes no other datagram.
LEMMA TailElems ==
    ASSUME NEW D, NEW ch \in Channel(D), Ordered, ch # << >>
    PROVE  /\ Tail(ch) \in Channel(D)
           /\ Elems(Tail(ch)) \subseteq Elems(ch)
           /\ Head(ch) \in Elems(ch)
<1>1. ch \in Seq(D) BY DEF Channel
<1>2. Tail(ch) \in Seq(D) /\ Len(Tail(ch)) = Len(ch) - 1 /\ Len(ch) \in Nat \ {0}
      /\ \A i \in 1 .. Len(ch) - 1 : Tail(ch)[i] = ch[i + 1]
  BY <1>1
<1>3. ASSUME NEW i \in 1 .. Len(Tail(ch)) 
      PROVE  Tail(ch)[i] \in {ch[j] : j \in 1 .. Len(ch)}
  <2>1. i + 1 \in 1 .. Len(ch) /\ Tail(ch)[i] = ch[i + 1] BY <1>2
  <2> QED BY <2>1
<1>4. Head(ch) = ch[1] /\ 1 \in 1 .. Len(ch) BY <1>1, <1>2
<1> QED BY <1>2, <1>3, <1>4 DEF Elems, Channel

\* A datagram that arrives was on its way, and the others stay.
LEMMA RestElems ==
    ASSUME NEW D, NEW ch \in Channel(D), NEW m \in Arrivals(ch)
    PROVE  /\ m \in Elems(ch)
           /\ m \in D
           /\ Rest(ch) \in Channel(D)
           /\ Elems(Rest(ch)) \subseteq Elems(ch)
<1>1. CASE Ordered
  <2>1. ch # << >> /\ m = Head(ch) BY <1>1 DEF Arrivals
  <2>2. Head(ch) \in D BY <1>1, <2>1 DEF Channel
  <2> QED BY <1>1, <2>1, <2>2, TailElems DEF Rest
<1>2. CASE ~Ordered BY <1>2 DEF Arrivals, Elems, Rest, Channel
<1> QED BY <1>1, <1>2

-----------------------------------------------------------------------------
(* Channels of whatever they hold. *)

\* A channel of any datagrams is one of the datagrams it holds.
LEMMA OwnElems ==
    ASSUME NEW D, NEW ch \in Channel(D)
    PROVE  ch \in Channel(Elems(ch))
<1>1. CASE Ordered
  <2>1. ch \in Seq(D) /\ Len(ch) \in Nat BY <1>1 DEF Channel
  <2>2. \A i \in 1 .. Len(ch) : ch[i] \in Elems(ch) BY <1>1 DEF Elems
  <2>3. ch \in Seq(Elems(ch)) BY <2>1, <2>2
  <2> QED BY <1>1, <2>3 DEF Channel
<1>2. CASE ~Ordered BY <1>2 DEF Elems, Channel
<1> QED BY <1>1, <1>2

LEMMA PutAny ==
    ASSUME NEW ch, ch \in Channel(Elems(ch)), NEW m
    PROVE  /\ Put(ch, m) \in Channel(Elems(Put(ch, m)))
           /\ Elems(Put(ch, m)) = Elems(ch) \cup {m}
<1> DEFINE D == Elems(ch) \cup {m}
<1>1. m \in D /\ Elems(ch) \subseteq D OBVIOUS
<1> HIDE DEF D
<1>2. ch \in Channel(D)
  <2>1. CASE Ordered BY <1>1, <2>1 DEF Channel
  <2>2. CASE ~Ordered BY <1>1, <2>2 DEF Channel
  <2> QED BY <2>1, <2>2
<1>3. Put(ch, m) \in Channel(D) /\ Elems(Put(ch, m)) = Elems(ch) \cup {m}
  BY <1>1, <1>2, PutElems
<1> QED BY <1>3, OwnElems

LEMMA RestAny ==
    ASSUME NEW ch, ch \in Channel(Elems(ch)), Arrivals(ch) # {}
    PROVE  /\ Rest(ch) \in Channel(Elems(Rest(ch)))
           /\ Elems(Rest(ch)) \subseteq Elems(ch)
           /\ Arrivals(ch) \subseteq Elems(ch) /\ Elems(ch) # {}
<1>1. PICK m \in Arrivals(ch) : TRUE OBVIOUS
<1>2. Rest(ch) \in Channel(Elems(ch)) /\ Elems(Rest(ch)) \subseteq Elems(ch)
  BY <1>1, RestElems
<1>3. \A x \in Arrivals(ch) : x \in Elems(ch) BY RestElems
<1> QED BY <1>1, <1>2, <1>3, OwnElems

LEMMA TailAny ==
    ASSUME NEW ch, ch \in Channel(Elems(ch)), Ordered, ch # << >>
    PROVE  /\ Tail(ch) \in Channel(Elems(Tail(ch)))
           /\ Elems(Tail(ch)) \subseteq Elems(ch)
<1>1. Arrivals(ch) # {} /\ Rest(ch) = Tail(ch) BY DEF Arrivals, Rest
<1> QED BY <1>1, RestAny
=============================================================================
