---------------------------- MODULE ClientProofs ----------------------------
(***************************************************************************)
(* Proofs about modules Datagram and Client: what is written into a        *)
(* request or an OACK is what the other side reads out of it, for any      *)
(* options in any order, and what follows for the requests of a Client.    *)
(***************************************************************************)
EXTENDS Client, FiniteSetTheorems, SequenceTheorems, TLAPS

\* The provers do not know that a literal is in STRING.
Plain == (STRING \cup KnownOpts \cup Modes \cup {"#", "a%20b"}) \ {"NUL"}
Atoms == Plain \cup {"NUL", "SOH", "text", "gone"}

(* Counting NULs. *)

\* c lists T, without repetition, from a to b.
Lists(c, a, b, T) ==
    /\ \A i, j \in a .. b : i < j => c[i] # c[j]
    /\ \A i \in a .. b : c[i] \in T
    /\ \A t \in T : \E i \in a .. b : t = c[i]

\* A set that is listed from a to b has as many elements.
LEMMA CountListed ==
    ASSUME NEW a \in Int, NEW b \in Int, a <= b + 1, NEW c, NEW T,
           Lists(c, a, b, T)
    PROVE  Cardinality(T) = b - a + 1
<1> DEFINE f == [i \in a .. b |-> c[i]]
<1>1. IsFiniteSet(a .. b) /\ Cardinality(a .. b) = b - a + 1 BY FS_Interval
<1>2. f \in [a .. b -> T] /\ \A t \in T : \E i \in a .. b : f[i] = t BY DEF Lists
<1>3. \A i, j \in a .. b : f[i] = f[j] => i = j
  <2> SUFFICES ASSUME NEW i \in a .. b, NEW j \in a .. b, f[i] = f[j], i # j
               PROVE  FALSE
    OBVIOUS
  <2>1. c[i] = c[j] OBVIOUS
  <2>2. i < j \/ j < i OBVIOUS
  <2> QED BY <2>1, <2>2 DEF Lists
<1> HIDE DEF f
<1>4. DOMAIN f = a .. b BY <1>2
<1>5. f \in Bijection(a .. b, T)
  BY <1>2, <1>3, <1>4 DEF Bijection, Injection, Surjection, IsInjective
<1>6. ExistsBijection(a .. b, T) BY <1>5 DEF ExistsBijection
<1>7. IsFiniteSet(T) /\ Cardinality(T) = Cardinality(a .. b)
  BY <1>1, <1>6, FS_Bijection
<1> QED BY <1>1, <1>7

\* Where Split cuts a sequence whose k-th NUL is at c[k].
LEMMA CutsAt ==
    ASSUME NEW s, Len(s) \in Nat, NEW n \in Nat, NEW c \in [0 .. n + 1 -> Int],
           c[0] = 0, c[n + 1] = Len(s) + 1,
           \A i, j \in 0 .. n + 1 : i < j => c[i] < c[j],
           Nuls(s) = {c[k] : k \in 1 .. n}
    PROVE  /\ Cardinality(Nuls(s)) = n
           /\ \A k \in 0 .. n + 1 : Cut(s, k) = c[k]
<1>1. Cardinality(Nuls(s)) = n
  <2>1. \A i, j \in 1 .. n : i < j => c[i] # c[j] OBVIOUS
  <2>2. /\ \A k \in 1 .. n : c[k] \in Nuls(s)
        /\ \A t \in Nuls(s) : \E k \in 1 .. n : t = c[k]
    OBVIOUS
  <2>3. Lists(c, 1, n, Nuls(s)) BY <2>1, <2>2 DEF Lists
  <2>4. Cardinality(Nuls(s)) = n - 1 + 1 BY <2>3, CountListed
  <2> QED BY <2>4
<1>2. Cuts(s) = {c[k] : k \in 0 .. n + 1}
  <2>1. 0 .. n + 1 = (1 .. n) \cup {0, n + 1} OBVIOUS
  <2> QED BY <2>1 DEF Cuts
<1>3. ASSUME NEW k \in 0 .. n + 1
      PROVE  Cardinality({j \in Cuts(s) : j < c[k]}) = k
  <2>1. ASSUME NEW i \in 0 .. n + 1 PROVE c[i] < c[k] <=> i \in 0 .. k - 1
    <3>1. c[i] \in Int /\ c[k] \in Int OBVIOUS
    <3>2. CASE i < k
      <4>1. c[i] < c[k] BY <3>2
      <4> QED BY <4>1, <3>2
    <3>3. CASE i = k BY <3>1, <3>3
    <3>4. CASE k < i
      <4>1. c[k] < c[i] BY <3>4
      <4>2. ~(c[i] < c[k]) BY <3>1, <4>1
      <4> QED BY <4>2, <3>4
    <3> QED BY <3>2, <3>3, <3>4
  <2> DEFINE T == {j \in Cuts(s) : j < c[k]}
  <2>2. /\ \A i \in 0 .. k - 1 : c[i] \in T
        /\ \A t \in T : \E i \in 0 .. k - 1 : t = c[i]
    <3>1. 0 .. k - 1 \subseteq 0 .. n + 1 OBVIOUS
    <3> QED BY <1>2, <2>1, <3>1
  <2>3. \A i, j \in 0 .. k - 1 : i < j => c[i] # c[j] OBVIOUS
  <2> DEFINE m == k - 1
  <2>4. 0 \in Int /\ m \in Int /\ 0 <= m + 1 /\ m - 0 + 1 = k OBVIOUS
  <2>5. Lists(c, 0, m, T) BY <2>2, <2>3 DEF Lists
  <2> HIDE DEF m, T
  <2>6. Cardinality(T) = m - 0 + 1 BY <2>4, <2>5, CountListed
  <2> QED BY <2>4, <2>6 DEF T
<1>4. ASSUME NEW k \in 0 .. n + 1 PROVE Cut(s, k) = c[k]
  <2>1. c[k] \in Cuts(s) BY <1>2
  <2>2. ASSUME NEW i \in Cuts(s), Cardinality({j \in Cuts(s) : j < i}) = k
        PROVE  i = c[k]
    <3>1. PICK m \in 0 .. n + 1 : i = c[m] BY <1>2
    <3>2. Cardinality({j \in Cuts(s) : j < c[m]}) = m BY <1>3
    <3>3. m = k BY <2>2, <3>1, <3>2
    <3> QED BY <3>1, <3>3
  <2> QED BY <1>3, <2>1, <2>2 DEF Cut
<1> QED BY <1>1, <1>4

\* The first of n NULs follows p atoms, and every second atom after it is one.
Frame(s, p, n) ==
    /\ p + 2 * n - 1 <= Len(s)
    /\ Nuls(s) = {p + 2 * k - 1 : k \in 1 .. n}

LEMMA CutsOfFrame ==
    ASSUME NEW s, Len(s) \in Nat, NEW n \in Nat, NEW p \in Nat, Frame(s, p, n)
    PROVE  /\ Cardinality(Nuls(s)) = n
           /\ Cut(s, 0) = 0 /\ Cut(s, n + 1) = Len(s) + 1
           /\ \A k \in 1 .. n : Cut(s, k) = p + 2 * k - 1
<1> DEFINE c == [k \in 0 .. n + 1 |-> IF k = 0 THEN 0
                                      ELSE IF k = n + 1 THEN Len(s) + 1
                                      ELSE p + 2 * k - 1]
<1>0. p + 2 * n - 1 <= Len(s) BY DEF Frame
<1>1. c \in [0 .. n + 1 -> Int] OBVIOUS
<1>2. /\ c[0] = 0 /\ c[n + 1] = Len(s) + 1
      /\ \A k \in 1 .. n : c[k] = p + 2 * k - 1
  OBVIOUS
<1>3. \A i, j \in 0 .. n + 1 : i < j => c[i] < c[j] BY <1>0
<1> HIDE DEF c
<1>4. Nuls(s) = {c[k] : k \in 1 .. n}
  <2>1. {c[k] : k \in 1 .. n} = {p + 2 * k - 1 : k \in 1 .. n} BY <1>2, Zenon
  <2> QED BY <2>1 DEF Frame
<1>5. /\ Cardinality(Nuls(s)) = n
      /\ \A k \in 0 .. n + 1 : Cut(s, k) = c[k]
  BY <1>1, <1>2, <1>3, <1>4, CutsAt
<1>6. 0 \in 0 .. n + 1 /\ n + 1 \in 0 .. n + 1 /\ 1 .. n \subseteq 0 .. n + 1
  OBVIOUS
<1> QED BY <1>2, <1>5, <1>6

(* The fields of such a frame. *)

LEMMA LenIs ==
    ASSUME NEW f, NEW n \in Nat, f = [i \in 1 .. n |-> f[i]]
    PROVE  Len(f) = n
OBVIOUS

LEMMA OneAtom ==
    ASSUME NEW s \in Seq(Atoms), NEW i \in 1 .. Len(s)
    PROVE  SubSeq(s, i, i) = << s[i] >>
<1>1. /\ SubSeq(s, i, i) \in Seq(Atoms) /\ Len(SubSeq(s, i, i)) = 1
      /\ SubSeq(s, i, i)[1] = s[i]
  OBVIOUS
<1> DEFINE t == << s[i] >>
           u == SubSeq(s, i, i)
<1>2. t \in Seq(Atoms) /\ Len(t) = 1 /\ t[1] = s[i] OBVIOUS
<1>3. u \in Seq(Atoms) /\ Len(u) = 1 /\ u[1] = s[i] BY <1>1
<1> HIDE DEF t, u
<1>4. Len(u) = Len(t) /\ \A k \in 1 .. Len(u) : u[k] = t[k] BY <1>2, <1>3
<1>5. u = t BY <1>2, <1>3, <1>4, SeqEqual
<1> QED BY <1>5 DEF t, u

\* What Split makes of it: the first p atoms, and then one atom each.
LEMMA FieldsOfFrame ==
    ASSUME NEW s \in Seq(Atoms), NEW n \in Nat, NEW p \in Nat, 1 <= n,
           Frame(s, p, n)
    PROVE  /\ Split(s) = [k \in 1 .. n + 1 |-> Split(s)[k]] /\ Len(Split(s)) = n + 1
           /\ Split(s)[1] = SubSeq(s, 1, p)
           /\ \A k \in 2 .. n : Split(s)[k] = << s[p + 2 * k - 2] >>
           /\ Len(s) = p + 2 * n => Split(s)[n + 1] = << s[p + 2 * n] >>
<1>0. p + 2 * n - 1 <= Len(s) BY DEF Frame
<1>1. /\ Cardinality(Nuls(s)) = n
      /\ Cut(s, 0) = 0 /\ Cut(s, n + 1) = Len(s) + 1
      /\ \A k \in 1 .. n : Cut(s, k) = p + 2 * k - 1
  BY CutsOfFrame
<1>2. Split(s) = [k \in 1 .. n + 1 |-> SubSeq(s, Cut(s, k - 1) + 1, Cut(s, k) - 1)]
  BY <1>1 DEF Split
<1>3. Split(s) = [k \in 1 .. n + 1 |-> Split(s)[k]] BY <1>2
<1>4. Len(Split(s)) = n + 1 BY <1>3, LenIs
<1>5. \A k \in 1 .. n + 1 :
        Split(s)[k] = SubSeq(s, Cut(s, k - 1) + 1, Cut(s, k) - 1)
  BY <1>2
<1>6. Split(s)[1] = SubSeq(s, 1, p)
  <2>1. 1 \in 1 .. n /\ 1 \in 1 .. n + 1 OBVIOUS
  <2>2. Cut(s, 1) - 1 = p BY <1>1, <2>1
  <2>3. Split(s)[1] = SubSeq(s, Cut(s, 0) + 1, Cut(s, 1) - 1) BY <1>5, <2>1
  <2> QED BY <1>1, <2>2, <2>3
<1>7. ASSUME NEW k \in 2 .. n PROVE Split(s)[k] = << s[p + 2 * k - 2] >>
  <2>1. k \in 1 .. n /\ k - 1 \in 1 .. n /\ k \in 1 .. n + 1 OBVIOUS
  <2>2. Cut(s, k - 1) + 1 = p + 2 * k - 2 /\ Cut(s, k) - 1 = p + 2 * k - 2
    <3>1. Cut(s, k) = p + 2 * k - 1 BY <1>1, <2>1
    <3>2. Cut(s, k - 1) = p + 2 * (k - 1) - 1 BY <1>1, <2>1
    <3> QED BY <3>1, <3>2
  <2>3. p + 2 * k - 2 \in 1 .. Len(s) BY <1>0
  <2>4. Split(s)[k] = SubSeq(s, p + 2 * k - 2, p + 2 * k - 2) BY <1>5, <2>1, <2>2
  <2> QED BY <2>3, <2>4, OneAtom
<1>8. ASSUME Len(s) = p + 2 * n PROVE Split(s)[n + 1] = << s[p + 2 * n] >>
  <2>1. n \in 1 .. n /\ n + 1 \in 1 .. n + 1 /\ (n + 1) - 1 = n OBVIOUS
  <2>2. Cut(s, n) + 1 = p + 2 * n /\ Cut(s, n + 1) - 1 = p + 2 * n
    <3>1. Cut(s, n) = p + 2 * n - 1 BY <1>1, <2>1
    <3> QED BY <1>1, <1>8, <3>1
  <2>3. p + 2 * n \in 1 .. Len(s) BY <1>8
  <2>4. Split(s)[n + 1] = SubSeq(s, Cut(s, n) + 1, Cut(s, n + 1) - 1)
    BY <1>5, <2>1
  <2>5. Split(s)[n + 1] = SubSeq(s, p + 2 * n, p + 2 * n) BY <2>2, <2>4
  <2> QED BY <2>3, <2>5, OneAtom
<1> QED BY <1>3, <1>4, <1>6, <1>7, <1>8

(* What writeOption writes for a map of options. *)

\* A map that can be written: neither name nor value holds a NUL.
Writable(opts) ==
    /\ IsFiniteSet(DOMAIN opts)
    /\ \A o \in DOMAIN opts : o \in Plain /\ opts[o] \in Plain

\* The order in which range yields the keys: each of them once.
LEMMA RangeOrder ==
    ASSUME NEW opts, Writable(opts), NEW order \in SetToSeqs(DOMAIN opts)
    PROVE  /\ order \in Seq(Atoms) /\ Len(order) \in Nat
           /\ Len(order) = Cardinality(DOMAIN opts)
           /\ \A j \in 1 .. Len(order) : order[j] \in DOMAIN opts
           /\ \A o \in DOMAIN opts : \E j \in 1 .. Len(order) : order[j] = o
           /\ \A i, j \in 1 .. Len(order) : order[i] = order[j] => i = j
<1> DEFINE S == DOMAIN opts
           n == Cardinality(S)
<1>1. IsFiniteSet(S) /\ \A o \in S : o \in Atoms BY DEF Writable, Atoms
<1>2. n \in Nat BY <1>1, FS_CardinalityType
<1>3. order \in [1 .. n -> S] /\ \A i, j \in 1 .. n : i # j => order[i] # order[j]
  BY DEF SetToSeqs
<1> HIDE DEF S, n
<1>4. DOMAIN order = 1 .. n BY <1>3
<1>5. order \in Injection(1 .. n, S) BY <1>3, <1>4 DEF Injection, IsInjective
<1>6. IsFiniteSet(1 .. n) /\ Cardinality(1 .. n) = n
  <2>1. IsFiniteSet(1 .. n) /\ Cardinality(1 .. n) = IF 1 > n THEN 0 ELSE n - 1 + 1
    BY <1>2, FS_Interval
  <2> QED BY <1>2, <2>1
<1>7. Cardinality(1 .. n) = Cardinality(S) BY <1>6 DEF n
<1>8. order \in Surjection(1 .. n, S) BY <1>1, <1>5, <1>7, FS_Injection
<1>9. order \in Seq(Atoms) /\ Len(order) = n BY <1>1, <1>2, <1>3
<1>10. \A o \in S : \E j \in 1 .. n : order[j] = o BY <1>8 DEF Surjection
<1>11. \A j \in 1 .. n : order[j] \in S BY <1>3
<1>12. \A i, j \in 1 .. n : order[i] = order[j] => i = j BY <1>3
<1>13. Len(order) = Cardinality(DOMAIN opts) BY <1>9 DEF n, S
<1> QED BY <1>2, <1>9, <1>10, <1>11, <1>12, <1>13 DEF S

\* The atoms that are written, four for each option.
LEMMA OptionAtoms ==
    ASSUME NEW opts, Writable(opts), NEW order \in SetToSeqs(DOMAIN opts)
    PROVE  LET W == WriteOptions(opts, order)
           IN  /\ W \in Seq(Atoms) /\ Len(W) = 4 * Len(order)
               /\ \A j \in 1 .. Len(order) :
                    /\ W[4 * j - 3] = order[j] /\ W[4 * j - 2] = "NUL"
                    /\ W[4 * j - 1] = opts[order[j]] /\ W[4 * j] = "NUL"
<1> DEFINE m == Len(order)
           W == WriteOptions(opts, order)
           At(i) == WriteOption(order[(i + 3) \div 4],
                                opts[order[(i + 3) \div 4]])[1 + ((i - 1) % 4)]
<1>1. /\ m \in Nat
      /\ \A j \in 1 .. m : order[j] \in Atoms /\ opts[order[j]] \in Atoms
  BY RangeOrder DEF Writable, Atoms
<1>2. W = [i \in 1 .. 4 * m |-> At(i)] BY DEF WriteOptions
<1>3. ASSUME NEW j \in 1 .. m
      PROVE  /\ At(4 * j - 3) = order[j] /\ At(4 * j - 2) = "NUL"
             /\ At(4 * j - 1) = opts[order[j]] /\ At(4 * j) = "NUL"
  <2>1. /\ ((4 * j - 3) + 3) \div 4 = j /\ 1 + (((4 * j - 3) - 1) % 4) = 1
        /\ ((4 * j - 2) + 3) \div 4 = j /\ 1 + (((4 * j - 2) - 1) % 4) = 2
        /\ ((4 * j - 1) + 3) \div 4 = j /\ 1 + (((4 * j - 1) - 1) % 4) = 3
        /\ ((4 * j) + 3) \div 4 = j /\ 1 + (((4 * j) - 1) % 4) = 4
    OBVIOUS
  <2>2. At(4 * j - 3) = order[j] BY <2>1 DEF WriteOption
  <2>3. At(4 * j - 2) = "NUL" BY <2>1 DEF WriteOption
  <2>4. At(4 * j - 1) = opts[order[j]] BY <2>1 DEF WriteOption
  <2>5. At(4 * j) = "NUL" BY <2>1 DEF WriteOption
  <2> QED BY <2>2, <2>3, <2>4, <2>5
<1>4. ASSUME NEW i \in 1 .. 4 * m PROVE At(i) \in Atoms
  <2> DEFINE j == (i + 3) \div 4
  <2>1. j \in 1 .. m /\ i \in {4 * j - 3, 4 * j - 2, 4 * j - 1, 4 * j} BY <1>1
  <2> HIDE DEF j, At, m, W
  <2>2. /\ At(4 * j - 3) \in Atoms /\ At(4 * j - 2) \in Atoms
        /\ At(4 * j - 1) \in Atoms /\ At(4 * j) \in Atoms
    <3>1. /\ At(4 * j - 3) = order[j] /\ At(4 * j - 2) = "NUL"
          /\ At(4 * j - 1) = opts[order[j]] /\ At(4 * j) = "NUL"
      BY <1>3, <2>1
    <3>2. order[j] \in Atoms /\ opts[order[j]] \in Atoms BY <1>1, <2>1
    <3>3. "NUL" \in Atoms BY DEF Atoms
    <3> QED BY <3>1, <3>2, <3>3
  <2> QED BY <2>1, <2>2
<1> HIDE DEF m, At, W
<1>5. W \in [1 .. 4 * m -> Atoms] BY <1>2, <1>4
<1>6. 4 * m \in Nat BY <1>1
<1>7. W \in Seq(Atoms) /\ Len(W) = 4 * m BY <1>5, <1>6
<1>8. ASSUME NEW j \in 1 .. m
      PROVE  /\ W[4 * j - 3] = At(4 * j - 3) /\ W[4 * j - 2] = At(4 * j - 2)
             /\ W[4 * j - 1] = At(4 * j - 1) /\ W[4 * j] = At(4 * j)
  <2>1. /\ 4 * j - 3 \in 1 .. 4 * m /\ 4 * j - 2 \in 1 .. 4 * m
        /\ 4 * j - 1 \in 1 .. 4 * m /\ 4 * j \in 1 .. 4 * m
    BY <1>1
  <2> QED BY <1>2, <2>1
<1>9. \A j \in 1 .. m : /\ W[4 * j - 3] = order[j] /\ W[4 * j - 2] = "NUL"
                        /\ W[4 * j - 1] = opts[order[j]] /\ W[4 * j] = "NUL"
  BY <1>3, <1>8
<1> QED BY <1>7, <1>9 DEF m, W

(* Options and requests are frames. *)

\* A sequence whose NULs are known one by one.
LEMMA FrameFromNuls ==
    ASSUME NEW s \in Seq(Atoms), NEW p \in Nat, NEW n \in Nat,
           Len(s) = p + 2 * n - 1,
           \A i \in 1 .. Len(s) :
             s[i] = "NUL" <=> \E k \in 1 .. n : i = p + 2 * k - 1
    PROVE  Frame(s, p, n)
<1>1. \A k \in 1 .. n : p + 2 * k - 1 \in 1 .. Len(s) OBVIOUS
<1>2. DOMAIN s = 1 .. Len(s) OBVIOUS
<1>3. ASSUME NEW i \in Nuls(s) PROVE \E k \in 1 .. n : i = p + 2 * k - 1
  BY <1>2 DEF Nuls
<1>4. ASSUME NEW k \in 1 .. n PROVE p + 2 * k - 1 \in Nuls(s)
  <2>1. p + 2 * k - 1 \in 1 .. Len(s) BY <1>1
  <2>2. s[p + 2 * k - 1] = "NUL" BY <2>1
  <2> QED BY <1>2, <2>1, <2>2 DEF Nuls
<1>5. Nuls(s) = {p + 2 * k - 1 : k \in 1 .. n} BY <1>3, <1>4
<1> QED BY <1>5 DEF Frame

\* Without the final NUL, which options() cuts off, it is still one.
LEMMA FrontOfFrame ==
    ASSUME NEW s \in Seq(Atoms), NEW p \in Nat, NEW n \in Nat, 1 <= n,
           Len(s) = p + 2 * n - 1, Frame(s, p, n)
    PROVE  /\ Front(s) \in Seq(Atoms) /\ Len(Front(s)) = p + 2 * (n - 1)
           /\ Frame(Front(s), p, n - 1)
           /\ \A i \in 1 .. p + 2 * (n - 1) : Front(s)[i] = s[i]
<1> DEFINE l == Len(s) - 1
<1>1. l \in Nat /\ l = p + 2 * (n - 1) OBVIOUS
<1>2. /\ Front(s) \in Seq(Atoms) /\ Len(Front(s)) = l
      /\ \A i \in 1 .. l : Front(s)[i] = s[i]
  BY DEF Front
<1>3. DOMAIN s = 1 .. l + 1 /\ DOMAIN Front(s) = 1 .. l BY <1>1, <1>2
<1>4. ASSUME NEW i PROVE i \in Nuls(Front(s)) <=> i \in Nuls(s) /\ i # l + 1
  <2>1. i \in 1 .. l <=> i \in 1 .. l + 1 /\ i # l + 1 BY <1>1
  <2> QED BY <1>2, <1>3, <2>1 DEF Nuls
<1> HIDE DEF l
<1>5. ASSUME NEW i \in Nuls(Front(s)) PROVE \E k \in 1 .. n - 1 : i = p + 2 * k - 1
  <2>1. i \in Nuls(s) /\ i # p + 2 * n - 1 BY <1>1, <1>4
  <2>2. PICK k \in 1 .. n : i = p + 2 * k - 1 BY <2>1 DEF Frame
  <2>3. k \in 1 .. n - 1 BY <2>1, <2>2
  <2> QED BY <2>2, <2>3
<1>6. ASSUME NEW k \in 1 .. n - 1 PROVE p + 2 * k - 1 \in Nuls(Front(s))
  <2>1. k \in 1 .. n /\ p + 2 * k - 1 # l + 1 BY <1>1
  <2>2. p + 2 * k - 1 \in Nuls(s) BY <2>1 DEF Frame
  <2> QED BY <1>4, <2>1, <2>2
<1>7. Nuls(Front(s)) = {p + 2 * k - 1 : k \in 1 .. n - 1} BY <1>5, <1>6
<1>8. p + 2 * (n - 1) - 1 <= Len(Front(s)) BY <1>1, <1>2
<1> QED BY <1>1, <1>2, <1>7, <1>8 DEF Frame

LEMMA OptionsFrame ==
    ASSUME NEW opts, Writable(opts), NEW order \in SetToSeqs(DOMAIN opts)
    PROVE  \A i \in 1 .. 4 * Len(order) :
             WriteOptions(opts, order)[i] = "NUL"
               <=> \E k \in 1 .. 2 * Len(order) : i = 2 * k
<1> DEFINE m == Len(order)
           W == WriteOptions(opts, order)
<1>1. /\ m \in Nat
      /\ \A j \in 1 .. m : order[j] # "NUL" /\ opts[order[j]] # "NUL"
  BY RangeOrder DEF Writable, Plain
<1>2. \A j \in 1 .. m : /\ W[4 * j - 3] = order[j] /\ W[4 * j - 2] = "NUL"
                        /\ W[4 * j - 1] = opts[order[j]] /\ W[4 * j] = "NUL"
  BY OptionAtoms
<1> HIDE DEF m, W
<1>3. ASSUME NEW i \in 1 .. 4 * m
      PROVE  W[i] = "NUL" <=> \E k \in 1 .. 2 * m : i = 2 * k
  <2> DEFINE j == (i + 3) \div 4
  <2>1. j \in 1 .. m /\ i \in {4 * j - 3, 4 * j - 2, 4 * j - 1, 4 * j} BY <1>1
  <2> HIDE DEF j
  <2>2. /\ W[4 * j - 3] # "NUL" /\ W[4 * j - 2] = "NUL"
        /\ W[4 * j - 1] # "NUL" /\ W[4 * j] = "NUL"
    <3>1. order[j] # "NUL" /\ opts[order[j]] # "NUL" BY <1>1, <2>1
    <3>2. /\ W[4 * j - 3] = order[j] /\ W[4 * j - 2] = "NUL"
          /\ W[4 * j - 1] = opts[order[j]] /\ W[4 * j] = "NUL"
      BY <1>2, <2>1
    <3> QED BY <3>1, <3>2
  <2>3. CASE i = 4 * j - 3 \/ i = 4 * j - 1
    <3>1. W[i] # "NUL" BY <2>2, <2>3
    <3>2. \A k \in 1 .. 2 * m : i # 2 * k BY <1>1, <2>1, <2>3
    <3> QED BY <3>1, <3>2
  <2>4. CASE i = 4 * j - 2
    <3>1. 2 * j - 1 \in 1 .. 2 * m /\ i = 2 * (2 * j - 1) BY <1>1, <2>1, <2>4
    <3> QED BY <2>2, <2>4, <3>1
  <2>5. CASE i = 4 * j
    <3>1. 2 * j \in 1 .. 2 * m /\ i = 2 * (2 * j) BY <1>1, <2>1, <2>5
    <3> QED BY <2>2, <2>5, <3>1
  <2> QED BY <2>1, <2>3, <2>4, <2>5
<1> QED BY <1>3 DEF m, W

(* What options() reads. *)

\* The options of d are those of the map opts.
Reads(d, opts) ==
    /\ Len(OptionFields(d)) % 2 = 0
    /\ \A k : k \in DOMAIN Options(d) <=> \E o \in DOMAIN opts : k = << o >>
    /\ \A o \in DOMAIN opts : Options(d)[<< o >>] = << opts[o] >>

LEMMA OddPlace ==
    ASSUME NEW m \in Nat, NEW i \in 1 .. 2 * m, i % 2 = 1
    PROVE  \E j \in 1 .. m : i = 2 * j - 1
<1> DEFINE j == (i \div 2) + 1
<1>1. i = 2 * (i \div 2) + 1 OBVIOUS
<1>2. i \div 2 \in Nat OBVIOUS
<1>3. j \in 1 .. m /\ i = 2 * j - 1 BY <1>1, <1>2
<1> QED BY <1>3

\* Fields that are names and values in turn, each name once.
LEMMA PairsRead ==
    ASSUME NEW opts, Writable(opts), NEW order \in SetToSeqs(DOMAIN opts), NEW d,
           Len(OptionFields(d)) = 2 * Len(order),
           DOMAIN OptionFields(d) = 1 .. 2 * Len(order),
           \A j \in 1 .. Len(order) :
             /\ OptionFields(d)[2 * j - 1] = << order[j] >>
             /\ OptionFields(d)[2 * j] = << opts[order[j]] >>
    PROVE  Reads(d, opts)
<1> DEFINE m == Len(order)
           f == OptionFields(d)
           keys == {i \in DOMAIN f : i % 2 = 1}
           lastOf(k) == CHOOSE i \in keys : f[i] = k /\ \A j \in keys :
                                              f[j] = k => j <= i
<1>1. /\ m \in Nat
      /\ \A j \in 1 .. m : order[j] \in DOMAIN opts
      /\ \A o \in DOMAIN opts : \E j \in 1 .. m : order[j] = o
      /\ \A i, j \in 1 .. m : order[i] = order[j] => i = j
  BY RangeOrder
<1>2. \A j \in 1 .. m : f[2 * j - 1] = << order[j] >> /\ f[2 * j] = << opts[order[j]] >>
  OBVIOUS
<1>3. /\ \A j \in 1 .. m : 2 * j - 1 \in keys
      /\ \A i \in keys : \E j \in 1 .. m : i = 2 * j - 1
  <2>1. DOMAIN f = 1 .. 2 * m OBVIOUS
  <2> HIDE DEF f, m
  <2>2. ASSUME NEW j \in 1 .. m PROVE 2 * j - 1 \in keys
    <3>1. 2 * j - 1 \in 1 .. 2 * m /\ (2 * j - 1) % 2 = 1 BY <1>1
    <3> QED BY <2>1, <3>1
  <2>3. ASSUME NEW i \in keys PROVE \E j \in 1 .. m : i = 2 * j - 1
    <3>1. i \in 1 .. 2 * m /\ i % 2 = 1 BY <2>1
    <3> QED BY <1>1, <3>1, OddPlace
  <2> QED BY <2>2, <2>3
<1>4. Options(d) = [k \in {f[i] : i \in keys} |-> f[lastOf(k) + 1]] BY DEF Options
<1>5. (2 * m) % 2 = 0 BY <1>1
<1>6. Len(f) % 2 = 0 BY <1>5
<1> HIDE DEF m, f, keys
<1>7. ASSUME NEW o \in DOMAIN opts
      PROVE  << o >> \in DOMAIN Options(d) /\ Options(d)[<< o >>] = << opts[o] >>
  <2>1. PICK j \in 1 .. m : order[j] = o BY <1>1
  <2>2. 2 * j - 1 \in keys /\ f[2 * j - 1] = << o >> BY <1>2, <1>3, <2>1
  <2>3. ASSUME NEW i \in keys, f[i] = << o >> PROVE i = 2 * j - 1
    <3>1. PICK l \in 1 .. m : i = 2 * l - 1 BY <1>3
    <3>2. << order[l] >> = << order[j] >> BY <1>2, <2>1, <2>3, <3>1
    <3>3. order[l] = order[j] BY <3>2
    <3>4. l = j BY <1>1, <3>3
    <3> QED BY <3>1, <3>4
  <2>4. 2 * j - 1 <= 2 * j - 1 BY <2>1
  <2>5. lastOf(<< o >>) = 2 * j - 1
    <3> DEFINE P(i) == f[i] = << o >> /\ \A h \in keys : f[h] = << o >> => h <= i
    <3>1. P(2 * j - 1) BY <2>2, <2>3, <2>4
    <3>2. \A i \in keys : P(i) => i = 2 * j - 1 BY <2>3
    <3>3. lastOf(<< o >>) = CHOOSE i \in keys : P(i) OBVIOUS
    <3> HIDE DEF P, lastOf
    <3> QED BY <2>2, <3>1, <3>2, <3>3
  <2>6. << o >> \in {f[i] : i \in keys} BY <2>2
  <2> HIDE DEF lastOf
  <2>7. Options(d)[<< o >>] = f[lastOf(<< o >>) + 1] BY <1>4, <2>6
  <2>8. lastOf(<< o >>) + 1 = 2 * j BY <2>1, <2>5
  <2>9. << o >> \in DOMAIN Options(d) BY <1>4, <2>6
  <2> QED BY <1>2, <2>1, <2>7, <2>8, <2>9
<1>8. ASSUME NEW k \in DOMAIN Options(d) PROVE \E o \in DOMAIN opts : k = << o >>
  <2> HIDE DEF lastOf
  <2>1. PICK i \in keys : k = f[i] BY <1>4
  <2>2. PICK j \in 1 .. m : i = 2 * j - 1 BY <1>3
  <2> QED BY <1>1, <1>2, <2>1, <2>2
<1> QED BY <1>6, <1>7, <1>8 DEF Reads, f

(* The round trips. *)

LEMMA RequestFrame ==
    ASSUME NEW B \in Seq(Atoms), NEW p \in Nat, NEW m \in Nat,
           Len(B) = p + 3 + 4 * m, \A i \in 1 .. p : B[i] # "NUL",
           B[p + 1] = "NUL", B[p + 2] # "NUL", B[p + 3] = "NUL",
           \A i \in 1 .. 4 * m :
             B[p + 3 + i] = "NUL" <=> \E k \in 1 .. 2 * m : i = 2 * k
    PROVE  Len(B) = p + 2 * (2 * m + 2) - 1 /\ Frame(B, p, 2 * m + 2)
<1> DEFINE n == 2 * m + 2
<1>1. n \in Nat /\ Len(B) = p + 2 * n - 1 OBVIOUS
<1>2. ASSUME NEW i \in 1 .. Len(B)
      PROVE  B[i] = "NUL" <=> \E k \in 1 .. n : i = p + 2 * k - 1
  <2>1. CASE i <= p
    <3>1. B[i] # "NUL" BY <2>1
    <3>2. \A k \in 1 .. n : i # p + 2 * k - 1 BY <2>1
    <3> QED BY <3>1, <3>2
  <2>2. CASE i = p + 1
    <3>1. 1 \in 1 .. n /\ i = p + 2 * 1 - 1 BY <2>2
    <3> QED BY <2>2, <3>1
  <2>3. CASE i = p + 2
    <3>1. \A k \in 1 .. n : i # p + 2 * k - 1 BY <2>3
    <3> QED BY <2>3, <3>1
  <2>4. CASE i = p + 3
    <3>1. 2 \in 1 .. n /\ i = p + 2 * 2 - 1 BY <2>4
    <3> QED BY <2>4, <3>1
  <2>5. CASE i > p + 3
    <3> DEFINE h == i - (p + 3)
    <3>1. h \in 1 .. 4 * m /\ i = p + 3 + h BY <2>5
    <3> HIDE DEF h
    <3>2. B[i] = "NUL" <=> \E k \in 1 .. 2 * m : h = 2 * k BY <3>1
    <3>3. ASSUME NEW k \in 1 .. 2 * m, h = 2 * k
          PROVE  \E l \in 1 .. n : i = p + 2 * l - 1
      <4>1. k + 2 \in 1 .. n /\ i = p + 2 * (k + 2) - 1 BY <3>1, <3>3
      <4> QED BY <4>1
    <3>4. ASSUME NEW k \in 1 .. n, i = p + 2 * k - 1
          PROVE  \E l \in 1 .. 2 * m : h = 2 * l
      <4>1. k - 2 \in 1 .. 2 * m /\ h = 2 * (k - 2) BY <3>1, <3>4
      <4> QED BY <4>1
    <3> QED BY <3>2, <3>3, <3>4
  <2> QED BY <2>1, <2>2, <2>3, <2>4, <2>5
<1> HIDE DEF n
<1>3. Frame(B, p, n) BY <1>1, <1>2, FrameFromNuls
<1> QED BY <1>1, <1>3 DEF n

ReqBody(file, mode, opts, order) ==
    file \o << "NUL", mode, "NUL" >> \o WriteOptions(opts, order)

\* Two sequences, one after the other.
LEMMA Joined ==
    ASSUME NEW s \in Seq(Atoms), NEW t \in Seq(Atoms)
    PROVE  /\ s \o t \in Seq(Atoms) /\ Len(s \o t) = Len(s) + Len(t)
           /\ \A i \in 1 .. Len(s) : (s \o t)[i] = s[i]
           /\ \A i \in 1 .. Len(t) : (s \o t)[Len(s) + i] = t[i]
OBVIOUS

\* The body of a request, atom by atom.
LEMMA RequestBody ==
    ASSUME NEW file \in Seq(Plain), NEW mode \in Modes, NEW opts, Writable(opts),
           NEW order \in SetToSeqs(DOMAIN opts)
    PROVE  LET B == ReqBody(file, mode, opts, order)
               p == Len(file)
               m == Len(order)
           IN  /\ p \in Nat /\ m \in Nat
               /\ B \in Seq(Atoms) /\ Len(B) = p + 2 * (2 * m + 2) - 1
               /\ Frame(B, p, 2 * m + 2)
               /\ SubSeq(B, 1, p) = file /\ B[p + 2] = mode /\ B[Len(B)] = "NUL"
               /\ \A j \in 1 .. m : /\ B[p + 4 * j] = order[j]
                                    /\ B[p + 4 * j + 2] = opts[order[j]]
<1> DEFINE p == Len(file)
           m == Len(order)
           W == WriteOptions(opts, order)
           M == << "NUL", mode, "NUL" >>
           H == file \o M
           B == H \o W
<1>1. p \in Nat /\ m \in Nat BY RangeOrder
<1>2. /\ W \in Seq(Atoms) /\ Len(W) = 4 * m
      /\ \A j \in 1 .. m : W[4 * j - 3] = order[j] /\ W[4 * j - 1] = opts[order[j]]
  BY OptionAtoms
<1>3. \A i \in 1 .. 4 * m : W[i] = "NUL" <=> \E k \in 1 .. 2 * m : i = 2 * k
  BY OptionsFrame
<1>4. file \in Seq(Atoms) /\ \A i \in 1 .. p : file[i] # "NUL" BY DEF Atoms, Plain
<1>5. /\ M \in Seq(Atoms) /\ Len(M) = 3
      /\ M[1] = "NUL" /\ M[2] = mode /\ M[3] = "NUL"
  BY DEF Atoms, Plain, Modes
<1>6. mode # "NUL" BY DEF Modes
<1>b. B = ReqBody(file, mode, opts, order) BY DEF ReqBody
<1> HIDE DEF W, M
<1>7. /\ H \in Seq(Atoms) /\ Len(H) = p + 3
      /\ \A i \in 1 .. p : H[i] = file[i]
      /\ H[p + 1] = "NUL" /\ H[p + 2] = mode /\ H[p + 3] = "NUL"
  <2>1. /\ H \in Seq(Atoms) /\ Len(H) = Len(file) + Len(M)
        /\ \A i \in 1 .. Len(file) : H[i] = file[i]
        /\ \A i \in 1 .. Len(M) : H[Len(file) + i] = M[i]
    BY <1>4, <1>5, Joined
  <2>2. 1 \in 1 .. Len(M) /\ 2 \in 1 .. Len(M) /\ 3 \in 1 .. Len(M) BY <1>5
  <2> HIDE DEF H
  <2> QED BY <1>5, <2>1, <2>2
<1> HIDE DEF H
<1>8. /\ B \in Seq(Atoms) /\ Len(B) = Len(H) + Len(W)
      /\ \A i \in 1 .. Len(H) : B[i] = H[i]
      /\ \A i \in 1 .. Len(W) : B[Len(H) + i] = W[i]
  BY <1>2, <1>7, Joined
<1> HIDE DEF B, p, m
<1>9. /\ Len(B) = p + 3 + 4 * m
      /\ \A i \in 1 .. p + 3 : B[i] = H[i]
      /\ \A i \in 1 .. 4 * m : B[p + 3 + i] = W[i]
  BY <1>2, <1>7, <1>8
<1>10. /\ \A i \in 1 .. p : B[i] = file[i]
       /\ B[p + 1] = "NUL" /\ B[p + 2] = mode /\ B[p + 3] = "NUL"
  <2>1. /\ 1 .. p \subseteq 1 .. p + 3
        /\ p + 1 \in 1 .. p + 3 /\ p + 2 \in 1 .. p + 3 /\ p + 3 \in 1 .. p + 3
    BY <1>1
  <2> QED BY <1>7, <1>9, <2>1
<1>11. Len(B) = p + 2 * (2 * m + 2) - 1 /\ Frame(B, p, 2 * m + 2)
  <2>1. \A i \in 1 .. p : B[i] # "NUL" BY <1>4, <1>10
  <2>2. \A i \in 1 .. 4 * m :
          B[p + 3 + i] = "NUL" <=> \E k \in 1 .. 2 * m : i = 2 * k
    BY <1>3, <1>9
  <2>3. B[p + 2] # "NUL" BY <1>6, <1>10
  <2> QED BY <1>1, <1>8, <1>9, <1>10, <2>1, <2>2, <2>3, RequestFrame
<1>12. SubSeq(B, 1, p) = file
  <2> DEFINE t == SubSeq(B, 1, p)
  <2>0. p <= Len(B) BY <1>1, <1>9
  <2>1. t \in Seq(Atoms) /\ Len(t) = p /\ \A i \in 1 .. p : t[i] = B[i]
    BY <1>1, <1>8, <2>0
  <2> HIDE DEF t
  <2>2. Len(t) = Len(file) /\ \A i \in 1 .. Len(t) : t[i] = file[i]
    BY <1>10, <2>1 DEF p
  <2>3. t = file BY <1>4, <2>1, <2>2, SeqEqual
  <2> QED BY <2>3 DEF t
<1>13. B[Len(B)] = "NUL"
  <2> DEFINE k == 2 * m + 2
  <2>1. k \in 1 .. k /\ Len(B) = p + 2 * k - 1 BY <1>1, <1>11
  <2>2. Len(B) \in Nuls(B) BY <1>11, <2>1 DEF Frame
  <2> QED BY <2>2 DEF Nuls
<1>14. ASSUME NEW j \in 1 .. m
       PROVE  B[p + 4 * j] = order[j] /\ B[p + 4 * j + 2] = opts[order[j]]
  <2>1. /\ 4 * j - 3 \in 1 .. 4 * m /\ p + 3 + (4 * j - 3) = p + 4 * j
        /\ 4 * j - 1 \in 1 .. 4 * m /\ p + 3 + (4 * j - 1) = p + 4 * j + 2
    BY <1>1
  <2>2. B[p + 3 + (4 * j - 3)] = W[4 * j - 3] /\ B[p + 3 + (4 * j - 1)] = W[4 * j - 1]
    BY <1>9, <2>1
  <2> QED BY <1>2, <2>1, <2>2
<1> QED BY <1>b, <1>1, <1>8, <1>10, <1>11, <1>12, <1>13, <1>14 DEF p, m

\* A server that gets a request reads what the client wrote: validate accepts
\* it, neither validate nor options() panics, and file name, mode and options are the same.
LEMMA RequestRead ==
    ASSUME NEW op \in Requests, NEW file \in Seq(Plain), file # << >>,
           NEW mode \in Modes, NEW opts, Writable(opts),
           NEW order \in SetToSeqs(DOMAIN opts), NEW d,
           d = WriteReq(op, file, mode, opts, order)
    PROVE  /\ d.op = op /\ ~ValidatePanics(d) /\ Valid(d) /\ ~OptionsPanic(d)
           /\ Filename(d) = file /\ Mode(d) = << mode >> /\ Reads(d, opts)
<1> DEFINE B == ReqBody(file, mode, opts, order)
           p == Len(file)
           m == Len(order)
           n == 2 * m + 2
           F == Front(B)
<1>1. d.op = op /\ d.body = B BY DEF WriteReq, Datagram, ReqBody
<1>2. /\ p \in Nat /\ m \in Nat
      /\ B \in Seq(Atoms) /\ Len(B) = p + 2 * n - 1
      /\ Frame(B, p, n)
      /\ SubSeq(B, 1, p) = file /\ B[p + 2] = mode /\ B[Len(B)] = "NUL"
      /\ \A j \in 1 .. m : /\ B[p + 4 * j] = order[j]
                           /\ B[p + 4 * j + 2] = opts[order[j]]
  BY RequestBody
<1>3. n \in Nat /\ 2 <= n /\ n % 2 = 0 BY <1>2
<1> HIDE DEF B, p, m, n
<1>4. Split(B)[1] = file /\ Split(B)[2] = << mode >>
  <2>0. /\ B \in Seq(Atoms) /\ n \in Nat /\ p \in Nat /\ 1 <= n
        /\ Frame(B, p, n)
    BY <1>2, <1>3
  <2>1. /\ Split(B)[1] = SubSeq(B, 1, p)
        /\ \A k \in 2 .. n : Split(B)[k] = << B[p + 2 * k - 2] >>
    BY <2>0, FieldsOfFrame
  <2>2. 2 \in 2 .. n /\ p + 2 * 2 - 2 = p + 2 BY <1>2, <1>3
  <2> QED BY <1>2, <2>1, <2>2
<1>5. Filename(d) = file /\ Mode(d) = << mode >> BY <1>1, <1>4 DEF Filename, Mode
<1>6. B # << >> BY <1>2, <1>3
<1>7. EvenNuls(d)
  <2>1. Len(B) \in Nat BY <1>2
  <2>2. Cardinality(Nuls(B)) = n BY <1>2, <1>3, <2>1, CutsOfFrame
  <2> QED BY <1>1, <1>3, <2>2 DEF EvenNuls
<1>8. EndsWithNul(d) /\ ~ValidatePanics(d)
  <2>1. Len(B) \in Nuls(B) BY <1>2, <1>6 DEF Nuls
  <2> QED BY <1>1, <1>2, <1>6, <2>1 DEF EndsWithNul, Last, ValidatePanics
<1>9. Valid(d)
  <2>1. << mode >> \in {<< k >> : k \in Modes} OBVIOUS
  <2>2. Valid(d) = (/\ Filename(d) # << >> /\ EndsWithNul(d) /\ EvenNuls(d)
                    /\ Mode(d) \in {<< k >> : k \in Modes})
    BY <1>1 DEF Valid, Requests
  <2> QED BY <1>5, <1>7, <1>8, <2>1, <2>2
<1>10. /\ F \in Seq(Atoms) /\ Len(F) = p + 2 * (n - 1) /\ Frame(F, p, n - 1)
       /\ \A i \in 1 .. p + 2 * (n - 1) : F[i] = B[i]
  <2>1. 1 <= n BY <1>3
  <2> QED BY <1>2, <1>3, <2>1, FrontOfFrame
<1> DEFINE q == n - 1
           S == Split(F)
           f == SubSeq(S, 3, Len(S))
<1>11. q \in Nat /\ 1 <= q /\ q = 2 * m + 1 /\ q + 1 = n BY <1>2, <1>3 DEF n
<1> HIDE DEF q, F
<1>12. /\ F \in Seq(Atoms) /\ Len(F) = p + 2 * q /\ Frame(F, p, q)
       /\ \A i \in 1 .. p + 2 * q : F[i] = B[i]
  BY <1>10 DEF q
<1>13. /\ S = [k \in 1 .. q + 1 |-> S[k]] /\ Len(S) = q + 1
       /\ \A k \in 2 .. q : S[k] = << F[p + 2 * k - 2] >>
       /\ S[q + 1] = << F[p + 2 * q] >>
  <2>1. /\ Split(F) = [k \in 1 .. q + 1 |-> Split(F)[k]] /\ Len(Split(F)) = q + 1
        /\ Split(F)[1] = SubSeq(F, 1, p)
        /\ \A k \in 2 .. q : Split(F)[k] = << F[p + 2 * k - 2] >>
        /\ Len(F) = p + 2 * q => Split(F)[q + 1] = << F[p + 2 * q] >>
    <3>1. p \in Nat /\ q \in Nat /\ 1 <= q BY <1>2, <1>11
    <3> HIDE DEF p
    <3> QED BY <1>12, <3>1, FieldsOfFrame
  <2> QED BY <1>12, <2>1
<1>14. OptionFields(d) = f BY <1>1 DEF OptionFields, F
<1> HIDE DEF S
<1>15. ASSUME NEW k \in 2 .. q + 1 PROVE S[k] = << B[p + 2 * k - 2] >>
  <2>1. p + 2 * k - 2 \in 1 .. p + 2 * q BY <1>2, <1>11
  <2>2. S[k] = << F[p + 2 * k - 2] >>
    <3>1. CASE k = q + 1
      <4>1. p + 2 * k - 2 = p + 2 * q BY <1>2, <1>11, <3>1
      <4> QED BY <1>13, <3>1, <4>1
    <3>2. CASE k # q + 1
      <4>1. k \in 2 .. q BY <1>11, <3>2
      <4> QED BY <1>13, <4>1
    <3> QED BY <3>1, <3>2
  <2> QED BY <1>12, <2>1, <2>2
<1>16. f = [i \in 1 .. 2 * m |-> S[i + 2]]
  <2>1. f = [i \in 1 .. 1 + Len(S) - 3 |-> S[i + 3 - 1]]
    <3>1. S = [k \in 1 .. q + 1 |-> S[k]] BY <1>13
    <3> QED BY <1>11, <1>13, <3>1
  <2>2. 1 + Len(S) - 3 = 2 * m /\ \A i \in 1 .. 2 * m : i + 3 - 1 = i + 2
    <3>1. Len(S) = q + 1 BY <1>13
    <3>2. m \in Nat /\ q = 2 * m + 1 BY <1>2, <1>11
    <3> QED BY <3>1, <3>2
  <2> HIDE DEF f
  <2>3. f = [i \in 1 .. 2 * m |-> S[i + 3 - 1]] BY <2>1, <2>2
  <2> QED BY <2>2, <2>3
<1> HIDE DEF f
<1>17. Len(f) = 2 * m /\ DOMAIN f = 1 .. 2 * m BY <1>2, <1>16
<1>18. ASSUME NEW j \in 1 .. m
       PROVE  f[2 * j - 1] = << order[j] >> /\ f[2 * j] = << opts[order[j]] >>
  <2>1. 2 * j - 1 \in 1 .. 2 * m /\ 2 * j \in 1 .. 2 * m BY <1>2
  <2>2. f[2 * j - 1] = S[(2 * j - 1) + 2] /\ f[2 * j] = S[2 * j + 2] BY <1>16, <2>1
  <2>3. /\ (2 * j - 1) + 2 \in 2 .. q + 1 /\ 2 * j + 2 \in 2 .. q + 1
        /\ p + 2 * ((2 * j - 1) + 2) - 2 = p + 4 * j
        /\ p + 2 * (2 * j + 2) - 2 = p + 4 * j + 2
    BY <1>2, <1>11
  <2>4. S[(2 * j - 1) + 2] = << B[p + 4 * j] >> BY <1>15, <2>3
  <2>5. S[2 * j + 2] = << B[p + 4 * j + 2] >> BY <1>15, <2>3
  <2> QED BY <1>2, <2>2, <2>4, <2>5
<1>19. Reads(d, opts) BY <1>14, <1>17, <1>18, PairsRead DEF m
<1>20. ~OptionsPanic(d) BY <1>1, <1>6, <1>19 DEF OptionsPanic, Reads
<1> QED BY <1>1, <1>5, <1>8, <1>9, <1>19, <1>20

\* The same for a client that gets an OACK.
LEMMA OackRead ==
    ASSUME NEW opts, Writable(opts), DOMAIN opts # {},
           NEW order \in SetToSeqs(DOMAIN opts), NEW d,
           d = WriteOptionAck(opts, order)
    PROVE  d.op = "OACK" /\ Valid(d) /\ ~OptionsPanic(d) /\ Reads(d, opts)
<1> DEFINE B == WriteOptions(opts, order)
           m == Len(order)
           n == 2 * m
           F == Front(B)
<1>1. d.op = "OACK" /\ d.body = B BY DEF WriteOptionAck, Datagram
<1>2. m \in Nat /\ 1 <= m
  <2>1. PICK o \in DOMAIN opts : TRUE OBVIOUS
  <2>2. m \in Nat /\ \E j \in 1 .. m : order[j] = o BY RangeOrder
  <2> QED BY <2>2
<1>3. /\ B \in Seq(Atoms) /\ Len(B) = 4 * m
      /\ \A j \in 1 .. m : /\ B[4 * j - 3] = order[j] /\ B[4 * j - 1] = opts[order[j]]
                           /\ B[4 * j] = "NUL"
  BY OptionAtoms
<1>4. \A i \in 1 .. 4 * m : B[i] = "NUL" <=> \E k \in 1 .. 2 * m : i = 2 * k
  BY OptionsFrame
<1> HIDE DEF B, m
<1>5. n \in Nat /\ 1 <= n /\ n % 2 = 0 /\ 1 \in Nat BY <1>2
<1>6. Len(B) = 1 + 2 * n - 1 BY <1>2, <1>3
<1>7. Frame(B, 1, n)
  <2>1. \A i \in 1 .. Len(B) :
          B[i] = "NUL" <=> \E k \in 1 .. n : i = 1 + 2 * k - 1
    <3>1. \A k \in 1 .. n : 1 + 2 * k - 1 = 2 * k OBVIOUS
    <3> QED BY <1>3, <1>4, <3>1
  <2> HIDE DEF n
  <2> QED BY <1>3, <1>5, <1>6, <2>1, FrameFromNuls
<1>8. B # << >> BY <1>2, <1>3
<1>9. Valid(d)
  <2> HIDE DEF n
  <2>1. Len(B) \in Nat BY <1>3
  <2>2. Cardinality(Nuls(B)) = n BY <1>5, <1>7, <2>1, CutsOfFrame
  <2>3. EvenNuls(d) BY <1>1, <1>5, <2>2 DEF EvenNuls
  <2>4. B[Len(B)] = "NUL"
    <3>1. m \in 1 .. m BY <1>2
    <3> QED BY <1>3, <3>1
  <2>5. EndsWithNul(d) BY <1>1, <1>8, <2>4 DEF EndsWithNul, Last
  <2>6. Valid(d) = (EndsWithNul(d) /\ EvenNuls(d)) BY <1>1 DEF Valid, Requests
  <2> QED BY <2>3, <2>5, <2>6
<1> HIDE DEF n
<1>10. /\ F \in Seq(Atoms) /\ Len(F) = 1 + 2 * (n - 1) /\ Frame(F, 1, n - 1)
       /\ \A i \in 1 .. 1 + 2 * (n - 1) : F[i] = B[i]
  BY <1>3, <1>5, <1>6, <1>7, FrontOfFrame
<1> DEFINE q == n - 1
           S == Split(F)
<1>11. q \in Nat /\ 1 <= q /\ q + 1 = 2 * m BY <1>2 DEF n
<1> HIDE DEF q, F
<1>12. /\ F \in Seq(Atoms) /\ Len(F) = 1 + 2 * q /\ Frame(F, 1, q)
       /\ \A i \in 1 .. 1 + 2 * q : F[i] = B[i]
  BY <1>10 DEF q
<1>13. /\ S = [k \in 1 .. q + 1 |-> S[k]] /\ Len(S) = q + 1
       /\ S[1] = SubSeq(F, 1, 1)
       /\ \A k \in 2 .. q : S[k] = << F[1 + 2 * k - 2] >>
       /\ S[q + 1] = << F[1 + 2 * q] >>
  <2>1. /\ Split(F) = [k \in 1 .. q + 1 |-> Split(F)[k]] /\ Len(Split(F)) = q + 1
        /\ Split(F)[1] = SubSeq(F, 1, 1)
        /\ \A k \in 2 .. q : Split(F)[k] = << F[1 + 2 * k - 2] >>
        /\ Len(F) = 1 + 2 * q => Split(F)[q + 1] = << F[1 + 2 * q] >>
    <3> DEFINE p == 1
    <3>1. p \in Nat /\ q \in Nat /\ 1 <= q /\ F \in Seq(Atoms) /\ Frame(F, p, q)
      BY <1>11, <1>12
    <3> HIDE DEF p
    <3>2. /\ Split(F) = [k \in 1 .. q + 1 |-> Split(F)[k]] /\ Len(Split(F)) = q + 1
          /\ Split(F)[1] = SubSeq(F, 1, p)
          /\ \A k \in 2 .. q : Split(F)[k] = << F[p + 2 * k - 2] >>
          /\ Len(F) = p + 2 * q => Split(F)[q + 1] = << F[p + 2 * q] >>
      BY <3>1, FieldsOfFrame
    <3> QED BY <3>2 DEF p
  <2> QED BY <1>12, <2>1
<1>14. OptionFields(d) = S BY <1>1 DEF OptionFields, F, Requests
<1> HIDE DEF S
<1>15. ASSUME NEW k \in 1 .. q + 1 PROVE S[k] = << B[2 * k - 1] >>
  <2>1. 2 * k - 1 \in 1 .. 1 + 2 * q BY <1>11
  <2>2. S[k] = << F[2 * k - 1] >>
    <3>1. CASE k = q + 1
      <4>1. 1 + 2 * q = 2 * k - 1 BY <1>11, <3>1
      <4> QED BY <1>13, <3>1, <4>1
    <3>2. CASE k = 1
      <4>1. 1 \in 1 .. Len(F) BY <1>11, <1>12
      <4>2. SubSeq(F, 1, 1) = << F[1] >> BY <1>12, <4>1, OneAtom
      <4>3. 2 * k - 1 = 1 BY <3>2
      <4> QED BY <1>13, <3>2, <4>2, <4>3
    <3>3. CASE k # q + 1 /\ k # 1
      <4>1. k \in 2 .. q /\ 1 + 2 * k - 2 = 2 * k - 1 BY <1>11, <3>3
      <4> QED BY <1>13, <4>1
    <3> QED BY <3>1, <3>2, <3>3
  <2> QED BY <1>12, <2>1, <2>2
<1>16. Len(S) = 2 * m /\ DOMAIN S = 1 .. 2 * m BY <1>11, <1>13
<1>17. ASSUME NEW j \in 1 .. m
       PROVE  S[2 * j - 1] = << order[j] >> /\ S[2 * j] = << opts[order[j]] >>
  <2>1. /\ 2 * j - 1 \in 1 .. q + 1 /\ 2 * (2 * j - 1) - 1 = 4 * j - 3
        /\ 2 * j \in 1 .. q + 1 /\ 2 * (2 * j) - 1 = 4 * j - 1
    BY <1>2, <1>11
  <2>2. S[2 * j - 1] = << B[4 * j - 3] >> BY <1>15, <2>1
  <2>3. S[2 * j] = << B[4 * j - 1] >> BY <1>15, <2>1
  <2> QED BY <1>3, <2>2, <2>3
<1>18. Reads(d, opts) BY <1>14, <1>16, <1>17, PairsRead DEF m
<1>19. ~OptionsPanic(d) BY <1>1, <1>8, <1>18 DEF OptionsPanic, Reads
<1> QED BY <1>1, <1>9, <1>18, <1>19

(* Datagrams without options, and OACKs of any server. *)

\* What validate accepts as an OACK has its fields in pairs.
LEMMA OackPairs ==
    ASSUME NEW A, NEW d, d.op = "OACK", d.body \in Seq(A), Valid(d)
    PROVE  ~OptionsPanic(d)
<1> DEFINE s == d.body
           F == Front(s)
<1>1. EndsWithNul(d) /\ EvenNuls(d) BY DEF Valid, Requests
<1>2. s # << >> /\ s[Len(s)] = "NUL" /\ Cardinality(Nuls(s)) % 2 = 0
  BY <1>1 DEF EndsWithNul, EvenNuls, Last
<1>3. /\ Len(s) \in Nat /\ 1 <= Len(s) /\ DOMAIN s = 1 .. Len(s)
      /\ DOMAIN F = 1 .. Len(s) - 1 /\ \A i \in 1 .. Len(s) - 1 : F[i] = s[i]
  BY <1>2 DEF Front
<1>4. OptionFields(d) = Split(F) BY DEF OptionFields, Requests
<1> HIDE DEF s, F
<1>5. Len(s) \in Nuls(s) BY <1>2, <1>3 DEF Nuls
<1>6. Nuls(F) = Nuls(s) \ {Len(s)}
  <2>1. \A i : i \in 1 .. Len(s) - 1 <=> i \in 1 .. Len(s) /\ i # Len(s) BY <1>3
  <2> QED BY <1>3, <2>1 DEF Nuls
<1>7. IsFiniteSet(Nuls(s))
  <2>1. IsFiniteSet(1 .. Len(s)) BY <1>3, FS_Interval
  <2>2. Nuls(s) \in SUBSET (1 .. Len(s)) BY <1>3 DEF Nuls
  <2> QED BY <2>1, <2>2, FS_Subset
<1>8. Cardinality(Nuls(F)) = Cardinality(Nuls(s)) - 1
  BY <1>5, <1>6, <1>7, FS_RemoveElement
<1>9. Cardinality(Nuls(F)) \in Nat /\ Cardinality(Nuls(s)) \in Nat
  BY <1>6, <1>7, FS_RemoveElement, FS_CardinalityType
<1> DEFINE n == Cardinality(Nuls(F)) + 1
<1>10. n \in Nat /\ n = Cardinality(Nuls(s)) BY <1>8, <1>9
<1>11. Split(F) = [k \in 1 .. n |-> Split(F)[k]] BY DEF Split
<1> HIDE DEF n
<1>12. Len(Split(F)) = n BY <1>10, <1>11, LenIs
<1> QED BY <1>2, <1>4, <1>10, <1>12 DEF OptionsPanic, s

\* The DATA of block 1 and the ACK of block 0 that this package sends start
\* with a NUL, which is all that options() finds.
LEMMA NoOptions ==
    ASSUME NEW d, d.op \in {"ACK", "DATA"}, d.body # << >>,
           Front(d.body) \in Seq(Atoms), Frame(Front(d.body), 0, 1)
    PROVE  ~OptionsPanic(d) /\ Given(Options(d)) = {}
<1> DEFINE F == Front(d.body)
           f == OptionFields(d)
           keys == {i \in DOMAIN f : i % 2 = 1}
           lastOf(k) == CHOOSE i \in keys : f[i] = k /\ \A j \in keys :
                                              f[j] = k => j <= i
<1>1. f = Split(F) BY DEF OptionFields, Requests
<1>2. F \in Seq(Atoms) /\ Frame(F, 0, 1) OBVIOUS
<1> HIDE DEF F
<1>3. 1 \in Nat /\ 0 \in Nat /\ 1 <= 1 OBVIOUS
<1>4. /\ Split(F) = [k \in 1 .. 1 + 1 |-> Split(F)[k]] /\ Len(Split(F)) = 1 + 1
      /\ Split(F)[1] = SubSeq(F, 1, 0)
  BY <1>2, <1>3, FieldsOfFrame
<1>5. Options(d) = [k \in {f[i] : i \in keys} |-> f[lastOf(k) + 1]] BY DEF Options
<1> HIDE DEF f
<1>6. DOMAIN f = 1 .. 2 /\ Len(f) = 2 /\ f[1] = << >>
  <2>1. SubSeq(F, 1, 0) = << >> BY <1>2
  <2>2. 1 + 1 = 2 OBVIOUS
  <2>3. DOMAIN Split(F) = 1 .. 1 + 1 BY <1>4
  <2> QED BY <1>1, <1>4, <2>1, <2>2, <2>3
<1>7. keys = {1}
  <2>1. \A i \in 1 .. 2 : i % 2 = 1 <=> i = 1 OBVIOUS
  <2> QED BY <1>6, <2>1
<1> HIDE DEF keys, lastOf
<1>8. \A k \in DOMAIN Options(d) : k = << >> BY <1>5, <1>6, <1>7
<1>9. \A o : << o >> # << >> OBVIOUS
<1>10. Given(Options(d)) = {} BY <1>8, <1>9 DEF Given
<1> QED BY <1>6, <1>10 DEF OptionsPanic, f

LEMMA PlainAnswers ==
    /\ WriteAck0.op = "ACK" /\ Valid(WriteAck0)
    /\ ~OptionsPanic(WriteAck0) /\ Given(Options(WriteAck0)) = {}
    /\ LET d == WriteData1(<< "text" >>)
       IN  d.op = "DATA" /\ Valid(d) /\ ~OptionsPanic(d) /\ Given(Options(d)) = {}
    /\ LET d == WriteError(<< "gone" >>) IN d.op = "ERROR" /\ Valid(d)
<1>1. ASSUME NEW d, d = WriteAck0
      PROVE  d.op = "ACK" /\ Valid(d) /\ ~OptionsPanic(d) /\ Given(Options(d)) = {}
  <2>1. d.op = "ACK" /\ d.body = << "NUL", "NUL" >> BY <1>1 DEF WriteAck0, Datagram
  <2>2. Valid(d) BY <2>1 DEF Valid, Requests
  <2> DEFINE F == Front(d.body)
  <2>3. F \in Seq(Atoms) /\ Len(F) = 1 /\ F[1] = "NUL" BY <2>1 DEF Front, Atoms
  <2> HIDE DEF F
  <2>4. Frame(F, 0, 1)
    <3>1. DOMAIN F = 1 .. 1 /\ \A i \in 1 .. 1 : F[i] = "NUL" <=> i = 1 BY <2>3
    <3>2. Nuls(F) = {1} BY <3>1 DEF Nuls
    <3>3. {0 + 2 * k - 1 : k \in 1 .. 1} = {1} OBVIOUS
    <3> QED BY <2>3, <3>2, <3>3 DEF Frame
  <2>5. d.body # << >> BY <2>1
  <2> QED BY <2>1, <2>2, <2>3, <2>4, <2>5, NoOptions DEF F
<1>2. ASSUME NEW d, d = WriteData1(<< "text" >>)
      PROVE  d.op = "DATA" /\ Valid(d) /\ ~OptionsPanic(d) /\ Given(Options(d)) = {}
  <2>1. d.op = "DATA" /\ d.body = << "NUL", "SOH" >> \o << "text" >>
    BY <1>2 DEF WriteData1, Datagram
  <2>2. /\ d.body \in Seq(Atoms) /\ Len(d.body) = 3
        /\ d.body[1] = "NUL" /\ d.body[2] = "SOH"
    <3>1. << "NUL", "SOH" >> \in Seq(Atoms) /\ << "text" >> \in Seq(Atoms)
      BY DEF Atoms
    <3> QED BY <2>1, <3>1
  <2>3. Valid(d) BY <2>1, <2>2 DEF Valid, Requests
  <2> DEFINE F == Front(d.body)
  <2>4. F \in Seq(Atoms) /\ Len(F) = 2 /\ F[1] = "NUL" /\ F[2] = "SOH"
    BY <2>2 DEF Front
  <2> HIDE DEF F
  <2>5. Frame(F, 0, 1)
    <3>1. DOMAIN F = 1 .. 2 /\ \A i \in 1 .. 2 : F[i] = "NUL" <=> i = 1 BY <2>4
    <3>2. Nuls(F) = {1} BY <3>1 DEF Nuls
    <3>3. {0 + 2 * k - 1 : k \in 1 .. 1} = {1} OBVIOUS
    <3> QED BY <2>4, <3>2, <3>3 DEF Frame
  <2>6. d.body # << >> BY <2>2
  <2>7. d.op \in {"ACK", "DATA"} BY <2>1
  <2>8. Front(d.body) \in Seq(Atoms) /\ Frame(Front(d.body), 0, 1)
    BY <2>4, <2>5 DEF F
  <2>9. ~OptionsPanic(d) /\ Given(Options(d)) = {} BY <2>6, <2>7, <2>8, NoOptions
  <2> QED BY <2>1, <2>3, <2>9
<1>3. ASSUME NEW d, d = WriteError(<< "gone" >>) PROVE d.op = "ERROR" /\ Valid(d)
  <2>1. d.op = "ERROR" /\ d.body = << "NUL", "SOH" >> \o << "gone" >> \o << "NUL" >>
    BY <1>3 DEF WriteError, Datagram
  <2>2. /\ d.body \in Seq(Atoms) /\ Len(d.body) = 4
        /\ d.body[3] = "gone" /\ d.body[4] = "NUL"
    <3>1. /\ << "NUL", "SOH" >> \in Seq(Atoms) /\ << "gone" >> \in Seq(Atoms)
          /\ << "NUL" >> \in Seq(Atoms)
      BY DEF Atoms
    <3> QED BY <2>1, <3>1
  <2>3. EndsWithNul(d) BY <2>2 DEF EndsWithNul, Last
  <2> DEFINE t == SubSeq(d.body, 3, Len(d.body))
  <2>4. DOMAIN t = 1 .. 2 /\ t[1] = "gone" /\ t[2] = "NUL" BY <2>2
  <2> HIDE DEF t
  <2>5. Nuls(t) = {2} BY <2>4 DEF Nuls
  <2>6. Cardinality(Nuls(t)) = 1 BY <2>5, FS_Singleton
  <2>7. Valid(d) = (/\ Len(d.body) >= 3 /\ EndsWithNul(d)
                    /\ Cardinality(Nuls(t)) <= 1)
    BY <2>1 DEF Valid, Requests, t
  <2>8. Valid(d) BY <2>2, <2>3, <2>6, <2>7
  <2> QED BY <2>1, <2>8
<1> QED BY <1>1, <1>2, <1>3

-----------------------------------------------------------------------------
(* The inductive invariant. *)

Decimals == {ToString(n) : n \in Numbers}
OptMaps(V) == UNION {[S -> V] : S \in SUBSET KnownOpts}

ClientType ==
    [pc : {"new", "ready", "refused"}, opts : OptMaps(Decimals), mode : Modes,
     retransmit : Int, asked : OptMaps(Numbers), unsized : BOOLEAN]

\* The map of a Client holds, in decimal, what its ClientOpts asked for, all of
\* it in range; only tsize is different, which a Put replaces or deletes.
AskedFor(c) ==
    \A o \in KnownOpts \ {"tsize"} :
      /\ o \in DOMAIN c.opts <=> o \in DOMAIN c.asked
      /\ o \in DOMAIN c.asked =>
           /\ c.opts[o] = ToString(c.asked[o])
           /\ Accepts([fn |-> o, arg |-> c.asked[o]])

SizeKept(c) ==
    /\ "tsize" \in DOMAIN c.opts => "tsize" \in DOMAIN c.asked
    /\ "tsize" \in DOMAIN c.asked /\ ~c.unsized => "tsize" \in DOMAIN c.opts

\* While a request waits for its answer, its datagram is what writeReq makes
\* of the options that the Client still has, in some order.
RequestInv ==
    LET c == clients[req.client]
    IN  Sent => /\ req.op \in Requests /\ req.client \in Clients
                /\ req.url \in Urls /\ UrlValid(req.url)
                /\ c.pc = "ready" /\ conn = NewConn(req.client)
                /\ \E order \in SetToSeqs(DOMAIN c.opts) :
                     req.dg = WriteReq(req.op, UrlFile(req.url), c.mode, c.opts, order)
                /\ req.op = "WRQ" /\ "tsize" \in DOMAIN c.opts =>
                     c.opts["tsize"] = ToString(req.size)

ClientOk(c) == c \in ClientType /\ AskedFor(c) /\ SizeKept(c)

ClientInv ==
    /\ clients \in [Clients -> ClientType]
    /\ \A c \in Clients : ClientOk(clients[c])
    /\ RequestInv /\ OackNeverPanics

(* Maps of options. *)

LEMMA MapParts ==
    ASSUME NEW V, NEW f \in OptMaps(V)
    PROVE  /\ f = [o \in DOMAIN f |-> f[o]] /\ DOMAIN f \subseteq KnownOpts
           /\ \A o \in DOMAIN f : f[o] \in V
<1>1. PICK S \in SUBSET KnownOpts : f \in [S -> V] BY DEF OptMaps
<1> QED BY <1>1

LEMMA MapFrom ==
    ASSUME NEW V, NEW S \in SUBSET KnownOpts, NEW f \in [S -> V]
    PROVE  f \in OptMaps(V)
BY DEF OptMaps

\* g is f with the value v for o, or without o.
IsWith(g, f, o, v) ==
    DOMAIN g = DOMAIN f \cup {o} /\ g[o] = v /\ \A n \in DOMAIN f \ {o} : g[n] = f[n]
IsWithout(g, f, o) ==
    DOMAIN g = DOMAIN f \ {o} /\ \A n \in DOMAIN f \ {o} : g[n] = f[n]

LEMMA WithMap ==
    ASSUME NEW V, NEW f \in OptMaps(V), NEW o \in KnownOpts, NEW v \in V
    PROVE  With(f, o, v) \in OptMaps(V) /\ IsWith(With(f, o, v), f, o, v)
<1>1. DOMAIN f \subseteq KnownOpts /\ \A n \in DOMAIN f : f[n] \in V BY MapParts
<1> DEFINE S == DOMAIN f \cup {o}
<1>2. S \in SUBSET KnownOpts /\ With(f, o, v) \in [S -> V] BY <1>1 DEF With
<1>3. With(f, o, v) \in OptMaps(V) BY <1>2, MapFrom
<1>4. IsWith(With(f, o, v), f, o, v) BY DEF With, IsWith
<1> QED BY <1>3, <1>4

LEMMA WithoutMap ==
    ASSUME NEW V, NEW f \in OptMaps(V), NEW o
    PROVE  Without(f, o) \in OptMaps(V) /\ IsWithout(Without(f, o), f, o)
<1>1. DOMAIN f \subseteq KnownOpts /\ \A n \in DOMAIN f : f[n] \in V BY MapParts
<1> DEFINE S == DOMAIN f \ {o}
<1>2. S \in SUBSET KnownOpts /\ Without(f, o) \in [S -> V] BY <1>1 DEF Without
<1>3. Without(f, o) \in OptMaps(V) BY <1>2, MapFrom
<1>4. IsWithout(Without(f, o), f, o) BY DEF Without, IsWithout
<1> QED BY <1>3, <1>4

(* Decimal numbers. *)

LEMMA DecimalOf ==
    ASSUME NEW n \in Numbers
    PROVE  /\ n \in Int /\ n <= Limit("tsize")
           /\ ToString(n) \in Decimals /\ Number(<< ToString(n) >>) = n
           /\ \A o : n <= Limit(o) => IsNumber(<< ToString(n) >>, o)
<1>1. n \in Int /\ n <= Limit("tsize") BY NumbersAssumption
<1>2. \A m \in Numbers : << ToString(n) >> = << ToString(m) >> => m = n
  <2>1. \A m \in Numbers : << ToString(n) >> = << ToString(m) >> =>
          ToString(m) = ToString(n)
    OBVIOUS
  <2> QED BY <2>1, NumbersAssumption
<1>3. Number(<< ToString(n) >>) = n BY <1>2 DEF Number
<1>4. \A o : n <= Limit(o) => IsNumber(<< ToString(n) >>, o) BY DEF IsNumber
<1> QED BY <1>1, <1>3, <1>4 DEF Decimals

LEMMA DecimalIsPlain == Decimals \subseteq Plain
BY NumbersAssumption DEF Decimals, Plain

LEMMA MapWritable ==
    ASSUME NEW f \in OptMaps(Decimals)
    PROVE  Writable(f)
<1>1. DOMAIN f \subseteq KnownOpts /\ \A o \in DOMAIN f : f[o] \in Decimals
  BY MapParts
<1>2. IsFiniteSet(KnownOpts)
  <2>1. IsFiniteSet({"blksize"}) /\ IsFiniteSet({"timeout"}) BY FS_Singleton
  <2>2. IsFiniteSet({"windowsize"}) /\ IsFiniteSet({"tsize"}) BY FS_Singleton
  <2>3. IsFiniteSet({"blksize"} \cup {"timeout"}) BY <2>1, FS_Union
  <2>4. IsFiniteSet({"windowsize"} \cup {"tsize"}) BY <2>2, FS_Union
  <2>5. IsFiniteSet(({"blksize"} \cup {"timeout"})
                      \cup ({"windowsize"} \cup {"tsize"}))
    BY <2>3, <2>4, FS_Union
  <2>6. KnownOpts = ({"blksize"} \cup {"timeout"}) \cup ({"windowsize"} \cup {"tsize"})
    BY DEF KnownOpts
  <2> QED BY <2>5, <2>6
<1>3. IsFiniteSet(DOMAIN f) BY <1>1, <1>2, FS_Subset
<1>4. \A o \in KnownOpts : o \in Plain BY DEF KnownOpts, Plain
<1> QED BY <1>1, <1>3, <1>4, DecimalIsPlain DEF Writable

(* What the reader of a datagram makes of the options. *)

LEMMA GivenRead ==
    ASSUME NEW d, NEW opts, Reads(d, opts), DOMAIN opts \subseteq KnownOpts
    PROVE  Given(Options(d)) = DOMAIN opts
<1>1. \A o, n : << o >> = << n >> => o = n OBVIOUS
<1>2. ASSUME NEW o PROVE << o >> \in DOMAIN Options(d) <=> o \in DOMAIN opts
  <2>1. << o >> \in DOMAIN Options(d) <=> \E n \in DOMAIN opts : << o >> = << n >>
    BY DEF Reads
  <2>2. \A n \in DOMAIN opts : << o >> = << n >> <=> o = n BY <1>1, Zenon
  <2>3. << o >> \in DOMAIN Options(d) <=> \E n \in DOMAIN opts : o = n
    BY <2>1, <2>2, Zenon
  <2> QED BY <2>3
<1> QED BY <1>2 DEF Given

\* Every value of the map is a number that parseOptions takes.
InRange(opts) ==
    \A o \in DOMAIN opts : \E n \in Numbers : n <= Limit(o) /\ opts[o] = ToString(n)

LEMMA ParsesRead ==
    ASSUME NEW d, NEW opts, Reads(d, opts), DOMAIN opts \subseteq KnownOpts,
           InRange(opts)
    PROVE  Parses(Options(d))
<1>1. Given(Options(d)) = DOMAIN opts BY GivenRead
<1>2. ASSUME NEW o \in DOMAIN opts PROVE IsNumber(Options(d)[<< o >>], o)
  <2>1. PICK n \in Numbers : n <= Limit(o) /\ opts[o] = ToString(n) BY DEF InRange
  <2>2. Options(d)[<< o >>] = << ToString(n) >> BY <2>1 DEF Reads
  <2> QED BY <2>1, <2>2, DecimalOf
<1> QED BY <1>1, <1>2 DEF Parses



(* Clients. *)

\* What the constructors of ClientOpts check.
LEMMA AcceptsCases ==
    ASSUME NEW r, Accepts(r)
    PROVE  /\ r.fn = "blksize" => 8 <= r.arg /\ r.arg <= 65464
           /\ r.fn = "timeout" => 1 <= r.arg /\ r.arg <= 255
           /\ r.fn = "windowsize" => 1 <= r.arg /\ r.arg <= 65535
           /\ r.fn = "mode" => r.arg \in Modes
<1>1. CASE r.fn = "blksize" BY <1>1 DEF Accepts, ValidBlocksize
<1>2. CASE r.fn = "timeout" BY <1>2 DEF Accepts
<1>3. CASE r.fn = "windowsize" BY <1>3 DEF Accepts
<1>4. CASE r.fn = "mode" BY <1>4 DEF Accepts
<1> QED BY <1>1, <1>2, <1>3, <1>4

LEMMA AcceptsRange ==
    ASSUME NEW o \in KnownOpts, o # "tsize", NEW n \in Int,
           Accepts([fn |-> o, arg |-> n])
    PROVE  n <= Limit(o) /\ 1 <= n /\ (o = "blksize" => n + 4 < 65536)
<1> DEFINE r == [fn |-> o, arg |-> n]
<1>0. Accepts(r) /\ r.fn = o /\ r.arg = n OBVIOUS
<1> HIDE DEF r
<1>1. CASE o = "blksize"
  <2>1. 8 <= n /\ n <= 65464 BY <1>0, <1>1, AcceptsCases
  <2>2. Limit(o) = 65535 BY <1>1 DEF Limit
  <2>3. n <= 65535 /\ 1 <= n /\ n + 4 < 65536 BY <2>1
  <2> QED BY <2>2, <2>3
<1>2. CASE o = "timeout"
  <2>1. 1 <= n /\ n <= 255 BY <1>0, <1>2, AcceptsCases
  <2>2. Limit(o) = 255 /\ o # "blksize" BY <1>2 DEF Limit
  <2>3. n <= 255 /\ 1 <= n BY <2>1
  <2> QED BY <2>2, <2>3
<1>3. CASE o = "windowsize"
  <2>1. 1 <= n /\ n <= 65535 BY <1>0, <1>3, AcceptsCases
  <2>2. Limit(o) = 65535 /\ o # "blksize" BY <1>3 DEF Limit
  <2>3. n <= 65535 /\ 1 <= n BY <2>1
  <2> QED BY <2>2, <2>3
<1> QED BY <1>1, <1>2, <1>3 DEF KnownOpts

\* The map of a Client can be written and parsed.
LEMMA OptsOfClient ==
    ASSUME NEW c, ClientOk(c)
    PROVE  /\ c.opts \in OptMaps(Decimals) /\ DOMAIN c.opts \subseteq KnownOpts
           /\ Writable(c.opts) /\ InRange(c.opts)
<1>1. c.opts \in OptMaps(Decimals) /\ c.asked \in OptMaps(Numbers)
  BY DEF ClientOk, ClientType
<1>2. DOMAIN c.opts \subseteq KnownOpts /\ \A o \in DOMAIN c.opts : c.opts[o] \in Decimals
  BY <1>1, MapParts
<1>3. \A o \in DOMAIN c.asked : c.asked[o] \in Numbers BY <1>1, MapParts
<1>4. ASSUME NEW o \in DOMAIN c.opts
      PROVE  \E n \in Numbers : n <= Limit(o) /\ c.opts[o] = ToString(n)
  <2>1. CASE o = "tsize"
    <3>1. PICK n \in Numbers : c.opts[o] = ToString(n) BY <1>2 DEF Decimals
    <3> QED BY <2>1, <3>1, DecimalOf
  <2>2. CASE o # "tsize"
    <3> DEFINE n == c.asked[o]
    <3>1. /\ o \in KnownOpts \ {"tsize"} /\ o \in DOMAIN c.asked
          /\ c.opts[o] = ToString(n) /\ Accepts([fn |-> o, arg |-> n])
      BY <1>2, <2>2 DEF ClientOk, AskedFor
    <3>2. n \in Numbers /\ n \in Int BY <1>3, <3>1, NumbersAssumption
    <3> HIDE DEF n
    <3>3. n <= Limit(o) BY <3>1, <3>2, AcceptsRange
    <3> QED BY <3>1, <3>2, <3>3
  <2> QED BY <2>1, <2>2
<1>5. InRange(c.opts) BY <1>4 DEF InRange
<1> QED BY <1>1, <1>2, <1>5, MapWritable

LEMMA SeqOfMore ==
    ASSUME NEW A, NEW B, A \subseteq B, NEW s \in Seq(A)
    PROVE  s \in Seq(B)
<1>1. Len(s) \in Nat /\ \A i \in 1 .. Len(s) : s[i] \in B OBVIOUS
<1>2. s = [i \in 1 .. Len(s) |-> s[i]] OBVIOUS
<1> QED BY <1>1, <1>2

LEMMA FileIsPlain ==
    ASSUME NEW u \in Urls
    PROVE  UrlFile(u) \in Seq(Plain)
<1>1. u.path \in Seq(STRING \ {"NUL"}) /\ u.fragment \in Seq(STRING \ {"NUL"})
  BY ArgumentsAssumption
<1> DEFINE A == STRING \ {"NUL"}
<1>2. A \subseteq Plain BY DEF Plain
<1>3. u.path \in Seq(A) /\ u.fragment \in Seq(A) BY <1>1
<1> HIDE DEF A
<1>4. u.path \in Seq(Plain) /\ u.fragment \in Seq(Plain) BY <1>2, <1>3, SeqOfMore
<1>5. "a%20b" \in Plain /\ "#" \in Plain BY DEF Plain
<1>6. << "a%20b" >> \in Seq(Plain) /\ << "#" >> \in Seq(Plain) BY <1>5
<1>7. Escaped(u.path) \in Seq(Plain) BY <1>4, <1>6 DEF Escaped
<1>8. << >> \in Seq(Plain) /\ << "#" >> \o u.fragment \in Seq(Plain) BY <1>4, <1>6
<1> QED BY <1>7, <1>8 DEF UrlFile

\* What the server reads out of the request that was sent.
LEMMA SentRead ==
    ASSUME ClientInv, Sent
    PROVE  /\ req.dg.op = req.op /\ ~ValidatePanics(req.dg) /\ Valid(req.dg)
           /\ ~OptionsPanic(req.dg)
           /\ Filename(req.dg) = UrlFile(req.url)
           /\ Mode(req.dg) = << clients[req.client].mode >>
           /\ Reads(req.dg, clients[req.client].opts)
<1> DEFINE c == clients[req.client]
<1>1. /\ req.op \in Requests /\ req.client \in Clients
      /\ req.url \in Urls /\ UrlValid(req.url)
      /\ \E order \in SetToSeqs(DOMAIN c.opts) :
           req.dg = WriteReq(req.op, UrlFile(req.url), c.mode, c.opts, order)
  BY DEF ClientInv, RequestInv
<1>2. PICK order \in SetToSeqs(DOMAIN c.opts) :
        req.dg = WriteReq(req.op, UrlFile(req.url), c.mode, c.opts, order)
  BY <1>1
<1>3. ClientOk(c) /\ c.mode \in Modes BY <1>1 DEF ClientInv, ClientOk, ClientType
<1>4. Writable(c.opts) BY <1>3, OptsOfClient
<1>5. UrlFile(req.url) \in Seq(Plain) /\ UrlFile(req.url) # << >>
  BY <1>1, FileIsPlain DEF UrlValid
<1> HIDE DEF c
<1>6. /\ req.dg.op = req.op /\ ~ValidatePanics(req.dg) /\ Valid(req.dg)
      /\ ~OptionsPanic(req.dg)
      /\ Filename(req.dg) = UrlFile(req.url)
      /\ Mode(req.dg) = << c.mode >> /\ Reads(req.dg, c.opts)
  BY <1>1, <1>2, <1>3, <1>4, <1>5, RequestRead
<1> QED BY <1>6 DEF c

\* The numbers of the server's conn are those that were asked for.
LEMMA ServerReads ==
    ASSUME ClientInv, Sent, NEW f \in {"blksize", "windowsize", "timeout"}
    PROVE  /\ ServerConn[f] = Asked(f, NewConn(req.client)[f])
           /\ Given(Options(req.dg)) = DOMAIN clients[req.client].opts
           /\ ServerConn[f] \in Int /\ 1 <= ServerConn[f]
           /\ f = "blksize" => ServerConn[f] + 4 < 65536
           /\ ServerConn[f] = IF f \in DOMAIN clients[req.client].opts
                              THEN Number(<< clients[req.client].opts[f] >>)
                              ELSE NewConn(req.client)[f]
<1> DEFINE c == clients[req.client]
           d == req.dg
           isSender == req.op = "RRQ"
           k == [NewConn(req.client) EXCEPT
                   !.tsize = IF req.op = "RRQ" THEN FileSize ELSE NoSize]
<1>1. Reads(d, c.opts) BY SentRead
<1>2. ClientOk(c) BY DEF ClientInv, RequestInv
<1>3. DOMAIN c.opts \subseteq KnownOpts BY <1>2, OptsOfClient
<1>4. /\ f \in DOMAIN k /\ k[f] = NewConn(req.client)[f]
      /\ f \in KnownOpts \ {"tsize"} /\ f # "tsize"
  BY DEF NewConn, KnownOpts
<1>5. ServerConn = Parsed(k, Options(d), isSender) BY DEF ServerConn
<1>7. NewConn(req.client)[f] \in Int /\ 1 <= NewConn(req.client)[f]
      /\ NewConn(req.client)[f] + 4 < 65536
  BY DEF NewConn
<1> HIDE DEF c, d, isSender, k
<1>8. /\ DOMAIN ServerConn = DOMAIN k
      /\ ServerConn[f] = IF f \in Given(Options(d)) THEN Number(Options(d)[<< f >>])
                         ELSE k[f]
  BY <1>4, <1>5 DEF Parsed
<1>9. /\ Given(Options(d)) = DOMAIN c.opts
      /\ f \in DOMAIN c.opts => Options(d)[<< f >>] = << c.opts[f] >>
  <2>1. Given(Options(d)) = DOMAIN c.opts BY <1>1, <1>3, GivenRead
  <2> QED BY <1>1, <2>1 DEF Reads
<1>10. CASE f \in DOMAIN c.opts
  <2> DEFINE n == c.asked[f]
  <2>1. /\ f \in DOMAIN c.asked /\ c.opts[f] = ToString(n)
        /\ Accepts([fn |-> f, arg |-> n])
    BY <1>2, <1>4, <1>10 DEF ClientOk, AskedFor
  <2>2. n \in Numbers
    <3>1. c.asked \in OptMaps(Numbers) BY <1>2 DEF ClientOk, ClientType
    <3> QED BY <2>1, <3>1, MapParts
  <2>3. Asked(f, NewConn(req.client)[f]) = n BY <2>1 DEF Asked, c
  <2> HIDE DEF n
  <2>4. ServerConn[f] = n BY <1>8, <1>9, <1>10, <2>1, <2>2, DecimalOf
  <2>5. n \in Int BY <2>2, NumbersAssumption
  <2>6. 1 <= n /\ (f = "blksize" => n + 4 < 65536)
    BY <1>4, <2>1, <2>5, AcceptsRange
  <2> QED BY <1>4, <1>8, <1>9, <2>3, <2>4, <2>5, <2>6 DEF c, d
<1>11. CASE f \notin DOMAIN c.opts
  <2>1. f \notin DOMAIN c.asked BY <1>2, <1>4, <1>11 DEF ClientOk, AskedFor
  <2>2. Asked(f, NewConn(req.client)[f]) = NewConn(req.client)[f]
    BY <2>1 DEF Asked, c
  <2> QED BY <1>4, <1>7, <1>8, <1>9, <1>11, <2>2 DEF c, d
<1> QED BY <1>10, <1>11

-----------------------------------------------------------------------------
(* The invariant holds at first, and every action keeps it. *)

LEMMA ClientParts ==
    ASSUME NEW c, ClientOk(c)
    PROVE  /\ c.pc \in {"new", "ready", "refused"} /\ c.mode \in Modes
           /\ c.opts \in OptMaps(Decimals) /\ c.asked \in OptMaps(Numbers)
           /\ c.retransmit \in Int /\ c.unsized \in BOOLEAN
           /\ c = [pc |-> c.pc, opts |-> c.opts, mode |-> c.mode,
                   retransmit |-> c.retransmit, asked |-> c.asked,
                   unsized |-> c.unsized]
BY DEF ClientOk, ClientType

LEMMA InitOk == Init => ClientInv
<1> SUFFICES ASSUME Init PROVE ClientInv OBVIOUS
<1> DEFINE opts == [o \in {"tsize"} |-> ToString(0)]
           asked == [o \in {"tsize"} |-> 0]
           k == [pc |-> "new", opts |-> opts, mode |-> "octet", retransmit |-> 10,
                 asked |-> asked, unsized |-> FALSE]
<1>1. clients = [c \in Clients |-> k] /\ conn = [pc |-> "idle"] BY DEF Init
<1>2. opts \in OptMaps(Decimals) /\ asked \in OptMaps(Numbers)
  <2>1. 0 \in Numbers BY NumbersAssumption
  <2>2. ToString(0) \in Decimals BY <2>1, DecimalOf
  <2>3. {"tsize"} \in SUBSET KnownOpts BY DEF KnownOpts
  <2>4. opts \in [{"tsize"} -> Decimals] /\ asked \in [{"tsize"} -> Numbers]
    BY <2>1, <2>2
  <2> QED BY <2>3, <2>4, MapFrom
<1>3. DOMAIN opts = {"tsize"} /\ DOMAIN asked = {"tsize"} OBVIOUS
<1> HIDE DEF opts, asked
<1>4. k \in ClientType BY <1>2 DEF ClientType, Modes
<1>5. AskedFor(k) /\ SizeKept(k)
  <2>1. k.opts = opts /\ k.asked = asked OBVIOUS
  <2> HIDE DEF k
  <2> QED BY <1>3, <2>1 DEF AskedFor, SizeKept
<1>6. ClientOk(k) BY <1>4, <1>5 DEF ClientOk
<1> HIDE DEF k
<1>7. /\ clients \in [Clients -> ClientType]
      /\ \A c \in Clients : ClientOk(clients[c])
  BY <1>1, <1>4, <1>6
<1>8. RequestInv BY <1>1 DEF RequestInv, Sent
<1>9. OackNeverPanics BY <1>1 DEF OackNeverPanics
<1> QED BY <1>7, <1>8, <1>9 DEF ClientInv

\* The options of a Client, changed together with what was asked for.
LEMMA SetOk ==
    ASSUME NEW c, ClientOk(c), NEW o \in KnownOpts, NEW n \in Numbers, NEW e,
           e.opts = With(c.opts, o, ToString(n)), e.asked = With(c.asked, o, n),
           e.unsized = c.unsized, o = "tsize" \/ Accepts([fn |-> o, arg |-> n])
    PROVE  /\ e.opts \in OptMaps(Decimals) /\ e.asked \in OptMaps(Numbers)
           /\ AskedFor(e) /\ SizeKept(e)
<1> DEFINE V == ToString(n)
           op == c.opts
           as == c.asked
<1>1. op \in OptMaps(Decimals) /\ as \in OptMaps(Numbers) BY ClientParts
<1>2. V \in Decimals BY DecimalOf
<1>3. e.opts = With(op, o, V) /\ e.asked = With(as, o, n) OBVIOUS
<1> HIDE DEF V, op, as
<1>4. /\ e.opts \in OptMaps(Decimals) /\ DOMAIN e.opts = DOMAIN op \cup {o}
      /\ e.opts[o] = V /\ \A m \in DOMAIN op \ {o} : e.opts[m] = op[m]
  <2>1. With(op, o, V) \in OptMaps(Decimals) /\ IsWith(With(op, o, V), op, o, V)
    BY <1>1, <1>2, WithMap
  <2> QED BY <1>3, <2>1 DEF IsWith
<1>5. /\ e.asked \in OptMaps(Numbers) /\ DOMAIN e.asked = DOMAIN as \cup {o}
      /\ e.asked[o] = n /\ \A m \in DOMAIN as \ {o} : e.asked[m] = as[m]
  <2>1. With(as, o, n) \in OptMaps(Numbers) /\ IsWith(With(as, o, n), as, o, n)
    BY <1>1, WithMap
  <2> QED BY <1>3, <2>1 DEF IsWith
<1>6. AskedFor(e)
  <2> SUFFICES ASSUME NEW m \in KnownOpts \ {"tsize"}
               PROVE  /\ m \in DOMAIN e.opts <=> m \in DOMAIN e.asked
                      /\ m \in DOMAIN e.asked =>
                           /\ e.opts[m] = ToString(e.asked[m])
                           /\ Accepts([fn |-> m, arg |-> e.asked[m]])
    BY DEF AskedFor
  <2>1. CASE m = o
    <3>1. e.opts[m] = ToString(e.asked[m]) BY <1>4, <1>5, <2>1 DEF V
    <3>2. Accepts([fn |-> m, arg |-> e.asked[m]]) BY <1>5, <2>1
    <3> QED BY <1>4, <1>5, <2>1, <3>1, <3>2
  <2>2. CASE m # o
    <3>1. /\ m \in DOMAIN op <=> m \in DOMAIN as
          /\ m \in DOMAIN as => /\ op[m] = ToString(as[m])
                                /\ Accepts([fn |-> m, arg |-> as[m]])
      BY DEF ClientOk, AskedFor, op, as
    <3>2. m \in DOMAIN as => e.asked[m] = as[m] /\ e.opts[m] = op[m]
      BY <1>4, <1>5, <2>2, <3>1
    <3> QED BY <1>4, <1>5, <2>2, <3>1, <3>2
  <2> QED BY <2>1, <2>2
<1>7. SizeKept(e)
  <2>1. /\ "tsize" \in DOMAIN op => "tsize" \in DOMAIN as
        /\ "tsize" \in DOMAIN as /\ ~e.unsized => "tsize" \in DOMAIN op
    BY DEF ClientOk, SizeKept, op, as
  <2> QED BY <1>4, <1>5, <2>1 DEF SizeKept
<1> QED BY <1>4, <1>5, <1>6, <1>7

\* The size is no longer asked for, or no longer told.
LEMMA UnsetOk ==
    ASSUME NEW c, ClientOk(c), NEW e, e.opts = Without(c.opts, "tsize"),
           \/ e.asked = Without(c.asked, "tsize")
           \/ e.asked = c.asked /\ e.unsized
    PROVE  /\ e.opts \in OptMaps(Decimals) /\ e.asked \in OptMaps(Numbers)
           /\ AskedFor(e) /\ SizeKept(e)
<1> DEFINE op == c.opts
           as == c.asked
<1>1. op \in OptMaps(Decimals) /\ as \in OptMaps(Numbers) BY ClientParts
<1>2. \A m \in KnownOpts \ {"tsize"} :
        /\ m \in DOMAIN op <=> m \in DOMAIN as
        /\ m \in DOMAIN as => /\ op[m] = ToString(as[m])
                              /\ Accepts([fn |-> m, arg |-> as[m]])
  BY DEF ClientOk, AskedFor
<1>3. /\ e.opts = Without(op, "tsize")
      /\ e.asked = Without(as, "tsize") \/ (e.asked = as /\ e.unsized)
  OBVIOUS
<1> HIDE DEF op, as
<1>4. /\ e.opts \in OptMaps(Decimals) /\ DOMAIN e.opts = DOMAIN op \ {"tsize"}
      /\ \A m \in DOMAIN op \ {"tsize"} : e.opts[m] = op[m]
  <2>1. Without(op, "tsize") \in OptMaps(Decimals)
        /\ IsWithout(Without(op, "tsize"), op, "tsize")
    BY <1>1, WithoutMap
  <2> QED BY <1>3, <2>1 DEF IsWithout
<1>5. /\ e.asked \in OptMaps(Numbers) /\ DOMAIN as \ {"tsize"} \subseteq DOMAIN e.asked
      /\ DOMAIN e.asked \subseteq DOMAIN as
      /\ "tsize" \in DOMAIN e.asked => e.unsized
      /\ \A m \in DOMAIN as \ {"tsize"} : e.asked[m] = as[m]
  <2>1. CASE e.asked = as /\ e.unsized BY <1>1, <2>1
  <2>2. CASE e.asked = Without(as, "tsize")
    <3>1. Without(as, "tsize") \in OptMaps(Numbers)
          /\ IsWithout(Without(as, "tsize"), as, "tsize")
      BY <1>1, WithoutMap
    <3> QED BY <2>2, <3>1 DEF IsWithout
  <2> QED BY <1>3, <2>1, <2>2
<1>6. AskedFor(e)
  <2> SUFFICES ASSUME NEW m \in KnownOpts \ {"tsize"}
               PROVE  /\ m \in DOMAIN e.opts <=> m \in DOMAIN e.asked
                      /\ m \in DOMAIN e.asked =>
                           /\ e.opts[m] = ToString(e.asked[m])
                           /\ Accepts([fn |-> m, arg |-> e.asked[m]])
    BY DEF AskedFor
  <2>1. m # "tsize" OBVIOUS
  <2>2. m \in DOMAIN e.opts <=> m \in DOMAIN e.asked BY <1>2, <1>4, <1>5, <2>1
  <2>3. ASSUME m \in DOMAIN e.asked
        PROVE  m \in DOMAIN as /\ e.asked[m] = as[m] /\ e.opts[m] = op[m]
    BY <1>2, <1>4, <1>5, <2>1, <2>3
  <2>4. ASSUME m \in DOMAIN e.asked
        PROVE  /\ e.opts[m] = ToString(e.asked[m])
               /\ Accepts([fn |-> m, arg |-> e.asked[m]])
    BY <1>2, <2>3, <2>4
  <2> QED BY <2>2, <2>4
<1>7. SizeKept(e) BY <1>4, <1>5 DEF SizeKept
<1> QED BY <1>4, <1>5, <1>6, <1>7

\* A Client of which only some fields differ.
Fields(e, pc, opts, mode, retransmit, asked, unsized) ==
    /\ e = [pc |-> pc, opts |-> opts, mode |-> mode, retransmit |-> retransmit,
            asked |-> asked, unsized |-> unsized]
    /\ e.pc = pc /\ e.opts = opts /\ e.mode = mode
    /\ e.retransmit = retransmit /\ e.asked = asked /\ e.unsized = unsized

LEMMA FieldsType ==
    ASSUME NEW e, NEW pc \in {"new", "ready", "refused"},
           NEW opts \in OptMaps(Decimals), NEW mode \in Modes,
           NEW retransmit \in Int, NEW asked \in OptMaps(Numbers),
           NEW unsized \in BOOLEAN,
           Fields(e, pc, opts, mode, retransmit, asked, unsized)
    PROVE  e \in ClientType
BY DEF Fields, ClientType

LEMMA ExceptFields ==
    ASSUME NEW c, ClientOk(c), NEW x, NEW y
    PROVE  /\ Fields([c EXCEPT !.pc = x],
                     x, c.opts, c.mode, c.retransmit, c.asked, c.unsized)
           /\ Fields([c EXCEPT !.mode = x],
                     c.pc, c.opts, x, c.retransmit, c.asked, c.unsized)
           /\ Fields([c EXCEPT !.retransmit = x],
                     c.pc, c.opts, c.mode, x, c.asked, c.unsized)
           /\ Fields([c EXCEPT !.opts = x, !.asked = y],
                     c.pc, x, c.mode, c.retransmit, y, c.unsized)
           /\ Fields([c EXCEPT !.opts = x, !.unsized = y],
                     c.pc, x, c.mode, c.retransmit, c.asked, y)
<1>1. c = [pc |-> c.pc, opts |-> c.opts, mode |-> c.mode,
           retransmit |-> c.retransmit, asked |-> c.asked, unsized |-> c.unsized]
  BY ClientParts
<1>2. Fields([c EXCEPT !.pc = x],
             x, c.opts, c.mode, c.retransmit, c.asked, c.unsized)
  BY <1>1 DEF Fields
<1>3. Fields([c EXCEPT !.mode = x],
             c.pc, c.opts, x, c.retransmit, c.asked, c.unsized)
  BY <1>1 DEF Fields
<1>4. Fields([c EXCEPT !.retransmit = x],
             c.pc, c.opts, c.mode, x, c.asked, c.unsized)
  BY <1>1 DEF Fields
<1> DEFINE b == [c EXCEPT !.opts = x]
<1>b. b = [pc |-> c.pc, opts |-> x, mode |-> c.mode,
           retransmit |-> c.retransmit, asked |-> c.asked, unsized |-> c.unsized]
  BY <1>1
<1> HIDE DEF b
<1>5. Fields([c EXCEPT !.opts = x, !.asked = y],
             c.pc, x, c.mode, c.retransmit, y, c.unsized)
  <2>1. Fields([b EXCEPT !.asked = y],
               c.pc, x, c.mode, c.retransmit, y, c.unsized)
    BY <1>b DEF Fields
  <2> QED BY <2>1 DEF b
<1>6. Fields([c EXCEPT !.opts = x, !.unsized = y],
             c.pc, x, c.mode, c.retransmit, c.asked, y)
  <2>1. Fields([b EXCEPT !.unsized = y],
               c.pc, x, c.mode, c.retransmit, c.asked, y)
    BY <1>b DEF Fields
  <2> QED BY <2>1 DEF b
<1> QED BY <1>2, <1>3, <1>4, <1>5, <1>6

\* AskedFor and SizeKept are about opts, asked and unsized.
LEMMA SameMaps ==
    ASSUME NEW c, NEW e, e.opts = c.opts, e.asked = c.asked, e.unsized = c.unsized,
           AskedFor(c), SizeKept(c)
    PROVE  AskedFor(e) /\ SizeKept(e)
BY DEF AskedFor, SizeKept

LEMMA AppliedOk ==
    ASSUME NEW c, ClientOk(c), NEW o \in ClientOpts, Accepts(o)
    PROVE  ClientOk(Applied(c, o)) /\ Applied(c, o).pc = c.pc
<1> DEFINE e == Applied(c, o)
<1>1. /\ c.pc \in {"new", "ready", "refused"} /\ c.mode \in Modes
      /\ c.opts \in OptMaps(Decimals) /\ c.asked \in OptMaps(Numbers)
      /\ c.retransmit \in Int /\ c.unsized \in BOOLEAN
  BY ClientParts
<1>2. AskedFor(c) /\ SizeKept(c) BY DEF ClientOk
<1>3. CASE o.fn = "mode"
  <2>1. e = [c EXCEPT !.mode = o.arg] BY <1>3 DEF Applied
  <2>2. o.arg \in Modes BY <1>3, AcceptsCases
  <2> HIDE DEF e
  <2>3. Fields(e, c.pc, c.opts, o.arg, c.retransmit, c.asked, c.unsized)
    BY <2>1, ExceptFields
  <2>4. e \in ClientType BY <1>1, <2>2, <2>3, FieldsType
  <2>5. e.opts = c.opts /\ e.asked = c.asked /\ e.unsized = c.unsized /\ e.pc = c.pc
    BY <2>3 DEF Fields
  <2> QED BY <1>2, <2>4, <2>5, SameMaps DEF ClientOk, e
<1>4. CASE o.fn = "retransmit"
  <2>1. e = [c EXCEPT !.retransmit = o.arg] BY <1>4 DEF Applied
  <2>2. o.arg \in Int BY <1>4, ArgumentsAssumption
  <2> HIDE DEF e
  <2>3. Fields(e, c.pc, c.opts, c.mode, o.arg, c.asked, c.unsized)
    BY <2>1, ExceptFields
  <2>4. e \in ClientType BY <1>1, <2>2, <2>3, FieldsType
  <2>5. e.opts = c.opts /\ e.asked = c.asked /\ e.unsized = c.unsized /\ e.pc = c.pc
    BY <2>3 DEF Fields
  <2> QED BY <1>2, <2>4, <2>5, SameMaps DEF ClientOk, e
<1>5. ASSUME NEW x, NEW y, e = [c EXCEPT !.opts = x, !.asked = y],
             e.opts \in OptMaps(Decimals), e.asked \in OptMaps(Numbers),
             AskedFor(e), SizeKept(e)
      PROVE  ClientOk(e) /\ e.pc = c.pc
  <2> HIDE DEF e
  <2>1. Fields(e, c.pc, x, c.mode, c.retransmit, y, c.unsized)
    BY <1>5, ExceptFields
  <2>2. e.opts = x /\ e.asked = y /\ e.pc = c.pc BY <2>1 DEF Fields
  <2>3. x \in OptMaps(Decimals) /\ y \in OptMaps(Numbers) BY <1>5, <2>2
  <2>4. e \in ClientType BY <1>1, <2>1, <2>3, FieldsType
  <2> QED BY <1>5, <2>2, <2>4 DEF ClientOk
<1>6. ASSUME NEW n \in Numbers, NEW k \in KnownOpts,
             e = [c EXCEPT !.opts = With(@, k, ToString(n)), !.asked = With(@, k, n)],
             k = "tsize" \/ Accepts([fn |-> k, arg |-> n])
      PROVE  ClientOk(e) /\ e.pc = c.pc
  <2> DEFINE x == With(c.opts, k, ToString(n))
             y == With(c.asked, k, n)
  <2>1. e = [c EXCEPT !.opts = x, !.asked = y] BY <1>6
  <2> HIDE DEF e, x, y
  <2>2. Fields(e, c.pc, x, c.mode, c.retransmit, y, c.unsized)
    BY <2>1, ExceptFields
  <2>3. e.opts = x /\ e.asked = y /\ e.unsized = c.unsized BY <2>2 DEF Fields
  <2>4. e.opts = With(c.opts, k, ToString(n)) /\ e.asked = With(c.asked, k, n)
    BY <2>3 DEF x, y
  <2>5. /\ e.opts \in OptMaps(Decimals) /\ e.asked \in OptMaps(Numbers)
        /\ AskedFor(e) /\ SizeKept(e)
    BY <1>6, <2>3, <2>4, SetOk
  <2> QED BY <1>5, <2>1, <2>5
<1>7. CASE o.fn = "tsize" /\ o.arg
  <2>1. e = [c EXCEPT !.opts = With(@, "tsize", ToString(0)),
                      !.asked = With(@, "tsize", 0)]
    BY <1>7 DEF Applied
  <2>2. 0 \in Numbers /\ "tsize" \in KnownOpts BY NumbersAssumption DEF KnownOpts
  <2> HIDE DEF e
  <2> QED BY <1>6, <2>1, <2>2 DEF e
<1>8. CASE o.fn = "tsize" /\ ~o.arg
  <2> DEFINE x == Without(c.opts, "tsize")
             y == Without(c.asked, "tsize")
  <2>1. e = [c EXCEPT !.opts = x, !.asked = y] BY <1>8 DEF Applied
  <2> HIDE DEF e, x, y
  <2>2. Fields(e, c.pc, x, c.mode, c.retransmit, y, c.unsized)
    BY <2>1, ExceptFields
  <2>3. e.opts = x /\ e.asked = y BY <2>2 DEF Fields
  <2>4. e.opts = Without(c.opts, "tsize") /\ e.asked = Without(c.asked, "tsize")
    BY <2>3 DEF x, y
  <2>5. /\ e.opts \in OptMaps(Decimals) /\ e.asked \in OptMaps(Numbers)
        /\ AskedFor(e) /\ SizeKept(e)
    BY <2>4, UnsetOk
  <2> QED BY <1>5, <2>1, <2>5 DEF e
<1>9. CASE o.fn \in {"blksize", "timeout", "windowsize"}
  <2> DEFINE n == o.arg
             k == o.fn
  <2>1. n \in Numbers /\ k \in KnownOpts
    BY <1>9, ArgumentsAssumption DEF KnownOpts
  <2>2. e = [c EXCEPT !.opts = With(@, k, ToString(n)), !.asked = With(@, k, n)]
    BY <1>9 DEF Applied
  <2>3. Accepts([fn |-> k, arg |-> n])
    <3> DEFINE r == [fn |-> k, arg |-> n]
    <3>1. r.fn = o.fn /\ r.arg = o.arg OBVIOUS
    <3> HIDE DEF r
    <3>2. CASE o.fn = "blksize" BY <3>1, <3>2, AcceptsCases DEF Accepts, ValidBlocksize, r
    <3>3. CASE o.fn = "timeout" BY <3>1, <3>3, AcceptsCases DEF Accepts, r
    <3>4. CASE o.fn = "windowsize" BY <3>1, <3>4, AcceptsCases DEF Accepts, r
    <3> QED BY <1>9, <3>2, <3>3, <3>4
  <2> HIDE DEF e, n, k
  <2> QED BY <1>6, <2>1, <2>2, <2>3 DEF e
<1> QED BY <1>3, <1>4, <1>7, <1>8, <1>9, ArgumentsAssumption

AfterPut(c, opts, size) == [c EXCEPT !.opts = opts, !.unsized = c.unsized \/ size < 1]

LEMMA PutOk ==
    ASSUME NEW c, ClientOk(c), NEW size \in PutSizes, NEW opts,
           opts = PutOpts(c.opts, size), NEW e, e = AfterPut(c, opts, size)
    PROVE  /\ ClientOk(e) /\ e.opts = opts /\ e.pc = c.pc /\ e.mode = c.mode
           /\ e.retransmit = c.retransmit
           /\ "tsize" \in DOMAIN opts => opts["tsize"] = ToString(size)
<1> DEFINE us == c.unsized \/ size < 1
<1>1. /\ c.pc \in {"new", "ready", "refused"} /\ c.mode \in Modes
      /\ c.opts \in OptMaps(Decimals) /\ c.asked \in OptMaps(Numbers)
      /\ c.retransmit \in Int
  BY ClientParts
<1>2. AskedFor(c) /\ SizeKept(c) BY DEF ClientOk
<1>3. size \in Int /\ (size >= 1 => size \in Numbers) BY ArgumentsAssumption
<1>4. Fields(e, c.pc, opts, c.mode, c.retransmit, c.asked, us)
  BY ExceptFields DEF AfterPut
<1>5. us \in BOOLEAN OBVIOUS
<1>6. /\ e.opts = opts /\ e.pc = c.pc /\ e.mode = c.mode
      /\ e.retransmit = c.retransmit /\ e.asked = c.asked
  BY <1>4 DEF Fields
<1>7. e.unsized = us BY <1>4 DEF Fields
<1>8. ASSUME opts \in OptMaps(Decimals), AskedFor(e), SizeKept(e) PROVE ClientOk(e)
  <2> HIDE DEF us
  <2>1. e \in ClientType BY <1>1, <1>4, <1>5, <1>8, FieldsType
  <2> QED BY <1>8, <2>1 DEF ClientOk
<1>9. CASE "tsize" \notin DOMAIN c.opts
  <2>1. opts = c.opts BY <1>9 DEF PutOpts
  <2>2. AskedFor(e) BY <1>2, <1>6, <2>1 DEF AskedFor
  <2>3. SizeKept(e)
    <3>1. "tsize" \in DOMAIN c.asked => c.unsized BY <1>2, <1>9 DEF SizeKept
    <3>2. "tsize" \in DOMAIN c.asked => e.unsized BY <1>7, <3>1
    <3> QED BY <1>6, <1>9, <2>1, <3>2 DEF SizeKept
  <2> QED BY <1>1, <1>6, <1>8, <1>9, <2>1, <2>2, <2>3
<1>10. CASE "tsize" \in DOMAIN c.opts /\ size < 1
  <2>1. opts = Without(c.opts, "tsize") BY <1>10 DEF PutOpts
  <2>2. e.opts = Without(c.opts, "tsize") /\ e.asked = c.asked BY <1>6, <2>1
  <2>3. e.unsized BY <1>7, <1>10
  <2>4. e.opts \in OptMaps(Decimals) /\ AskedFor(e) /\ SizeKept(e)
    BY <2>2, <2>3, UnsetOk
  <2>5. IsWithout(opts, c.opts, "tsize") BY <1>1, <2>1, WithoutMap
  <2>6. "tsize" \notin DOMAIN opts BY <2>5 DEF IsWithout
  <2> QED BY <1>6, <1>8, <2>4, <2>6
<1>11. CASE "tsize" \in DOMAIN c.opts /\ ~(size < 1)
  <2>1. opts = With(c.opts, "tsize", ToString(size)) BY <1>11 DEF PutOpts
  <2>2. size \in Numbers /\ "tsize" \in KnownOpts BY <1>3, <1>11 DEF KnownOpts
  <2>3. ToString(size) \in Decimals BY <2>2, DecimalOf
  <2>4. opts \in OptMaps(Decimals) /\ IsWith(opts, c.opts, "tsize", ToString(size))
    BY <1>1, <2>1, <2>2, <2>3, WithMap
  <2>5. /\ DOMAIN opts = DOMAIN c.opts \cup {"tsize"} /\ opts["tsize"] = ToString(size)
        /\ \A n \in DOMAIN c.opts \ {"tsize"} : opts[n] = c.opts[n]
    BY <2>4 DEF IsWith
  <2>6. AskedFor(e)
    <3> SUFFICES ASSUME NEW m \in KnownOpts \ {"tsize"}
                 PROVE  /\ m \in DOMAIN opts <=> m \in DOMAIN c.asked
                        /\ m \in DOMAIN c.asked =>
                             /\ opts[m] = ToString(c.asked[m])
                             /\ Accepts([fn |-> m, arg |-> c.asked[m]])
      BY <1>6 DEF AskedFor
    <3>1. /\ m \in DOMAIN c.opts <=> m \in DOMAIN c.asked
          /\ m \in DOMAIN c.asked => /\ c.opts[m] = ToString(c.asked[m])
                                     /\ Accepts([fn |-> m, arg |-> c.asked[m]])
      BY <1>2 DEF AskedFor
    <3>2. /\ m \in DOMAIN opts <=> m \in DOMAIN c.opts
          /\ m \in DOMAIN c.opts => opts[m] = c.opts[m]
      BY <2>5
    <3> QED BY <3>1, <3>2
  <2>7. SizeKept(e)
    <3>1. "tsize" \in DOMAIN c.asked BY <1>2, <1>11 DEF SizeKept
    <3> QED BY <1>6, <2>5, <3>1 DEF SizeKept
  <2> QED BY <1>6, <1>8, <2>4, <2>5, <2>6, <2>7
<1> QED BY <1>9, <1>10, <1>11

\* A step that leaves a request and its Client alone.
LEMMA RequestKept ==
    ASSUME ClientInv, UNCHANGED << req, conn >>,
           Sent => clients'[req.client] = clients[req.client]
    PROVE  RequestInv' /\ OackNeverPanics'
<1>1. OackNeverPanics' BY DEF ClientInv, OackNeverPanics
<1>2. RequestInv' BY DEF ClientInv, RequestInv, Sent, NewConn
<1> QED BY <1>1, <1>2

\* One that sends a request.
LEMMA SendsOk ==
    ASSUME NEW c \in Clients, NEW op \in Requests, NEW u \in Urls, UrlValid(u),
           NEW size, NEW opts, Sends(c, op, u, size, opts),
           clients'[c].opts = opts, clients'[c].mode = clients[c].mode,
           clients'[c].retransmit = clients[c].retransmit, clients'[c].pc = "ready",
           op = "WRQ" /\ "tsize" \in DOMAIN opts => opts["tsize"] = ToString(size)
    PROVE  RequestInv' /\ OackNeverPanics'
<1>1. PICK order \in SetToSeqs(DOMAIN opts) :
        req' = [op |-> op, client |-> c, url |-> u, size |-> size,
                dg |-> WriteReq(op, UrlFile(u), clients[c].mode, opts, order)]
  BY DEF Sends
<1>2. conn' = NewConn(c) BY DEF Sends
<1>3. conn'.pc = "sent" BY <1>2 DEF NewConn
<1>4. /\ req'.op = op /\ req'.client = c /\ req'.url = u /\ req'.size = size
      /\ req'.dg = WriteReq(op, UrlFile(u), clients[c].mode, opts, order)
  BY <1>1
<1>5. NewConn(c)' = NewConn(c) BY DEF NewConn
<1>6. RequestInv' BY <1>2, <1>3, <1>4, <1>5 DEF RequestInv
<1>7. OackNeverPanics' BY <1>3 DEF OackNeverPanics
<1> QED BY <1>6, <1>7

\* A step that changes one Client into e.
LEMMA OneClient ==
    ASSUME ClientInv, NEW c \in Clients, NEW e, ClientOk(e),
           clients' = [clients EXCEPT ![c] = e]
    PROVE  /\ (clients \in [Clients -> ClientType])'
           /\ (\A d \in Clients : ClientOk(clients[d]))'
           /\ clients'[c] = e /\ \A d \in Clients \ {c} : clients'[d] = clients[d]
<1>1. clients \in [Clients -> ClientType] /\ \A d \in Clients : ClientOk(clients[d])
  BY DEF ClientInv
<1>2. e \in ClientType BY DEF ClientOk
<1>3. clients' \in [Clients -> ClientType] BY <1>1, <1>2
<1>4. clients'[c] = e /\ \A d \in Clients \ {c} : clients'[d] = clients[d] BY <1>1
<1>5. ASSUME NEW d \in Clients PROVE ClientOk(clients'[d])
  <2>1. CASE d = c BY <1>4, <2>1
  <2>2. CASE d # c BY <1>1, <1>4, <2>2
  <2> QED BY <2>1, <2>2
<1> QED BY <1>3, <1>4, <1>5

LEMMA RefuseOk ==
    ASSUME NEW c, ClientOk(c), NEW x \in {"ready", "refused"}
    PROVE  ClientOk([c EXCEPT !.pc = x])
<1> DEFINE e == [c EXCEPT !.pc = x]
<1>1. /\ c.mode \in Modes
      /\ c.opts \in OptMaps(Decimals) /\ c.asked \in OptMaps(Numbers)
      /\ c.retransmit \in Int /\ c.unsized \in BOOLEAN
  BY ClientParts
<1>2. AskedFor(c) /\ SizeKept(c) BY DEF ClientOk
<1> HIDE DEF e
<1>3. Fields(e, x, c.opts, c.mode, c.retransmit, c.asked, c.unsized)
  BY ExceptFields DEF e
<1>4. e \in ClientType BY <1>1, <1>3, FieldsType
<1>5. e.opts = c.opts /\ e.asked = c.asked /\ e.unsized = c.unsized
  BY <1>3 DEF Fields
<1> QED BY <1>2, <1>4, <1>5, SameMaps DEF ClientOk, e

LEMMA ApplyOptKeeps ==
    ASSUME ClientInv, NEW c \in Clients, NEW o \in ClientOpts, ApplyOpt(c, o)
    PROVE  ClientInv'
<1> DEFINE e == IF Accepts(o) THEN Applied(clients[c], o)
                ELSE [clients[c] EXCEPT !.pc = "refused"]
<1>1. /\ clients[c].pc = "new" /\ clients' = [clients EXCEPT ![c] = e]
      /\ UNCHANGED << req, conn >>
  BY DEF ApplyOpt
<1>2. ClientOk(clients[c]) BY DEF ClientInv
<1>3. ClientOk(e) BY <1>2, AppliedOk, RefuseOk
<1> HIDE DEF e
<1>4. /\ (clients \in [Clients -> ClientType])'
      /\ (\A d \in Clients : ClientOk(clients[d]))'
      /\ clients'[c] = e /\ \A d \in Clients \ {c} : clients'[d] = clients[d]
  BY <1>1, <1>3, OneClient
<1>5. Sent => req.client \in Clients /\ clients[req.client].pc = "ready"
  BY DEF ClientInv, RequestInv
<1>6. Sent => clients'[req.client] = clients[req.client] BY <1>1, <1>4, <1>5
<1>7. RequestInv' /\ OackNeverPanics' BY <1>1, <1>6, RequestKept
<1> QED BY <1>4, <1>7 DEF ClientInv

LEMMA NewClientKeeps ==
    ASSUME ClientInv, NEW c \in Clients, NewClientReturns(c)
    PROVE  ClientInv'
<1> DEFINE e == [clients[c] EXCEPT !.pc = "ready"]
<1>1. /\ clients[c].pc = "new" /\ clients' = [clients EXCEPT ![c] = e]
      /\ UNCHANGED << req, conn >>
  BY DEF NewClientReturns
<1>2. ClientOk(clients[c]) BY DEF ClientInv
<1>3. ClientOk(e) BY <1>2, RefuseOk
<1> HIDE DEF e
<1>4. /\ (clients \in [Clients -> ClientType])'
      /\ (\A d \in Clients : ClientOk(clients[d]))'
      /\ clients'[c] = e /\ \A d \in Clients \ {c} : clients'[d] = clients[d]
  BY <1>1, <1>3, OneClient
<1>5. Sent => req.client \in Clients /\ clients[req.client].pc = "ready"
  BY DEF ClientInv, RequestInv
<1>6. Sent => clients'[req.client] = clients[req.client] BY <1>1, <1>4, <1>5
<1>7. RequestInv' /\ OackNeverPanics' BY <1>1, <1>6, RequestKept
<1> QED BY <1>4, <1>7 DEF ClientInv

LEMMA GetKeeps ==
    ASSUME ClientInv, NEW c \in Clients, NEW u \in Urls, Get(c, u)
    PROVE  ClientInv'
<1>1. /\ clients[c].pc = "ready" /\ UrlValid(u) /\ clients' = clients
      /\ Sends(c, "RRQ", u, NoSize, clients[c].opts)
  BY DEF Get, MayRequest
<1>2. "RRQ" \in Requests /\ "RRQ" # "WRQ" BY DEF Requests
<1> DEFINE opts == clients[c].opts
           op == "RRQ"
           size == NoSize
<1>3. /\ clients'[c].opts = opts /\ clients'[c].mode = clients[c].mode
      /\ clients'[c].retransmit = clients[c].retransmit /\ clients'[c].pc = "ready"
      /\ Sends(c, op, u, size, opts) /\ op \in Requests /\ op # "WRQ"
  BY <1>1, <1>2
<1> HIDE DEF opts, op, size
<1>4. RequestInv' /\ OackNeverPanics' BY <1>1, <1>3, SendsOk
<1>5. (clients \in [Clients -> ClientType])' /\ (\A d \in Clients : ClientOk(clients[d]))'
  BY <1>1 DEF ClientInv
<1> QED BY <1>4, <1>5 DEF ClientInv

LEMMA PutKeeps ==
    ASSUME ClientInv, NEW c \in Clients, NEW u \in Urls, NEW size \in PutSizes,
           Put(c, u, size)
    PROVE  ClientInv'
<1> DEFINE opts == PutOpts(clients[c].opts, size)
           k == clients[c]
           e == AfterPut(k, opts, size)
           op == "WRQ"
<1>1. /\ k.pc = "ready" /\ UrlValid(u) /\ clients' = OwnMap(c, opts, size)
      /\ Sends(c, op, u, size, opts)
  BY DEF Put, MayRequest
<1>2. ClientOk(k) /\ clients \in [Clients -> ClientType] BY DEF ClientInv
<1>3. clients' = [clients EXCEPT ![c] = e] BY <1>1, <1>2 DEF OwnMap, AfterPut
<1>4. opts = PutOpts(k.opts, size) /\ e = AfterPut(k, opts, size) OBVIOUS
<1> HIDE DEF opts, k, e
<1>5. /\ ClientOk(e) /\ e.opts = opts /\ e.pc = k.pc /\ e.mode = k.mode
      /\ e.retransmit = k.retransmit
      /\ "tsize" \in DOMAIN opts => opts["tsize"] = ToString(size)
  BY <1>2, <1>4, PutOk
<1>6. /\ (clients \in [Clients -> ClientType])'
      /\ (\A d \in Clients : ClientOk(clients[d]))'
      /\ clients'[c] = e
  BY <1>3, <1>5, OneClient
<1>7. op \in Requests BY DEF Requests
<1>8. /\ clients'[c].opts = opts /\ clients'[c].mode = clients[c].mode
      /\ clients'[c].retransmit = clients[c].retransmit /\ clients'[c].pc = "ready"
  BY <1>1, <1>5, <1>6 DEF k
<1> HIDE DEF op
<1>9. RequestInv' /\ OackNeverPanics' BY <1>1, <1>5, <1>7, <1>8, SendsOk
<1> QED BY <1>6, <1>9 DEF ClientInv

LEMMA BadUrlKeeps ==
    ASSUME ClientInv, NEW c \in Clients, NEW u \in Urls, BadUrl(c, u)
    PROVE  ClientInv'
<1>1. conn' = [pc |-> "failed", err |-> "url"] /\ clients' = clients BY DEF BadUrl
<1>2. conn'.pc = "failed" BY <1>1
<1>3. RequestInv' /\ OackNeverPanics' BY <1>2 DEF RequestInv, Sent, OackNeverPanics
<1>4. (clients \in [Clients -> ClientType])' /\ (\A d \in Clients : ClientOk(clients[d]))'
  BY <1>1 DEF ClientInv
<1> QED BY <1>3, <1>4 DEF ClientInv

(* The answers. *)

\* What the server's ackOpts makes of the options of a Client.
LEMMA AckOptsAre ==
    ASSUME ClientInv, Sent
    PROVE  LET opts == clients[req.client].opts
           IN  /\ AckOpts \in OptMaps(Decimals) /\ InRange(AckOpts)
               /\ \A o : o \in DOMAIN AckOpts <=>
                           o \in DOMAIN opts /\ (o = "tsize" => req.op = "RRQ")
               /\ \A o \in DOMAIN AckOpts :
                    AckOpts[o] = IF o = "tsize" THEN ToString(FileSize) ELSE opts[o]
<1> DEFINE opts == clients[req.client].opts
           d == req.dg
           S == {o \in DOMAIN opts : o = "tsize" => req.op = "RRQ"}
<1>1. Reads(d, opts) BY SentRead
<1>2. ClientOk(clients[req.client]) BY DEF ClientInv, RequestInv
<1>3. opts \in OptMaps(Decimals) /\ DOMAIN opts \subseteq KnownOpts /\ InRange(opts)
  BY <1>2, OptsOfClient
<1>4. Given(Options(d)) = DOMAIN opts BY <1>1, <1>3, GivenRead
<1>5. AckOpts = [o \in {n \in Given(Options(d)) : n = "tsize" => req.op = "RRQ"} |->
                   IF o = "tsize" THEN ToString(FileSize) ELSE Options(d)[<< o >>][1]]
  BY DEF AckOpts
<1> HIDE DEF opts, d
<1>6. \A o \in DOMAIN opts : Options(d)[<< o >>][1] = opts[o]
  <2>1. \A o \in DOMAIN opts : Options(d)[<< o >>] = << opts[o] >> BY <1>1 DEF Reads
  <2>2. \A v : << v >>[1] = v OBVIOUS
  <2> QED BY <2>1, <2>2
<1>7. AckOpts = [o \in S |-> IF o = "tsize" THEN ToString(FileSize) ELSE opts[o]]
  <2>1. S = {n \in Given(Options(d)) : n = "tsize" => req.op = "RRQ"} BY <1>4
  <2>2. S \subseteq DOMAIN opts OBVIOUS
  <2> HIDE DEF S
  <2>3. AckOpts = [o \in S |-> IF o = "tsize" THEN ToString(FileSize)
                               ELSE Options(d)[<< o >>][1]]
    BY <1>5, <2>1
  <2> QED BY <1>6, <2>2, <2>3
<1>8. /\ \A o : o \in S <=> o \in DOMAIN opts /\ (o = "tsize" => req.op = "RRQ")
      /\ S \in SUBSET KnownOpts
  BY <1>3
<1>9. S \subseteq DOMAIN opts OBVIOUS
<1> HIDE DEF S
<1>10. FileSize \in Numbers /\ FileSize <= Limit("tsize") BY NumbersAssumption
<1>11. AckOpts \in OptMaps(Decimals)
  <2>1. ToString(FileSize) \in Decimals BY <1>10, DecimalOf
  <2>2. \A o \in DOMAIN opts : opts[o] \in Decimals BY <1>3, MapParts
  <2>3. AckOpts \in [S -> Decimals] BY <1>7, <1>9, <2>1, <2>2
  <2> QED BY <1>8, <2>3, MapFrom
<1>12. InRange(AckOpts)
  <2> SUFFICES ASSUME NEW o \in S
               PROVE  \E n \in Numbers : n <= Limit(o) /\ AckOpts[o] = ToString(n)
    BY <1>7 DEF InRange
  <2>1. CASE o = "tsize" BY <1>7, <1>10, <2>1
  <2>2. CASE o # "tsize"
    <3>1. AckOpts[o] = opts[o] BY <1>7, <2>2
    <3> QED BY <1>3, <1>9, <3>1 DEF InRange
  <2> QED BY <2>1, <2>2
<1>13. DOMAIN AckOpts = S
       /\ \A o \in S : AckOpts[o] = IF o = "tsize" THEN ToString(FileSize) ELSE opts[o]
  BY <1>7
<1> QED BY <1>8, <1>11, <1>12, <1>13 DEF opts

\* What a client reads out of an answer that is not an ERROR.
Granted(d) ==
    /\ Valid(d) /\ Welcome(d) /\ ~OptionsPanic(d) /\ Parses(Options(d))
    /\ Given(Options(d)) = DOMAIN AckOpts
    /\ \A o \in DOMAIN AckOpts : Options(d)[<< o >>] = << AckOpts[o] >>

LEMMA AnswerRead ==
    ASSUME ClientInv, Sent, NEW d \in Answers
    PROVE  (d.op = "ERROR" /\ Valid(d)) \/ Granted(d)
<1>1. CASE d = WriteError(<< "gone" >>) BY <1>1, PlainAnswers
<1>2. CASE d \in Grants /\ DOMAIN AckOpts # {}
  <2>1. AckOpts \in OptMaps(Decimals) /\ InRange(AckOpts) BY AckOptsAre
  <2> DEFINE opts == AckOpts
  <2>2. opts \in OptMaps(Decimals) /\ InRange(opts) /\ DOMAIN opts # {} BY <1>2, <2>1
  <2>3. PICK order \in SetToSeqs(DOMAIN opts) : d = WriteOptionAck(opts, order)
    BY <1>2 DEF Grants
  <2> HIDE DEF opts
  <2>4. DOMAIN opts \subseteq KnownOpts /\ Writable(opts)
    BY <2>2, MapParts, MapWritable
  <2>5. d.op = "OACK" /\ Valid(d) /\ ~OptionsPanic(d) /\ Reads(d, opts)
    BY <2>2, <2>3, <2>4, OackRead
  <2>6. Welcome(d) BY <2>5 DEF Welcome
  <2>7. Given(Options(d)) = DOMAIN opts BY <2>4, <2>5, GivenRead
  <2>8. Parses(Options(d)) BY <2>2, <2>4, <2>5, ParsesRead
  <2>9. \A o \in DOMAIN opts : Options(d)[<< o >>] = << opts[o] >> BY <2>5 DEF Reads
  <2> QED BY <2>5, <2>6, <2>7, <2>8, <2>9 DEF Granted, opts
<1>3. CASE d \in Grants /\ DOMAIN AckOpts = {}
  <2>1. d = IF req.op = "WRQ" THEN WriteAck0 ELSE WriteData1(<< "text" >>)
    BY <1>3 DEF Grants
  <2>2. /\ d.op = IF req.op = "WRQ" THEN "ACK" ELSE "DATA"
        /\ Valid(d) /\ ~OptionsPanic(d) /\ Given(Options(d)) = {}
    BY <2>1, PlainAnswers
  <2>3. Welcome(d) BY <2>2 DEF Welcome
  <2>4. Parses(Options(d)) BY <2>2 DEF Parses
  <2> QED BY <1>3, <2>2, <2>3, <2>4 DEF Granted
<1> QED BY <1>1, <1>2, <1>3 DEF Answers

LEMMA ReceivesKeeps ==
    ASSUME ClientInv, NEW d, Receives(d), Valid(d) /\ d.op = "OACK" => ~OptionsPanic(d)
    PROVE  ClientInv'
<1>1. Sent /\ clients' = clients BY DEF Receives, Sent
<1>2. conn = NewConn(req.client) BY <1>1 DEF ClientInv, RequestInv
<1>3. {"pc", "err"} \subseteq DOMAIN conn BY <1>2 DEF NewConn
<1>4. conn'.pc # "sent" /\ (conn'.pc = "panicked" => conn'.err # "OACK")
  <2>1. CASE Valid(d) /\ Welcome(d) /\ OptionsPanic(d)
    <3>1. conn' = [conn EXCEPT !.pc = "panicked", !.err = d.op]
      BY <2>1 DEF Receives, Response
    <3>2. conn'.pc = "panicked" /\ conn'.err = d.op BY <1>2, <3>1 DEF NewConn
    <3> QED BY <2>1, <3>2
  <2>2. CASE Valid(d) /\ Welcome(d) /\ ~OptionsPanic(d) /\ Parses(Options(d))
    <3> DEFINE p == Parsed(conn, Options(d), req.op = "WRQ")
    <3>1. conn' = [p EXCEPT !.pc = "granted"] BY <2>2 DEF Receives, Response
    <3>2. "pc" \in DOMAIN p BY <1>3 DEF Parsed
    <3> HIDE DEF p
    <3>3. conn'.pc = "granted" BY <3>1, <3>2
    <3> QED BY <3>3
  <2>3. CASE ~(Valid(d) /\ Welcome(d) /\ (OptionsPanic(d) \/ Parses(Options(d))))
    <3> DEFINE e == CASE ~Valid(d)      -> "invalid"
                      [] Welcome(d)     -> "option"
                      [] d.op = "ERROR" -> "remote"
                      [] OTHER          -> "unexpected"
    <3>1. conn' = [conn EXCEPT !.pc = "failed", !.err = e] BY <2>3 DEF Receives, Response
    <3> HIDE DEF e
    <3>2. conn'.pc = "failed" BY <1>2, <3>1 DEF NewConn
    <3> QED BY <3>2
  <2> QED BY <2>1, <2>2, <2>3
<1>5. RequestInv' BY <1>4 DEF RequestInv, Sent
<1>6. OackNeverPanics' BY <1>4 DEF OackNeverPanics
<1>7. (clients \in [Clients -> ClientType])' /\ (\A c \in Clients : ClientOk(clients[c]))'
  BY <1>1 DEF ClientInv
<1> QED BY <1>5, <1>6, <1>7 DEF ClientInv

LEMMA AnswersKeep ==
    ASSUME ClientInv, ServerAnswers \/ OtherAnswers
    PROVE  ClientInv'
<1>1. CASE ServerAnswers
  <2>1. PICK d \in Answers : Receives(d) BY <1>1 DEF ServerAnswers
  <2>2. Sent BY <1>1 DEF ServerAnswers, Sent
  <2>3. (d.op = "ERROR" /\ Valid(d)) \/ Granted(d) BY <2>2, AnswerRead
  <2>4. Valid(d) /\ d.op = "OACK" => ~OptionsPanic(d) BY <2>3 DEF Granted
  <2> QED BY <2>1, <2>4, ReceivesKeeps
<1>2. CASE OtherAnswers
  <2>1. PICK d \in Replies : Receives(d) BY <1>2 DEF OtherAnswers
  <2>2. d.body \in Seq(STRING) BY ArgumentsAssumption
  <2>3. Valid(d) /\ d.op = "OACK" => ~OptionsPanic(d) BY <2>2, OackPairs
  <2> QED BY <2>1, <2>3, ReceivesKeeps
<1> QED BY <1>1, <1>2

-----------------------------------------------------------------------------
(* Theorems. *)

LEMMA StepKeeps == ClientInv /\ [Next]_vars => ClientInv'
<1> SUFFICES ASSUME ClientInv, [Next]_vars PROVE ClientInv' OBVIOUS
<1>1. CASE UNCHANGED vars
  <2>1. UNCHANGED << req, conn >> /\ clients' = clients BY <1>1 DEF vars
  <2>2. RequestInv' /\ OackNeverPanics' BY <2>1, RequestKept
  <2>3. (clients \in [Clients -> ClientType])'
        /\ (\A c \in Clients : ClientOk(clients[c]))'
    BY <2>1 DEF ClientInv
  <2> QED BY <2>2, <2>3 DEF ClientInv
<1>2. ASSUME NEW c \in Clients, NEW o \in ClientOpts, ApplyOpt(c, o) PROVE ClientInv'
  BY <1>2, ApplyOptKeeps
<1>3. ASSUME NEW c \in Clients, NewClientReturns(c) PROVE ClientInv'
  BY <1>3, NewClientKeeps
<1>4. ASSUME NEW c \in Clients, NEW u \in Urls, Get(c, u) PROVE ClientInv'
  BY <1>4, GetKeeps
<1>5. ASSUME NEW c \in Clients, NEW u \in Urls, BadUrl(c, u) PROVE ClientInv'
  BY <1>5, BadUrlKeeps
<1>6. ASSUME NEW c \in Clients, NEW u \in Urls, NEW size \in PutSizes, Put(c, u, size)
      PROVE  ClientInv'
  BY <1>6, PutKeeps
<1>7. CASE ServerAnswers \/ OtherAnswers BY <1>7, AnswersKeep
<1> QED BY <1>1, <1>2, <1>3, <1>4, <1>5, <1>6, <1>7 DEF Next

\* ClientInv is an invariant: the map of a Client always holds what its
\* ClientOpts have asked for, but for the size, and the datagram of a request
\* is made of that map.
THEOREM ClientInvariance == Spec => []ClientInv
<1>1. Init => ClientInv BY InitOk
<1>2. ClientInv /\ [Next]_vars => ClientInv' BY StepKeeps
<1> QED BY <1>1, <1>2, PTL DEF Spec

\* The server understands every request of any Client: validate accepts it and
\* does not panic, nor does options(), and the server finds in it the file, the
\* mode and the numbers asked for, whichever options were set and in whatever
\* order they were written.
THEOREM RequestsAreUnderstood == Spec => []RequestUnderstood
<1>1. ClientInv => RequestUnderstood
  <2> SUFFICES ASSUME ClientInv, Sent
               PROVE  /\ ~ValidatePanics(req.dg) /\ Valid(req.dg)
                      /\ ~OptionsPanic(req.dg)
                      /\ Filename(req.dg) = UrlFile(req.url)
                      /\ Mode(req.dg) = << clients[req.client].mode >>
                      /\ Parses(Options(req.dg))
                      /\ ServerConn.blksize = Asked("blksize", 512)
                      /\ ServerConn.windowsize = Asked("windowsize", 1)
                      /\ ServerConn.timeout = Asked("timeout", 1)
    BY DEF RequestUnderstood
  <2> DEFINE opts == clients[req.client].opts
             d == req.dg
  <2>1. /\ ~ValidatePanics(d) /\ Valid(d) /\ ~OptionsPanic(d)
        /\ Filename(d) = UrlFile(req.url)
        /\ Mode(d) = << clients[req.client].mode >> /\ Reads(d, opts)
    BY SentRead
  <2>2. ClientOk(clients[req.client]) BY DEF ClientInv, RequestInv
  <2>3. DOMAIN opts \subseteq KnownOpts /\ InRange(opts) BY <2>2, OptsOfClient
  <2> HIDE DEF opts, d
  <2>4. Parses(Options(d)) BY <2>1, <2>3, ParsesRead
  <2>5. \A f \in {"blksize", "windowsize", "timeout"} :
          ServerConn[f] = Asked(f, NewConn(req.client)[f])
    BY ServerReads
  <2>6. /\ NewConn(req.client)["blksize"] = 512
        /\ NewConn(req.client)["windowsize"] = 1
        /\ NewConn(req.client)["timeout"] = 1
    BY DEF NewConn
  <2>7. ServerConn.blksize = Asked("blksize", 512) BY <2>5, <2>6
  <2>8. ServerConn.windowsize = Asked("windowsize", 1) BY <2>5, <2>6
  <2>9. ServerConn.timeout = Asked("timeout", 1) BY <2>5, <2>6
  <2> QED BY <2>1, <2>4, <2>7, <2>8, <2>9 DEF d
<1> QED BY <1>1, ClientInvariance, PTL

\* The block size of any request leaves room for the header in the uint16 of
\* readSetup, and its window and its timeout are not 0.
THEOREM RequestsFitBuffers == Spec => []BuffersFit
<1>1. ClientInv => BuffersFit
  <2> SUFFICES ASSUME ClientInv, Sent
               PROVE  /\ (ServerConn.blksize + 4) % 65536 = ServerConn.blksize + 4
                      /\ ServerConn.windowsize >= 1 /\ ServerConn.timeout >= 1
    BY DEF BuffersFit
  <2>1. \A f \in {"blksize", "windowsize", "timeout"} :
          ServerConn[f] \in Int /\ 1 <= ServerConn[f]
    BY ServerReads
  <2>2. ServerConn.blksize + 4 < 65536 BY ServerReads
  <2> DEFINE b == ServerConn.blksize
  <2>3. b \in Int /\ 1 <= b /\ b + 4 < 65536 BY <2>1, <2>2
  <2> HIDE DEF b
  <2>4. (b + 4) % 65536 = b + 4 BY <2>3
  <2>5. ServerConn.windowsize >= 1 /\ ServerConn.timeout >= 1 BY <2>1
  <2> QED BY <2>4, <2>5 DEF b
<1> QED BY <1>1, ClientInvariance, PTL

LEMMA TsizeRead ==
    ASSUME ClientInv, Sent
    PROVE  LET opts == clients[req.client].opts
           IN  /\ HasTsize <=> "tsize" \in DOMAIN opts
               /\ HasTsize => Options(req.dg)[<< "tsize" >>] = << opts["tsize"] >>
<1> DEFINE opts == clients[req.client].opts
           d == req.dg
<1>1. Reads(d, opts) BY SentRead
<1>2. ClientOk(clients[req.client]) BY DEF ClientInv, RequestInv
<1>3. DOMAIN opts \subseteq KnownOpts BY <1>2, OptsOfClient
<1> HIDE DEF opts, d
<1>4. Given(Options(d)) = DOMAIN opts BY <1>1, <1>3, GivenRead
<1>5. HasTsize <=> "tsize" \in Given(Options(d)) BY DEF HasTsize, Given, KnownOpts, d
<1>6. "tsize" \in DOMAIN opts => Options(d)[<< "tsize" >>] = << opts["tsize"] >>
  BY <1>1 DEF Reads
<1> QED BY <1>4, <1>5, <1>6 DEF opts, d

\* A Put never tells the size of another one, however many came before it.
THEOREM PutsTellTheirSize == Spec => []PutTellsItsSize
<1>1. ClientInv => PutTellsItsSize
  <2> SUFFICES ASSUME ClientInv, Sent, req.op = "WRQ", HasTsize
               PROVE  Options(req.dg)[<< "tsize" >>] = << ToString(req.size) >>
    BY DEF PutTellsItsSize
  <2>1. /\ "tsize" \in DOMAIN clients[req.client].opts
        /\ Options(req.dg)[<< "tsize" >>] = << clients[req.client].opts["tsize"] >>
    BY TsizeRead
  <2>2. clients[req.client].opts["tsize"] = ToString(req.size)
    BY <2>1 DEF ClientInv, RequestInv
  <2> QED BY <2>1, <2>2
<1> QED BY <1>1, ClientInvariance, PTL

\* A Get asks for the size when its Client is configured so, unless a Put of
\* this same Client has deleted the option.
THEOREM GetsAskForSize == Spec => []GetAsksForSize
<1>1. ClientInv => GetAsksForSize
  <2> SUFFICES ASSUME ClientInv, Sent, ~clients[req.client].unsized
               PROVE  HasTsize = ("tsize" \in DOMAIN clients[req.client].asked)
    BY DEF GetAsksForSize
  <2>1. HasTsize <=> "tsize" \in DOMAIN clients[req.client].opts BY TsizeRead
  <2>2. SizeKept(clients[req.client]) BY DEF ClientInv, RequestInv, ClientOk
  <2>3. "tsize" \in DOMAIN clients[req.client].opts <=>
          "tsize" \in DOMAIN clients[req.client].asked
    BY <2>2 DEF SizeKept
  <2>4. HasTsize \in BOOLEAN BY DEF HasTsize
  <2> QED BY <2>1, <2>3, <2>4
<1> QED BY <1>1, ClientInvariance, PTL

\* Whatever the bytes of an OACK, if validate accepts it options() does not
\* panic.
THEOREM OacksNeverPanic == Spec => []OackNeverPanics
<1>1. ClientInv => OackNeverPanics BY DEF ClientInv
<1> QED BY <1>1, ClientInvariance, PTL

\* The conn of a client that reads a granting answer.
LEMMA GrantedConn ==
    ASSUME ClientInv, Sent, NEW d, Granted(d)
    PROVE  /\ Response(d).pc = "granted"
           /\ \A f \in {"blksize", "windowsize", "timeout"} :
                Response(d)[f] = IF f \in DOMAIN AckOpts THEN Number(<< AckOpts[f] >>)
                           ELSE NewConn(req.client)[f]
           /\ req.op = "RRQ" =>
                Response(d).tsize = IF "tsize" \in DOMAIN AckOpts
                              THEN Number(<< AckOpts["tsize"] >>) ELSE NoSize
<1> DEFINE k == NewConn(req.client)
           o == Options(d)
           isSender == req.op = "WRQ"
           p == Parsed(conn, o, isSender)
<1>1. conn = k BY DEF ClientInv, RequestInv
<1>2. Response(d) = [p EXCEPT !.pc = "granted"] BY DEF Granted, Response
<1>3. p = [f \in DOMAIN conn |->
             IF f \in Given(o) /\ ~(f = "tsize" /\ TellsSize(conn, isSender))
             THEN Number(o[<< f >>]) ELSE conn[f]]
  BY DEF Parsed
<1>4. /\ "pc" \in DOMAIN k /\ "tsize" \in DOMAIN k /\ k["tsize"] = NoSize
      /\ {"blksize", "windowsize", "timeout"} \subseteq DOMAIN k
  BY DEF NewConn
<1>5. req.op = "RRQ" => ~TellsSize(conn, isSender) BY DEF TellsSize
<1>6. /\ Given(o) = DOMAIN AckOpts
      /\ \A f \in DOMAIN AckOpts : o[<< f >>] = << AckOpts[f] >>
  BY DEF Granted
<1> HIDE DEF k, o, isSender, p
<1>7. DOMAIN p = DOMAIN k BY <1>1, <1>3
<1>8. Response(d).pc = "granted" BY <1>2, <1>4, <1>7
<1>9. \A f \in DOMAIN k : f # "pc" => Response(d)[f] = p[f] BY <1>2, <1>7
<1>10. ASSUME NEW f \in {"blksize", "windowsize", "timeout"}
       PROVE  Response(d)[f] = IF f \in DOMAIN AckOpts THEN Number(<< AckOpts[f] >>)
                         ELSE k[f]
  <2>1. f \in DOMAIN k /\ f # "pc" /\ f # "tsize" BY <1>4
  <2>2. Response(d)[f] = p[f] BY <1>9, <2>1
  <2>3. p[f] = IF f \in Given(o) THEN Number(o[<< f >>]) ELSE k[f]
    BY <1>1, <1>3, <2>1
  <2> QED BY <1>6, <2>2, <2>3
<1>11. ASSUME req.op = "RRQ"
       PROVE  Response(d).tsize = IF "tsize" \in DOMAIN AckOpts
                            THEN Number(<< AckOpts["tsize"] >>) ELSE NoSize
  <2>1. Response(d)["tsize"] = p["tsize"] BY <1>4, <1>9
  <2>2. p["tsize"] = IF "tsize" \in Given(o) THEN Number(o[<< "tsize" >>])
                     ELSE k["tsize"]
    BY <1>1, <1>3, <1>4, <1>5, <1>11
  <2> QED BY <1>4, <1>6, <2>1, <2>2
<1> QED BY <1>8, <1>10, <1>11 DEF k

\* A client that gets what this package's server grants works with the same
\* numbers as the server does.
THEOREM AnswersAreUnderstood == Spec => []AnswerUnderstood
<1>1. ASSUME ClientInv PROVE AnswerUnderstood
  <2> SUFFICES ASSUME Sent, NEW d \in Grants
               PROVE  /\ Response(d).pc = "granted"
                      /\ \A f \in {"blksize", "windowsize", "timeout"} :
                           Response(d)[f] = ServerConn[f]
                      /\ req.op = "RRQ" =>
                           Response(d).tsize = IF HasTsize THEN FileSize ELSE NoSize
    BY DEF AnswerUnderstood
  <2> DEFINE opts == clients[req.client].opts
  <2>1. Granted(d)
    <3>1. d.op # "ERROR"
      BY DEF Grants, WriteOptionAck, WriteAck0, WriteData1, Datagram
    <3>2. d \in Answers BY DEF Answers
    <3> QED BY <1>1, <3>1, <3>2, AnswerRead
  <2>2. /\ Response(d).pc = "granted"
        /\ \A f \in {"blksize", "windowsize", "timeout"} :
             Response(d)[f] = IF f \in DOMAIN AckOpts THEN Number(<< AckOpts[f] >>)
                              ELSE NewConn(req.client)[f]
        /\ req.op = "RRQ" =>
             Response(d).tsize = IF "tsize" \in DOMAIN AckOpts
                                 THEN Number(<< AckOpts["tsize"] >>) ELSE NoSize
    BY <1>1, <2>1, GrantedConn
  <2>3. /\ \A o : o \in DOMAIN AckOpts <=>
                    o \in DOMAIN opts /\ (o = "tsize" => req.op = "RRQ")
        /\ \A o \in DOMAIN AckOpts :
             AckOpts[o] = IF o = "tsize" THEN ToString(FileSize) ELSE opts[o]
    BY <1>1, AckOptsAre
  <2>4. \A f \in {"blksize", "windowsize", "timeout"} :
          ServerConn[f] = IF f \in DOMAIN opts THEN Number(<< opts[f] >>)
                          ELSE NewConn(req.client)[f]
    BY <1>1, ServerReads
  <2>5. HasTsize <=> "tsize" \in DOMAIN opts BY <1>1, TsizeRead
  <2> HIDE DEF opts
  <2>6. ASSUME NEW f \in {"blksize", "windowsize", "timeout"}
        PROVE  Response(d)[f] = ServerConn[f]
    <3>1. f # "tsize" OBVIOUS
    <3>2. f \in DOMAIN AckOpts <=> f \in DOMAIN opts BY <2>3, <3>1
    <3>3. f \in DOMAIN AckOpts => AckOpts[f] = opts[f] BY <2>3, <3>1
    <3> QED BY <2>2, <2>4, <3>2, <3>3
  <2>7. ASSUME req.op = "RRQ"
        PROVE  Response(d).tsize = IF HasTsize THEN FileSize ELSE NoSize
    <3>1. "tsize" \in DOMAIN AckOpts <=> "tsize" \in DOMAIN opts BY <2>3, <2>7
    <3>2. "tsize" \in DOMAIN AckOpts => AckOpts["tsize"] = ToString(FileSize)
      BY <2>3
    <3>3. FileSize \in Numbers BY NumbersAssumption
    <3>4. Number(<< ToString(FileSize) >>) = FileSize BY <3>3, DecimalOf
    <3> QED BY <2>2, <2>5, <2>7, <3>1, <3>2, <3>4
  <2> QED BY <2>2, <2>6, <2>7
<1>2. ClientInv => AnswerUnderstood BY <1>1
<1> QED BY <1>2, ClientInvariance, PTL
=============================================================================
