---------------------------- MODULE ChatRoomProofs ----------------------------
(***************************************************************************)
(* Proofs about ChatRoom, for any clients, lengths of lines, size of a     *)
(* Message and of the send buffer: every participant is written what it is *)
(* owed, and every client's lines reach the room in their order.           *)
(***************************************************************************)
EXTENDS ChatRoom, SubsequencesProofs, SequenceTheorems

-----------------------------------------------------------------------------
(* FlattenSeq                                                              *)

\* The recursion of FlattenSeq, and what is flat after i sequences.
Joined(s) ==
  LET flatten[i \in 1 .. Len(s)] ==
        IF i = 1 THEN s[i] ELSE flatten[i - 1] \o s[i]
  IN  flatten

Flat(s, i) == IF i = 0 THEN <<>> ELSE Joined(s)[i]

JoinTurn(f, s, i) == IF i = 1 THEN s[i] ELSE f[i - 1] \o s[i]

Joins(f, s, n) == \A i \in 1 .. n : f[i] = JoinTurn(f, s, i)

\* There is a function that obeys it.
LEMMA JoinedExists ==
  ASSUME NEW X, NEW s \in Seq(Seq(X))
  PROVE  \E f \in [1 .. Len(s) -> Seq(X)] : Joins(f, s, Len(s))
<1> DEFINE T == {n \in Nat : n <= Len(s) =>
                   \E f \in [1 .. n -> Seq(X)] : Joins(f, s, n)}
<1>1. 0 \in T
  <2>1. [i \in 1 .. 0 |-> <<>>] \in [1 .. 0 -> Seq(X)] /\ 1 .. 0 = {}
    OBVIOUS
  <2> QED
    BY <2>1 DEF Joins
<1>2. ASSUME NEW n \in T, n + 1 <= Len(s)
      PROVE  \E f \in [1 .. n + 1 -> Seq(X)] : Joins(f, s, n + 1)
  <2>1. PICK g \in [1 .. n -> Seq(X)] : Joins(g, s, n)
    BY <1>2
  <2>2. n \in Nat /\ n + 1 \in 1 .. Len(s) /\ s[n + 1] \in Seq(X) /\ (n + 1) - 1 = n
    BY <1>2
  <2> DEFINE f == [i \in 1 .. n + 1 |-> IF i = n + 1 THEN JoinTurn(g, s, n + 1)
                                        ELSE g[i]]
  <2>3. JoinTurn(g, s, n + 1) \in Seq(X)
    <3>1. n # 0 => g[n] \in Seq(X) /\ g[n] \o s[n + 1] \in Seq(X)
      BY <2>1, <2>2
    <3> QED
      BY <2>2, <3>1 DEF JoinTurn
  <2>4. f \in [1 .. n + 1 -> Seq(X)]
    BY <2>1, <2>2, <2>3
  <2>5. \A i \in 1 .. n + 1 : i # 1 => f[i - 1] = g[i - 1]
    BY <2>2
  <2>6. \A i \in 1 .. n + 1 : JoinTurn(f, s, i) = JoinTurn(g, s, i)
    BY <2>5 DEF JoinTurn
  <2>7. \A i \in 1 .. n + 1 : f[i] = JoinTurn(g, s, i)
    BY <2>1, <2>2 DEF Joins
  <2> HIDE DEF f
  <2>8. Joins(f, s, n + 1)
    BY <2>6, <2>7 DEF Joins
  <2> QED
    BY <2>4, <2>8
<1>3. \A n \in T : n + 1 \in T
  BY <1>2
<1>4. Nat \subseteq T
  <2> HIDE DEF T
  <2> QED
    BY <1>1, <1>3, InductionOnSet
<1> QED
  BY <1>4

\* What is flat after i sequences is what was flat before, and the i-th.
LEMMA FlatTurns ==
  ASSUME NEW X, NEW s \in Seq(Seq(X))
  PROVE  /\ Flat(s, 0) = <<>>
         /\ \A i \in 1 .. Len(s) : Flat(s, i) = Flat(s, i - 1) \o s[i]
         /\ \A i \in 0 .. Len(s) : Flat(s, i) \in Seq(X)
         /\ FlattenSeq(s) = Flat(s, Len(s))
<1>1. PICK f \in [1 .. Len(s) -> Seq(X)] :
        Joins(f, s, Len(s))
  BY JoinedExists
<1>2. f = [i \in 1 .. Len(s) |-> JoinTurn(f, s, i)]
  BY <1>1 DEF Joins
<1>3. Joined(s) = CHOOSE g : g = [i \in 1 .. Len(s) |-> JoinTurn(g, s, i)]
  BY Zenon DEF Joined, JoinTurn
<1>4. Joined(s) = [i \in 1 .. Len(s) |-> JoinTurn(Joined(s), s, i)]
  BY <1>2, <1>3
<1> DEFINE j == Joined(s)
<1>5. \A i \in 1 .. Len(s) : j[i] = IF i = 1 THEN s[i] ELSE j[i - 1] \o s[i]
  BY <1>4 DEF JoinTurn
<1> HIDE DEF j
<1> DEFINE T == {n \in Nat : n <= Len(s) /\ n # 0 => j[n] \in Seq(X)}
<1>6. \A n \in T : n + 1 \in T
  <2> SUFFICES ASSUME NEW n \in T, n + 1 <= Len(s) PROVE j[n + 1] \in Seq(X)
    OBVIOUS
  <2>1. n \in Nat /\ n + 1 \in 1 .. Len(s) /\ s[n + 1] \in Seq(X) /\ (n + 1) - 1 = n
    OBVIOUS
  <2>2. CASE n = 0
    BY <1>5, <2>1, <2>2
  <2>3. CASE n # 0
    <3>1. j[n] \in Seq(X) /\ n + 1 # 1
      BY <2>1, <2>3
    <3>2. j[n + 1] = j[n] \o s[n + 1]
      BY <1>5, <2>1, <3>1
    <3> QED
      BY <2>1, <3>1, <3>2
  <2> QED
    BY <2>2, <2>3
<1>7. Nat \subseteq T
  <2>1. 0 \in T
    OBVIOUS
  <2> HIDE DEF T
  <2> QED
    BY <1>6, <2>1, InductionOnSet
<1>8. \A i \in 1 .. Len(s) : j[i] \in Seq(X) /\ i # 0
  <2> SUFFICES ASSUME NEW i \in 1 .. Len(s) PROVE j[i] \in Seq(X) /\ i # 0
    OBVIOUS
  <2>1. i \in Nat /\ i <= Len(s) /\ i # 0
    OBVIOUS
  <2>2. i \in T
    BY <1>7, <2>1, Zenon
  <2> QED
    BY <2>1, <2>2
<1>9. \A i \in 1 .. Len(s) : Flat(s, i) = j[i]
  BY <1>8, Zenon DEF Flat, j
<1>10. Flat(s, 0) = <<>> /\ <<>> \in Seq(X)
  BY DEF Flat
<1>11. ASSUME NEW i \in 1 .. Len(s) PROVE Flat(s, i) = Flat(s, i - 1) \o s[i]
  <2>1. CASE i = 1
    <3>1. Flat(s, i - 1) = <<>> /\ s[i] \in Seq(X)
      BY <1>10, <2>1
    <3> QED
      BY <1>5, <1>9, <2>1, <3>1
  <2>2. CASE i # 1
    <3>1. i - 1 \in 1 .. Len(s)
      BY <2>2
    <3> QED
      BY <1>5, <1>9, <2>2, <3>1
  <2> QED
    BY <2>1, <2>2
<1>12. \A i \in 0 .. Len(s) : Flat(s, i) \in Seq(X)
  <2>1. \A i \in 0 .. Len(s) : i = 0 \/ i \in 1 .. Len(s)
    OBVIOUS
  <2> QED
    BY <1>8, <1>9, <1>10, <2>1
<1>13. FlattenSeq(s) = Flat(s, Len(s))
  <2>1. FlattenSeq(s) = IF Len(s) = 0 THEN s ELSE Joined(s)[Len(s)]
    BY Zenon DEF FlattenSeq, Joined
  <2>2. Len(s) = 0 => s = <<>>
    OBVIOUS
  <2> QED
    BY <2>1, <2>2 DEF Flat
<1> QED
  BY <1>10, <1>11, <1>12, <1>13

LEMMA FlattenTyped ==
  ASSUME NEW X, NEW s \in Seq(Seq(X)) PROVE FlattenSeq(s) \in Seq(X)
<1>1. Len(s) \in 0 .. Len(s)
  OBVIOUS
<1> QED
  BY <1>1, FlatTurns

LEMMA FlattenEmpty == FlattenSeq(<<>>) = <<>>
<1>1. <<>> \in Seq(Seq({})) /\ Len(<<>>) = 0
  OBVIOUS
<1> QED
  BY <1>1, FlatTurns

\* Two sequences are flat alike as far as they are alike.
LEMMA FlatAlike ==
  ASSUME NEW X, NEW s \in Seq(Seq(X)), NEW r \in Seq(Seq(X)), NEW k \in Nat,
         k <= Len(s), k <= Len(r), \A i \in 1 .. k : r[i] = s[i]
  PROVE  Flat(r, k) = Flat(s, k)
<1> DEFINE T == {n \in Nat : n <= k => Flat(r, n) = Flat(s, n)}
<1>1. 0 \in T
  BY DEF Flat
<1>2. ASSUME NEW n \in T PROVE n + 1 \in T
  <2>1. ASSUME n + 1 <= k PROVE Flat(r, n + 1) = Flat(s, n + 1)
    <3>1. /\ n + 1 \in 1 .. k /\ n + 1 \in 1 .. Len(s) /\ n + 1 \in 1 .. Len(r)
          /\ (n + 1) - 1 = n /\ Flat(r, n) = Flat(s, n)
      BY <2>1
    <3>2. /\ Flat(s, n + 1) = Flat(s, (n + 1) - 1) \o s[n + 1]
          /\ Flat(r, n + 1) = Flat(r, (n + 1) - 1) \o r[n + 1]
      BY <3>1, FlatTurns
    <3> QED
      BY <3>1, <3>2
  <2> QED
    BY <2>1
<1>3. Nat \subseteq T
  <2> HIDE DEF T
  <2> QED
    BY <1>1, <1>2, InductionOnSet
<1> QED
  BY <1>3

LEMMA FlattenAppend ==
  ASSUME NEW X, NEW s \in Seq(Seq(X)), NEW x \in Seq(X)
  PROVE  FlattenSeq(Append(s, x)) = FlattenSeq(s) \o x
<1> DEFINE r == Append(s, x)
<1>1. /\ r \in Seq(Seq(X)) /\ Len(s) \in Nat /\ Len(r) = Len(s) + 1
      /\ r[Len(s) + 1] = x /\ (Len(s) + 1) - 1 = Len(s) /\ Len(s) + 1 \in 1 .. Len(r)
      /\ \A i \in 1 .. Len(s) : r[i] = s[i]
  OBVIOUS
<1> HIDE DEF r
<1>2. Flat(r, Len(s)) = Flat(s, Len(s))
  <2>1. Len(s) <= Len(s) /\ Len(s) <= Len(r)
    BY <1>1
  <2> HIDE DEF r
  <2> QED
    BY <1>1, <2>1, FlatAlike
<1>3. Flat(r, Len(s) + 1) = Flat(r, (Len(s) + 1) - 1) \o r[Len(s) + 1]
  BY <1>1, FlatTurns
<1>4. FlattenSeq(r) = Flat(r, Len(r)) /\ FlattenSeq(s) = Flat(s, Len(s))
  BY <1>1, FlatTurns
<1> QED
  BY <1>1, <1>2, <1>3, <1>4 DEF r

LEMMA SumsAlike ==
  ASSUME NEW a \in Nat, NEW b \in Nat, NEW c \in Nat
  PROVE  (a + b) + c = a + (b + c)
OBVIOUS

\* The length without the first sequence.
LEMMA FlattenTail ==
  ASSUME NEW X, NEW s \in Seq(Seq(X)), s # <<>>
  PROVE  Len(FlattenSeq(s)) = Len(Head(s)) + Len(FlattenSeq(Tail(s)))
<1> DEFINE r == Tail(s)
           T == {n \in Nat : n <= Len(r) =>
                   Len(Flat(s, n + 1)) = Len(s[1]) + Len(Flat(r, n))}
<1>1. /\ r \in Seq(Seq(X)) /\ Len(r) \in Nat /\ Len(s) = Len(r) + 1 /\ Head(s) = s[1]
      /\ s[1] \in Seq(X) /\ 1 \in 1 .. Len(s)
      /\ \A i \in 1 .. Len(r) : r[i] = s[i + 1]
  OBVIOUS
<1> HIDE DEF r
<1>2. 0 \in T
  <2>1. Flat(s, 1) = Flat(s, 1 - 1) \o s[1] /\ Flat(s, 0) = <<>> /\ Flat(r, 0) = <<>>
    BY <1>1, FlatTurns
  <2> QED
    BY <1>1, <2>1
<1>3. ASSUME NEW n \in T PROVE n + 1 \in T
  <2>1. ASSUME n + 1 <= Len(r)
        PROVE  Len(Flat(s, (n + 1) + 1)) = Len(s[1]) + Len(Flat(r, n + 1))
    <3> DEFINE m == n + 1
               next == s[m + 1]
    <3>1. /\ n \in 0 .. Len(r) /\ m \in 1 .. Len(r) /\ m \in 0 .. Len(s)
          /\ m + 1 \in 1 .. Len(s) /\ m - 1 = n /\ (m + 1) - 1 = m
      BY <1>1, <2>1
    <3>2. Len(Flat(s, m)) = Len(s[1]) + Len(Flat(r, n))
      BY <3>1
    <3>3. r[m] = next /\ next \in Seq(X)
      BY <1>1, <3>1
    <3> HIDE DEF m, next
    <3>4. Flat(s, m + 1) = Flat(s, m) \o next /\ Flat(s, m) \in Seq(X)
      BY <3>1, FlatTurns DEF next
    <3>5. Flat(r, m) = Flat(r, n) \o next /\ Flat(r, n) \in Seq(X)
      BY <1>1, <3>1, <3>3, FlatTurns
    <3>6. Len(Flat(s, m + 1)) = Len(Flat(s, m)) + Len(next)
      BY <3>3, <3>4
    <3>7. Len(Flat(r, m)) = Len(Flat(r, n)) + Len(next)
      BY <3>3, <3>5
    <3>8. Len(Flat(r, n)) \in Nat /\ Len(s[1]) \in Nat /\ Len(next) \in Nat
      BY <1>1, <3>3, <3>5
    <3>9. Len(Flat(s, m + 1)) = Len(s[1]) + Len(Flat(r, m))
      <4>1. Len(Flat(s, m + 1)) = (Len(s[1]) + Len(Flat(r, n))) + Len(next)
        BY <3>2, <3>6
      <4>2. (Len(s[1]) + Len(Flat(r, n))) + Len(next) =
              Len(s[1]) + (Len(Flat(r, n)) + Len(next))
        BY <3>8, SumsAlike
      <4> QED
        BY <3>7, <4>1, <4>2
    <3> QED
      BY <3>9 DEF m
  <2>2. n + 1 \in Nat
    OBVIOUS
  <2> QED
    BY <2>1, <2>2
<1>4. Nat \subseteq T
  <2> HIDE DEF T
  <2> QED
    BY <1>2, <1>3, InductionOnSet
<1>5. Len(Flat(s, Len(s))) = Len(s[1]) + Len(Flat(r, Len(r)))
  BY <1>1, <1>4
<1>6. FlattenSeq(s) = Flat(s, Len(s)) /\ FlattenSeq(r) = Flat(r, Len(r))
  BY <1>1, FlatTurns
<1> QED
  BY <1>1, <1>5, <1>6 DEF r

-----------------------------------------------------------------------------
(* Sequences of lines                                                      *)

\* Nothing is left out of a sequence of elements of the set.
LEMMA KeepAll ==
  ASSUME NEW X, NEW s \in Seq(X), NEW S, \A i \in 1 .. Len(s) : s[i] \in S
  PROVE  Keep(s, S) = s
<1> DEFINE T == {n \in Nat : n <= Len(s) => Kept(s, S)[n] = SubSeq(s, 1, n)}
<1>1. 0 \in T
  <2>1. SubSeq(s, 1, 0) = <<>>
    OBVIOUS
  <2> QED
    BY <2>1, KeptTurns
<1>2. ASSUME NEW n \in T PROVE n + 1 \in T
  <2>1. ASSUME n + 1 <= Len(s) PROVE Kept(s, S)[n + 1] = SubSeq(s, 1, n + 1)
    <3>1. n + 1 \in 1 .. Len(s) /\ (n + 1) - 1 = n /\ Kept(s, S)[n] = SubSeq(s, 1, n)
      BY <2>1
    <3>2. Kept(s, S)[n + 1] = Append(Kept(s, S)[(n + 1) - 1], s[n + 1])
      BY <3>1, KeptTurns
    <3>3. Append(SubSeq(s, 1, n), s[n + 1]) = SubSeq(s, 1, n + 1)
      BY <3>1
    <3> QED
      BY <3>1, <3>2, <3>3
  <2> QED
    BY <2>1
<1>3. Nat \subseteq T
  <2> HIDE DEF T
  <2> QED
    BY <1>1, <1>2, InductionOnSet
<1>4. Len(s) \in Nat /\ SubSeq(s, 1, Len(s)) = s
  OBVIOUS
<1> QED
  BY <1>3, <1>4 DEF Keep

\* What comes after the first k elements, when there is one more.
LEMMA AfterAppend ==
  ASSUME NEW X, NEW s \in Seq(X), NEW x \in X, NEW k \in 0 .. Len(s)
  PROVE  SubSeq(Append(s, x), k + 1, Len(Append(s, x))) =
           Append(SubSeq(s, k + 1, Len(s)), x)
<1> DEFINE r == Append(s, x)
           a == SubSeq(r, k + 1, Len(r))
           b == Append(SubSeq(s, k + 1, Len(s)), x)
<1>1. /\ r \in Seq(X) /\ Len(r) = Len(s) + 1 /\ Len(s) \in Nat
      /\ r[Len(s) + 1] = x /\ \A i \in 1 .. Len(s) : r[i] = s[i]
  OBVIOUS
<1> HIDE DEF r
<1>2. /\ a \in Seq(X) /\ Len(a) = (Len(s) + 1) - k
      /\ \A i \in 1 .. Len(a) : a[i] = r[k + i]
  <2>1. a = [i \in 1 .. ((Len(s) + 1) - k) |-> r[k + i]]
    BY <1>1
  <2>2. \A i \in 1 .. ((Len(s) + 1) - k) : r[k + i] \in X
    BY <1>1
  <2> QED
    BY <1>1, <2>1, <2>2
<1>3. /\ b \in Seq(X) /\ Len(b) = (Len(s) - k) + 1
      /\ \A i \in 1 .. (Len(s) - k) : b[i] = s[k + i]
      /\ b[(Len(s) - k) + 1] = x
  <2> DEFINE c == SubSeq(s, k + 1, Len(s))
  <2>1. c \in Seq(X) /\ Len(c) = Len(s) - k /\ \A i \in 1 .. Len(c) : c[i] = s[k + i]
    BY <1>1
  <2> HIDE DEF c
  <2>2. Append(c, x) \in Seq(X)
    BY <2>1
  <2>3. Len(Append(c, x)) = Len(c) + 1 /\ Append(c, x)[Len(c) + 1] = x
    BY <2>1, AppendProperties
  <2>4. \A i \in 1 .. Len(c) : Append(c, x)[i] = c[i]
    BY <2>1
  <2> QED
    BY <2>1, <2>2, <2>3, <2>4 DEF c
<1> HIDE DEF a, b
<1>4. \A i \in 1 .. Len(a) : a[i] = b[i]
  <2> SUFFICES ASSUME NEW i \in 1 .. Len(a) PROVE a[i] = b[i]
    OBVIOUS
  <2>1. CASE i = (Len(s) - k) + 1
    BY <1>1, <1>2, <1>3, <2>1
  <2>2. CASE i # (Len(s) - k) + 1
    <3> DEFINE n == Len(s)
    <3>1. n \in Nat /\ k \in 0 .. n /\ i \in 1 .. ((n + 1) - k) /\ i # (n - k) + 1
      BY <1>1, <1>2, <2>2
    <3> HIDE DEF n
    <3>2. i \in 1 .. (n - k) /\ k + i \in 1 .. n
      BY <3>1
    <3> QED
      BY <1>1, <1>2, <1>3, <3>2 DEF n
  <2> QED
    BY <2>1, <2>2
<1>5. a = b
  <2>1. Len(a) = Len(b)
    BY <1>1, <1>2, <1>3
  <2> QED
    BY <1>2, <1>3, <1>4, <2>1, SeqEqual
<1> QED
  BY <1>5 DEF a, b, r

-----------------------------------------------------------------------------
(* What is owed, and the numbers of lines                                  *)

CarriedAll(ls) == [i \in DOMAIN ls |-> Carried(ls[i])]

HeardBy(c, ls, k) == Keep(SubSeq(ls, k + 1, Len(ls)), LinesOfOthers(c))

LEMMA CarriedTyped ==
  ASSUME NEW l \in Seq(Pieces) PROVE Carried(l) \in Seq(Pieces)
<1> DEFINE n == IF Len(l) > maxBytes THEN maxBytes ELSE Len(l)
<1>1. n \in 0 .. Len(l)
  BY RoomAssumption
<1> HIDE DEF n
<1>2. SubSeq(l, 1, n) \in Seq(Pieces)
  BY <1>1
<1> QED
  BY <1>2 DEF Carried, n

LEMMA CarriedAppend ==
  ASSUME NEW ls \in Seq(Seq(Pieces)), NEW l \in Seq(Pieces)
  PROVE  /\ CarriedAll(ls) \in Seq(Seq(Pieces))
         /\ CarriedAll(Append(ls, l)) = Append(CarriedAll(ls), Carried(l))
<1> DEFINE a == CarriedAll(Append(ls, l))
           b == Append(CarriedAll(ls), Carried(l))
<1>1. /\ Append(ls, l) \in Seq(Seq(Pieces)) /\ Len(Append(ls, l)) = Len(ls) + 1
      /\ Append(ls, l)[Len(ls) + 1] = l
      /\ \A i \in 1 .. Len(ls) : Append(ls, l)[i] = ls[i]
      /\ DOMAIN Append(ls, l) = 1 .. (Len(ls) + 1) /\ DOMAIN ls = 1 .. Len(ls)
      /\ Len(ls) \in Nat
  OBVIOUS
<1>2. \A m \in Seq(Pieces) : Carried(m) \in Seq(Pieces)
  BY CarriedTyped
<1>3. /\ CarriedAll(ls) \in Seq(Seq(Pieces)) /\ Len(CarriedAll(ls)) = Len(ls)
      /\ \A i \in 1 .. Len(ls) : CarriedAll(ls)[i] = Carried(ls[i])
  <2>1. CarriedAll(ls) = [i \in 1 .. Len(ls) |-> Carried(ls[i])]
    BY <1>1 DEF CarriedAll
  <2>2. \A i \in 1 .. Len(ls) : Carried(ls[i]) \in Seq(Pieces)
    BY <1>2
  <2> QED
    BY <1>1, <2>1, <2>2
<1>4. /\ a \in Seq(Seq(Pieces)) /\ Len(a) = Len(ls) + 1
      /\ \A i \in 1 .. Len(ls) : a[i] = Carried(ls[i])
      /\ a[Len(ls) + 1] = Carried(l)
  <2> DEFINE r == Append(ls, l)
  <2> HIDE DEF r
  <2>1. CarriedAll(r) = [i \in 1 .. (Len(ls) + 1) |-> Carried(r[i])]
    BY <1>1 DEF CarriedAll, r
  <2>2. \A i \in 1 .. (Len(ls) + 1) : Carried(r[i]) \in Seq(Pieces)
    BY <1>1, <1>2 DEF r
  <2>3. /\ CarriedAll(r) \in Seq(Seq(Pieces)) /\ Len(CarriedAll(r)) = Len(ls) + 1
        /\ \A i \in 1 .. (Len(ls) + 1) : CarriedAll(r)[i] = Carried(r[i])
    BY <1>1, <2>1, <2>2
  <2>4. Len(ls) + 1 \in 1 .. (Len(ls) + 1) /\ \A i \in 1 .. Len(ls) : i \in 1 .. (Len(ls) + 1)
    BY <1>1
  <2> QED
    BY <1>1, <2>3, <2>4 DEF r
<1>5. /\ b \in Seq(Seq(Pieces)) /\ Len(b) = Len(ls) + 1
      /\ \A i \in 1 .. Len(ls) : b[i] = Carried(ls[i])
      /\ b[Len(ls) + 1] = Carried(l)
  BY <1>2, <1>3, AppendProperties
<1> HIDE DEF a, b
<1>6. \A i \in 1 .. (Len(ls) + 1) : i = Len(ls) + 1 \/ i \in 1 .. Len(ls)
  BY <1>1
<1>7. \A i \in 1 .. (Len(ls) + 1) : a[i] = b[i]
  BY <1>4, <1>5, <1>6
<1>8. a = b
  BY <1>4, <1>5, <1>7, SeqEqual
<1> QED
  BY <1>3, <1>8 DEF a, b

\* One more line in the log: what a participant is owed that joined at k.
LEMMA OwedAppend ==
  ASSUME NEW c, NEW ls \in Seq(Seq(Pieces)), NEW l \in Seq(Pieces),
         NEW k \in 0 .. Len(ls)
  PROVE  LET was == FlattenSeq(CarriedAll(HeardBy(c, ls, k)))
             is == FlattenSeq(CarriedAll(HeardBy(c, Append(ls, l), k)))
         IN  /\ was \in Seq(Pieces)
             /\ l \in LinesOfOthers(c) => is = was \o Carried(l)
             /\ l \notin LinesOfOthers(c) => is = was
<1> DEFINE r == SubSeq(ls, k + 1, Len(ls))
           h == HeardBy(c, ls, k)
<1>1. r \in Seq(Seq(Pieces))
  OBVIOUS
<1>2. SubSeq(Append(ls, l), k + 1, Len(Append(ls, l))) = Append(r, l)
  BY AfterAppend
<1>3. HeardBy(c, Append(ls, l), k) = Keep(Append(r, l), LinesOfOthers(c))
  BY <1>2 DEF HeardBy
<1>4. h = Keep(r, LinesOfOthers(c))
  BY DEF HeardBy
<1> HIDE DEF r, h
<1>5. h \in Seq(Seq(Pieces))
  BY <1>1, <1>4, KeepElements
<1>6. CarriedAll(h) \in Seq(Seq(Pieces))
  BY <1>5, CarriedAppend
<1>7. FlattenSeq(CarriedAll(h)) \in Seq(Pieces)
  BY <1>6, FlattenTyped
<1>8. CASE l \in LinesOfOthers(c)
  <2>1. HeardBy(c, Append(ls, l), k) = Append(h, l)
    BY <1>1, <1>3, <1>4, <1>8, KeepAppend
  <2>2. CarriedAll(Append(h, l)) = Append(CarriedAll(h), Carried(l))
    BY <1>5, CarriedAppend
  <2>3. Carried(l) \in Seq(Pieces)
    BY CarriedTyped
  <2>4. FlattenSeq(Append(CarriedAll(h), Carried(l))) =
          FlattenSeq(CarriedAll(h)) \o Carried(l)
    BY <1>6, <2>3, FlattenAppend
  <2> QED
    BY <1>7, <1>8, <2>1, <2>2, <2>4 DEF h
<1>9. CASE l \notin LinesOfOthers(c)
  <2>1. HeardBy(c, Append(ls, l), k) = h
    BY <1>1, <1>3, <1>4, <1>9, KeepAppend
  <2> QED
    BY <1>7, <1>9, <2>1 DEF h
<1> QED
  BY <1>8, <1>9

\* Whoever joins now is owed nothing yet.
LEMMA NothingOwed ==
  ASSUME NEW c, NEW ls \in Seq(Seq(Pieces))
  PROVE  FlattenSeq(CarriedAll(HeardBy(c, ls, Len(ls)))) = <<>>
<1>1. SubSeq(ls, Len(ls) + 1, Len(ls)) = <<>>
  OBVIOUS
<1>2. HeardBy(c, ls, Len(ls)) = <<>>
  BY <1>1, KeepEmpty DEF HeardBy
<1>3. CarriedAll(<<>>) = <<>>
  BY DEF CarriedAll
<1> QED
  BY <1>2, <1>3, FlattenEmpty

\* The number of a line; a line without pieces has some number.
Numbers == Nat \cup {l[1].line : l \in Seq(Pieces)}

LEMMA NumbersAppend ==
  ASSUME NEW c, NEW ls \in Seq(Seq(Pieces)), NEW l \in Seq(Pieces)
  PROVE  /\ NumbersOf(c, ls) \in Seq(Numbers) /\ l[1].line \in Numbers
         /\ l \in LinesOf(c) =>
              NumbersOf(c, Append(ls, l)) = Append(NumbersOf(c, ls), l[1].line)
         /\ l \notin LinesOf(c) => NumbersOf(c, Append(ls, l)) = NumbersOf(c, ls)
<1> DEFINE N(h) == [i \in DOMAIN h |-> h[i][1].line]
<1>1. /\ \A h : NumbersOf(c, h) = N(Keep(h, LinesOf(c)))
      /\ l[1].line \in Numbers
  BY DEF NumbersOf, Numbers
<1>2. ASSUME NEW h \in Seq(Seq(Pieces))
      PROVE  /\ N(h) \in Seq(Numbers) /\ Len(N(h)) = Len(h)
             /\ \A i \in 1 .. Len(h) : N(h)[i] = h[i][1].line
  <2>1. N(h) = [i \in 1 .. Len(h) |-> h[i][1].line] /\ Len(h) \in Nat
    OBVIOUS
  <2>2. \A i \in 1 .. Len(h) : h[i][1].line \in Numbers
    BY DEF Numbers
  <2> HIDE DEF N
  <2> QED
    BY <2>1, <2>2
<1> DEFINE k == Keep(ls, LinesOf(c))
<1>3. k \in Seq(Seq(Pieces))
  BY KeepElements
<1> HIDE DEF N, k
<1>4. N(Append(k, l)) = Append(N(k), l[1].line)
  <2>1. /\ Append(k, l) \in Seq(Seq(Pieces)) /\ Len(Append(k, l)) = Len(k) + 1
        /\ Append(k, l)[Len(k) + 1] = l
        /\ \A i \in 1 .. Len(k) : Append(k, l)[i] = k[i]
    BY <1>3, AppendProperties
  <2>2. /\ N(Append(k, l)) \in Seq(Numbers) /\ Len(N(Append(k, l))) = Len(k) + 1
        /\ \A i \in 1 .. (Len(k) + 1) : N(Append(k, l))[i] = Append(k, l)[i][1].line
    BY <1>2, <2>1
  <2>3. /\ N(k) \in Seq(Numbers) /\ Len(N(k)) = Len(k)
        /\ \A i \in 1 .. Len(k) : N(k)[i] = k[i][1].line
    BY <1>2, <1>3
  <2>4. /\ Append(N(k), l[1].line) \in Seq(Numbers)
        /\ Len(Append(N(k), l[1].line)) = Len(k) + 1
        /\ Append(N(k), l[1].line)[Len(k) + 1] = l[1].line
        /\ \A i \in 1 .. Len(k) : Append(N(k), l[1].line)[i] = N(k)[i]
    BY <1>1, <2>3, AppendProperties
  <2>5. Len(k) \in Nat /\ \A i \in 1 .. (Len(k) + 1) : i = Len(k) + 1 \/ i \in 1 .. Len(k)
    BY <1>3
  <2>6. \A i \in 1 .. (Len(k) + 1) : N(Append(k, l))[i] = Append(N(k), l[1].line)[i]
    BY <2>1, <2>2, <2>3, <2>4, <2>5
  <2> QED
    BY <2>2, <2>4, <2>6, SeqEqual
<1>5. /\ l \in LinesOf(c) => Keep(Append(ls, l), LinesOf(c)) = Append(k, l)
      /\ l \notin LinesOf(c) => Keep(Append(ls, l), LinesOf(c)) = k
  BY KeepAppend DEF k
<1>6. N(k) \in Seq(Numbers)
  BY <1>2, <1>3
<1>7. NumbersOf(c, ls) = N(k) /\ NumbersOf(c, Append(ls, l)) = N(Keep(Append(ls, l), LinesOf(c)))
  BY <1>1 DEF k
<1> QED
  BY <1>1, <1>4, <1>5, <1>6, <1>7

-----------------------------------------------------------------------------
(* Writes of one socket                                                    *)

\* Every piece that was there is there, and those of the write.
LEMMA PerformRight ==
  ASSUME NEW s \in Writing, NEW bytes \in Seq(Bytes)
  PROVE  /\ Perform(s, bytes) \in Writing
         /\ Amount(Perform(s, bytes)) = Amount(s) + Len(bytes)
         /\ Idle(s) /\ Idle(Perform(s, bytes)) =>
              Perform(s, bytes).stream = s.stream \o bytes
<1> DEFINE k == IF Len(bytes) <= SendBuffer - s.unread THEN Len(bytes)
                ELSE SendBuffer - s.unread
           now == SubSeq(bytes, 1, k)
           rest == SubSeq(bytes, k + 1, Len(bytes))
           p == Perform(s, bytes)
<1>1. /\ s.stream \in Seq(Bytes) /\ s.unread \in 0 .. SendBuffer
      /\ s.ops \in Seq(Seq(Bytes)) /\ s.posted \in Seq(Seq(Bytes))
      /\ SendBuffer \in Nat
  BY RoomAssumption DEF Writing
<1>2. /\ k \in 0 .. Len(bytes) /\ s.unread + k \in 0 .. SendBuffer
      /\ Len(bytes) \in Nat
  BY <1>1
<1>3. p = [s EXCEPT !.stream = s.stream \o now,
                    !.unread = s.unread + k,
                    !.posted = IF rest = <<>> THEN s.posted ELSE Append(s.posted, rest)]
  BY DEF Perform
<1> HIDE DEF k, p
<1>4. /\ now \in Seq(Bytes) /\ Len(now) = k
      /\ rest \in Seq(Bytes) /\ Len(rest) = Len(bytes) - k
  BY <1>2, SubSeqProperties
<1>5. rest = <<>> => now = bytes
  <2> SUFFICES ASSUME rest = <<>> PROVE now = bytes
    OBVIOUS
  <2>1. SubSeq(bytes, 1, Len(bytes)) = bytes
    OBVIOUS
  <2> HIDE DEF rest
  <2>2. Len(rest) = 0
    OBVIOUS
  <2>3. k = Len(bytes)
    BY <1>2, <1>4, <2>2
  <2> QED
    BY <2>1, <2>3
<1> HIDE DEF now, rest
<1>6. s.stream \o now \in Seq(Bytes) /\ Append(s.posted, rest) \in Seq(Seq(Bytes))
  BY <1>1, <1>4
<1>7. /\ p.stream = s.stream \o now /\ p.ops = s.ops /\ p.unread = s.unread + k
      /\ p.posted = IF rest = <<>> THEN s.posted ELSE Append(s.posted, rest)
  BY <1>3 DEF Writing
<1>8. p \in Writing
  <2> DEFINE posted == IF rest = <<>> THEN s.posted ELSE Append(s.posted, rest)
             stream == s.stream \o now
             unread == s.unread + k
  <2>1. posted \in Seq(Seq(Bytes)) /\ stream \in Seq(Bytes) /\ unread \in 0 .. SendBuffer
    BY <1>1, <1>2, <1>6
  <2>2. p = [s EXCEPT !.stream = stream, !.unread = unread, !.posted = posted]
    BY <1>3
  <2> HIDE DEF posted, stream, unread
  <2> QED
    BY <2>1, <2>2 DEF Writing
<1>9. Amount(p) = Amount(s) + Len(bytes)
  <2> DEFINE a == Len(s.stream)
             b == Len(FlattenSeq(s.ops))
             d == Len(FlattenSeq(s.posted))
  <2>1. Len(p.stream) = a + k
    <3>1. Len(s.stream \o now) = Len(s.stream) + Len(now)
      BY <1>1, <1>4, ConcatProperties
    <3> QED
      BY <1>4, <1>7, <3>1
  <2>2. Len(FlattenSeq(p.posted)) = d + (Len(bytes) - k)
    <3>1. FlattenSeq(s.posted) \in Seq(Bytes)
      BY <1>1, FlattenTyped
    <3>2. CASE rest = <<>>
      <4>1. Len(bytes) - k = 0 /\ p.posted = s.posted
        BY <1>4, <1>7, <3>2
      <4> QED
        BY <3>1, <4>1
    <3>3. CASE rest # <<>>
      <4>1. p.posted = Append(s.posted, rest)
        BY <1>7, <3>3
      <4>2. FlattenSeq(p.posted) = FlattenSeq(s.posted) \o rest
        BY <1>1, <1>4, <4>1, FlattenAppend
      <4>3. Len(FlattenSeq(p.posted)) = d + Len(rest)
        BY <1>4, <3>1, <4>2, ConcatProperties
      <4> QED
        BY <1>4, <4>3
    <3> QED
      BY <3>2, <3>3
  <2>3. a \in Nat /\ b \in Nat /\ d \in Nat
    <3>1. FlattenSeq(s.posted) \in Seq(Bytes) /\ FlattenSeq(s.ops) \in Seq(Bytes)
      BY <1>1, FlattenTyped
    <3> QED
      BY <1>1, <3>1
  <2>4. /\ Amount(p) = Len(p.stream) + Len(FlattenSeq(p.ops)) + Len(FlattenSeq(p.posted))
        /\ Amount(s) = a + b + d
    BY DEF Amount
  <2>5. Len(FlattenSeq(p.ops)) = b
    BY <1>7
  <2> DEFINE n == Len(bytes)
  <2> HIDE DEF a, b, d, n
  <2>6. Amount(p) = (a + k) + b + (d + (n - k)) /\ Amount(s) = a + b + d
    BY <2>1, <2>2, <2>4, <2>5 DEF n
  <2>7. n \in Nat /\ k \in 0 .. n
    BY <1>2 DEF n
  <2>8. Amount(p) = Amount(s) + n
    BY <2>3, <2>6, <2>7
  <2> QED
    BY <2>8 DEF n
<1>10. ASSUME Idle(s), Idle(p) PROVE p.stream = s.stream \o bytes
  <2>1. rest = <<>>
    <3>1. ASSUME rest # <<>> PROVE FALSE
      <4>1. p.posted = Append(s.posted, rest) /\ p.posted = <<>>
        BY <1>7, <1>10, <3>1 DEF Idle
      <4>2. Len(Append(s.posted, rest)) = Len(s.posted) + 1 /\ Len(s.posted) \in Nat
        BY <1>1, <1>4, AppendProperties
      <4> QED
        BY <4>1, <4>2
    <3> QED
      BY <3>1
  <2> QED
    BY <1>5, <1>7, <2>1
<1> QED
  BY <1>8, <1>9, <1>10 DEF p

LEMMA StartRight ==
  ASSUME NEW s \in Writing, NEW bytes \in Seq(Bytes)
  PROVE  /\ Start(s, bytes) \in Writing
         /\ Amount(Start(s, bytes)) = Amount(s) + Len(bytes)
         /\ Idle(s) /\ Idle(Start(s, bytes)) =>
              Start(s, bytes).stream = s.stream \o bytes
<1>1. CASE s.ops = <<>> /\ s.unread < SendBuffer
  <2>1. Start(s, bytes) = Perform(s, bytes)
    BY <1>1 DEF Start
  <2> QED
    BY <2>1, PerformRight
<1>2. CASE ~ (s.ops = <<>> /\ s.unread < SendBuffer)
  <2> DEFINE ops == Append(s.ops, bytes)
             p == [s EXCEPT !.ops = ops]
  <2>1. Start(s, bytes) = p
    BY <1>2 DEF Start
  <2>2. s.stream \in Seq(Bytes) /\ s.ops \in Seq(Seq(Bytes)) /\ s.posted \in Seq(Seq(Bytes))
    BY DEF Writing
  <2>3. ops \in Seq(Seq(Bytes)) /\ Len(ops) = Len(s.ops) + 1 /\ Len(s.ops) \in Nat
    BY <2>2, AppendProperties
  <2>4. FlattenSeq(ops) = FlattenSeq(s.ops) \o bytes
    BY <2>2, FlattenAppend
  <2>5. Len(FlattenSeq(ops)) = Len(FlattenSeq(s.ops)) + Len(bytes)
    <3>1. FlattenSeq(s.ops) \in Seq(Bytes)
      BY <2>2, FlattenTyped
    <3> QED
      BY <2>4, <3>1
  <2> HIDE DEF ops
  <2>6. p \in Writing
    BY <2>3 DEF Writing
  <2>7. p.stream = s.stream /\ p.ops = ops /\ p.posted = s.posted
    BY DEF Writing
  <2> HIDE DEF p
  <2>8. ~ Idle(p)
    <3>1. ops # <<>>
      BY <2>3
    <3> QED
      BY <2>7, <3>1 DEF Idle
  <2>9. Amount(p) = Amount(s) + Len(bytes)
    <3> DEFINE a == Len(s.stream)
               b == Len(FlattenSeq(s.ops))
               d == Len(FlattenSeq(s.posted))
               n == Len(bytes)
    <3>1. Amount(p) = a + (b + n) + d /\ Amount(s) = a + b + d
      BY <2>5, <2>7 DEF Amount
    <3>2. a \in Nat /\ b \in Nat /\ d \in Nat /\ n \in Nat
      <4>1. FlattenSeq(s.posted) \in Seq(Bytes) /\ FlattenSeq(s.ops) \in Seq(Bytes)
        BY <2>2, FlattenTyped
      <4> QED
        BY <2>2, <4>1
    <3> HIDE DEF a, b, d, n
    <3>3. Amount(p) = Amount(s) + n
      BY <3>1, <3>2
    <3> QED
      BY <3>3 DEF n
  <2> QED
    BY <2>1, <2>6, <2>8, <2>9
<1> QED
  BY <1>1, <1>2

\* The pieces of a write that goes on are as many as before.
LEMMA DanglingRight ==
  ASSUME NEW bytes \in Seq(Bytes), NEW x \in Dangling(bytes)
  PROVE  x \in Seq(Bytes) /\ Len(x) = Len(bytes)
<1>1. CASE x = bytes
  BY <1>1
<1>2. CASE x = [i \in DOMAIN bytes |-> Garbage]
  <2>1. x = [i \in 1 .. Len(bytes) |-> Garbage] /\ Garbage \in Bytes /\ Len(bytes) \in Nat
    BY <1>2 DEF Bytes
  <2> QED
    BY <2>1
<1> QED
  BY <1>1, <1>2 DEF Dangling

\* The first write that waits, and the first that sent a part, taken away.
LEMMA WithoutOp ==
  ASSUME NEW s \in Writing, s.ops # <<>>
  PROVE  /\ [s EXCEPT !.ops = Tail(s.ops)] \in Writing
         /\ Head(s.ops) \in Seq(Bytes)
         /\ Amount(s) = Amount([s EXCEPT !.ops = Tail(s.ops)]) + Len(Head(s.ops))
<1> DEFINE rest == Tail(s.ops)
           p == [s EXCEPT !.ops = rest]
<1>1. /\ s.stream \in Seq(Bytes) /\ s.ops \in Seq(Seq(Bytes))
      /\ s.posted \in Seq(Seq(Bytes))
  BY DEF Writing
<1>2. rest \in Seq(Seq(Bytes)) /\ Head(s.ops) \in Seq(Bytes)
  BY <1>1
<1>3. Len(FlattenSeq(s.ops)) = Len(Head(s.ops)) + Len(FlattenSeq(rest))
  BY <1>1, FlattenTail
<1> HIDE DEF rest
<1>4. /\ p \in Writing /\ p.stream = s.stream /\ p.ops = rest /\ p.posted = s.posted
  BY <1>2 DEF Writing
<1> DEFINE a == Len(s.stream)
           b == Len(FlattenSeq(rest))
           d == Len(FlattenSeq(s.posted))
           n == Len(Head(s.ops))
<1>5. a \in Nat /\ b \in Nat /\ d \in Nat /\ n \in Nat
  <2>1. FlattenSeq(s.posted) \in Seq(Bytes) /\ FlattenSeq(rest) \in Seq(Bytes)
    BY <1>1, <1>2, FlattenTyped
  <2> QED
    BY <1>1, <1>2, <2>1
<1>6. Amount(s) = a + (n + b) + d /\ Amount(p) = a + b + d
  BY <1>3, <1>4 DEF Amount
<1> HIDE DEF a, b, d, n, p
<1>7. Amount(s) = Amount(p) + n
  BY <1>5, <1>6
<1> QED
  BY <1>2, <1>4, <1>7 DEF p, n, rest

LEMMA WithoutPosted ==
  ASSUME NEW s \in Writing, s.posted # <<>>
  PROVE  /\ [s EXCEPT !.posted = Tail(s.posted)] \in Writing
         /\ Head(s.posted) \in Seq(Bytes)
         /\ Amount(s) = Amount([s EXCEPT !.posted = Tail(s.posted)]) + Len(Head(s.posted))
<1> DEFINE rest == Tail(s.posted)
           p == [s EXCEPT !.posted = rest]
<1>1. /\ s.stream \in Seq(Bytes) /\ s.ops \in Seq(Seq(Bytes))
      /\ s.posted \in Seq(Seq(Bytes))
  BY DEF Writing
<1>2. rest \in Seq(Seq(Bytes)) /\ Head(s.posted) \in Seq(Bytes)
  BY <1>1
<1>3. Len(FlattenSeq(s.posted)) = Len(Head(s.posted)) + Len(FlattenSeq(rest))
  BY <1>1, FlattenTail
<1> HIDE DEF rest
<1>4. /\ p \in Writing /\ p.stream = s.stream /\ p.ops = s.ops /\ p.posted = rest
  BY <1>2 DEF Writing
<1> DEFINE a == Len(s.stream)
           b == Len(FlattenSeq(s.ops))
           d == Len(FlattenSeq(rest))
           n == Len(Head(s.posted))
<1>5. a \in Nat /\ b \in Nat /\ d \in Nat /\ n \in Nat
  <2>1. FlattenSeq(s.ops) \in Seq(Bytes) /\ FlattenSeq(rest) \in Seq(Bytes)
    BY <1>1, <1>2, FlattenTyped
  <2> QED
    BY <1>1, <1>2, <2>1
<1>6. Amount(s) = a + b + (n + d) /\ Amount(p) = a + b + d
  BY <1>3, <1>4 DEF Amount
<1> HIDE DEF a, b, d, n, p
<1>7. Amount(s) = Amount(p) + n
  BY <1>5, <1>6
<1> QED
  BY <1>2, <1>4, <1>7 DEF p, n, rest

-----------------------------------------------------------------------------
(* The invariant                                                           *)

\* Only lines of the client itself are in its socket and the buffer.
InboxRight ==
  \A c \in Clients : \A i \in 1 .. Len(inbox[c]) : inbox[c][i] \in LinesOf(c)

\* A Session has a client, and nothing was written to one who has none.
SessionsRight ==
  \A c \in Clients :
    /\ session[c] = "none" =>
         sock[c].stream = <<>> /\ sock[c].ops = <<>> /\ sock[c].posted = <<>>
    /\ peer[c] = "away" => session[c] = "none"

\* Nothing is left to write where no write had to wait.
WaitingRight == \A c \in Clients \ waited : Idle(sock[c])

RoomInv == /\ TypeOK /\ InboxRight /\ SessionsRight /\ WaitingRight
           /\ OwedIsWritten /\ LinesInOrder

USE DEF sending, room, history, vars

LEMMA OwedExpanded ==
  /\ \A c \in Clients : Owed(c) = FlattenSeq(CarriedAll(HeardBy(c, log, since[c])))
  /\ \A c \in Clients : Owed(c)' = FlattenSeq(CarriedAll(HeardBy(c, log', since'[c])))
BY DEF Owed, CarriedAll, HeardBy

\* What holds of the writing sides goes on holding where a step takes nothing
\* from them and adds nothing, and the log stays as it is.
LEMMA OwedKept ==
  ASSUME OwedIsWritten, UNCHANGED <<log, since, waited>>,
         \A c \in participants' :
           running' /\ peer'[c] = "connected" =>
             /\ c \in participants /\ running /\ peer[c] = "connected"
             /\ Amount(sock'[c]) = Amount(sock[c])
             /\ c \notin waited => sock'[c].stream = sock[c].stream
  PROVE  OwedIsWritten'
<1> SUFFICES ASSUME NEW c \in participants', running', peer'[c] = "connected"
             PROVE  IF c \in waited' THEN Amount(sock'[c]) = Len(Owed(c)')
                    ELSE sock'[c].stream = Owed(c)'
  BY DEF OwedIsWritten, Amount
<1>1. Owed(c)' = Owed(c)
  BY DEF Owed
<1>2. IF c \in waited THEN Amount(sock[c]) = Len(Owed(c))
      ELSE sock[c].stream = Owed(c)
  BY DEF OwedIsWritten
<1> QED
  BY <1>1, <1>2

\* A message is as much of the line as it can carry (message.hpp:10-16).
LEMMA WriteRight ==
  ASSUME NEW q, NEW l \in Seq(Pieces)
  PROVE  write(q, Message(l)) =
           IF peer[q] = "connected" THEN Start(sock[q], Carried(l)) ELSE sock[q]
<1>1. Message(l).body = Carried(l)
  BY DEF Message, getNewBodyLength, Carried
<1>2. decodeHeader(Message(l))
  <2>1. Len(l) \in Nat /\ maxBytes \in Nat
    BY RoomAssumption
  <2>2. Message(l).header = IF Len(l) > maxBytes THEN maxBytes ELSE Len(l)
    BY DEF Message, getNewBodyLength
  <2> QED
    BY <2>1, <2>2 DEF decodeHeader
<1> QED
  BY <1>1, <1>2 DEF write

\* Room::deliver, and what every participant is owed then.
LEMMA DeliverRight ==
  ASSUME RoomInv, NEW c \in Clients, NEW l \in Seq(Pieces), l[1].from = c, deliver(c, l),
         waited' = waited \cup {q \in Clients : ~ Idle(sock'[q])},
         UNCHANGED <<running, peer, room, since>>
  PROVE  /\ sock' \in [Clients -> Writing] /\ log' \in Seq(Seq(Pieces))
         /\ OwedIsWritten' /\ WaitingRight' /\ SessionsRight'
<1>1. /\ participants = {q \in Clients : session[q] = "open"}
      /\ sock \in [Clients -> Writing] /\ log \in Seq(Seq(Pieces))
      /\ since \in [Clients -> 0 .. Len(log)]
  BY DEF RoomInv, TypeOK
<1>2. log' = Append(log, l) /\ log' \in Seq(Seq(Pieces))
  BY <1>1 DEF deliver
<1>3. Carried(l) \in Seq(Pieces) /\ Carried(l) \in Seq(Bytes)
  BY CarriedTyped DEF Bytes
<1> DEFINE told == {q \in participants \ {c} : peer[q] = "connected"}
<1>4. \A q \in Clients :
        sock'[q] = IF q \in told THEN Start(sock[q], Carried(l)) ELSE sock[q]
  BY WriteRight DEF deliver
<1>5. \A q \in Clients : Start(sock[q], Carried(l)) \in Writing
  BY <1>1, <1>3, StartRight
<1>6. sock' \in [Clients -> Writing]
  <2>1. sock' = [q \in Clients |-> sock'[q]]
    BY DEF deliver
  <2>2. \A q \in Clients : sock'[q] \in Writing
    BY <1>1, <1>4, <1>5
  <2> QED
    BY <2>1, <2>2
<1>7. WaitingRight'
  BY DEF WaitingRight
<1>8. SessionsRight'
  <2>1. \A q \in Clients : session[q] = "none" => sock'[q] = sock[q]
    BY <1>1, <1>4
  <2> QED
    BY <2>1 DEF RoomInv, SessionsRight
<1> HIDE DEF told
<1>9. OwedIsWritten'
  <2> SUFFICES ASSUME NEW q \in participants, running, peer[q] = "connected"
               PROVE  IF q \in waited' THEN Amount(sock'[q]) = Len(Owed(q)')
                      ELSE sock'[q].stream = Owed(q)'
    BY DEF OwedIsWritten, Amount
  <2>1. q \in Clients /\ sock[q] \in Writing /\ since[q] \in 0 .. Len(log)
    BY <1>1
  <2>2. IF q \in waited THEN Amount(sock[q]) = Len(Owed(q))
        ELSE sock[q].stream = Owed(q) /\ Idle(sock[q])
    BY <2>1 DEF RoomInv, OwedIsWritten, WaitingRight
  <2>3. /\ Owed(q) \in Seq(Pieces)
        /\ l \in LinesOfOthers(q) => Owed(q)' = Owed(q) \o Carried(l)
        /\ l \notin LinesOfOthers(q) => Owed(q)' = Owed(q)
    <3> DEFINE k == since[q]
               was == FlattenSeq(CarriedAll(HeardBy(q, log, k)))
               is == FlattenSeq(CarriedAll(HeardBy(q, Append(log, l), k)))
    <3>1. Owed(q) = was /\ Owed(q)' = is
      BY <1>2, <2>1, OwedExpanded
    <3> HIDE DEF k
    <3>2. /\ was \in Seq(Pieces)
          /\ l \in LinesOfOthers(q) => is = was \o Carried(l)
          /\ l \notin LinesOfOthers(q) => is = was
      BY <1>1, <2>1, OwedAppend DEF k
    <3> HIDE DEF was, is
    <3> QED
      BY <3>1, <3>2
  <2>4. CASE q = c
    <3>1. Owed(q)' = Owed(q) /\ sock'[q] = sock[q]
      BY <1>4, <2>1, <2>3, <2>4 DEF LinesOfOthers, told
    <3>2. q \in waited' => q \in waited
      BY <2>2, <3>1
    <3> QED
      BY <2>2, <3>1, <3>2
  <2>5. CASE q # c
    <3>1. Owed(q)' = Owed(q) \o Carried(l) /\ sock'[q] = Start(sock[q], Carried(l))
      BY <1>4, <2>1, <2>3, <2>5 DEF LinesOfOthers, told
    <3>2. /\ Amount(sock'[q]) = Amount(sock[q]) + Len(Carried(l))
          /\ Idle(sock[q]) /\ Idle(sock'[q]) =>
               sock'[q].stream = sock[q].stream \o Carried(l)
      BY <1>3, <2>1, <3>1, StartRight
    <3>3. Len(Owed(q)') = Len(Owed(q)) + Len(Carried(l))
      BY <1>3, <2>3, <3>1, ConcatProperties
    <3>4. CASE q \in waited
      BY <2>2, <3>2, <3>3, <3>4
    <3>5. CASE q \notin waited
      <4>1. Amount(sock[q]) = Len(Owed(q))
        <5>1. FlattenSeq(<<>>) = <<>> /\ Len(<<>>) = 0 /\ Len(Owed(q)) \in Nat
          BY <2>3, FlattenEmpty
        <5>2. sock[q].stream = Owed(q) /\ sock[q].ops = <<>> /\ sock[q].posted = <<>>
          BY <2>2, <3>5 DEF Idle
        <5>3. Amount(sock[q]) = Len(Owed(q)) + 0 + 0
          BY <5>1, <5>2 DEF Amount
        <5> QED
          BY <5>1, <5>3
      <4>2. Amount(sock'[q]) = Len(Owed(q)')
        BY <3>2, <3>3, <4>1
      <4>3. q \notin waited' => sock'[q].stream = Owed(q)'
        BY <2>1, <2>2, <3>1, <3>2, <3>5
      <4> QED
        BY <4>2, <4>3
    <3> QED
      BY <3>4, <3>5
  <2> QED
    BY <2>4, <2>5
<1> QED
  BY <1>2, <1>6, <1>7, <1>8, <1>9

-----------------------------------------------------------------------------
(* The steps                                                               *)

LEMMA RoomInit == Init => RoomInv
<1> SUFFICES ASSUME Init PROVE RoomInv
  OBVIOUS
<1>1. Blank \in Writing
  BY RoomAssumption DEF Blank, Writing
<1>2. TypeOK
  BY <1>1, RoomAssumption DEF Init, TypeOK
<1>3. InboxRight /\ SessionsRight /\ WaitingRight /\ OwedIsWritten
  BY DEF Init, InboxRight, SessionsRight, WaitingRight, OwedIsWritten, Blank, Idle
<1>4. LinesInOrder
  <2> SUFFICES ASSUME NEW c \in Clients
               PROVE  NumbersOf(c, log) \o NumbersOf(c, inbox[c]) = [n \in 1 .. lines[c] |-> n]
    BY DEF LinesInOrder
  <2>1. log = <<>> /\ inbox[c] = <<>> /\ lines[c] = 0
    BY DEF Init
  <2>2. NumbersOf(c, <<>>) = <<>>
    BY KeepEmpty DEF NumbersOf
  <2>3. <<>> \o <<>> = [n \in 1 .. 0 |-> n]
    OBVIOUS
  <2> QED
    BY <2>1, <2>2, <2>3
<1> QED
  BY <1>2, <1>3, <1>4 DEF RoomInv

\* A line goes from the buffer to the log.
LEMMA LinesRead ==
  ASSUME RoomInv, NEW c \in Clients, inbox[c] # <<>>,
         inbox' = [inbox EXCEPT ![c] = Tail(@)],
         log' = Append(log, Head(inbox[c])), UNCHANGED lines
  PROVE  InboxRight' /\ LinesInOrder'
<1> DEFINE l == Head(inbox[c])
           rest == Tail(inbox[c])
<1>1. /\ inbox \in [Clients -> Seq(Seq(Pieces))] /\ log \in Seq(Seq(Pieces))
      /\ \A q \in Clients : \A i \in 1 .. Len(inbox[q]) : inbox[q][i] \in LinesOf(q)
  BY DEF RoomInv, TypeOK, InboxRight
<1>2. /\ l = inbox[c][1] /\ rest \in Seq(Seq(Pieces)) /\ l \in Seq(Pieces)
      /\ Len(inbox[c]) = Len(rest) + 1 /\ Len(rest) \in Nat
      /\ \A i \in 1 .. Len(rest) : rest[i] = inbox[c][i + 1]
  BY <1>1
<1> HIDE DEF l, rest
<1>3. inbox'[c] = rest /\ \A q \in Clients \ {c} : inbox'[q] = inbox[q]
  BY <1>1 DEF rest
<1>4. l \in LinesOf(c) /\ \A i \in 1 .. Len(rest) : rest[i] \in LinesOf(c)
  <2>1. 1 \in 1 .. Len(inbox[c]) /\ \A i \in 1 .. Len(rest) : i + 1 \in 1 .. Len(inbox[c])
    BY <1>2
  <2> QED
    BY <1>1, <1>2, <2>1
<1>5. InboxRight'
  BY <1>1, <1>3, <1>4 DEF InboxRight
<1>6. ASSUME NEW q \in Clients
      PROVE  NumbersOf(q, log') \o NumbersOf(q, inbox'[q]) = [n \in 1 .. lines[q] |-> n]
  <2>1. NumbersOf(q, log) \o NumbersOf(q, inbox[q]) = [n \in 1 .. lines[q] |-> n]
    BY DEF RoomInv, LinesInOrder
  <2>2. log' = Append(log, l)
    BY DEF l
  <2>3. CASE q # c
    <3>1. l \notin LinesOf(q)
      BY <1>4, <2>3 DEF LinesOf
    <3>2. NumbersOf(q, Append(log, l)) = NumbersOf(q, log)
      BY <1>1, <1>2, <3>1, NumbersAppend
    <3> QED
      BY <1>3, <2>1, <2>2, <2>3, <3>2
  <2>4. CASE q = c
    <3> DEFINE number == l[1].line
               a == NumbersOf(c, log)
               b == NumbersOf(c, rest)
    <3>1. /\ a \in Seq(Numbers) /\ number \in Numbers
          /\ NumbersOf(c, Append(log, l)) = Append(a, number)
      BY <1>1, <1>2, <1>4, NumbersAppend
    <3>2. b \in Seq(Numbers)
      BY <1>2, NumbersAppend
    <3>3. NumbersOf(c, inbox[c]) = <<number>> \o b
      <4>1. Keep(inbox[c], LinesOf(c)) = inbox[c]
        BY <1>1, KeepAll
      <4>2. Keep(rest, LinesOf(c)) = rest
        BY <1>2, <1>4, KeepAll
      <4>3. NumbersOf(c, inbox[c]) = [i \in 1 .. Len(inbox[c]) |-> inbox[c][i][1].line]
        BY <1>1, <4>1 DEF NumbersOf
      <4>4. b = [i \in 1 .. Len(rest) |-> rest[i][1].line]
        BY <1>2, <4>2 DEF NumbersOf
      <4> HIDE DEF number, b
      <4>5. Len(b) = Len(rest) /\ \A i \in 1 .. Len(rest) : b[i] = inbox[c][i + 1][1].line
        <5>1. \A i \in 1 .. Len(rest) : rest[i][1].line \in Numbers
          <6>1. \A m \in Seq(Pieces) : m[1].line \in Numbers
            BY Zenon DEF Numbers
          <6>2. \A i \in 1 .. Len(rest) : rest[i] \in Seq(Pieces)
            BY <1>2
          <6> QED
            BY <6>1, <6>2
        <5>2. Len(b) = Len(rest) /\ \A i \in 1 .. Len(rest) : b[i] = rest[i][1].line
          BY <1>2, <4>4, <5>1
        <5> QED
          BY <1>2, <5>2
      <4> DEFINE s == <<number>>
      <4>6. s \in Seq(Numbers) /\ Len(s) = 1 /\ s[1] = number
        BY <3>1
      <4> HIDE DEF s
      <4>7. /\ s \o b \in Seq(Numbers) /\ Len(s \o b) = 1 + Len(rest)
            /\ \A i \in 1 .. (1 + Len(rest)) :
                 (s \o b)[i] = IF i <= 1 THEN s[i] ELSE b[i - 1]
        <5>1. Len(rest) \in Nat /\ Len(b) = Len(rest)
          BY <1>2, <4>5
        <5>2. /\ s \o b \in Seq(Numbers) /\ Len(s \o b) = Len(s) + Len(b)
              /\ \A i \in 1 .. Len(s) + Len(b) :
                   (s \o b)[i] = IF i <= Len(s) THEN s[i] ELSE b[i - Len(s)]
          BY <3>2, <4>6, ConcatProperties
        <5> QED
          BY <4>6, <5>1, <5>2
      <4>8. \A i \in 1 .. (1 + Len(rest)) : inbox[c][i][1].line = (s \o b)[i]
        <5> SUFFICES ASSUME NEW i \in 1 .. (1 + Len(rest))
                     PROVE  inbox[c][i][1].line = IF i <= 1 THEN s[i] ELSE b[i - 1]
          BY <4>7
        <5>1. CASE i = 1
          BY <1>2, <4>6, <5>1 DEF number
        <5>2. CASE i # 1
          <6>1. i - 1 \in 1 .. Len(rest) /\ (i - 1) + 1 = i /\ ~ i <= 1
            BY <1>2, <5>2
          <6> QED
            BY <4>5, <6>1
        <5> QED
          BY <5>1, <5>2
      <4> DEFINE t == s \o b
      <4>9. t = [i \in 1 .. (1 + Len(rest)) |-> t[i]]
        <5>1. t \in Seq(Numbers) /\ Len(t) = 1 + Len(rest)
          BY <4>7
        <5> HIDE DEF t
        <5> QED
          BY <5>1
      <4>10. Len(inbox[c]) = 1 + Len(rest)
        BY <1>2
      <4> QED
        BY <4>3, <4>8, <4>9, <4>10 DEF s
    <3> HIDE DEF a, b, number
    <3>4. Append(a, number) = a \o <<number>> /\ <<number>> \in Seq(Numbers)
      BY <3>1
    <3>5. (a \o <<number>>) \o b = a \o (<<number>> \o b)
      BY <3>1, <3>2, <3>4, ConcatAssociative
    <3> QED
      BY <1>3, <2>1, <2>2, <2>4, <3>1, <3>3, <3>4, <3>5 DEF a, b
  <2> QED
    BY <2>3, <2>4
<1> QED
  BY <1>5, <1>6 DEF LinesInOrder

\* A line is sent: its pieces, and what it makes of the lines in the socket.
LEMMA LineRight ==
  ASSUME NEW c \in Clients, NEW n \in 1 .. MaxLines, NEW len \in Nat \ {0}
  PROVE  /\ Line(c, n, len) \in Seq(Pieces)
         /\ Line(c, n, len)[1].from = c /\ Line(c, n, len)[1].line = n
<1>1. 1 \in 1 .. len /\ len \in Nat
  OBVIOUS
<1>2. \A i \in 1 .. len :
        [from |-> c, line |-> n, piece |-> i, newline |-> i = len] \in Pieces
  BY DEF Pieces
<1>3. Line(c, n, len) \in [1 .. len -> Pieces]
  BY <1>2 DEF Line
<1>4. Line(c, n, len) \in Seq(Pieces)
  BY <1>1, <1>3
<1> QED
  BY <1>1, <1>4 DEF Line

LEMMA LinesSent ==
  ASSUME RoomInv, NEW c \in Clients, sent < MaxLines, sent' = sent + 1,
         lines' = [lines EXCEPT ![c] = @ + 1],
         NEW len \in LineLengths[lines'[c]],
         inbox' = [inbox EXCEPT ![c] = Append(@, Line(c, lines'[c], len))],
         UNCHANGED log
  PROVE  /\ inbox' \in [Clients -> Seq(Seq(Pieces))]
         /\ sent' \in 0 .. MaxLines /\ lines' \in [Clients -> 0 .. sent']
         /\ InboxRight' /\ LinesInOrder'
<1> DEFINE n == lines'[c]
           l == Line(c, n, len)
<1>1. /\ inbox \in [Clients -> Seq(Seq(Pieces))] /\ log \in Seq(Seq(Pieces))
      /\ \A q \in Clients : \A i \in 1 .. Len(inbox[q]) : inbox[q][i] \in LinesOf(q)
      /\ sent \in 0 .. MaxLines /\ lines \in [Clients -> 0 .. sent] /\ MaxLines \in Nat
  BY RoomAssumption DEF RoomInv, TypeOK, InboxRight
<1>2. n = lines[c] + 1 /\ n \in 1 .. MaxLines /\ lines[c] \in Nat
  BY <1>1
<1>3. len \in Nat \ {0}
  BY <1>2, RoomAssumption
<1> HIDE DEF n
<1>4. l \in Seq(Pieces) /\ l[1].from = c /\ l[1].line = n
  BY <1>2, <1>3, LineRight
<1>5. inbox'[c] = Append(inbox[c], l) /\ \A q \in Clients \ {c} : inbox'[q] = inbox[q]
  BY <1>1 DEF n
<1>6. inbox' \in [Clients -> Seq(Seq(Pieces))]
  <2> HIDE DEF l
  <2>1. inbox' = [inbox EXCEPT ![c] = Append(inbox[c], l)]
    BY DEF l, n
  <2>2. Append(inbox[c], l) \in Seq(Seq(Pieces))
    BY <1>1, <1>4
  <2> QED
    BY <1>1, <2>1, <2>2
<1>7. sent' \in 0 .. MaxLines /\ lines' \in [Clients -> 0 .. sent']
  BY <1>1
<1> HIDE DEF l
<1>8. l \in LinesOf(c)
  BY <1>4 DEF LinesOf
<1>9. InboxRight'
  <2> SUFFICES ASSUME NEW q \in Clients, NEW i \in 1 .. Len(inbox'[q])
               PROVE  inbox'[q][i] \in LinesOf(q)
    BY DEF InboxRight, LinesOf
  <2>1. CASE q # c
    BY <1>1, <1>5, <2>1
  <2>2. CASE q = c
    <3>1. /\ Len(Append(inbox[c], l)) = Len(inbox[c]) + 1 /\ Len(inbox[c]) \in Nat
          /\ Append(inbox[c], l)[Len(inbox[c]) + 1] = l
          /\ \A j \in 1 .. Len(inbox[c]) : Append(inbox[c], l)[j] = inbox[c][j]
      BY <1>1, <1>4, AppendProperties
    <3>2. i = Len(inbox[c]) + 1 \/ i \in 1 .. Len(inbox[c])
      BY <1>5, <2>2, <3>1
    <3> QED
      BY <1>1, <1>5, <1>8, <2>2, <3>1, <3>2
  <2> QED
    BY <2>1, <2>2
<1>10. LinesInOrder'
  <2> SUFFICES ASSUME NEW q \in Clients
               PROVE  NumbersOf(q, log) \o NumbersOf(q, inbox'[q]) = [m \in 1 .. lines'[q] |-> m]
    BY DEF LinesInOrder, NumbersOf, LinesOf
  <2>1. NumbersOf(q, log) \o NumbersOf(q, inbox[q]) = [m \in 1 .. lines[q] |-> m]
    BY DEF RoomInv, LinesInOrder
  <2>2. CASE q # c
    BY <1>1, <1>5, <2>1, <2>2
  <2>3. CASE q = c
    <3> DEFINE a == NumbersOf(c, log)
               b == NumbersOf(c, inbox[c])
               k == lines[c]
    <3>1. /\ a \in Seq(Numbers) /\ b \in Seq(Numbers) /\ n \in Numbers
          /\ NumbersOf(c, Append(inbox[c], l)) = Append(b, n)
      <4>1. a \in Seq(Numbers)
        BY <1>1, <1>4, NumbersAppend
      <4>2. b \in Seq(Numbers) /\ NumbersOf(c, Append(inbox[c], l)) = Append(b, l[1].line)
        BY <1>1, <1>4, <1>8, NumbersAppend
      <4> QED
        BY <1>2, <1>4, <4>1, <4>2 DEF Numbers
    <3>2. a \o b = [m \in 1 .. k |-> m] /\ k \in Nat /\ n = k + 1 /\ lines'[c] = k + 1
      BY <1>2, <2>1, <2>3 DEF n
    <3> HIDE DEF a, b, k
    <3>3. a \o Append(b, n) = Append(a \o b, n)
      <4>1. Append(b, n) = b \o <<n>> /\ Append(a \o b, n) = (a \o b) \o <<n>>
        BY <3>1
      <4>2. <<n>> \in Seq(Numbers)
        BY <3>1
      <4>3. (a \o b) \o <<n>> = a \o (b \o <<n>>)
        BY <3>1, <4>2, ConcatAssociative
      <4> QED
        BY <4>1, <4>3
    <3>4. Append([m \in 1 .. k |-> m], k + 1) = [m \in 1 .. k + 1 |-> m]
      BY <3>2
    <3> QED
      BY <1>5, <2>3, <3>1, <3>2, <3>3, <3>4 DEF a
  <2> QED
    BY <2>2, <2>3
<1> QED
  BY <1>6, <1>7, <1>9, <1>10

\* Every step keeps the invariant.
LEMMA RoomStep == RoomInv /\ [Next]_vars => RoomInv'
<1> SUFFICES ASSUME RoomInv, [Next]_vars PROVE RoomInv'
  OBVIOUS
<1> USE DEF RoomInv
<1>1. /\ running \in BOOLEAN /\ reading \in [Clients -> BOOLEAN]
      /\ peer \in [Clients -> {"away", "connected", "gone"}]
      /\ session \in [Clients -> {"none", "open", "closed"}]
      /\ participants = {c \in Clients : session[c] = "open"}
      /\ inbox \in [Clients -> Seq(Seq(Pieces))] /\ sock \in [Clients -> Writing]
      /\ log \in Seq(Seq(Pieces)) /\ since \in [Clients -> 0 .. Len(log)]
      /\ waited \subseteq Clients
  BY DEF TypeOK
\* What a step keeps that leaves the lines alone.
<1>2. UNCHANGED <<inbox, sending, log>> => InboxRight' /\ LinesInOrder'
  BY DEF InboxRight, LinesInOrder, NumbersOf, LinesOf
\* ... and one that writes to the socket of c alone, with c waiting.
<1>3. ASSUME NEW c \in Clients, NEW s \in Writing, sock' = [sock EXCEPT ![c] = s],
             session[c] = "open", ~ Idle(sock[c]), Amount(s) = Amount(sock[c]),
             UNCHANGED <<running, peer, room, inbox, sending, history, waited>>
      PROVE  RoomInv'
  <2>1. sock'[c] = s /\ \A q \in Clients \ {c} : sock'[q] = sock[q]
    BY <1>1, <1>3
  <2>2. c \in waited
    BY <1>3 DEF WaitingRight
  <2>3. TypeOK'
    BY <1>1, <1>3 DEF TypeOK
  <2>4. SessionsRight' /\ WaitingRight'
    BY <1>3, <2>1, <2>2 DEF SessionsRight, WaitingRight
  <2>5. OwedIsWritten'
    BY <1>1, <1>3, <2>1, <2>2, OwedKept
  <2> QED
    BY <1>2, <1>3, <2>3, <2>4, <2>5
<1>4. ASSUME NEW c \in Clients, accept_connection(c) PROVE RoomInv'
  <2> USE <1>4 DEF accept_connection
  <2>1. TypeOK'
    BY <1>1 DEF TypeOK
  <2>2. SessionsRight' /\ WaitingRight'
    BY DEF SessionsRight, WaitingRight
  <2>3. OwedIsWritten'
    <3> SUFFICES ASSUME NEW q \in participants', running, peer[q] = "connected"
                 PROVE  IF q \in waited THEN Amount(sock[q]) = Len(Owed(q)')
                        ELSE sock[q].stream = Owed(q)'
      BY DEF OwedIsWritten, Amount
    <3>1. CASE q = c
      <4>1. Owed(q)' = <<>>
        <5>1. q \in Clients /\ log' = log /\ since'[q] = Len(log)
          BY <1>1, <3>1
        <5> QED
          BY <1>1, <5>1, NothingOwed, OwedExpanded
      <4>2. sock[q].stream = <<>> /\ sock[q].ops = <<>> /\ sock[q].posted = <<>>
        BY <3>1 DEF SessionsRight
      <4>3. FlattenSeq(<<>>) = <<>> /\ Len(<<>>) = 0
        BY FlattenEmpty
      <4>4. Amount(sock[q]) = 0 + 0 + 0
        BY <4>2, <4>3 DEF Amount
      <4> QED
        BY <4>1, <4>2, <4>3, <4>4
    <3>2. CASE q # c
      <4>1. q \in participants /\ q \in Clients /\ since'[q] = since[q] /\ log' = log
        BY <1>1, <3>2
      <4>2. Owed(q)' = Owed(q)
        BY <4>1, OwedExpanded
      <4> QED
        BY <4>1, <4>2 DEF OwedIsWritten
    <3> QED
      BY <3>1, <3>2
  <2> QED
    BY <1>2, <2>1, <2>2, <2>3
<1>5. ASSUME NEW c \in Clients, async_read(c) PROVE RoomInv'
  <2> DEFINE l == Head(inbox[c])
  <2>1. l \in Seq(Pieces) /\ l[1].from = c
    <3>1. 1 \in 1 .. Len(inbox[c]) /\ l = inbox[c][1] /\ l \in Seq(Pieces)
      BY <1>1, <1>5 DEF async_read
    <3> QED
      BY <3>1 DEF InboxRight, LinesOf
  <2>2. /\ inbox[c] # <<>> /\ inbox' = [inbox EXCEPT ![c] = Tail(@)]
        /\ deliver(c, l) /\ waited' = waited \cup {q \in Clients : ~ Idle(sock'[q])}
        /\ UNCHANGED <<running, peer, room, sending, since>>
    BY <1>5 DEF async_read
  <2>3. log' = Append(log, l)
    BY <2>2 DEF deliver
  <2>4. InboxRight' /\ LinesInOrder'
    BY <2>2, <2>3, LinesRead
  <2> HIDE DEF l
  <2>5. /\ sock' \in [Clients -> Writing] /\ log' \in Seq(Seq(Pieces))
        /\ OwedIsWritten' /\ WaitingRight' /\ SessionsRight'
    BY <2>1, <2>2, DeliverRight
  <2>6. TypeOK'
    <3>1. inbox' \in [Clients -> Seq(Seq(Pieces))]
      <4>1. Tail(inbox[c]) \in Seq(Seq(Pieces))
        BY <1>1, <2>2
      <4> QED
        BY <1>1, <2>2, <4>1
    <3>2. waited' \subseteq Clients
      BY <1>1, <2>2
    <3>3. since' \in [Clients -> 0 .. Len(log')]
      <4>1. Len(log') = Len(log) + 1 /\ Len(log) \in Nat
        BY <1>1, <2>1, <2>3, AppendProperties
      <4>2. 0 .. Len(log) \subseteq 0 .. Len(log')
        BY <4>1
      <4> QED
        BY <1>1, <2>2, <4>2
    <3> QED
      BY <1>1, <2>2, <2>5, <3>1, <3>2, <3>3 DEF TypeOK
  <2> QED
    BY <2>4, <2>5, <2>6
<1>6. ASSUME NEW c \in Clients, readError(c) PROVE RoomInv'
  <2> USE <1>6 DEF readError
  <2>1. sock[c] \in Writing /\ [sock[c] EXCEPT !.ops = <<>>] \in Writing
    <3> DEFINE none == <<>>
    <3>1. sock[c] \in Writing /\ none \in Seq(Seq(Bytes))
      BY <1>1
    <3> HIDE DEF none
    <3>2. [sock[c] EXCEPT !.ops = none] \in Writing
      BY <3>1 DEF Writing
    <3> QED
      BY <3>1, <3>2 DEF none
  <2>2. /\ sock'[c].stream = sock[c].stream /\ sock'[c].posted = sock[c].posted
        /\ sock'[c].ops = <<>> /\ \A q \in Clients \ {c} : sock'[q] = sock[q]
    BY <1>1, <2>1 DEF Writing
  <2>3. TypeOK'
    BY <1>1, <2>1 DEF TypeOK
  <2>4. SessionsRight' /\ WaitingRight'
    BY <1>1, <2>2 DEF SessionsRight, WaitingRight, Idle
  <2>5. OwedIsWritten'
    BY <1>1, <2>2, OwedKept
  <2> QED
    BY <1>2, <2>3, <2>4, <2>5
<1>7. ASSUME NEW c \in Clients, writable(c) PROVE RoomInv'
  <2> DEFINE t == [sock[c] EXCEPT !.ops = Tail(sock[c].ops)]
  <2>1. PICK bytes \in Dangling(Head(sock[c].ops)) :
          sock' = [sock EXCEPT ![c] = Perform(t, bytes)]
    BY <1>7 DEF writable
  <2>2. sock[c] \in Writing /\ sock[c].ops # <<>> /\ session[c] = "open"
    BY <1>1, <1>7 DEF writable
  <2>3. /\ t \in Writing /\ Head(sock[c].ops) \in Seq(Bytes)
        /\ Amount(sock[c]) = Amount(t) + Len(Head(sock[c].ops))
    BY <2>2, WithoutOp
  <2>4. bytes \in Seq(Bytes) /\ Len(bytes) = Len(Head(sock[c].ops))
    BY <2>3, DanglingRight
  <2> HIDE DEF t
  <2> DEFINE s == Perform(t, bytes)
  <2>5. s \in Writing /\ Amount(s) = Amount(sock[c])
    BY <2>3, <2>4, PerformRight
  <2> HIDE DEF s
  <2>6. UNCHANGED <<running, peer, room, inbox, sending, history, waited>>
    BY <1>7 DEF writable
  <2>7. sock' = [sock EXCEPT ![c] = s]
    BY <2>1 DEF s
  <2>8. ~ Idle(sock[c])
    BY <2>2 DEF Idle
  <2> HIDE DEF RoomInv
  <2> QED
    BY <1>3, <2>2, <2>5, <2>6, <2>7, <2>8
<1>8. ASSUME NEW c \in Clients, writeMore(c) PROVE RoomInv'
  <2> DEFINE t == [sock[c] EXCEPT !.posted = Tail(sock[c].posted)]
  <2>1. PICK bytes \in Dangling(Head(sock[c].posted)) :
          sock' = [sock EXCEPT ![c] = Start(t, bytes)]
    BY <1>8 DEF writeMore
  <2>2. sock[c] \in Writing /\ sock[c].posted # <<>> /\ session[c] = "open"
    BY <1>1, <1>8 DEF writeMore
  <2>3. /\ t \in Writing /\ Head(sock[c].posted) \in Seq(Bytes)
        /\ Amount(sock[c]) = Amount(t) + Len(Head(sock[c].posted))
    BY <2>2, WithoutPosted
  <2>4. bytes \in Seq(Bytes) /\ Len(bytes) = Len(Head(sock[c].posted))
    BY <2>3, DanglingRight
  <2> HIDE DEF t
  <2> DEFINE s == Start(t, bytes)
  <2>5. s \in Writing /\ Amount(s) = Amount(sock[c])
    BY <2>3, <2>4, StartRight
  <2> HIDE DEF s
  <2>6. UNCHANGED <<running, peer, room, inbox, sending, history, waited>>
    BY <1>8 DEF writeMore
  <2>7. sock' = [sock EXCEPT ![c] = s]
    BY <2>1 DEF s
  <2>8. ~ Idle(sock[c])
    BY <2>2 DEF Idle
  <2> HIDE DEF RoomInv
  <2> QED
    BY <1>3, <2>2, <2>5, <2>6, <2>7, <2>8
<1>9. ASSUME NEW c \in Clients, writeMoreClosed(c) PROVE RoomInv'
  <2> USE <1>9 DEF writeMoreClosed
  <2>1. TypeOK' /\ SessionsRight' /\ WaitingRight'
    BY DEF TypeOK, SessionsRight, WaitingRight
  <2>2. OwedIsWritten'
    BY DEF OwedIsWritten
  <2> QED
    BY <1>2, <2>1, <2>2
<1>10. ASSUME NEW c \in Clients, Connect(c) PROVE RoomInv'
  <2> USE <1>10 DEF Connect
  <2>1. TypeOK'
    BY <1>1 DEF TypeOK
  <2>2. SessionsRight' /\ WaitingRight'
    BY <1>1 DEF SessionsRight, WaitingRight
  <2>3. OwedIsWritten'
    <3>1. c \notin participants
      BY <1>1 DEF SessionsRight
    <3> QED
      BY <1>1, <3>1, OwedKept
  <2> QED
    BY <1>2, <2>1, <2>2, <2>3
<1>11. ASSUME NEW c \in Clients, SendLine(c) PROVE RoomInv'
  <2> USE DEF SendLine
  <2>1. PICK len \in LineLengths[lines'[c]] :
          inbox' = [inbox EXCEPT ![c] = Append(@, Line(c, lines'[c], len))]
    BY <1>11
  <2>2. /\ inbox' \in [Clients -> Seq(Seq(Pieces))]
        /\ sent' \in 0 .. MaxLines /\ lines' \in [Clients -> 0 .. sent']
        /\ InboxRight' /\ LinesInOrder'
    BY <1>11, <2>1, LinesSent
  <2>3. TypeOK'
    BY <1>1, <1>11, <2>2 DEF TypeOK
  <2>4. SessionsRight' /\ WaitingRight'
    BY <1>11 DEF SessionsRight, WaitingRight
  <2>5. OwedIsWritten'
    BY <1>11, OwedKept
  <2> QED
    BY <2>2, <2>3, <2>4, <2>5
<1>12. ASSUME NEW c \in Clients, NEW n \in 0 .. SendBuffer,
              sock' = [sock EXCEPT ![c].unread = n],
              \A q \in participants : peer'[q] = "connected" => peer[q] = "connected",
              \A q \in Clients : peer'[q] = "away" => peer[q] = "away",
              peer' \in [Clients -> {"away", "connected", "gone"}],
              UNCHANGED <<running, room, inbox, sending, history, waited>>
       PROVE  RoomInv'
  <2>1. \A q \in Clients : sock[q] \in Writing
    BY <1>1
  <2>2. [sock[c] EXCEPT !.unread = n] \in Writing
    BY <1>12, <2>1 DEF Writing
  <2>3. \A q \in Clients : /\ sock'[q].stream = sock[q].stream
                           /\ sock'[q].ops = sock[q].ops
                           /\ sock'[q].posted = sock[q].posted
    BY <1>1, <1>12, <2>1 DEF Writing
  <2>4. TypeOK'
    BY <1>1, <1>12, <2>2 DEF TypeOK
  <2>5. SessionsRight' /\ WaitingRight'
    BY <1>12, <2>3 DEF SessionsRight, WaitingRight, Idle
  <2>6. \A q \in Clients : Amount(sock'[q]) = Amount(sock[q])
    BY <2>3 DEF Amount
  <2>7. OwedIsWritten'
    BY <1>1, <1>12, <2>3, <2>6, OwedKept
  <2> QED
    BY <1>2, <1>12, <2>4, <2>5, <2>7
<1>13. ASSUME NEW c \in Clients, ReceivePiece(c) PROVE RoomInv'
  <2>1. sock[c].unread \in 0 .. SendBuffer /\ SendBuffer \in Nat
    BY <1>1, RoomAssumption DEF Writing
  <2>2. /\ sock[c].unread - 1 \in 0 .. SendBuffer
        /\ sock' = [sock EXCEPT ![c].unread = sock[c].unread - 1]
        /\ UNCHANGED <<running, peer, room, inbox, sending, history, waited>>
    BY <1>13, <2>1 DEF ReceivePiece
  <2> HIDE DEF RoomInv
  <2> QED
    BY <1>1, <1>12, <2>2
<1>14. ASSUME NEW c \in Clients, Leave(c) PROVE RoomInv'
  <2>1. /\ sock' = [sock EXCEPT ![c].unread = 0] /\ 0 \in 0 .. SendBuffer
        /\ peer' = [peer EXCEPT ![c] = "gone"]
        /\ UNCHANGED <<running, room, inbox, sending, history, waited>>
    BY <1>14, RoomAssumption DEF Leave
  <2>2. /\ \A q \in Clients : peer'[q] = "connected" => peer[q] = "connected"
        /\ \A q \in Clients : peer'[q] = "away" => peer[q] = "away"
        /\ peer' \in [Clients -> {"away", "connected", "gone"}]
    BY <1>1, <2>1
  <2> HIDE DEF RoomInv
  <2> QED
    BY <1>1, <1>12, <2>1, <2>2
<1>15. ASSUME UNCHANGED vars PROVE RoomInv'
  <2>1. TypeOK' /\ SessionsRight' /\ WaitingRight' /\ OwedIsWritten'
    BY <1>15, OwedKept DEF TypeOK, SessionsRight, WaitingRight
  <2> QED
    BY <1>2, <1>15, <2>1
<1> HIDE DEF RoomInv
<1> QED
  BY <1>4, <1>5, <1>6, <1>7, <1>8, <1>9, <1>10, <1>11, <1>13, <1>14, <1>15
  DEF Next, Handler

-----------------------------------------------------------------------------
(* The theorems                                                            *)

\* The invariant: sockets, buffers and log fit together.
THEOREM RoomInvHolds == Spec => []RoomInv
BY RoomInit, RoomStep, PTL DEF Spec

\* Room::join and Room::leave keep the set of the open Sessions
\* (chatRoom.cpp:13-19), and everything has its type.
THEOREM RoomTypesHold == Spec => []TypeOK
<1>1. RoomInv => TypeOK
  BY DEF RoomInv
<1> QED
  BY <1>1, RoomInvHolds, PTL

\* Room::deliver and Session::async_write (chatRoom.cpp:21-33, 68-93): a
\* connected participant gets what the others sent since it joined, in the order
\* of the room, and no byte less or more where a write has to wait.
THEOREM OwedIsWrittenHolds == Spec => []OwedIsWritten
<1>1. RoomInv => OwedIsWritten
  BY DEF RoomInv
<1> QED
  BY <1>1, RoomInvHolds, PTL

\* Session::async_read (chatRoom.cpp:35-58): a client's lines reach the room in
\* the order it sent them, and none is lost.
THEOREM LinesInOrderHolds == Spec => []LinesInOrder
<1>1. RoomInv => LinesInOrder
  BY DEF RoomInv
<1> QED
  BY <1>1, RoomInvHolds, PTL
=============================================================================
