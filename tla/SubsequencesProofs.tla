------------------------- MODULE SubsequencesProofs -------------------------
(***************************************************************************)
(* What Keep returns, for every sequence and set, and the induction over   *)
(* the naturals that this takes.  The library's induction theorems have an *)
(* operator as a parameter; these lemmas have the set of the numbers with  *)
(* the property instead.                                                   *)
(***************************************************************************)
EXTENDS Subsequences, WellFoundedInduction, TLAPS

-----------------------------------------------------------------------------
(* Induction                                                               *)

\* A set of naturals has a smallest element.
LEMMA SmallestElement ==
  ASSUME NEW T, T \subseteq Nat, T # {}
  PROVE  \E x \in T : \A y \in T : ~ y < x
<1>1. IsWellFoundedOn(OpToRel(<, Nat), Nat)
  BY NatLessThanWellFounded
<1>2. PICK x \in T : \A y \in T : <<y, x>> \notin OpToRel(<, Nat)
  BY <1>1, WFMin
<1> QED
  BY <1>2 DEF OpToRel

\* A set with 0 and with the successor of each of its elements has every number.
LEMMA InductionOnSet ==
  ASSUME NEW T, 0 \in T, \A n \in T : n + 1 \in T
  PROVE  Nat \subseteq T
<1> SUFFICES ASSUME Nat \ T # {} PROVE FALSE
  OBVIOUS
<1>1. PICK x \in Nat \ T : \A y \in Nat \ T : ~ y < x
  BY SmallestElement
<1>2. x # 0 /\ x - 1 \in Nat /\ x - 1 < x
  OBVIOUS
<1>3. (x - 1) + 1 \in T
  BY <1>1, <1>2
<1> QED
  BY <1>3

-----------------------------------------------------------------------------
(* The recursion of Kept                                                   *)

\* One turn of the recursion, and what it is to obey it up to n.
Turn(f, s, S, i) ==
  IF i = 0 THEN <<>>
  ELSE IF s[i] \in S THEN Append(f[i - 1], s[i]) ELSE f[i - 1]

Obeys(f, s, S, n) == \A i \in 0 .. n : f[i] = Turn(f, s, S, i)

\* There is a function that obeys it.
LEMMA KeptExists ==
  ASSUME NEW X, NEW s \in Seq(X), NEW S
  PROVE  \E f \in [0 .. Len(s) -> Seq(X)] : Obeys(f, s, S, Len(s))
<1> DEFINE T == {n \in Nat : n <= Len(s) =>
                   \E f \in [0 .. n -> Seq(X)] : Obeys(f, s, S, n)}
<1>1. 0 \in T
  <2>1. [i \in 0 .. 0 |-> <<>>] \in [0 .. 0 -> Seq(X)]
    OBVIOUS
  <2>2. Obeys([i \in 0 .. 0 |-> <<>>], s, S, 0)
    BY DEF Obeys, Turn
  <2> QED
    BY <2>1, <2>2
<1>2. ASSUME NEW n \in T, n + 1 <= Len(s)
      PROVE  \E f \in [0 .. n + 1 -> Seq(X)] : Obeys(f, s, S, n + 1)
  <2>1. PICK g \in [0 .. n -> Seq(X)] : Obeys(g, s, S, n)
    BY <1>2
  <2>2. n \in Nat /\ n + 1 \in 1 .. Len(s) /\ s[n + 1] \in X
    BY <1>2
  <2> DEFINE f == [i \in 0 .. n + 1 |-> IF i = n + 1 THEN Turn(g, s, S, n + 1)
                                        ELSE g[i]]
  <2>3. Turn(g, s, S, n + 1) \in Seq(X)
    <3>1. g[n] \in Seq(X)
      BY <2>1, <2>2
    <3>2. (n + 1) - 1 = n /\ n + 1 # 0
      BY <2>2
    <3> QED
      BY <3>1, <3>2, <2>2 DEF Turn
  <2>4. f \in [0 .. n + 1 -> Seq(X)]
    BY <2>1, <2>2, <2>3
  <2>5. \A i \in 0 .. n + 1 : i # 0 => f[i - 1] = g[i - 1]
    BY <2>2
  <2>6. \A i \in 0 .. n + 1 : Turn(f, s, S, i) = Turn(g, s, S, i)
    BY <2>5 DEF Turn
  <2>7. \A i \in 0 .. n + 1 : f[i] = Turn(g, s, S, i)
    BY <2>1, <2>2 DEF Obeys
  <2>8. Obeys(f, s, S, n + 1)
    BY <2>6, <2>7 DEF Obeys
  <2> QED
    BY <2>4, <2>8
<1>3. \A n \in T : n + 1 \in T
  BY <1>2
<1>4. Nat \subseteq T
  <2> HIDE DEF T
  <2> QED
    BY <1>1, <1>3, InductionOnSet
<1> QED
  BY <1>4

\* Kept does.
LEMMA KeptObeys ==
  ASSUME NEW X, NEW s \in Seq(X), NEW S
  PROVE  Obeys(Kept(s, S), s, S, Len(s))
<1>1. PICK f \in [0 .. Len(s) -> Seq(X)] : Obeys(f, s, S, Len(s))
  BY KeptExists
<1>2. f = [i \in 0 .. Len(s) |-> Turn(f, s, S, i)]
  BY <1>1 DEF Obeys
<1>3. Kept(s, S) = CHOOSE g : g = [i \in 0 .. Len(s) |-> Turn(g, s, S, i)]
  BY Zenon DEF Kept, Turn
<1>4. Kept(s, S) = [i \in 0 .. Len(s) |-> Turn(Kept(s, S), s, S, i)]
  BY <1>2, <1>3
<1> QED
  BY <1>4 DEF Obeys

\* ... so it does what it did to the prefix, and then one turn more.
LEMMA KeptTurns ==
  ASSUME NEW X, NEW s \in Seq(X), NEW S
  PROVE  /\ Kept(s, S)[0] = <<>>
         /\ \A i \in 1 .. Len(s) :
              /\ s[i] \in S => Kept(s, S)[i] = Append(Kept(s, S)[i - 1], s[i])
              /\ s[i] \notin S => Kept(s, S)[i] = Kept(s, S)[i - 1]
<1>1. /\ Len(s) \in Nat /\ 0 \in 0 .. Len(s)
      /\ \A i \in 1 .. Len(s) : i \in 0 .. Len(s) /\ i # 0
  OBVIOUS
<1>2. \A i \in 0 .. Len(s) : Kept(s, S)[i] = Turn(Kept(s, S), s, S, i)
  BY KeptObeys DEF Obeys
<1>3. Kept(s, S)[0] = <<>>
  BY <1>1, <1>2 DEF Turn
<1>4. \A i \in 1 .. Len(s) :
        Kept(s, S)[i] = IF s[i] \in S THEN Append(Kept(s, S)[i - 1], s[i])
                        ELSE Kept(s, S)[i - 1]
  BY <1>1, <1>2, Zenon DEF Turn
<1> QED
  BY <1>3, <1>4

-----------------------------------------------------------------------------
(* What is in a sequence                                                   *)

Elements(s) == {s[i] : i \in 1 .. Len(s)}

Distinct(s) == \A i, j \in 1 .. Len(s) : s[i] = s[j] => i = j

\* One more element.
LEMMA AppendElements ==
  ASSUME NEW X, NEW s \in Seq(X), NEW x \in X
  PROVE  /\ Elements(Append(s, x)) = Elements(s) \cup {x}
         /\ Distinct(s) /\ x \notin Elements(s) => Distinct(Append(s, x))
<1>1. /\ Append(s, x) \in Seq(X) /\ Len(s) \in Nat
      /\ Len(Append(s, x)) = Len(s) + 1
      /\ \A j \in 1 .. Len(s) : Append(s, x)[j] = s[j]
      /\ Append(s, x)[Len(s) + 1] = x
  OBVIOUS
<1>2. Elements(Append(s, x)) = Elements(s) \cup {x}
  <2>1. 1 .. Len(s) + 1 = 1 .. Len(s) \cup {Len(s) + 1}
    BY <1>1
  <2> QED
    BY <1>1, <2>1, Zenon DEF Elements
<1>3. ASSUME Distinct(s), x \notin Elements(s) PROVE Distinct(Append(s, x))
  <2>1. \A j \in 1 .. Len(s) : s[j] # x
    BY <1>3 DEF Elements
  <2> QED
    BY <1>1, <1>3, <2>1 DEF Distinct
<1> QED
  BY <1>2, <1>3

LEMMA SingleElement ==
  ASSUME NEW X, NEW x \in X
  PROVE  <<x>> \in Seq(X) /\ Elements(<<x>>) = {x}
<1>1. <<x>> \in Seq(X) /\ Len(<<x>>) = 1 /\ 1 .. 1 = {1} /\ <<x>>[1] = x
  OBVIOUS
<1> QED
  BY <1>1 DEF Elements

LEMMA AddedElements ==
  ASSUME NEW X, NEW s \in Seq(X), NEW x \in X
  PROVE  s \o <<x>> \in Seq(X) /\ Elements(s \o <<x>>) = Elements(s) \cup {x}
<1>1. s \o <<x>> = Append(s, x)
  OBVIOUS
<1>2. Append(s, x) \in Seq(X)
  OBVIOUS
<1>3. Elements(Append(s, x)) = Elements(s) \cup {x}
  BY AppendElements
<1> QED
  BY <1>1, <1>2, <1>3, Zenon

-----------------------------------------------------------------------------
(* What Keep returns                                                       *)

\* The elements of the set and no others, and none twice that was there once.
LEMMA KeptElements ==
  ASSUME NEW X, NEW s \in Seq(X), NEW S, NEW i \in 0 .. Len(s)
  PROVE  /\ Kept(s, S)[i] \in Seq(X)
         /\ Elements(Kept(s, S)[i]) = {s[j] : j \in 1 .. i} \cap S
         /\ Distinct(s) => Distinct(Kept(s, S)[i])
<1> DEFINE Exact(n) == Elements(Kept(s, S)[n]) = {s[j] : j \in 1 .. n} \cap S
           Single(n) == Distinct(s) => Distinct(Kept(s, S)[n])
           T == {n \in Nat : n <= Len(s) => /\ Kept(s, S)[n] \in Seq(X)
                                            /\ Exact(n) /\ Single(n)}
<1>1. 0 \in T
  <2>1. Kept(s, S)[0] = <<>> /\ <<>> \in Seq(X) /\ Len(<<>>) = 0 /\ 1 .. 0 = {}
    BY KeptTurns
  <2> QED
    BY <2>1 DEF Elements, Distinct
<1>2. ASSUME NEW n \in T, n + 1 <= Len(s)
      PROVE  Kept(s, S)[n + 1] \in Seq(X) /\ Exact(n + 1) /\ Single(n + 1)
  <2> DEFINE k == Kept(s, S)[n]
  <2>1. n \in Nat /\ n + 1 \in 1 .. Len(s) /\ (n + 1) - 1 = n /\ s[n + 1] \in X
    BY <1>2
  <2>2. k \in Seq(X) /\ Exact(n) /\ Single(n)
    BY <1>2
  <2>3. {s[j] : j \in 1 .. n + 1} = {s[j] : j \in 1 .. n} \cup {s[n + 1]}
    BY <2>1
  <2>4. CASE s[n + 1] \notin S
    <3>1. Kept(s, S)[n + 1] = k
      BY <2>1, <2>4, KeptTurns
    <3> QED
      BY <2>2, <2>3, <2>4, <3>1
  <2>5. CASE s[n + 1] \in S
    <3>1. Kept(s, S)[n + 1] = Append(k, s[n + 1])
      BY <2>1, <2>5, KeptTurns
    <3> HIDE DEF k
    <3>2. /\ Elements(Append(k, s[n + 1])) = Elements(k) \cup {s[n + 1]}
          /\ Distinct(k) /\ s[n + 1] \notin Elements(k) =>
               Distinct(Append(k, s[n + 1]))
      BY <2>1, <2>2, AppendElements
    <3>3. Exact(n + 1)
      BY <2>2, <2>3, <2>5, <3>1, <3>2 DEF k
    <3>4. Distinct(s) => s[n + 1] \notin Elements(k)
      <4>1. Distinct(s) => \A j \in 1 .. n : s[j] # s[n + 1]
        BY <2>1 DEF Distinct
      <4> QED
        BY <2>2, <4>1 DEF k
    <3>5. Single(n + 1)
      BY <2>2, <3>1, <3>2, <3>4 DEF k
    <3>6. Append(k, s[n + 1]) \in Seq(X)
      BY <2>1, <2>2
    <3> QED
      BY <3>1, <3>3, <3>5, <3>6
  <2> QED
    BY <2>4, <2>5
<1>3. \A n \in T : n + 1 \in T
  <2> HIDE DEF Exact, Single
  <2> QED
    BY <1>2
<1>4. Nat \subseteq T
  <2> HIDE DEF T
  <2> QED
    BY <1>1, <1>3, InductionOnSet
<1>5. i \in Nat /\ i <= Len(s)
  OBVIOUS
<1>6. i \in T
  <2> HIDE DEF T
  <2> QED
    BY <1>4, <1>5
<1> QED
  BY <1>5, <1>6

LEMMA KeepElements ==
  ASSUME NEW X, NEW s \in Seq(X), NEW S
  PROVE  /\ Keep(s, S) \in Seq(X)
         /\ Elements(Keep(s, S)) = Elements(s) \cap S
         /\ Distinct(s) => Distinct(Keep(s, S))
<1>1. Len(s) \in 0 .. Len(s)
  OBVIOUS
<1> QED
  BY <1>1, KeptElements DEF Keep, Elements
-----------------------------------------------------------------------------
(* Keep of a longer sequence                                               *)

LEMMA KeepEmpty == ASSUME NEW S PROVE Keep(<<>>, S) = <<>>
<1>1. <<>> \in Seq({}) /\ Len(<<>>) = 0
  OBVIOUS
<1> QED
  BY <1>1, KeptTurns DEF Keep

LEMMA KeepAppend ==
  ASSUME NEW X, NEW s \in Seq(X), NEW x \in X, NEW S
  PROVE  /\ x \in S => Keep(Append(s, x), S) = Append(Keep(s, S), x)
         /\ x \notin S => Keep(Append(s, x), S) = Keep(s, S)
<1> DEFINE r == Append(s, x)
           T == {n \in Nat : n <= Len(s) => Kept(r, S)[n] = Kept(s, S)[n]}
<1>1. /\ r \in Seq(X) /\ Len(s) \in Nat /\ Len(r) = Len(s) + 1 /\ r[Len(s) + 1] = x
      /\ \A i \in 1 .. Len(s) : i \in 1 .. Len(r) /\ r[i] = s[i]
  OBVIOUS
<1> HIDE DEF r
<1>2. 0 \in T
  BY <1>1, KeptTurns
<1>3. ASSUME NEW n \in T PROVE n + 1 \in T
  <2>1. n + 1 \in Nat /\ (n + 1) - 1 = n
    OBVIOUS
  <2>2. ASSUME n + 1 <= Len(s) PROVE Kept(r, S)[n + 1] = Kept(s, S)[n + 1]
    <3>1. n + 1 \in 1 .. Len(s) /\ n + 1 \in 1 .. Len(r) /\ r[n + 1] = s[n + 1]
      BY <1>1, <2>2
    <3>2. Kept(r, S)[n] = Kept(s, S)[n]
      BY <2>2, <3>1
    <3>3. CASE s[n + 1] \in S
      <4>1. /\ Kept(s, S)[n + 1] = Append(Kept(s, S)[(n + 1) - 1], s[n + 1])
            /\ Kept(r, S)[n + 1] = Append(Kept(r, S)[(n + 1) - 1], s[n + 1])
        BY <3>1, <3>3, <1>1, KeptTurns
      <4> QED
        BY <2>1, <3>2, <4>1
    <3>4. CASE s[n + 1] \notin S
      <4>1. /\ Kept(s, S)[n + 1] = Kept(s, S)[(n + 1) - 1]
            /\ Kept(r, S)[n + 1] = Kept(r, S)[(n + 1) - 1]
        BY <3>1, <3>4, <1>1, KeptTurns
      <4> QED
        BY <2>1, <3>2, <4>1
    <3> QED
      BY <3>3, <3>4
  <2> QED
    BY <2>1, <2>2
<1>4. Nat \subseteq T
  <2> HIDE DEF T
  <2> QED
    BY <1>2, <1>3, InductionOnSet
<1>5. Kept(r, S)[Len(s)] = Keep(s, S)
  BY <1>1, <1>4 DEF Keep
<1>6. Len(s) + 1 \in 1 .. Len(r) /\ (Len(s) + 1) - 1 = Len(s)
  BY <1>1
<1>7. /\ x \in S => Kept(r, S)[Len(s) + 1] = Append(Kept(r, S)[(Len(s) + 1) - 1], x)
      /\ x \notin S => Kept(r, S)[Len(s) + 1] = Kept(r, S)[(Len(s) + 1) - 1]
  BY <1>1, <1>6, KeptTurns
<1>8. Keep(r, S) = Kept(r, S)[Len(s) + 1]
  BY <1>1 DEF Keep
<1> QED
  BY <1>5, <1>6, <1>7, <1>8 DEF r
=============================================================================
