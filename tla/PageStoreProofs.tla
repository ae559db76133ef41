--------------------------- MODULE PageStoreProofs ---------------------------
(***************************************************************************)
(* Proofs about PageStore, for every size of a page and of a word, and any *)
(* handles, tuples and number of pages and writes: tuples stay intact in   *)
(* memory and on disk, a page that is read is the page that was written,   *)
(* and pages are written to where they were read from.                     *)
(***************************************************************************)
EXTENDS PageStore, TLAPS

USE DEF HeaderWords, SlotWords, Gone, Address, Words

-----------------------------------------------------------------------------
(* Numbers                                                                 *)

LEMMA Sizes ==
  /\ PageWords \in Nat /\ Word \in Nat /\ 4 <= PageWords /\ PageWords < Word - 1
  /\ 0 \in Address /\ 1 \in Address /\ 2 \in Address /\ 3 \in Address
  /\ 0 \in Words /\ Gone \in Words /\ PageWords \in Words /\ 0 < Word
BY PageAssumption

LEMMA Addresses ==
  ASSUME NEW offset \in Nat, NEW size \in Nat, NEW free \in Nat, free <= offset,
         offset + size <= PageWords
  PROVE  \A i \in 1 .. size : offset + (i - 1) \in Address /\ offset + (i - 1) >= free
BY Sizes

\* A uint32 is two words (PutUint32 and Uint32, lines 47-50 and 70).
LEMMA TwoWords ==
  ASSUME NEW id \in Nat
  PROVE  /\ id % Word \in Words /\ id \div Word \in Nat
         /\ (id % Word) + Word * (id \div Word) = id
         /\ id < Word * Word => id \div Word \in Words
<1>1. Word \in Nat /\ 0 < Word
  BY Sizes
<1>2. /\ id % Word \in Nat /\ id % Word < Word /\ id \div Word \in Nat
      /\ id = Word * (id \div Word) + (id % Word)
  BY <1>1
<1>3. ASSUME id < Word * Word PROVE id \div Word < Word
  <2> DEFINE q == id \div Word
  <2>1. q \in Nat /\ Word * q <= id
    BY <1>1, <1>2
  <2> HIDE DEF q
  <2>2. Word <= q => Word * Word <= Word * q
    BY <1>1, <2>1
  <2> QED
    BY <1>1, <1>3, <2>1, <2>2 DEF q
<1> QED
  BY <1>1, <1>2, <1>3

LEMMA WordProduct ==
  ASSUME NEW low \in Words, NEW high \in Words
  PROVE  low + Word * high \in Nat
<1>1. Word \in Nat /\ high \in Nat /\ low \in Nat
  BY Sizes
<1>2. Word * high \in Nat
  BY <1>1
<1> QED
  BY <1>1, <1>2

-----------------------------------------------------------------------------
(* Pages on disk                                                           *)

LEMMA HeaderWordIs ==
  ASSUME NEW p
  PROVE  /\ HeaderWord(p, 0) = p.id % Word /\ HeaderWord(p, 1) = p.id \div Word
         /\ HeaderWord(p, 2) = p.count /\ HeaderWord(p, 3) = p.free
BY DEF HeaderWord

\* The two words of slot n are at the end of the directory of n - 1.
LEMMA SlotWordIs ==
  ASSUME NEW p, NEW n \in Nat \ {0}
  PROVE  /\ SlotWord(p, DirectoryEnd(n - 1)) = p.slots[n].offset
         /\ SlotWord(p, DirectoryEnd(n - 1) + 1) = p.slots[n].size
<1>1. /\ (DirectoryEnd(n - 1) - HeaderWords) \div SlotWords + 1 = n
      /\ (DirectoryEnd(n - 1) - HeaderWords) % SlotWords = 0
      /\ ((DirectoryEnd(n - 1) + 1) - HeaderWords) \div SlotWords + 1 = n
      /\ ((DirectoryEnd(n - 1) + 1) - HeaderWords) % SlotWords # 0
  BY DEF DirectoryEnd
<1>2. ASSUME NEW i, (i - HeaderWords) \div SlotWords + 1 = n
      PROVE  SlotWord(p, i) = IF (i - HeaderWords) % SlotWords = 0
                              THEN p.slots[n].offset ELSE p.slots[n].size
  <2> HIDE DEF HeaderWords, SlotWords
  <2> QED
    BY <1>2, Zenon DEF SlotWord
<1> HIDE DEF HeaderWords, SlotWords
<1>3. SlotWord(p, DirectoryEnd(n - 1)) = p.slots[n].offset
  BY <1>1, <1>2, Zenon
<1>4. SlotWord(p, DirectoryEnd(n - 1) + 1) = p.slots[n].size
  BY <1>1, <1>2, Zenon
<1> QED
  BY <1>3, <1>4

\* Serialize fills a buffer with words.
LEMMA SerializeType ==
  ASSUME NEW p \in Page, p.id < Word * Word
  PROVE  Serialize(p) \in [Address -> Words]
<1>1. /\ p.id \in Nat /\ p.count \in Words /\ p.free \in Words
      /\ p.slots \in Slots /\ p.data \in [Address -> Words]
  BY DEF Page
<1>2. \A i \in 0 .. 3 : HeaderWord(p, i) \in Words
  <2>1. p.id % Word \in Words /\ p.id \div Word \in Words
    BY <1>1, TwoWords
  <2>2. 0 .. 3 = {0, 1, 2, 3}
    OBVIOUS
  <2> HIDE DEF Words
  <2> QED
    BY <1>1, <2>1, <2>2, HeaderWordIs
<1>3. ASSUME NEW i \in Nat, 4 <= i, i < DirectoryEnd(Len(p.slots))
      PROVE  SlotWord(p, i) \in Words
  <2>1. (i - 4) \div 2 + 1 \in 1 .. Len(p.slots)
    BY <1>1, <1>3 DEF Slots, DirectoryEnd
  <2>2. p.slots[(i - 4) \div 2 + 1] \in [offset : Words, size : Words]
    <3> DEFINE n == (i - 4) \div 2 + 1
               S == [offset : Words, size : Words]
    <3>1. p.slots \in Seq(S) /\ n \in 1 .. Len(p.slots)
      BY <1>1, <2>1 DEF Slots
    <3> HIDE DEF n, S
    <3>2. p.slots[n] \in S
      BY <3>1
    <3> QED
      BY <3>2 DEF n, S
  <2> QED
    BY <2>2 DEF SlotWord
<1>4. ASSUME NEW i \in Address
      PROVE  (IF i >= p.free THEN p.data[i]
              ELSE IF i < HeaderWords THEN HeaderWord(p, i)
              ELSE IF i < DirectoryEnd(Len(p.slots)) THEN SlotWord(p, i)
              ELSE 0) \in Words
  <2>1. CASE i >= p.free
    BY <1>1, <2>1
  <2>2. CASE ~ i >= p.free /\ i < 4
    BY <1>2, <2>2, Sizes
  <2>3. CASE ~ i >= p.free /\ ~ i < 4 /\ i < DirectoryEnd(Len(p.slots))
    BY <1>3, <2>3, Sizes
  <2>4. CASE ~ i >= p.free /\ ~ i < 4 /\ ~ i < DirectoryEnd(Len(p.slots))
    BY <2>4, Sizes
  <2> QED
    BY <2>1, <2>2, <2>3, <2>4
<1> HIDE DEF Address, Words
<1> QED
  BY <1>4 DEF Serialize

\* DeserializePage makes a page of them, unless it runs out of the buffer.
LEMMA DeserializeType ==
  ASSUME NEW buf \in [Address -> Words], Deserializable(buf)
  PROVE  DeserializePage(buf) \in Page /\ Len(DeserializePage(buf).slots) = buf[2]
<1> DEFINE q == DeserializePage(buf)
<1>1. buf[0] \in Words /\ buf[1] \in Words /\ buf[2] \in Words /\ buf[3] \in Words
  BY Sizes
<1>2. q.id \in Nat
  BY <1>1, WordProduct DEF DeserializePage
<1>3. \A n \in 1 .. buf[2] :
        buf[DirectoryEnd(n - 1)] \in Words /\ buf[DirectoryEnd(n - 1) + 1] \in Words
  <2>1. \A n \in 1 .. buf[2] :
          DirectoryEnd(n - 1) \in Address /\ DirectoryEnd(n - 1) + 1 \in Address
    BY <1>1, Sizes DEF Deserializable, DirectoryEnd
  <2> QED
    BY <2>1
<1>4. q.slots \in [1 .. buf[2] -> [offset : Words, size : Words]]
  BY <1>3 DEF DeserializePage
<1>5. q.slots \in Slots /\ Len(q.slots) = buf[2]
  <2> DEFINE S == [offset : Words, size : Words]
  <2>1. q.slots \in [1 .. buf[2] -> S] /\ buf[2] \in Nat
    BY <1>1, <1>4, Sizes
  <2> HIDE DEF q, S
  <2>2. q.slots \in Seq(S) /\ Len(q.slots) = buf[2]
    BY <2>1
  <2> QED
    BY <2>2 DEF Slots, S
<1>6. q.data \in [Address -> Words]
  BY Sizes DEF DeserializePage
<1>7. q.count \in Words /\ q.free \in Words
  BY <1>1 DEF DeserializePage
<1>8. q = [id |-> q.id, count |-> q.count, free |-> q.free, slots |-> q.slots,
           data |-> q.data]
  BY DEF DeserializePage
<1> HIDE DEF q
<1>9. q \in Page
  BY <1>2, <1>5, <1>6, <1>7, <1>8 DEF Page
<1> QED
  BY <1>5, <1>9 DEF q

\* If the directory ends below the data, the header is read as it was written,
\* and the slots of the first TupleCount, if there are as many.
LEMMA RoundTrip ==
  ASSUME NEW p \in Page, p.id < Word * Word, Roomy(p), Serializable(p)
  PROVE  LET q == DeserializePage(Serialize(p))
         IN  /\ q.id = p.id /\ q.count = p.count /\ q.free = p.free
             /\ p.count <= Len(p.slots) =>
                  \A n \in 1 .. Len(p.slots) : n <= p.count => q.slots[n] = p.slots[n]
<1> DEFINE buf == Serialize(p)
           q == DeserializePage(buf)
<1>1. /\ p.id \in Nat /\ p.count \in Words /\ p.free \in Words
      /\ p.slots \in Slots /\ Len(p.slots) \in Nat
      /\ p.slots \in Seq([offset : Words, size : Words])
  BY DEF Page, Slots
<1>2. 4 + Len(p.slots) * 2 <= p.free /\ p.free <= PageWords
  BY DEF Roomy, Serializable, DirectoryEnd
<1>3. \A i \in 0 .. 3 : buf[i] = HeaderWord(p, i)
  BY <1>1, <1>2, Sizes DEF Serialize
<1>4. /\ buf[0] = p.id % Word /\ buf[1] = p.id \div Word
      /\ buf[2] = p.count /\ buf[3] = p.free
  <2> HIDE DEF buf
  <2> QED
    BY <1>3, HeaderWordIs
<1>5. q.id = p.id /\ q.count = p.count /\ q.free = p.free
  <2> HIDE DEF buf
  <2> QED
    BY <1>1, <1>4, TwoWords DEF DeserializePage
<1>6. ASSUME p.count <= Len(p.slots), NEW n \in 1 .. Len(p.slots), n <= p.count
      PROVE  q.slots[n] = p.slots[n]
  <2>1. /\ n \in Nat \ {0} /\ DirectoryEnd(n - 1) \in Nat /\ DirectoryEnd(n - 1) >= 4
        /\ DirectoryEnd(n - 1) + 1 < DirectoryEnd(Len(p.slots))
        /\ DirectoryEnd(Len(p.slots)) <= p.free
    BY <1>1, <1>2, <1>6 DEF DirectoryEnd
  <2> DEFINE j == DirectoryEnd(n - 1)
  <2>2. /\ j \in Address /\ j + 1 \in Address /\ ~ j >= p.free /\ ~ j + 1 >= p.free
        /\ ~ j < 4 /\ ~ j + 1 < 4
        /\ j < DirectoryEnd(Len(p.slots)) /\ j + 1 < DirectoryEnd(Len(p.slots))
    <3>1. p.free \in Nat /\ p.free <= PageWords /\ PageWords \in Nat
      BY <1>1, <1>2, Sizes
    <3>2. DirectoryEnd(Len(p.slots)) \in Nat
      BY <1>1 DEF DirectoryEnd
    <3> HIDE DEF j
    <3>3. j \in Nat /\ 4 <= j /\ j + 1 < DirectoryEnd(Len(p.slots))
      BY <2>1 DEF j
    <3> QED
      BY <2>1, <3>1, <3>2, <3>3
  <2>3. buf[j] = SlotWord(p, j) /\ buf[j + 1] = SlotWord(p, j + 1)
    <3> HIDE DEF j, Address
    <3> QED
      BY <2>2 DEF Serialize
  <2>4. buf[j] = p.slots[n].offset /\ buf[j + 1] = p.slots[n].size
    <3> HIDE DEF buf
    <3> QED
      BY <2>1, <2>3, SlotWordIs
  <2>5. q.slots[n] = [offset |-> buf[j], size |-> buf[j + 1]]
    <3>1. n \in 1 .. buf[2]
      BY <1>4, <1>6
    <3> HIDE DEF buf
    <3> QED
      BY <3>1 DEF DeserializePage
  <2>6. p.slots[n] \in [offset : Words, size : Words]
    <3> DEFINE S == [offset : Words, size : Words]
    <3>1. p.slots \in Seq(S) /\ n \in 1 .. Len(p.slots)
      BY <1>1, <1>6
    <3> HIDE DEF S
    <3>2. p.slots[n] \in S
      BY <3>1
    <3> QED
      BY <3>2 DEF S
  <2> HIDE DEF buf, q, j
  <2> QED
    BY <2>4, <2>5, <2>6
<1> QED
  BY <1>5, <1>6

-----------------------------------------------------------------------------
(* Pages in memory                                                         *)

LEMMA SlotType ==
  ASSUME NEW p \in Page, NEW n \in 1 .. Len(p.slots)
  PROVE  p.slots[n].offset \in Words /\ p.slots[n].size \in Words
<1> DEFINE S == [offset : Words, size : Words]
<1>1. p.slots \in Seq(S)
  BY DEF Page, Slots
<1> HIDE DEF S
<1>2. p.slots[n] \in S
  BY <1>1
<1> QED
  BY <1>2 DEF S

LEMMA SlotSequences ==
  ASSUME NEW p \in Page, NEW slot
  PROVE  LET s == Append(p.slots, slot)
         IN  /\ Len(p.slots) \in Nat /\ Len(s) = Len(p.slots) + 1
             /\ s[Len(p.slots) + 1] = slot
             /\ \A m \in 1 .. Len(p.slots) : s[m] = p.slots[m]
<1> DEFINE S == [offset : Words, size : Words]
<1>1. p.slots \in Seq(S)
  BY DEF Page, Slots
<1> HIDE DEF S
<1> QED
  BY <1>1

LEMMA NewPageType ==
  ASSUME NEW id \in Nat
  PROVE  /\ NewPage(id) \in Page /\ NewPage(id).slots = <<>>
         /\ Roomy(NewPage(id)) /\ Serializable(NewPage(id))
<1>1. Zeros \in [Address -> Words]
  BY Sizes DEF Zeros
<1>2. <<>> \in Slots /\ Len(<<>>) = 0
  BY DEF Slots
<1>3. NewPage(id) \in Page
  BY <1>1, <1>2, Sizes DEF NewPage, Page
<1>4. NewPage(id).slots = <<>> /\ NewPage(id).free = PageWords
  BY DEF NewPage
<1> QED
  BY <1>2, <1>3, <1>4, Sizes DEF Roomy, Serializable, DirectoryEnd

\* AddTuple puts the tuple below the others and adds a slot for it (lines 114-125).
LEMMA PlaceRight ==
  ASSUME NEW p \in Page, NEW t \in Tuples, HasSpace(p, t), p.free <= PageWords
  PROVE  LET q == Place(p, t)
             slot == [offset |-> p.free - Len(t), size |-> Len(t)]
         IN  /\ q \in Page /\ q.slots = Append(p.slots, slot) /\ q.id = p.id
             /\ q.free = p.free - Len(t) /\ q.free \in Nat /\ q.free <= p.free
             /\ \A i \in Address : i >= p.free => q.data[i] = p.data[i]
             /\ TupleAt(q.data, slot) = t
<1> DEFINE offset == p.free - Len(t)
           slot == [offset |-> offset, size |-> Len(t)]
           data == [i \in Address |-> IF i \in offset .. p.free - 1
                                     THEN t[(i - offset) + 1] ELSE p.data[i]]
           q == Place(p, t)
<1>1. /\ p.id \in Nat /\ p.count \in Words /\ p.free \in Words
      /\ p.slots \in Slots /\ p.data \in [Address -> Words] /\ Len(p.slots) \in Nat
  BY DEF Page, Slots
<1>2. t \in Seq(Words) /\ Len(t) \in Nat /\ Len(t) < Word
  BY PageAssumption
<1>3. offset \in Nat /\ offset <= p.free /\ p.free \in Nat
  BY <1>1, <1>2, Sizes DEF HasSpace
<1>4. slot \in [offset : Words, size : Words]
  BY <1>1, <1>2, <1>3, Sizes
<1>5. q = [p EXCEPT !.data = data, !.slots = Append(p.slots, slot), !.free = offset,
                   !.count = (p.count + 1) % Word]
  BY DEF Place
<1>6. Append(p.slots, slot) \in Slots
  <2> DEFINE S == [offset : Words, size : Words]
  <2> HIDE DEF slot, S
  <2>1. p.slots \in Seq(S) /\ slot \in S
    BY <1>1, <1>4 DEF Slots, S
  <2>2. Append(p.slots, slot) \in Seq(S)
    BY <2>1
  <2> QED
    BY <2>2 DEF Slots, S
<1>7. data \in [Address -> Words]
  <2>1. \A i \in offset .. p.free - 1 : (i - offset) + 1 \in 1 .. Len(t)
    BY <1>2, <1>3
  <2> HIDE DEF offset, Words
  <2>2. \A i \in offset .. p.free - 1 : t[(i - offset) + 1] \in Words
    BY <1>2, <2>1
  <2> QED
    BY <1>1, <2>2
<1>8. (p.count + 1) % Word \in Words
  BY <1>1, Sizes
<1>9. offset \in Words
  BY <1>1, <1>3, Sizes
<1> HIDE DEF slot, data, q
<1>10. /\ q \in Page
       /\ q.id = p.id /\ q.free = offset /\ q.slots = Append(p.slots, slot)
       /\ q.data = data
  <2> HIDE DEF offset, Words, Address
  <2> QED
    BY <1>5, <1>6, <1>7, <1>8, <1>9 DEF Page
<1>11. \A i \in Address : i >= p.free => q.data[i] = p.data[i]
  BY <1>3, <1>10 DEF data
<1>12. TupleAt(q.data, slot) = t
  <2>1. slot.offset = offset /\ slot.size = Len(t)
    BY DEF slot
  <2>2. \A i \in 1 .. Len(t) : /\ offset + (i - 1) \in Address
                              /\ offset + (i - 1) \in offset .. p.free - 1
                              /\ ((offset + (i - 1)) - offset) + 1 = i
    <3>1. PageWords \in Nat /\ offset + Len(t) = p.free
      BY <1>2, <1>3, Sizes
    <3> HIDE DEF offset
    <3> QED
      BY <1>2, <1>3, <3>1
  <2>3. \A i \in 1 .. Len(t) : data[offset + (i - 1)] = t[i]
    <3> HIDE DEF offset, Address
    <3> QED
      BY <2>2 DEF data
  <2>4. t = [i \in 1 .. Len(t) |-> t[i]]
    BY <1>2
  <2> HIDE DEF offset
  <2> QED
    BY <1>10, <2>1, <2>3, <2>4 DEF TupleAt
<1> QED
  BY <1>3, <1>10, <1>11, <1>12 DEF q, slot

\* What DeleteTuple makes of a page (lines 130-137).
Deleted(p, n) ==
  [p EXCEPT !.slots = [p.slots EXCEPT ![n] = [offset |-> Gone, size |-> 0]],
            !.count = (p.count + Word - 1) % Word]

LEMMA DeletedType ==
  ASSUME NEW p \in Page, NEW n \in 1 .. Len(p.slots)
  PROVE  /\ Deleted(p, n) \in Page
         /\ Deleted(p, n).slots = [p.slots EXCEPT ![n] = [offset |-> Gone, size |-> 0]]
         /\ Deleted(p, n).id = p.id /\ Deleted(p, n).free = p.free
         /\ Deleted(p, n).data = p.data
<1> DEFINE S == [offset : Words, size : Words]
           slot == [offset |-> Gone, size |-> 0]
           count == (p.count + Word - 1) % Word
<1>1. p.count \in Words /\ p.slots \in Slots
  BY DEF Page
<1>2. Gone \in Words /\ 0 \in Words /\ count \in Words
  BY <1>1, Sizes
<1>3. slot \in S
  <2> HIDE DEF Words, Gone
  <2> QED
    BY <1>2
<1> HIDE DEF S, slot, count
<1>4. [p.slots EXCEPT ![n] = slot] \in Slots
  <2>1. p.slots \in Seq(S)
    BY <1>1 DEF Slots, S
  <2>2. [p.slots EXCEPT ![n] = slot] \in Seq(S)
    BY <1>3, <2>1
  <2> QED
    BY <2>2 DEF Slots, S
<1>5. Deleted(p, n) = [p EXCEPT !.slots = [p.slots EXCEPT ![n] = slot], !.count = count]
  BY DEF Deleted, slot, count
<1> HIDE DEF Words, Address
<1> QED
  BY <1>2, <1>4, <1>5 DEF Page, slot

-----------------------------------------------------------------------------
(* The invariant                                                           *)

Record == [tuple : Seq(Words), live : BOOLEAN]

\* TypeOK, and the types of the histories.
Typed ==
  /\ page \in [Handles -> Page \cup {NoPage}]
  /\ file \in Seq([Address -> Words])
  /\ Len(written) = Len(file) /\ Len(file) <= MaxPages
  /\ \A i \in 1 .. Len(file) : written[i].tuples \in Seq(Record)
  /\ kept \in [Handles -> Seq(Record)]
  /\ \A h \in Handles : Holds(h) => Len(kept[h]) = Len(page[h].slots)
  /\ fresh \subseteq Handles /\ overrun \in BOOLEAN /\ writes \in Nat
  /\ opened \in [Handles -> Nat]

\* What FreshTuplesIntact says of a page p whose slots were filled as ks says.
Intact(p, ks) ==
  /\ p.free <= PageWords
  /\ \A n \in 1 .. Len(p.slots) :
       LET slot == p.slots[n] IN
       IF ks[n].live
       THEN /\ ~ IsDeleted(slot) /\ p.free <= slot.offset /\ InPage(slot)
            /\ TupleAt(p.data, slot) = ks[n].tuple
       ELSE IsDeleted(slot)

FreshIntact == \A h \in fresh : Holds(h) => Intact(page[h], kept[h])

\* While every page that was written had room for its directory, a handle's page
\* has the ID it was opened with, and a page of the file the ID of its place.
IdsRight ==
  ~ overrun =>
    /\ \A h \in Handles : Holds(h) => page[h].id = opened[h] /\ opened[h] < Len(file)
    /\ \A i \in 1 .. Len(file) : file[i][0] + Word * file[i][1] = i - 1

PageInv == Typed /\ FreshIntact /\ IdsRight /\ TuplesOnDisk /\ DirectoryOnDisk

-----------------------------------------------------------------------------
(* Writing a page                                                          *)

\* A page of the file that nothing was written to.
Hole == Written(DeserializePage(Zeros), <<>>, FALSE)

\* Store changes one page of the file, and fills the file up to it.
LEMMA StoreRight ==
  ASSUME Typed, NEW p \in Page, NEW r, Store(p, r)
  PROVE  /\ file' \in Seq([Address -> Words]) /\ Len(written') = Len(file')
         /\ Len(file) <= Len(file') /\ Len(file') <= MaxPages
         /\ p.id + 1 \in 1 .. Len(file')
         /\ file'[p.id + 1] = Serialize(p) /\ written'[p.id + 1] = r
         /\ \A i \in 1 .. Len(file') : i # p.id + 1 =>
              \/ i \in 1 .. Len(file) /\ file'[i] = file[i] /\ written'[i] = written[i]
              \/ i \notin 1 .. Len(file) /\ file'[i] = Zeros /\ written'[i] = Hole
<1> DEFINE n == IF p.id < Len(file) THEN Len(file) ELSE p.id + 1
           Words2(i) == IF i = p.id + 1 THEN Serialize(p)
                        ELSE IF i <= Len(file) THEN file[i] ELSE Zeros
           Record2(i) == IF i = p.id + 1 THEN r
                         ELSE IF i <= Len(file) THEN written[i] ELSE Hole
<1>1. /\ p.id \in Nat /\ Len(file) \in Nat /\ p.id < MaxPages /\ Len(file) <= MaxPages
      /\ MaxPages \in Nat
  BY PageAssumption DEF Page, Typed, Store
<1>2. n \in Nat /\ Len(file) <= n /\ n <= MaxPages /\ p.id + 1 \in 1 .. n
  BY <1>1
<1>3. /\ file' = [i \in 1 .. n |-> Words2(i)]
      /\ written' = [i \in DOMAIN file' |-> Record2(i)]
      /\ writes' = writes + 1 /\ overrun' = (overrun \/ ~ Roomy(p))
  BY DEF Store, Hole
<1>4. Serialize(p) \in [Address -> Words] /\ Zeros \in [Address -> Words]
  <2>1. p.id < Word * Word
    <3>1. Word * Word \in Nat /\ MaxPages <= Word * Word
      BY PageAssumption, Sizes
    <3> QED
      BY <1>1, <3>1
  <2> QED
    BY <2>1, SerializeType, Sizes DEF Zeros
<1>5. \A i \in 1 .. n : Words2(i) \in [Address -> Words]
  <2> DEFINE B == [Address -> Words]
  <2>1. file \in Seq(B) /\ Serialize(p) \in B /\ Zeros \in B
    BY <1>4 DEF Typed
  <2> HIDE DEF B, n
  <2>2. \A i \in 1 .. n : i <= Len(file) => file[i] \in B
    BY <1>2, <2>1
  <2>3. \A i \in 1 .. n : Words2(i) \in B
    BY <2>1, <2>2
  <2> QED
    BY <2>3 DEF B
<1> HIDE DEF n
<1>6. written' = [i \in 1 .. n |-> Record2(i)]
  <2> HIDE DEF Words2, Record2
  <2> QED
    BY <1>3
<1>7. /\ file' \in Seq([Address -> Words]) /\ Len(file') = n /\ Len(written') = n
  <2> DEFINE B == [Address -> Words]
  <2> HIDE DEF Words2, Record2, B
  <2>1. file' \in Seq(B)
    BY <1>2, <1>3, <1>5 DEF B
  <2>2. Len(file') = n /\ Len(written') = n
    BY <1>2, <1>3, <1>6
  <2> QED
    BY <2>1, <2>2 DEF B
<1>8. \A i \in 1 .. n : file'[i] = Words2(i) /\ written'[i] = Record2(i)
  <2> HIDE DEF Words2, Record2
  <2> QED
    BY <1>3, <1>6
<1>9. \A i \in 1 .. n : i # p.id + 1 =>
        \/ i \in 1 .. Len(file) /\ file'[i] = file[i] /\ written'[i] = written[i]
        \/ i \notin 1 .. Len(file) /\ file'[i] = Zeros /\ written'[i] = Hole
  BY <1>1, <1>2, <1>8
<1>10. file'[p.id + 1] = Serialize(p) /\ written'[p.id + 1] = r
  BY <1>2, <1>8
<1>11. Len(file) <= n /\ n <= MaxPages /\ p.id + 1 \in 1 .. n
  BY <1>2
<1> HIDE DEF Words2, Record2, Hole
<1> QED
  BY <1>7, <1>9, <1>10, <1>11

LEMMA StoreCounts ==
  ASSUME Typed, NEW p \in Page, NEW r, Store(p, r)
  PROVE  /\ overrun' \in BOOLEAN /\ writes' \in Nat
         /\ ~ overrun' => ~ overrun /\ Roomy(p)
<1>1. writes' \in Nat
  BY DEF Store, Typed
<1>2. overrun' = (overrun \/ ~ Roomy(p))
  BY DEF Store
<1>3. overrun' \in BOOLEAN /\ (~ overrun' => ~ overrun /\ Roomy(p))
  BY <1>2, Zenon
<1> QED
  BY <1>1, <1>3, Zenon

LEMMA StoreTypes ==
  ASSUME Typed, NEW p \in Page, NEW r, r.tuples \in Seq(Record), Store(p, r)
  PROVE  /\ file' \in Seq([Address -> Words])
         /\ Len(written') = Len(file') /\ Len(file') <= MaxPages
         /\ \A i \in 1 .. Len(file') : written'[i].tuples \in Seq(Record)
         /\ overrun' \in BOOLEAN /\ writes' \in Nat
<1>1. Hole.tuples = <<>> /\ <<>> \in Seq(Record)
  BY DEF Hole, Written
<1>2. \A i \in 1 .. Len(file) : written[i].tuples \in Seq(Record)
  BY DEF Typed
<1> HIDE DEF Typed, Store, Hole, Record
<1>3. \A i \in 1 .. Len(file') : written'[i].tuples \in Seq(Record)
  BY <1>1, <1>2, StoreRight
<1> HIDE DEF Words, Address
<1>4. /\ file' \in Seq([Address -> Words])
      /\ Len(written') = Len(file') /\ Len(file') <= MaxPages
  BY StoreRight
<1>5. overrun' \in BOOLEAN /\ writes' \in Nat
  BY StoreCounts, Zenon
<1> QED
  BY <1>3, <1>4, <1>5, Zenon

-----------------------------------------------------------------------------
(* Types                                                                   *)

\* Every change of a handle's page and history keeps them typed.
LEMMA HandleTypes ==
  ASSUME Typed, NEW h \in Handles, NEW p \in Page, NEW k \in Seq(Record),
         Len(k) = Len(p.slots),
         page' = [page EXCEPT ![h] = p], kept' = [kept EXCEPT ![h] = k]
  PROVE  /\ page' \in [Handles -> Page \cup {NoPage}]
         /\ kept' \in [Handles -> Seq(Record)]
         /\ \A g \in Handles : Holds(g)' => Len(kept'[g]) = Len(page'[g].slots)
         /\ page'[h] = p /\ kept'[h] = k /\ NoPage # p
         /\ \A g \in Handles : g # h => page'[g] = page[g] /\ kept'[g] = kept[g]
<1>1. NoPage \notin Page
  BY PageAssumption
<1> QED
  BY <1>1 DEF Typed, Holds

LEMMA PanicTypes ==
  ASSUME PageInv, Panic
  PROVE  PageInv'
<1>1. /\ page' = [h \in Handles |-> NoPage]
      /\ UNCHANGED <<file, kept, fresh, opened, written, overrun, writes>>
  BY DEF Panic, history
<1>2. \A h \in Handles : ~ Holds(h)'
  BY <1>1 DEF Holds
<1>3. Typed'
  BY <1>1, <1>2 DEF PageInv, Typed
<1>4. FreshIntact'
  BY <1>1, <1>2 DEF FreshIntact, PageInv, Typed
<1>5. IdsRight'
  BY <1>1, <1>2 DEF PageInv, IdsRight
<1>6. TuplesOnDisk' /\ DirectoryOnDisk'
  BY <1>1 DEF PageInv, TuplesOnDisk, DirectoryOnDisk
<1> QED
  BY <1>3, <1>4, <1>5, <1>6 DEF PageInv

LEMMA HeldPage ==
  ASSUME Typed, NEW h \in Handles, Holds(h)
  PROVE  page[h] \in Page /\ Len(kept[h]) = Len(page[h].slots) /\ kept[h] \in Seq(Record)
BY DEF Typed, Holds

\* The steps that change a page in memory only.
LEMMA AddTypes ==
  ASSUME Typed, NEW h \in Handles, NEW t \in Tuples, AddTuple(h, t)
  PROVE  Typed'
<1> DEFINE q == Place(page[h], t)
           r == [tuple |-> t, live |-> TRUE]
           slot == [offset |-> page[h].free - Len(t), size |-> Len(t)]
<1>1. page[h] \in Page /\ Len(kept[h]) = Len(page[h].slots) /\ kept[h] \in Seq(Record)
  BY HeldPage DEF AddTuple
<1>2. HasSpace(page[h], t) /\ page[h].free <= PageWords
  BY DEF AddTuple
<1>3. q \in Page /\ q.slots = Append(page[h].slots, slot)
  BY <1>1, <1>2, PlaceRight
<1>4. r \in Record
  BY PageAssumption DEF Record
<1>5. Append(kept[h], r) \in Seq(Record)
  <2> HIDE DEF r, Record
  <2> QED
    BY <1>1, <1>4
<1>6. page' = [page EXCEPT ![h] = q] /\ kept' = [kept EXCEPT ![h] = Append(kept[h], r)]
  BY DEF AddTuple
<1>7. Len(Append(kept[h], r)) = Len(q.slots)
  <2> HIDE DEF r, slot, q
  <2>1. page[h].slots \in Seq([offset : Words, size : Words])
    BY <1>1 DEF Page, Slots
  <2> QED
    BY <1>1, <1>3, <2>1
<1> HIDE DEF q, r, slot
<1>8. /\ page' \in [Handles -> Page \cup {NoPage}]
      /\ kept' \in [Handles -> Seq(Record)]
      /\ \A g \in Handles : Holds(g)' => Len(kept'[g]) = Len(page'[g].slots)
  BY <1>3, <1>5, <1>6, <1>7, HandleTypes
<1>9. UNCHANGED <<file, fresh, opened, written, overrun, writes>>
  BY DEF AddTuple, history
<1> QED
  BY <1>8, <1>9 DEF Typed

\* DeleteTuple, as a change of the page and of the history.
LEMMA DeleteRight ==
  ASSUME Typed, NEW h \in Handles, NEW n \in Nat, DeleteTuple(h, n)
  PROVE  LET k == [kept[h] EXCEPT ![n] = [kept[h][n] EXCEPT !.live = FALSE]]
         IN  /\ n \in 1 .. Len(page[h].slots) /\ page[h] \in Page
             /\ page' = [page EXCEPT ![h] = Deleted(page[h], n)]
             /\ kept' = [kept EXCEPT ![h] = k]
             /\ k \in Seq(Record) /\ Len(k) = Len(Deleted(page[h], n).slots)
             /\ k[n].live = FALSE /\ \A m \in 1 .. Len(k) : m # n => k[m] = kept[h][m]
<1> DEFINE r == [kept[h][n] EXCEPT !.live = FALSE]
           k == [kept[h] EXCEPT ![n] = r]
<1>1. /\ n \in 1 .. Len(page[h].slots) /\ page[h] \in Page
      /\ Len(kept[h]) = Len(page[h].slots) /\ kept[h] \in Seq(Record)
      /\ page[h].slots \in Seq([offset : Words, size : Words])
  BY HeldPage DEF DeleteTuple, Page, Slots
<1>2. kept[h][n] \in Record
  <2> HIDE DEF Record
  <2> QED
    BY <1>1
<1>3. r \in Record /\ r.live = FALSE
  BY <1>2 DEF Record
<1>4. page' = [page EXCEPT ![h] = Deleted(page[h], n)]
  BY <1>1 DEF DeleteTuple, Deleted, Page, Typed
<1>5. kept' = [kept EXCEPT ![h] = k]
  BY <1>1, <1>2 DEF DeleteTuple, Record, Typed
<1> HIDE DEF r
<1>6. k \in Seq(Record) /\ Len(k) = Len(kept[h]) /\ k[n] = r
      /\ \A m \in 1 .. Len(k) : m # n => k[m] = kept[h][m]
  <2> HIDE DEF Record
  <2> QED
    BY <1>1, <1>3
<1>7. Len(Deleted(page[h], n).slots) = Len(page[h].slots)
  <2>1. Deleted(page[h], n).slots = [page[h].slots EXCEPT ![n] = [offset |-> Gone, size |-> 0]]
    BY <1>1, DeletedType
  <2> DEFINE S == [offset : Words, size : Words]
             slot == [offset |-> Gone, size |-> 0]
  <2>2. slot \in S
    BY Sizes
  <2> HIDE DEF S, slot
  <2>3. page[h].slots \in Seq(S)
    BY <1>1 DEF S
  <2>4. Len([page[h].slots EXCEPT ![n] = slot]) = Len(page[h].slots)
    BY <1>1, <2>2, <2>3
  <2> QED
    BY <2>1, <2>4 DEF slot
<1> HIDE DEF k
<1> QED
  BY <1>1, <1>3, <1>4, <1>5, <1>6, <1>7 DEF k, r

-----------------------------------------------------------------------------
(* What a write leaves on disk                                             *)

\* A live tuple is above FreeSpaceOffset, so it is copied after the directory.
LEMMA SerializedTuples ==
  ASSUME NEW p \in Page, NEW ks, Intact(p, ks),
         NEW n \in 1 .. Len(p.slots), ks[n].live
  PROVE  TupleAt(Serialize(p), p.slots[n]) = ks[n].tuple
<1> DEFINE slot == p.slots[n]
<1>1. /\ p.free \in Words /\ p.slots \in Slots
  BY DEF Page
<1>2. slot.offset \in Words /\ slot.size \in Words
  <2> DEFINE S == [offset : Words, size : Words]
  <2>1. p.slots \in Seq(S)
    BY <1>1 DEF Slots
  <2> HIDE DEF S
  <2>2. slot \in S
    BY <2>1
  <2> QED
    BY <2>2 DEF S
<1>3. /\ p.free <= slot.offset /\ slot.offset + slot.size <= PageWords
      /\ TupleAt(p.data, slot) = ks[n].tuple
  BY DEF Intact, InPage
<1> HIDE DEF slot
<1>4. \A i \in 1 .. slot.size : Serialize(p)[slot.offset + (i - 1)]
                              = p.data[slot.offset + (i - 1)]
  <2>1. \A i \in 1 .. slot.size : /\ slot.offset + (i - 1) \in Address
                                 /\ slot.offset + (i - 1) >= p.free
    BY <1>1, <1>2, <1>3, Sizes
  <2> HIDE DEF Address
  <2> QED
    BY <2>1 DEF Serialize
<1>5. TupleAt(Serialize(p), slot) = TupleAt(p.data, slot)
  BY <1>4 DEF TupleAt
<1> QED
  BY <1>3, <1>5 DEF slot

LEMMA HoleNotRoomy == ~ Hole.roomy
<1> DEFINE q == DeserializePage(Zeros)
<1>1. Zeros \in [Address -> Words] /\ Zeros[2] = 0 /\ Zeros[3] = 0
  BY Sizes DEF Zeros
<1>2. q.free = 0
  BY <1>1 DEF DeserializePage
<1>3. Deserializable(Zeros)
  BY <1>1, Sizes DEF Deserializable, DirectoryEnd
<1>4. Len(q.slots) = 0
  BY <1>1, <1>3, DeserializeType
<1>5. ~ Roomy(q)
  BY <1>2, <1>4 DEF Roomy, DirectoryEnd
<1>6. Hole.roomy = Roomy(q)
  BY Zenon DEF Hole, Written
<1> QED
  BY <1>5, <1>6

LEMMA StoreOnDisk ==
  ASSUME PageInv, NEW p \in Page, NEW ks \in Seq(Record), NEW b \in BOOLEAN,
         Len(ks) = Len(p.slots), Serializable(p), b => Intact(p, ks),
         Store(p, Written(p, ks, b))
  PROVE  TuplesOnDisk' /\ DirectoryOnDisk'
<1> DEFINE r == Written(p, ks, b)
<1>1. /\ r.page.id = p.id /\ r.page.count = p.count /\ r.page.free = p.free
      /\ r.page.slots = p.slots /\ r.tuples = ks
      /\ (r.fresh <=> b) /\ (r.roomy <=> Roomy(p))
  BY DEF Written
<1>2. ~ Hole.roomy
  BY HoleNotRoomy
<1>3. /\ p.id + 1 \in 1 .. Len(file')
      /\ file'[p.id + 1] = Serialize(p) /\ written'[p.id + 1] = r
      /\ \A i \in 1 .. Len(file') : i # p.id + 1 =>
           \/ i \in 1 .. Len(file) /\ file'[i] = file[i] /\ written'[i] = written[i]
           \/ i \notin 1 .. Len(file) /\ file'[i] = Zeros /\ written'[i] = Hole
  <2> HIDE DEF Words, Address
  <2> QED
    BY StoreRight DEF PageInv
<1>4. p.id < Word * Word
  BY PageAssumption, Sizes DEF Store, Page
<1> HIDE DEF Hole, r
<1>5. TuplesOnDisk'
  <2> SUFFICES ASSUME NEW i \in 1 .. Len(file'), written'[i].roomy, written'[i].fresh,
                      NEW n \in 1 .. Len(written'[i].tuples), written'[i].tuples[n].live
               PROVE  TupleAt(file'[i], written'[i].page.slots[n])
                        = written'[i].tuples[n].tuple
    BY DEF TuplesOnDisk
  <2>1. CASE i = p.id + 1
    BY <1>1, <1>3, <2>1, SerializedTuples
  <2>2. CASE i # p.id + 1
    BY <1>2, <1>3, <2>2 DEF PageInv, TuplesOnDisk
  <2> QED
    BY <2>1, <2>2
<1>6. DirectoryOnDisk'
  <2> SUFFICES ASSUME NEW i \in 1 .. Len(file'), written'[i].roomy,
                      written'[i].page.count <= Len(written'[i].page.slots)
               PROVE  LET w == written'[i].page
                          q == DeserializePage(file'[i])
                      IN  /\ q.id = w.id /\ q.count = w.count /\ q.free = w.free
                          /\ \A n \in 1 .. Len(w.slots) :
                               n <= w.count => q.slots[n] = w.slots[n]
    BY DEF DirectoryOnDisk
  <2>1. CASE i = p.id + 1
    <3>1. written'[i] = r /\ file'[i] = Serialize(p)
      BY <1>3, <2>1
    <3>2. Roomy(p) /\ p.count <= Len(p.slots)
      BY <1>1, <3>1
    <3>3. LET q == DeserializePage(Serialize(p))
          IN  /\ q.id = p.id /\ q.count = p.count /\ q.free = p.free
              /\ \A n \in 1 .. Len(p.slots) : n <= p.count => q.slots[n] = p.slots[n]
      BY <1>4, <3>2, RoundTrip
    <3> QED
      BY <1>1, <3>1, <3>3
  <2>2. CASE i # p.id + 1
    <3>1. i \in 1 .. Len(file) /\ file'[i] = file[i] /\ written'[i] = written[i]
      BY <1>2, <1>3, <2>2
    <3>2. DirectoryOnDisk
      BY DEF PageInv
    <3> QED
      BY <3>1, <3>2 DEF DirectoryOnDisk
  <2> QED
    BY <2>1, <2>2
<1> QED
  BY <1>5, <1>6
LEMMA StoreIds ==
  ASSUME PageInv, NEW p \in Page, NEW r, Store(p, r), Serializable(p),
         ~ overrun => p.id <= Len(file), ~ overrun'
  PROVE  /\ ~ overrun /\ p.id < Len(file') /\ Len(file) <= Len(file')
         /\ \A i \in 1 .. Len(file') : file'[i][0] + Word * file'[i][1] = i - 1
<1>1. ~ overrun /\ Roomy(p)
  BY StoreCounts, Zenon DEF PageInv
<1>2. p.id < Word * Word /\ p.id \in Nat /\ Len(file) \in Nat
  BY PageAssumption, Sizes DEF Store, Page, PageInv, Typed
<1>3. Serialize(p)[0] + Word * Serialize(p)[1] = p.id
  <2>1. DeserializePage(Serialize(p)).id = p.id
    BY <1>1, <1>2, RoundTrip
  <2> QED
    BY <2>1 DEF DeserializePage
<1>4. /\ p.id + 1 \in 1 .. Len(file') /\ Len(file) <= Len(file') /\ Len(file') \in Nat
      /\ file'[p.id + 1] = Serialize(p)
      /\ \A i \in 1 .. Len(file') : i # p.id + 1 =>
           \/ i \in 1 .. Len(file) /\ file'[i] = file[i] /\ written'[i] = written[i]
           \/ i \notin 1 .. Len(file) /\ file'[i] = Zeros /\ written'[i] = Hole
  <2> HIDE DEF Words, Address
  <2> QED
    BY StoreRight DEF PageInv
<1>5. ASSUME NEW i \in 1 .. Len(file')
      PROVE  file'[i][0] + Word * file'[i][1] = i - 1
  <2>1. CASE i = p.id + 1
    BY <1>2, <1>3, <1>4, <2>1
  <2>2. CASE i # p.id + 1 /\ i \in 1 .. Len(file)
    BY <1>1, <1>4, <2>2 DEF PageInv, IdsRight
  <2>3. CASE i # p.id + 1 /\ i \notin 1 .. Len(file)
    <3>1. Len(file') = Len(file) \/ Len(file') = p.id + 1
      BY <1>2 DEF Store
    <3> QED
      BY <1>1, <1>2, <1>4, <2>3, <3>1
  <2> QED
    BY <2>1, <2>2, <2>3
<1> QED
  BY <1>1, <1>2, <1>4, <1>5

-----------------------------------------------------------------------------
(* One lemma per operation                                                 *)

LEMMA AllocateKeeps ==
  ASSUME PageInv, NEW h \in Handles, AllocateNewPage(h)
  PROVE  PageInv'
<1> DEFINE p == NewPage(Len(file))
           r == Written(p, <<>>, TRUE)
<1>1. Typed /\ Len(file) \in Nat /\ <<>> \in Seq(Record) /\ Len(<<>>) = 0
  BY DEF PageInv, Typed
<1>2. /\ p \in Page /\ p.slots = <<>> /\ Serializable(p) /\ p.id = Len(file)
      /\ p.free = PageWords
  BY <1>1, NewPageType DEF NewPage
<1>3. r.tuples = <<>>
  BY DEF Written
<1>4. /\ Store(p, r) /\ page' = [page EXCEPT ![h] = p] /\ kept' = [kept EXCEPT ![h] = <<>>]
      /\ fresh' = fresh \cup {h} /\ opened' = [opened EXCEPT ![h] = Len(file)]
  BY <1>2 DEF AllocateNewPage
<1>5. Intact(p, <<>>)
  BY <1>1, <1>2, Sizes DEF Intact
<1> HIDE DEF p, r, Words, Address, Record
<1>6. /\ page' \in [Handles -> Page \cup {NoPage}]
      /\ kept' \in [Handles -> Seq(Record)]
      /\ \A g \in Handles : Holds(g)' => Len(kept'[g]) = Len(page'[g].slots)
      /\ page'[h] = p /\ kept'[h] = <<>>
      /\ \A g \in Handles : g # h => page'[g] = page[g] /\ kept'[g] = kept[g]
  BY <1>1, <1>2, <1>4, HandleTypes
<1>7. /\ file' \in Seq([Address -> Words])
      /\ Len(written') = Len(file') /\ Len(file') <= MaxPages
      /\ \A i \in 1 .. Len(file') : written'[i].tuples \in Seq(Record)
      /\ overrun' \in BOOLEAN /\ writes' \in Nat
  BY <1>1, <1>2, <1>3, <1>4, StoreTypes
<1>8. fresh' \subseteq Handles /\ opened' \in [Handles -> Nat]
  BY <1>1, <1>4 DEF Typed
<1>9. Typed'
  BY <1>6, <1>7, <1>8, Zenon DEF Typed
<1>10. FreshIntact'
  BY <1>4, <1>5, <1>6 DEF FreshIntact, PageInv, Holds, Typed
<1>11. TuplesOnDisk' /\ DirectoryOnDisk'
  BY <1>1, <1>2, <1>4, <1>5, StoreOnDisk DEF r
<1>12. IdsRight'
  <2> SUFFICES ASSUME ~ overrun'
               PROVE  /\ \A g \in Handles : Holds(g)' => page'[g].id = opened'[g]
                                                        /\ opened'[g] < Len(file')
                      /\ \A i \in 1 .. Len(file') : file'[i][0] + Word * file'[i][1] = i - 1
    BY DEF IdsRight
  <2>1. /\ ~ overrun /\ p.id < Len(file') /\ Len(file) <= Len(file')
        /\ \A i \in 1 .. Len(file') : file'[i][0] + Word * file'[i][1] = i - 1
    BY <1>1, <1>2, <1>4, StoreIds
  <2>2. ASSUME NEW g \in Handles, Holds(g)'
        PROVE  page'[g].id = opened'[g] /\ opened'[g] < Len(file')
    <3>1. CASE g = h
      BY <1>1, <1>2, <1>4, <1>6, <2>1, <3>1 DEF Typed
    <3>2. CASE g # h
      BY <1>1, <1>4, <1>6, <1>7, <2>1, <2>2, <3>2 DEF PageInv, IdsRight, Holds, Typed
    <3> QED
      BY <3>1, <3>2
  <2> QED
    BY <2>1, <2>2
<1> QED
  BY <1>9, <1>10, <1>11, <1>12 DEF PageInv
LEMMA WriteKeeps ==
  ASSUME PageInv, NEW h \in Handles, WritePage(h)
  PROVE  PageInv'
<1> DEFINE p == page[h]
           r == Written(p, kept[h], h \in fresh)
<1>1. Typed /\ Holds(h) /\ Serializable(p) /\ Store(p, r)
      /\ UNCHANGED <<page, kept, fresh, opened>>
  BY DEF PageInv, WritePage
<1>2. p \in Page /\ Len(kept[h]) = Len(p.slots) /\ kept[h] \in Seq(Record)
  BY <1>1, HeldPage
<1>3. r.tuples = kept[h]
  BY DEF Written
<1>4. h \in fresh => Intact(p, kept[h])
  BY <1>1 DEF PageInv, FreshIntact
<1>5. ~ overrun => p.id <= Len(file) /\ p.id = opened[h]
  BY <1>1 DEF PageInv, IdsRight, Typed
<1> HIDE DEF p, r, Words, Address, Record
<1>6. /\ file' \in Seq([Address -> Words])
      /\ Len(written') = Len(file') /\ Len(file') <= MaxPages
      /\ \A i \in 1 .. Len(file') : written'[i].tuples \in Seq(Record)
      /\ overrun' \in BOOLEAN /\ writes' \in Nat
  BY <1>1, <1>2, <1>3, StoreTypes
<1>7. \A g \in Handles : Holds(g)' <=> Holds(g)
  BY <1>1 DEF Holds
<1>8. Typed'
  <2>1. /\ page' \in [Handles -> Page \cup {NoPage}]
        /\ kept' \in [Handles -> Seq(Record)]
        /\ \A g \in Handles : Holds(g)' => Len(kept'[g]) = Len(page'[g].slots)
        /\ fresh' \subseteq Handles /\ opened' \in [Handles -> Nat]
    BY <1>1, <1>7 DEF Typed
  <2> QED
    BY <1>6, <2>1, Zenon DEF Typed
<1>9. FreshIntact'
  BY <1>1, <1>7 DEF PageInv, FreshIntact, Typed
<1>10. TuplesOnDisk' /\ DirectoryOnDisk'
  <2>1. (h \in fresh) \in BOOLEAN
    OBVIOUS
  <2> QED
    BY <1>1, <1>2, <1>4, <2>1, StoreOnDisk DEF r
<1>11. IdsRight'
  <2> SUFFICES ASSUME ~ overrun'
               PROVE  /\ \A g \in Handles : Holds(g)' => page'[g].id = opened'[g]
                                                        /\ opened'[g] < Len(file')
                      /\ \A i \in 1 .. Len(file') : file'[i][0] + Word * file'[i][1] = i - 1
    BY DEF IdsRight
  <2>1. /\ ~ overrun /\ p.id < Len(file') /\ Len(file) <= Len(file')
        /\ \A i \in 1 .. Len(file') : file'[i][0] + Word * file'[i][1] = i - 1
    BY <1>1, <1>2, <1>5, StoreIds
  <2>2. ASSUME NEW g \in Handles, Holds(g)'
        PROVE  page'[g].id = opened'[g] /\ opened'[g] < Len(file')
    BY <1>1, <1>6, <1>7, <2>1, <2>2 DEF PageInv, IdsRight, Typed
  <2> QED
    BY <2>1, <2>2
<1> QED
  BY <1>8, <1>9, <1>10, <1>11 DEF PageInv

LEMMA ReadKeeps ==
  ASSUME PageInv, NEW h \in Handles, NEW id \in Nat, ReadPage(h, id)
  PROVE  PageInv'
<1> DEFINE p == DeserializePage(file[id + 1])
           was == written[id + 1].tuples
           none == [tuple |-> <<>>, live |-> FALSE]
           k == [n \in 1 .. Len(p.slots) |-> IF n <= Len(was) THEN was[n] ELSE none]
<1>1. /\ Typed /\ id < Len(file) /\ Deserializable(file[id + 1])
      /\ page' = [page EXCEPT ![h] = p] /\ kept' = [kept EXCEPT ![h] = k]
      /\ fresh' = fresh \ {h} /\ opened' = [opened EXCEPT ![h] = id]
      /\ UNCHANGED <<file, written, overrun, writes>>
  BY DEF PageInv, ReadPage, history
<1>2. file[id + 1] \in [Address -> Words] /\ id + 1 \in 1 .. Len(file)
  <2> DEFINE B == [Address -> Words]
  <2>1. file \in Seq(B)
    BY <1>1 DEF Typed
  <2> HIDE DEF B
  <2>2. file[id + 1] \in B /\ id + 1 \in 1 .. Len(file)
    BY <1>1, <2>1
  <2> QED
    BY <2>2 DEF B
<1>3. p \in Page /\ Len(p.slots) = file[id + 1][2] /\ Len(p.slots) \in Nat
  <2>1. file[id + 1][2] \in Words
    BY <1>2, Sizes
  <2> QED
    BY <1>1, <1>2, <2>1, DeserializeType
<1>4. none \in Record /\ was \in Seq(Record) /\ Len(was) \in Nat
  <2>1. none \in Record
    BY DEF Record
  <2> HIDE DEF none, p, k
  <2>2. was \in Seq(Record)
    BY <1>1, <1>2 DEF Typed
  <2> QED
    BY <2>1, <2>2
<1>5. k \in Seq(Record) /\ Len(k) = Len(p.slots)
  <2> HIDE DEF none, was, p, Record
  <2>1. \A n \in 1 .. Len(p.slots) : n <= Len(was) => was[n] \in Record
    BY <1>3, <1>4
  <2>2. k \in [1 .. Len(p.slots) -> Record]
    BY <1>4, <2>1
  <2> HIDE DEF k
  <2> QED
    BY <1>3, <2>2
<1> HIDE DEF p, k, Words, Address, Record
<1>6. /\ page' \in [Handles -> Page \cup {NoPage}]
      /\ kept' \in [Handles -> Seq(Record)]
      /\ \A g \in Handles : Holds(g)' => Len(kept'[g]) = Len(page'[g].slots)
      /\ page'[h] = p /\ kept'[h] = k
      /\ \A g \in Handles : g # h => page'[g] = page[g] /\ kept'[g] = kept[g]
  BY <1>1, <1>3, <1>5, HandleTypes
<1>7. Typed'
  <2>1. fresh' \subseteq Handles /\ opened' \in [Handles -> Nat]
    BY <1>1 DEF Typed
  <2> QED
    BY <1>1, <1>6, <2>1 DEF Typed
<1>8. FreshIntact'
  <2>1. \A g \in fresh' : g \in fresh /\ g \in Handles /\ g # h
    BY <1>1 DEF Typed
  <2> QED
    BY <1>6, <2>1 DEF FreshIntact, PageInv, Holds
<1>9. TuplesOnDisk' /\ DirectoryOnDisk'
  BY <1>1 DEF PageInv, TuplesOnDisk, DirectoryOnDisk
<1>10. IdsRight'
  <2> SUFFICES ASSUME ~ overrun
               PROVE  /\ \A g \in Handles : Holds(g)' => page'[g].id = opened'[g]
                                                        /\ opened'[g] < Len(file)
                      /\ \A i \in 1 .. Len(file) : file[i][0] + Word * file[i][1] = i - 1
    BY <1>1 DEF IdsRight
  <2>1. p.id = id
    BY <1>2 DEF PageInv, IdsRight, p, DeserializePage
  <2> QED
    BY <1>1, <1>6, <2>1 DEF PageInv, IdsRight, Holds, Typed
<1> QED
  BY <1>7, <1>8, <1>9, <1>10 DEF PageInv

LEMMA AddKeeps ==
  ASSUME PageInv, NEW h \in Handles, NEW t \in Tuples, AddTuple(h, t)
  PROVE  PageInv'
<1> DEFINE p == page[h]
           q == Place(p, t)
           slot == [offset |-> p.free - Len(t), size |-> Len(t)]
           k == Append(kept[h], [tuple |-> t, live |-> TRUE])
<1>1. /\ Typed /\ Holds(h) /\ HasSpace(p, t) /\ p.free <= PageWords
      /\ page' = [page EXCEPT ![h] = q] /\ kept' = [kept EXCEPT ![h] = k]
      /\ UNCHANGED <<file, fresh, opened, written, overrun, writes>>
  BY DEF PageInv, AddTuple, history
<1>2. p \in Page /\ Len(kept[h]) = Len(p.slots) /\ kept[h] \in Seq(Record)
      /\ p.free \in Nat
  BY <1>1, HeldPage DEF Page
<1>3. /\ q \in Page /\ q.slots = Append(p.slots, slot) /\ q.id = p.id
      /\ q.free = p.free - Len(t) /\ q.free \in Nat /\ q.free <= p.free
      /\ \A i \in Address : i >= p.free => q.data[i] = p.data[i]
      /\ TupleAt(q.data, slot) = t
  BY <1>1, <1>2, PlaceRight
<1>4. Len(t) \in Nat
  BY PageAssumption
<1>5. NoPage # q /\ NoPage # p
  BY <1>2, <1>3, PageAssumption
<1>6. Typed'
  BY <1>1, AddTypes
<1>7. /\ page'[h] = q /\ kept'[h] = k
      /\ \A g \in Handles : g # h => page'[g] = page[g] /\ kept'[g] = kept[g]
  BY <1>1 DEF Typed
<1>8. ASSUME Intact(p, kept[h]) PROVE Intact(q, k)
  <2>1. q.free <= PageWords
    BY <1>1, <1>2, <1>3, Sizes
  <2>2. ASSUME NEW n \in 1 .. Len(q.slots)
        PROVE  IF k[n].live
               THEN /\ ~ IsDeleted(q.slots[n]) /\ q.free <= q.slots[n].offset
                    /\ InPage(q.slots[n]) /\ TupleAt(q.data, q.slots[n]) = k[n].tuple
               ELSE IsDeleted(q.slots[n])
    <3>1. Len(q.slots) = Len(p.slots) + 1 /\ Len(p.slots) \in Nat
          /\ q.slots[Len(p.slots) + 1] = slot
          /\ \A m \in 1 .. Len(p.slots) : q.slots[m] = p.slots[m]
      BY <1>2, <1>3, SlotSequences
    <3>2. CASE n = Len(p.slots) + 1
      <4>1. k[n].live = TRUE /\ k[n].tuple = t
        BY <1>2, <3>2
      <4>2. slot.offset = q.free /\ slot.size = Len(t)
        BY <1>3
      <4>3. q.free < Gone /\ q.free + Len(t) <= PageWords
        BY <1>1, <1>2, <1>3, <1>4, Sizes
      <4> HIDE DEF k, q, p
      <4> QED
        BY <1>3, <3>1, <3>2, <4>1, <4>2, <4>3 DEF IsDeleted, InPage
    <3>3. CASE n \in 1 .. Len(p.slots)
      <4>1. k[n] = kept[h][n]
        <5> HIDE DEF Record
        <5> QED
          BY <1>2, <3>3
      <4>2. q.slots[n] = p.slots[n]
        BY <3>1, <3>3
      <4>3. CASE ~ kept[h][n].live
        BY <1>8, <3>3, <4>1, <4>2, <4>3 DEF Intact
      <4>4. CASE kept[h][n].live
        <5>1. /\ ~ IsDeleted(p.slots[n]) /\ p.free <= p.slots[n].offset
              /\ InPage(p.slots[n]) /\ TupleAt(p.data, p.slots[n]) = kept[h][n].tuple
          BY <1>8, <3>3, <4>4 DEF Intact
        <5>2. p.slots[n].offset \in Nat /\ p.slots[n].size \in Nat
          BY <1>2, <3>3, SlotType
        <5>3. \A i \in 1 .. p.slots[n].size :
                q.data[p.slots[n].offset + (i - 1)] = p.data[p.slots[n].offset + (i - 1)]
          <6>1. \A i \in 1 .. p.slots[n].size :
                  /\ p.slots[n].offset + (i - 1) \in Address
                  /\ p.slots[n].offset + (i - 1) >= p.free
            <7>1. p.slots[n].offset + p.slots[n].size <= PageWords
              BY <5>1 DEF InPage
            <7> HIDE DEF p, Address
            <7> QED
              BY <1>2, <5>1, <5>2, <7>1, Addresses
          <6> HIDE DEF q, Address
          <6> QED
            BY <1>3, <6>1
        <5>4. TupleAt(q.data, p.slots[n]) = TupleAt(p.data, p.slots[n])
          <6> HIDE DEF q, p
          <6> QED
            BY <5>3 DEF TupleAt
        <5>5. q.free <= p.slots[n].offset
          BY <1>2, <1>3, <5>1, <5>2
        <5> HIDE DEF q, k
        <5> QED
          BY <4>1, <4>2, <4>4, <5>1, <5>4, <5>5
      <4> HIDE DEF p, q, k
      <4> QED
        BY <4>3, <4>4, Zenon
    <3> HIDE DEF p, q, k
    <3>4. n = Len(p.slots) + 1 \/ n \in 1 .. Len(p.slots)
      BY <3>1
    <3> QED
      BY <3>2, <3>3, <3>4, Zenon
  <2> QED
    BY <2>1, <2>2 DEF Intact
<1>9. FreshIntact'
  BY <1>1, <1>7, <1>8 DEF FreshIntact, PageInv, Holds, Typed
<1>10. TuplesOnDisk' /\ DirectoryOnDisk'
  BY <1>1 DEF PageInv, TuplesOnDisk, DirectoryOnDisk
<1>11. IdsRight'
  BY <1>1, <1>3, <1>5, <1>7 DEF PageInv, IdsRight, Holds
<1> QED
  BY <1>6, <1>9, <1>10, <1>11 DEF PageInv
LEMMA DeleteKeeps ==
  ASSUME PageInv, NEW h \in Handles, NEW n \in Nat, DeleteTuple(h, n)
  PROVE  PageInv'
<1> DEFINE p == page[h]
           q == Deleted(p, n)
           gone == [offset |-> Gone, size |-> 0]
           k == [kept[h] EXCEPT ![n] = [kept[h][n] EXCEPT !.live = FALSE]]
<1>1. Typed /\ Holds(h) /\ UNCHANGED <<file, fresh, opened, written, overrun, writes>>
  BY DEF PageInv, DeleteTuple, history
<1>2. /\ n \in 1 .. Len(p.slots) /\ p \in Page
      /\ page' = [page EXCEPT ![h] = q] /\ kept' = [kept EXCEPT ![h] = k]
      /\ k \in Seq(Record) /\ Len(k) = Len(q.slots)
      /\ k[n].live = FALSE /\ \A m \in 1 .. Len(k) : m # n => k[m] = kept[h][m]
  BY <1>1, DeleteRight
<1>3. /\ q \in Page /\ q.slots = [p.slots EXCEPT ![n] = gone]
      /\ q.id = p.id /\ q.free = p.free /\ q.data = p.data
  BY <1>2, DeletedType
<1>4. /\ Len(q.slots) = Len(p.slots) /\ q.slots[n] = gone
      /\ \A m \in 1 .. Len(q.slots) : m # n => q.slots[m] = p.slots[m]
  <2> DEFINE S == [offset : Words, size : Words]
  <2>1. gone \in S
    BY Sizes
  <2>2. p.slots \in Seq(S)
    BY <1>2 DEF Page, Slots
  <2> HIDE DEF S, gone, p, q
  <2> QED
    BY <1>2, <1>3, <2>1, <2>2
<1> HIDE DEF p, q, k, Words, Address, Record
<1>5. /\ page' \in [Handles -> Page \cup {NoPage}]
      /\ kept' \in [Handles -> Seq(Record)]
      /\ \A g \in Handles : Holds(g)' => Len(kept'[g]) = Len(page'[g].slots)
      /\ page'[h] = q /\ kept'[h] = k
      /\ \A g \in Handles : g # h => page'[g] = page[g] /\ kept'[g] = kept[g]
  BY <1>1, <1>2, <1>3, HandleTypes
<1>6. Typed'
  BY <1>1, <1>5 DEF Typed
<1>7. ASSUME Intact(p, kept[h]) PROVE Intact(q, k)
  <2>1. IsDeleted(gone)
    BY DEF IsDeleted
  <2> HIDE DEF gone
  <2>2. ASSUME NEW m \in 1 .. Len(q.slots)
        PROVE  IF k[m].live
               THEN /\ ~ IsDeleted(q.slots[m]) /\ q.free <= q.slots[m].offset
                    /\ InPage(q.slots[m]) /\ TupleAt(q.data, q.slots[m]) = k[m].tuple
               ELSE IsDeleted(q.slots[m])
    <3>1. CASE m = n
      BY <1>2, <1>4, <2>1, <3>1, Zenon
    <3>2. CASE m # n
      <4>1. k[m] = kept[h][m] /\ q.slots[m] = p.slots[m] /\ m \in 1 .. Len(p.slots)
        BY <1>2, <1>4, <3>2
      <4> QED
        BY <1>3, <1>7, <4>1, Zenon DEF Intact
    <3> QED
      BY <3>1, <3>2, Zenon
  <2> QED
    BY <1>3, <1>7, <2>2, Zenon DEF Intact
<1>8. FreshIntact'
  BY <1>1, <1>5, <1>7 DEF FreshIntact, PageInv, Holds, Typed, p
<1>9. TuplesOnDisk' /\ DirectoryOnDisk'
  BY <1>1 DEF PageInv, TuplesOnDisk, DirectoryOnDisk
<1>10. IdsRight'
  BY <1>1, <1>3, <1>5 DEF PageInv, IdsRight, Holds, p
<1> QED
  BY <1>6, <1>8, <1>9, <1>10 DEF PageInv

-----------------------------------------------------------------------------
(* The theorems                                                            *)

LEMMA PageInvInit == ASSUME Init PROVE PageInv
<1>1. Len(file) = 0 /\ file \in Seq([Address -> Words]) /\ Len(written) = 0
  BY DEF Init
<1>2. \A h \in Handles : ~ Holds(h)
  BY DEF Init, Holds
<1>3. Typed
  <2>1. page \in [Handles -> Page \cup {NoPage}] /\ kept \in [Handles -> Seq(Record)]
    BY DEF Init
  <2>2. Len(file) <= MaxPages /\ opened \in [Handles -> Nat] /\ writes \in Nat
    <3>1. MaxPages \in Nat
      BY PageAssumption
    <3> QED
      BY <1>1, <3>1 DEF Init
  <2>3. overrun \in BOOLEAN
    BY Zenon DEF Init
  <2>4. fresh \subseteq Handles /\ 1 .. Len(file) = {}
    BY <1>1 DEF Init
  <2> QED
    BY <1>1, <1>2, <2>1, <2>2, <2>3, <2>4 DEF Typed
<1> QED
  BY <1>1, <1>2, <1>3 DEF PageInv, FreshIntact, IdsRight, TuplesOnDisk, DirectoryOnDisk, Init

LEMMA PageInvNext == ASSUME PageInv, [Next]_vars PROVE PageInv'
<1>1. CASE UNCHANGED vars
  BY <1>1 DEF vars, history, PageInv, Typed, FreshIntact, IdsRight, TuplesOnDisk,
              DirectoryOnDisk, Holds
<1>2. ASSUME NEW h \in Handles, AllocateNewPage(h) PROVE PageInv'
  BY <1>2, AllocateKeeps
<1>3. ASSUME NEW h \in Handles, NEW id \in 0 .. MaxPages - 1, ReadPage(h, id)
      PROVE  PageInv'
  BY <1>3, ReadKeeps
<1>4. ASSUME NEW h \in Handles, WritePage(h) PROVE PageInv'
  BY <1>4, WriteKeeps
<1>5. ASSUME NEW h \in Handles, NEW t \in Tuples, AddTuple(h, t) PROVE PageInv'
  BY <1>5, AddKeeps
<1>6. ASSUME NEW h \in Handles, NEW n \in 1 .. MaxSlots, DeleteTuple(h, n)
      PROVE  PageInv'
  BY <1>6, DeleteKeeps
<1>7. ASSUME NEW h \in Handles,
             \/ \E id \in 0 .. MaxPages - 1 : ReadPagePanics(h, id)
             \/ WritePagePanics(h)
             \/ \E t \in Tuples : AddTuplePanics(h, t)
      PROVE  PageInv'
  BY <1>7, PanicTypes DEF ReadPagePanics, WritePagePanics, AddTuplePanics
<1> QED
  BY <1>1, <1>2, <1>3, <1>4, <1>5, <1>6, <1>7 DEF Next

\* The invariant of the slotted pages.
THEOREM PageInvHolds == Spec => []PageInv
<1>1. Init => PageInv
  BY PageInvInit
<1>2. PageInv /\ [Next]_vars => PageInv'
  BY PageInvNext
<1> QED
  BY <1>1, <1>2, PTL DEF Spec

\* Pages, the file and the histories have their types: in particular no ID is
\* written that does not fit the header, and no step loses track of a slot.
THEOREM PageTypesHold == Spec => []TypeOK
<1>1. PageInv => TypeOK
  BY DEF PageInv, Typed, TypeOK
<1> QED
  BY <1>1, PageInvHolds, PTL

\* Whatever is added to and deleted from a page that AllocateNewPage made, each
\* live slot leads to its tuple (page.go:101-137).
THEOREM FreshTuplesIntactHolds == Spec => []FreshTuplesIntact
<1>1. PageInv => FreshTuplesIntact
  BY Zenon DEF PageInv, FreshIntact, FreshTuplesIntact, Intact
<1> QED
  BY <1>1, PageInvHolds, PTL

\* A page whose directory fitted below the data is on disk with every live tuple
\* at the offset of its slot (page.go:47-64).
THEOREM TuplesOnDiskHolds == Spec => []TuplesOnDisk
<1>1. PageInv => TuplesOnDisk
  BY DEF PageInv
<1> QED
  BY <1>1, PageInvHolds, PTL

\* Such a page is read as it was written: its ID, FreeSpaceOffset, TupleCount and
\* the slots of the first TupleCount (page.go:47-82).
THEOREM DirectoryOnDiskHolds == Spec => []DirectoryOnDisk
<1>1. PageInv => DirectoryOnDisk
  BY DEF PageInv
<1> QED
  BY <1>1, PageInvHolds, PTL

\* A page of the file is changed only by WritePage of the handle that was opened as
\* that page, while every page written had room for its directory
\* (page_,manager.go:25-60).
THEOREM PagesStayApartHolds == Spec => PagesStayApart
<1> DEFINE Apart == ~ overrun /\ Changed # {} =>
             \E h \in Handles : WritePage(h) /\ Changed = {opened[h] + 1}
<1>1. ASSUME PageInv, Next PROVE Apart
  <2> SUFFICES ASSUME ~ overrun, Changed # {}
               PROVE  \E h \in Handles : WritePage(h) /\ Changed = {opened[h] + 1}
    OBVIOUS
  <2>1. Typed /\ Len(file) \in Nat
    BY <1>1 DEF PageInv, Typed
  <2>2. ASSUME NEW p \in Page, NEW r, Store(p, r), NEW i \in Changed PROVE i = p.id + 1
    <3> HIDE DEF Words, Address
    <3>1. /\ Len(file) <= Len(file') /\ Len(file') \in Nat
          /\ \A j \in 1 .. Len(file') : j # p.id + 1 =>
               \/ j \in 1 .. Len(file) /\ file'[j] = file[j] /\ written'[j] = written[j]
               \/ j \notin 1 .. Len(file) /\ file'[j] = Zeros /\ written'[j] = Hole
      BY <2>1, <2>2, StoreRight
    <3>2. i \in 1 .. Len(file) /\ file'[i] # file[i]
      BY <2>2 DEF Changed
    <3> QED
      BY <2>1, <3>1, <3>2
  <2>3. ASSUME NEW h \in Handles, AllocateNewPage(h) PROVE FALSE
    <3>1. NewPage(Len(file)) \in Page /\ NewPage(Len(file)).id = Len(file)
      BY <2>1, NewPageType DEF NewPage
    <3>2. Len(file) + 1 \in Changed
      BY <2>2, <2>3, <3>1 DEF AllocateNewPage
    <3> QED
      BY <2>1, <3>2 DEF Changed
  <2>4. ASSUME NEW h \in Handles, WritePage(h) PROVE Changed = {opened[h] + 1}
    <3>1. page[h] \in Page /\ Holds(h)
      BY <2>1, <2>4, HeldPage DEF WritePage
    <3>2. \A i \in Changed : i = page[h].id + 1
      BY <2>2, <2>4, <3>1 DEF WritePage
    <3>3. page[h].id = opened[h]
      BY <1>1, <3>1 DEF PageInv, IdsRight
    <3> QED
      BY <3>2, <3>3
  <2>5. \E h \in Handles : AllocateNewPage(h) \/ WritePage(h)
    BY <1>1 DEF Changed, Next, ReadPage, ReadPagePanics, WritePagePanics, AddTuple,
                AddTuplePanics, DeleteTuple, Panic
  <2> QED
    BY <2>3, <2>4, <2>5
<1>2. PageInv /\ [Next]_vars => [Apart]_vars
  BY <1>1
<1> QED
  BY <1>2, PageInvHolds, PTL DEF Spec, PagesStayApart
=============================================================================
