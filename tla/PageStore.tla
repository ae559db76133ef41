------------------------------ MODULE PageStore ------------------------------
(***************************************************************************)
(* The slotted pages of database/simple_page_impl: storage/page.go and     *)
(* "storage/page_,manager.go".  A client holds *Page values (handles),     *)
(* adds and deletes tuples in them and writes them to the database file.   *)
(*                                                                         *)
(* Data.  The unit is the 16-bit word, so tuples have an even number of    *)
(* bytes: the header is four words (ID low and high, TupleCount,           *)
(* FreeSpaceOffset), a slot two (Offset, Size), and line 113's 2 bytes per *)
(* slot are one.  Only the page is smaller than PAGE_SIZE.                 *)
(***************************************************************************)
EXTENDS Naturals, Sequences

CONSTANTS
  Handles,      \* *Page variables of the client
  Editors,       \* bound: handles that tuples are added and deleted through
  NoPage,       \* a handle that holds none
  PageWords,    \* PAGE_SIZE, in words
  Word,         \* 2^16
  Tuples,       \* sequences of words that clients store
  MaxSlots,     \* bound: slots of a page; a TupleCount past it falls no further
  MaxPages,     \* bound: pages of the file
  MaxWrites     \* bound: pages written to it

HeaderWords == 4
SlotWords == 2
Gone == Word - 1        \* 0xFFFF

Address == 0 .. PageWords - 1
Words == 0 .. Word - 1
Slots == Seq([offset : Words, size : Words])
Page == [id : Nat, count : Words, free : Words, slots : Slots,
         data : [Address -> Words]]

ASSUME PageAssumption ==
  /\ PageWords \in Nat /\ Word \in Nat
  /\ HeaderWords <= PageWords /\ PageWords < Gone
  /\ Tuples \subseteq Seq(Words)
  /\ \A t \in Tuples : Len(t) < Word
  /\ NoPage \notin Page
  /\ Editors \subseteq Handles
  /\ MaxSlots \in Nat /\ MaxPages \in Nat /\ MaxWrites \in Nat
  /\ MaxPages <= Word * Word      \* an ID is a uint32

VARIABLES
  page,     \* per handle, the Page it points to or NoPage
  file,     \* the pages of the file: words of page i are file[i + 1]
  kept,     \* history: per handle and slot, the tuple put there and if it lives
  fresh,    \* history: handles that AllocateNewPage made (ReadPage the others)
  opened,   \* history: per handle, the page it was allocated or read as
  written,  \* history: per page of the file, what was last written there
  overrun,  \* history: some page was written whose directory met the data
  writes    \* pages written so far, for the bound

history == <<written, overrun, writes>>
vars == <<page, file, kept, fresh, opened, history>>

Zeros == [i \in Address |-> 0]

IsDeleted(slot) == slot.offset = Gone

-----------------------------------------------------------------------------
(* The page on disk                                                        *)

\* Where the slot directory of n slots ends.
DirectoryEnd(n) == HeaderWords + n * SlotWords

SlotWord(p, i) ==
  LET slot == p.slots[(i - HeaderWords) \div SlotWords + 1]
  IN  IF (i - HeaderWords) % SlotWords = 0 THEN slot.offset ELSE slot.size

HeaderWord(p, i) == CASE i = 0 -> p.id % Word [] i = 1 -> p.id \div Word
                      [] i = 2 -> p.count     [] i = 3 -> p.free

\* buf[base:] and PutUint16 stay within the buffer, and so does the copy.
Serializable(p) == DirectoryEnd(Len(p.slots)) <= PageWords /\ p.free <= PageWords

SerializeShifted(p) ==   \* mutant: copy(buf[p.FreeSpaceOffset:], p.Data)
  [i \in Address |->
     IF i >= p.free THEN p.data[i - p.free]
     ELSE IF i < HeaderWords THEN HeaderWord(p, i)
     ELSE IF i < DirectoryEnd(Len(p.slots)) THEN SlotWord(p, i)
     ELSE 0]

SerializeLive(p) ==   \* mutant: the directory is written for TupleCount slots
  [i \in Address |->
     IF i >= p.free THEN p.data[i]
     ELSE IF i < HeaderWords THEN HeaderWord(p, i)
     ELSE IF i < DirectoryEnd(p.count - 1) THEN SlotWord(p, i)
     ELSE 0]

\* Header and directory first; the data is copied over them if it reaches there.
Serialize(p) ==
  [i \in Address |->
     IF i >= p.free THEN p.data[i]
     ELSE IF i < HeaderWords THEN HeaderWord(p, i)
     ELSE IF i < DirectoryEnd(Len(p.slots)) THEN SlotWord(p, i)
     ELSE 0]

\* Reading the directory of count slots stays within the buffer.
Deserializable(buf) == DirectoryEnd(buf[2]) <= PageWords

\* The words after the directory become the first words of Data.
DeserializePage(buf) ==
  [id    |-> buf[0] + Word * buf[1],
   count |-> buf[2],
   free  |-> buf[3],
   slots |-> [n \in 1 .. buf[2] |->
                [offset |-> buf[DirectoryEnd(n - 1)],
                 size   |-> buf[DirectoryEnd(n - 1) + 1]]],
   data  |-> [i \in Address |->
                IF i + DirectoryEnd(buf[2]) \in Address
                THEN buf[i + DirectoryEnd(buf[2])] ELSE 0]]

-----------------------------------------------------------------------------
(* Pages in memory                                                         *)

Holds(h) == page[h] # NoPage

\* Any slice or index out of range panics: the process ends, with its handles.
Panic == /\ page' = [h \in Handles |-> NoPage]
         /\ UNCHANGED <<file, kept, fresh, opened, history>>

\* The deleted slots AddTuple would reuse.
Reusable(p, t) == {n \in 1 .. Len(p.slots) :
                     IsDeleted(p.slots[n]) /\ p.slots[n].size >= Len(t)}

HasSpace(p, t) == p.free >= Len(t) + Len(p.slots)

PlaceKeepingFree(p, t) ==   \* mutant: FreeSpaceOffset is not updated
  LET offset == p.free - Len(t)
  IN  [p EXCEPT
         !.data = [i \in Address |-> IF i \in offset .. p.free - 1
                                     THEN t[i - offset + 1] ELSE @[i]],
         !.slots = Append(@, [offset |-> offset, size |-> Len(t)]),
         !.count = (@ + 1) % Word]

\* The page after the tuple was put below the lowest one.
Place(p, t) ==
  LET offset == p.free - Len(t)
  IN  [p EXCEPT
         !.data = [i \in Address |-> IF i \in offset .. p.free - 1
                                     THEN t[i - offset + 1] ELSE @[i]],
         !.slots = Append(@, [offset |-> offset, size |-> Len(t)]),
         !.free = offset,
         !.count = (@ + 1) % Word]

AddTuple(h, t) ==
  /\ Holds(h) /\ Reusable(page[h], t) = {} /\ HasSpace(page[h], t)
  /\ page[h].free <= PageWords
  /\ Len(page[h].slots) < MaxSlots
  /\ page' = [page EXCEPT ![h] = Place(@, t)]
  /\ kept' = [kept EXCEPT ![h] = Append(@, [tuple |-> t, live |-> TRUE])]
  /\ UNCHANGED <<file, fresh, opened, history>>

\* The slot to reuse has the offset 0xFFFF; or FreeSpaceOffset, read from a
\* damaged page, is beyond the page.
AddTuplePanics(h, t) ==
  /\ Holds(h)
  /\ \/ Reusable(page[h], t) # {}
     \/ HasSpace(page[h], t) /\ page[h].free > PageWords
  /\ Panic

DeleteTupleInt(h, n) ==   \* mutant: TupleCount is an int
  /\ Holds(h) /\ n \in 1 .. Len(page[h].slots) /\ page[h].count <= MaxSlots
  /\ page' = [page EXCEPT ![h].slots[n] = [offset |-> Gone, size |-> 0],
                          ![h].count = IF @ = 0 THEN Word ELSE @ - 1]
  /\ kept' = [kept EXCEPT ![h][n].live = FALSE]
  /\ UNCHANGED <<file, fresh, opened, history>>

DeleteTuple(h, n) ==
  /\ Holds(h) /\ n \in 1 .. Len(page[h].slots) /\ page[h].count <= MaxSlots
  /\ page' = [page EXCEPT ![h].slots[n] = [offset |-> Gone, size |-> 0],
                          ![h].count = (@ + Word - 1) % Word]
  /\ kept' = [kept EXCEPT ![h][n].live = FALSE]
  /\ UNCHANGED <<file, fresh, opened, history>>

-----------------------------------------------------------------------------
(* The page manager                                                        *)

\* The directory leaves off before the data begins.
Roomy(p) == DirectoryEnd(Len(p.slots)) <= p.free

Written(p, tuples, byAllocated) ==
  [page |-> [id |-> p.id, count |-> p.count, free |-> p.free, slots |-> p.slots],
   tuples |-> tuples, fresh |-> byAllocated, roomy |-> Roomy(p)]

\* WriteAt at ID * PAGE_SIZE; a page beyond the end of the file leaves a hole.
Store(p, record) ==
  /\ p.id < MaxPages /\ writes < MaxWrites
  /\ writes' = writes + 1
  /\ file' = [i \in 1 .. (IF p.id < Len(file) THEN Len(file) ELSE p.id + 1) |->
                IF i = p.id + 1 THEN Serialize(p)
                ELSE IF i <= Len(file) THEN file[i] ELSE Zeros]
  /\ written' = [i \in DOMAIN file' |->
                   IF i = p.id + 1 THEN record
                   ELSE IF i <= Len(file) THEN written[i]
                   ELSE Written(DeserializePage(Zeros), <<>>, FALSE)]
  /\ overrun' = (overrun \/ ~ Roomy(p))

NewPage(id) == [id |-> id, count |-> 0, free |-> PageWords, slots |-> <<>>,
                data |-> Zeros]

AllocateLastPage(h) ==   \* mutant: the ID of the last page, not of the next
  LET p == NewPage(IF Len(file) = 0 THEN 0 ELSE Len(file) - 1) IN
  /\ Store(p, Written(p, <<>>, TRUE))
  /\ page' = [page EXCEPT ![h] = p]
  /\ kept' = [kept EXCEPT ![h] = <<>>]
  /\ fresh' = fresh \cup {h}
  /\ opened' = [opened EXCEPT ![h] = p.id]

\* The ID of the new page is the number of pages the file has.
AllocateNewPage(h) ==
  LET p == NewPage(Len(file)) IN
  /\ Store(p, Written(p, <<>>, TRUE))
  /\ page' = [page EXCEPT ![h] = p]
  /\ kept' = [kept EXCEPT ![h] = <<>>]
  /\ fresh' = fresh \cup {h}
  /\ opened' = [opened EXCEPT ![h] = p.id]

\* The history of the handle becomes that of the page, as far as slots go.
ReadPage(h, id) ==
  /\ id < Len(file) /\ Deserializable(file[id + 1])
  /\ LET p == DeserializePage(file[id + 1])
         was == written[id + 1].tuples
     IN  /\ Len(p.slots) <= MaxSlots
         /\ page' = [page EXCEPT ![h] = p]
         /\ kept' = [kept EXCEPT ![h] =
              [n \in 1 .. Len(p.slots) |->
                 IF n <= Len(was) THEN was[n] ELSE [tuple |-> <<>>, live |-> FALSE]]]
  /\ fresh' = fresh \ {h}
  /\ opened' = [opened EXCEPT ![h] = id]
  /\ UNCHANGED <<file, history>>

ReadPagePanics(h, id) ==
  /\ id < Len(file) /\ ~ Deserializable(file[id + 1])
  /\ Panic

WritePage(h) ==
  /\ Holds(h) /\ Serializable(page[h])
  /\ Store(page[h], Written(page[h], kept[h], h \in fresh))
  /\ UNCHANGED <<page, kept, fresh, opened>>

WritePagePanics(h) ==
  /\ Holds(h) /\ ~ Serializable(page[h])
  /\ Panic

-----------------------------------------------------------------------------
Init ==
  /\ page = [h \in Handles |-> NoPage]
  /\ file = <<>> /\ written = <<>> /\ overrun = FALSE /\ writes = 0
  /\ kept = [h \in Handles |-> <<>>]
  /\ fresh = {}
  /\ opened = [h \in Handles |-> 0]

Next ==
  \E h \in Handles :
    \/ AllocateNewPage(h)
    \/ \E id \in 0 .. MaxPages - 1 : ReadPage(h, id) \/ ReadPagePanics(h, id)
    \/ WritePage(h) \/ WritePagePanics(h)
    \/ /\ h \in Editors
       /\ \/ \E t \in Tuples : AddTuple(h, t) \/ AddTuplePanics(h, t)
          \/ \E n \in 1 .. MaxSlots : DeleteTuple(h, n)

Spec == Init /\ [][Next]_vars

-----------------------------------------------------------------------------
(* Properties                                                              *)

TypeOK ==
  /\ page \in [Handles -> Page \cup {NoPage}]
  /\ file \in Seq([Address -> Words])
  /\ Len(written) = Len(file) /\ Len(file) <= MaxPages
  /\ fresh \subseteq Handles /\ overrun \in BOOLEAN /\ writes \in Nat
  /\ opened \in [Handles -> Nat]
  /\ \A h \in Handles : Holds(h) => Len(kept[h]) = Len(page[h].slots)

\* The tuple a reader of Slots and Data finds.
TupleAt(data, slot) == [i \in 1 .. slot.size |-> data[slot.offset + i - 1]]

InPage(slot) == slot.offset + slot.size <= PageWords

\* Lines 101-137: in a page from AllocateNewPage, whatever was added and
\* deleted, every live slot leads to the tuple that was put there, above
\* FreeSpaceOffset, and deleted slots are marked.
FreshTuplesIntact ==
  \A h \in fresh : Holds(h) =>
    \A n \in 1 .. Len(page[h].slots) :
      LET slot == page[h].slots[n] IN
      IF kept[h][n].live
      THEN /\ ~ IsDeleted(slot) /\ page[h].free <= slot.offset /\ InPage(slot)
           /\ TupleAt(page[h].data, slot) = kept[h][n].tuple
      ELSE IsDeleted(slot)

\* Lines 47-64: if the directory fitted below the data, the file holds every
\* live tuple of such a page at the offset its slot says.
TuplesOnDisk ==
  \A i \in 1 .. Len(file) : written[i].roomy /\ written[i].fresh =>
    \A n \in 1 .. Len(written[i].tuples) :
      written[i].tuples[n].live =>
        TupleAt(file[i], written[i].page.slots[n]) = written[i].tuples[n].tuple

\* Lines 47-82: if the directory fitted below the data and TupleCount had not
\* been wrapped by deleting a slot twice, reading the page gives back its ID,
\* its FreeSpaceOffset and the slots of the first TupleCount.
DirectoryOnDisk ==
  \A i \in 1 .. Len(file) :
    LET p == written[i].page
        q == DeserializePage(file[i])
    IN  written[i].roomy /\ p.count <= Len(p.slots) =>
          /\ q.id = p.id /\ q.count = p.count /\ q.free = p.free
          /\ \A n \in 1 .. Len(p.slots) : n <= p.count => q.slots[n] = p.slots[n]

\* The pages of the file that a step changes.
Changed == {i \in 1 .. Len(file) : file'[i] # file[i]}

\* A page of the file changes only by WritePage, of the very handle that was
\* allocated or read as that page: never by AllocateNewPage (lines 41-60 of the
\* manager), and never by a write of another handle, whoever else holds the page
\* (lines 33-39), as long as every page ever written had room for its directory.
PagesStayApart ==
  [][~ overrun /\ Changed # {} =>
       \E h \in Handles : WritePage(h) /\ Changed = {opened[h] + 1}]_vars
=============================================================================
