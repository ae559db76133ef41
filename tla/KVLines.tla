------------------------------- MODULE KVLines -------------------------------
(***************************************************************************)
(* The text format of FileBasedStorageEngine (file_based_kv_store.cpp):    *)
(* what saveToFile writes for a pair and what loadFromFile's loop over     *)
(* std::getline makes of it.  Strings are sequences of characters.         *)
(***************************************************************************)
EXTENDS Naturals, Sequences, SequencesExt

CONSTANTS Eq, Newline      \* the characters '=' and '\n'

\* file << key << "=" << value << "\n"
TextOf(key, value) == key \o <<Eq>> \o value \o <<Newline>>

\* The lines std::getline yields: what newlines end, and a rest without one.
getline(text) ==
  LET cut == {0} \cup {i \in 1 .. Len(text) : text[i] = Newline}
      Next(i) == {j \in cut : j > i}
      end(i) == IF Next(i) = {} THEN Len(text) + 1
                ELSE CHOOSE j \in Next(i) : \A h \in Next(i) : j <= h
      starts == SetToSortSeq({i \in cut : i < Len(text)}, <)
  IN  [n \in 1 .. Len(starts) |-> SubSeq(text, starts[n] + 1, end(starts[n]) - 1)]

HasEq(line) == \E i \in 1 .. Len(line) : line[i] = Eq

\* line.find('=')
find(line) == CHOOSE i \in 1 .. Len(line) :
                line[i] = Eq /\ \A j \in 1 .. i - 1 : line[j] # Eq

\* The assignments store_[key] = value that loading the text performs; a line
\* without '=' is none.
LoadedPairs(text) ==
  LET Pair(line) == [key   |-> SubSeq(line, 1, find(line) - 1),
                     value |-> SubSeq(line, find(line) + 1, Len(line))]
      lines == SelectSeq(getline(text), HasEq)
  IN  [n \in 1 .. Len(lines) |-> Pair(lines[n])]

\* What loading the text does to each key of a map.
LoadEffect(text, Keys, Untouched) ==
  LET pairs == LoadedPairs(text)
      on(k) == {n \in 1 .. Len(pairs) : pairs[n].key = k}
  IN  [k \in Keys |->
         IF on(k) = {} THEN Untouched
         ELSE pairs[CHOOSE n \in on(k) : \A m \in on(k) : m <= n].value]
=============================================================================
