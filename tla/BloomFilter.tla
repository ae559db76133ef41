------------------------------ MODULE BloomFilter ------------------------------
(***************************************************************************)
(* The Bloom filter of bloom-filter/main.go, for any hash function.        *)
(***************************************************************************)
EXTENDS Naturals

CONSTANTS
  Items,
  MaxSize,      \* bound: the size of the bit array
  MaxHashes,    \* bound: the number of hashes
  Uint32,       \* how many values a uint32 has
  Hashes        \* the values of the hash function

ASSUME BloomAssumption ==
  /\ MaxSize \in Nat /\ MaxHashes \in Nat /\ Uint32 \in Nat \ {0}
  /\ Hashes \subseteq 0 .. Uint32 - 1

VARIABLES
  size, hashes, bits,   \* the BloomFilter; bits is the set of true indices
  hash,                 \* hashWithSeed
  added                 \* history: the items of the calls of Add

bloomVars == <<size, hashes, bits, hash, added>>

Seeds == 0 .. hashes - 1
modulus == size % Uint32
index(item, i) == hash[item, i] % modulus

\* NewBloomFilter: the number of hashes is 0 only if the size is; for no items it
\* is what the build makes of uint(NaN).
NewBloomFilter ==
  /\ size \in 0 .. MaxSize /\ hashes \in 0 .. MaxHashes /\ (hashes = 0 => size = 0)
  /\ bits = {} /\ added = {}

\* The first index divides by zero, which ends the program.
AddPanics == hashes > 0 /\ modulus = 0

AddButLast(item) ==   \* mutant: one hash too few
  /\ ~ AddPanics
  /\ bits' = bits \cup {index(item, i) : i \in Seeds \ {hashes - 1}}
  /\ added' = added \cup {item}
  /\ UNCHANGED <<size, hashes, hash>>

Add(item) ==
  /\ ~ AddPanics
  /\ bits' = bits \cup {index(item, i) : i \in Seeds}
  /\ added' = added \cup {item}
  /\ UNCHANGED <<size, hashes, hash>>

Check(item) == \A i \in Seeds : index(item, i) \in bits

BloomInit == NewBloomFilter /\ hash \in [Items \X (0 .. MaxHashes - 1) -> Hashes]
BloomStep == \E item \in Items : Add(item)
BloomSpec == BloomInit /\ [][BloomStep]_bloomVars

\* main.go:83-85, "is DEFINITELY NOT in the set": an item that was added is found,
\* whichever collisions its hashes meet; and a false answer "MIGHT be in the set"
\* needs every one of its bits set by an item that was added.
NoFalseNegatives ==
  /\ \A item \in added : Check(item)
  /\ \A bit \in bits : \E item \in added, i \in Seeds : index(item, i) = bit
=============================================================================
