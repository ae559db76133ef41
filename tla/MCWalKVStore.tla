----------------------------- MODULE MCWalKVStore -----------------------------
(***************************************************************************)
(* Instances of WalKVStore for TLC.                                        *)
(***************************************************************************)
EXTENDS WalKVStore

CONSTANTS a, raw, ufffd,   \* three keys
          v, w, big        \* values; the record of `big' is too long

\* Every string is its own JSON round trip.
SameKey == [k \in Keys |-> k]
SameValue == [x \in Stored |-> x]

\* `raw' holds a byte that is not UTF-8: it is written as U+FFFD, so it reads
\* back as the other key, `ufffd'.  Value v is damaged the same way.
LossyKey == [k \in Keys |-> IF k = raw THEN ufffd ELSE k]
LossyValue == [x \in Stored |-> IF x = v THEN w ELSE x]

=============================================================================
