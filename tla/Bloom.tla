------------------------------- MODULE Bloom --------------------------------
(***************************************************************************)
(* The Bloom filter of an SSTable (common/bloom_filter.hpp): bits in       *)
(* bytes, set by the builder, written to the file and read back.  A key is *)
(* its length and what the multiplicative hash makes of its bytes with     *)
(* seed 0; the arithmetic is modulo 2^Width.                               *)
(***************************************************************************)
EXTENDS Integers

CONSTANTS
    BitSizes,    \* values of bitSize_
    Hashes,      \* values of numHashFunctions_
    Width,       \* bits of an int
    FilterKeys   \* keys, as [length |-> .., base |-> ..]

ASSUME BloomAssumption ==
    /\ BitSizes \subseteq Nat \ {0} /\ Hashes \subseteq Nat \ {0}
    /\ Width \in Nat \ {0}
    /\ \A k \in FilterKeys : k.length \in Nat \ {0} /\ k.base \in Nat

VARIABLES
    bitSize, numHashes,
    bits,     \* bits_: the bits that are set, as <<byte, bit>>
    keys,     \* history: the keys added
    sealed    \* whether the filter was written and read back

filterVars == <<bitSize, numHashes, bits, keys, sealed>>

FilterInit ==
    /\ bitSize \in BitSizes /\ numHashes \in Hashes
    /\ bits = {} /\ keys = {} /\ sealed = FALSE

Powers(b) == LET pow[n \in Nat] == IF n = 0 THEN 1 ELSE b * pow[n - 1] IN pow

\* 31 * h + b over all bytes, from the seed: the seed counts 31^length times.
MurmurHash3(k, seed) == ((k.base + Powers(31)[k.length] * seed) % Powers(2)[Width]) % Powers(2)[Width - 1]

BytesRoundedDown == bitSize \div 8  \* a mutant
\* bits_ has this many bytes.
Bytes == (bitSize + 7) \div 8

Place(k, i) == LET h == MurmurHash3(k, i) % bitSize IN <<h \div 8, h % 8>>
Places(k) == {Place(k, i) : i \in 0 .. numHashes - 1}

Add(k) ==
    /\ ~ sealed
    /\ bits' = bits \cup Places(k)
    /\ keys' = keys \cup {k}
    /\ UNCHANGED <<bitSize, numHashes, sealed>>

\* serialize, and the constructor of the reader.
Seal ==
    /\ ~ sealed
    /\ bits' = {p \in bits : p[1] < Bytes}
    /\ sealed' = TRUE
    /\ UNCHANGED <<bitSize, numHashes, keys>>

FilterNext == Seal \/ \E k \in FilterKeys : Add(k)

FilterSpec == FilterInit /\ [][FilterNext]_filterVars

MightContain(k) == Places(k) \subseteq bits

\* A key that was added is never denied: a lookup in a file does not miss for the filter.
NoFalseNegative == \A k \in keys : MightContain(k)

=============================================================================
