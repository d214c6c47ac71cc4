----------------------------- MODULE BloomFilter -----------------------------
(***************************************************************************)
(* application/algorithms.py: class BloomFilter, as operators on its       *)
(* bitmap.  The engine keeps one filter for all its runs, the master one   *)
(* for each dispatch.                                                      *)
(*                                                                         *)
(* The two digests of an item are what HashOne and HashTwo say: the        *)
(* probing, the byte and the bit of a position are the code's.  A byte is  *)
(* the set of its bits that are set.                                       *)
(***************************************************************************)
EXTENDS Integers, FiniteSets

CONSTANTS
  BitSize,    \* _bit_size, at least 8 in the code
  HashCount,  \* _hash_count
  HashOne,    \* the leading bytes of sha256(str(item))
  HashTwo     \* the leading bytes of md5(str(item))

Items == DOMAIN HashOne

ASSUME BloomAssumption ==
  /\ BitSize \in Nat \ {0}
  /\ HashCount \in Nat \ {0}
  /\ HashOne \in [Items -> Nat]
  /\ HashTwo \in [Items -> Nat]

-----------------------------------------------------------------------------

\* bytearray((bit_size + 7) // 8)
ByteIndexes == 0 .. ((BitSize + 7) \div 8) - 1

Bitmaps == [ByteIndexes -> SUBSET (0 .. 7)]

EmptyBitmap == [b \in ByteIndexes |-> {}]

\* _hashes(item): double hashing.
Hashes(item) ==
  {(HashOne[item] + i * HashTwo[item]) % BitSize : i \in 0 .. HashCount - 1}

\* bitmap[pos // 8] & (1 << (pos % 8))
BitIsSet(bitmap, pos) == (pos % 8) \in bitmap[pos \div 8]

\* Mutants: the byte is assigned, not or-ed; the bit is not taken modulo eight.
AddedOverwriting(bitmap, item) ==
  [b \in ByteIndexes |->
     LET bits == {pos % 8 : pos \in {p \in Hashes(item) : p \div 8 = b}}
     IN  IF bits = {} THEN bitmap[b] ELSE bits]
AddedByPosition(bitmap, item) ==
  [b \in ByteIndexes |-> bitmap[b] \cup {p \in Hashes(item) : p \div 8 = b}]

\* add(item): bitmap[pos // 8] |= 1 << (pos % 8) at every position.
Added(bitmap, item) ==
  [b \in ByteIndexes |->
     bitmap[b] \cup {pos % 8 : pos \in {p \in Hashes(item) : p \div 8 = b}}]

\* Mutant: the first position decides.
MayContainFirst(bitmap, item) == BitIsSet(bitmap, HashOne[item] % BitSize)

\* item in filter
MayContain(bitmap, item) == \A pos \in Hashes(item) : BitIsSet(bitmap, pos)
=============================================================================
