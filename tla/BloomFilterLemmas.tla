-------------------------- MODULE BloomFilterLemmas --------------------------
(* What one call of add does to a bitmap, for every size and number of hash  *)
(* functions and every pair of digests.                                      *)
EXTENDS BloomFilter, TLAPS

LEMMA HashesInRange ==
  ASSUME NEW item \in Items
  PROVE  Hashes(item) \subseteq 0 .. BitSize - 1
<1> SUFFICES ASSUME NEW i \in 0 .. HashCount - 1
             PROVE  (HashOne[item] + i * HashTwo[item]) % BitSize \in 0 .. BitSize - 1
  BY DEF Hashes
<1>1. HashOne[item] \in Nat /\ HashTwo[item] \in Nat
  BY BloomAssumption
<1>2. i \in Nat
  BY BloomAssumption
<1>3. i * HashTwo[item] \in Nat
  BY <1>1, <1>2
<1> DEFINE total == HashOne[item] + i * HashTwo[item]
<1>4. total \in Nat
  BY <1>1, <1>3
<1> HIDE DEF total
<1>5. total % BitSize \in 0 .. BitSize - 1
  BY <1>4, BloomAssumption
<1> QED
  BY <1>5 DEF total

\* Every position has its byte in the bitmap: (bit_size + 7) // 8 bytes are
\* enough, the last one included.
LEMMA PositionHasByte ==
  ASSUME NEW pos \in 0 .. BitSize - 1
  PROVE  pos \div 8 \in ByteIndexes /\ pos % 8 \in 0 .. 7
  BY BloomAssumption DEF ByteIndexes

LEMMA EmptyBitmapTyped == EmptyBitmap \in Bitmaps
  BY DEF EmptyBitmap, Bitmaps

LEMMA AddedTyped ==
  ASSUME NEW b \in Bitmaps, NEW item \in Items
  PROVE  Added(b, item) \in Bitmaps
<1>1. \A pos \in Hashes(item) : pos % 8 \in 0 .. 7
  BY HashesInRange, PositionHasByte
<1>2. \A byte \in ByteIndexes : b[byte] \in SUBSET (0 .. 7)
  BY DEF Bitmaps
<1> QED
  BY <1>1, <1>2 DEF Added, Bitmaps

\* add(item) makes item a member ...
LEMMA AddedContains ==
  ASSUME NEW b \in Bitmaps, NEW item \in Items
  PROVE  MayContain(Added(b, item), item)
<1> SUFFICES ASSUME NEW pos \in Hashes(item)
             PROVE  (pos % 8) \in Added(b, item)[pos \div 8]
  BY DEF MayContain, BitIsSet
<1>1. pos \div 8 \in ByteIndexes
  BY HashesInRange, PositionHasByte
<1> QED
  BY <1>1 DEF Added

\* ... and leaves every other member one.
LEMMA AddedKeeps ==
  ASSUME NEW b \in Bitmaps, NEW item \in Items, NEW other \in Items,
         MayContain(b, other)
  PROVE  MayContain(Added(b, item), other)
<1> SUFFICES ASSUME NEW pos \in Hashes(other)
             PROVE  (pos % 8) \in Added(b, item)[pos \div 8]
  BY DEF MayContain, BitIsSet
<1>1. pos \div 8 \in ByteIndexes
  BY HashesInRange, PositionHasByte
<1>2. (pos % 8) \in b[pos \div 8]
  BY DEF MayContain, BitIsSet
<1> QED
  BY <1>1, <1>2 DEF Added

\* Every bit that is set is a position of a member of S.
HasCauses(bitmap, S) ==
  \A byte \in ByteIndexes : \A bit \in bitmap[byte] :
    \E other \in S : \E pos \in Hashes(other) : pos \div 8 = byte /\ pos % 8 = bit

LEMMA EmptyHasCauses == HasCauses(EmptyBitmap, {})
  BY DEF HasCauses, EmptyBitmap

\* add(item) sets no bit but those of item.
LEMMA AddedHasCauses ==
  ASSUME NEW b, NEW S, NEW item, HasCauses(b, S)
  PROVE  HasCauses(Added(b, item), S \cup {item})
<1> SUFFICES ASSUME NEW byte \in ByteIndexes, NEW bit \in Added(b, item)[byte]
             PROVE  \E other \in S \cup {item} : \E pos \in Hashes(other) :
                      pos \div 8 = byte /\ pos % 8 = bit
  BY DEF HasCauses
<1>1. bit \in b[byte] \/ \E pos \in Hashes(item) : pos \div 8 = byte /\ pos % 8 = bit
  BY DEF Added
<1> QED
  BY <1>1 DEF HasCauses

\* Byte and bit determine the position.
LEMMA PositionOfBit ==
  ASSUME NEW p \in Nat, NEW q \in Nat, p \div 8 = q \div 8, p % 8 = q % 8
  PROVE  p = q
  OBVIOUS

\* A lookup succeeds only if the members of S cover every position of the item.
LEMMA PositiveIsCovered ==
  ASSUME NEW b, NEW S \in SUBSET Items, HasCauses(b, S),
         NEW item \in Items, MayContain(b, item)
  PROVE  Hashes(item) \subseteq UNION {Hashes(other) : other \in S}
<1> SUFFICES ASSUME NEW pos \in Hashes(item)
             PROVE  \E other \in S : pos \in Hashes(other)
  OBVIOUS
<1>1. pos \in Nat /\ pos \div 8 \in ByteIndexes
  BY HashesInRange, PositionHasByte
<1>2. PICK other \in S : \E p \in Hashes(other) : p \div 8 = pos \div 8 /\ p % 8 = pos % 8
  BY <1>1 DEF MayContain, BitIsSet, HasCauses
<1>3. Hashes(other) \subseteq Nat
  BY HashesInRange
<1> QED
  BY <1>1, <1>2, <1>3, PositionOfBit
=============================================================================
