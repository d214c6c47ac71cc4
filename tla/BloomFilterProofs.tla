-------------------------- MODULE BloomFilterProofs --------------------------
(* A Bloom filter has no false negatives.                                     *)
EXTENDS BloomFilterSpec, BloomFilterLemmas

\* The types of the filter's fields, for every sequence of calls of add.
THEOREM TypeCorrect == Spec => []TypeOK
<1>1. Init => TypeOK
  BY EmptyBitmapTyped DEF Init, TypeOK
<1>2. TypeOK /\ [Next]_vars => TypeOK'
  <2> SUFFICES ASSUME TypeOK, [Next]_vars PROVE TypeOK'
    OBVIOUS
  <2>1. ASSUME NEW item \in Items, Add(item) PROVE TypeOK'
    BY <2>1, AddedTyped DEF TypeOK, Add
  <2>2. CASE UNCHANGED vars
    BY <2>2 DEF TypeOK, vars
  <2> QED
    BY <2>1, <2>2 DEF Next
<1> QED
  BY <1>1, <1>2, PTL DEF Spec

\* No false negatives: whatever add was called with is reported by every later
\* lookup (algorithms.py, BloomFilter.__contains__).
THEOREM NoFalseNegatives == Spec => []AddedIsReported
<1>1. Init => AddedIsReported
  BY DEF Init, AddedIsReported
<1>2. TypeOK /\ AddedIsReported /\ [Next]_vars => AddedIsReported'
  <2> SUFFICES ASSUME TypeOK, AddedIsReported, [Next]_vars
               PROVE  AddedIsReported'
    OBVIOUS
  <2>1. ASSUME NEW item \in Items, Add(item) PROVE AddedIsReported'
    <3>1. bitmap \in Bitmaps /\ added \subseteq Items
      BY DEF TypeOK
    <3>2. bitmap' = Added(bitmap, item) /\ added' = added \cup {item}
      BY <2>1 DEF Add
    <3>3. MayContain(Added(bitmap, item), item)
      BY <3>1, AddedContains
    <3>4. \A other \in added : MayContain(Added(bitmap, item), other)
      BY <3>1, AddedKeeps DEF AddedIsReported
    <3> QED
      BY <3>2, <3>3, <3>4 DEF AddedIsReported
  <2>2. CASE UNCHANGED vars
    BY <2>2 DEF AddedIsReported, vars
  <2> QED
    BY <2>1, <2>2 DEF Next
<1> QED
  BY <1>1, <1>2, TypeCorrect, PTL DEF Spec

\* False positives have a cause: a lookup (BloomFilter.__contains__) succeeds only
\* if each position of the item is a position of an item added before.
THEOREM PositivesAreCovered == Spec => []ReportedIsCovered
<1> DEFINE BitsHaveACause == HasCauses(bitmap, added)
<1>1. Init => BitsHaveACause
  BY EmptyHasCauses DEF Init
<1>2. BitsHaveACause /\ [Next]_vars => BitsHaveACause'
  <2>1. ASSUME HasCauses(bitmap, added), NEW item \in Items, Add(item)
        PROVE  HasCauses(bitmap', added')
    BY <2>1, AddedHasCauses DEF Add
  <2>2. ASSUME HasCauses(bitmap, added), UNCHANGED vars PROVE HasCauses(bitmap', added')
    BY <2>2 DEF vars
  <2> QED
    BY <2>1, <2>2 DEF Next
<1>3. TypeOK /\ BitsHaveACause => ReportedIsCovered
  BY PositiveIsCovered DEF TypeOK, ReportedIsCovered
<1> QED
  BY <1>1, <1>2, <1>3, TypeCorrect, PTL DEF Spec
=============================================================================
