--------------------------- MODULE BloomFilterSpec ---------------------------
(***************************************************************************)
(* The life of one BloomFilter: items are added, any number of times, and  *)
(* looked up in between.                                                   *)
(***************************************************************************)
EXTENDS BloomFilter

CONSTANT MaxAdds  \* bounds the calls of add

VARIABLES
  bitmap,  \* _bitmap
  count,   \* _count
  added    \* history: the items add was called with

vars == <<bitmap, count, added>>

Init ==
  /\ bitmap = EmptyBitmap
  /\ count = 0
  /\ added = {}

Add(item) ==
  /\ count < MaxAdds
  /\ bitmap' = Added(bitmap, item)
  /\ count' = count + 1
  /\ added' = added \cup {item}

Next == \E item \in Items : Add(item)

Spec == Init /\ [][Next]_vars

-----------------------------------------------------------------------------
(* Properties *)

TypeOK ==
  /\ bitmap \in Bitmaps
  /\ count \in Nat
  /\ added \in SUBSET Items

\* No false negative: an item that was added is reported as present, whatever
\* was added after it.  The engine's promise never to run a finished task
\* again rests on it.
AddedIsReported == \A item \in added : MayContain(bitmap, item)

\* Every false positive has the cause the name implies: each of the item's
\* positions is a position of an added item.  In particular an empty filter
\* contains nothing, and no bit of another byte is mistaken for one's own.
ReportedIsCovered ==
  \A item \in Items : MayContain(bitmap, item) =>
    Hashes(item) \subseteq UNION {Hashes(other) : other \in added}
=============================================================================
