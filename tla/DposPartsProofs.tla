-------------------------- MODULE DposPartsProofs ---------------------------
(***************************************************************************)
(* Proofs about two parts the DPoS contract is built from.  The iterable   *)
(* map, for any finite set of items smaller than the range of positions:   *)
(* its slots stay consistent, it implements a list, its pages are complete.*)
(* The split of the block reward, for every configuration, every number of *)
(* validators and every statistics: a distribution mints at most the block *)
(* reward, and the supply never passes the cap.                            *)
(***************************************************************************)
EXTENDS IterableMap, RewardsDistribution, FiniteSetTheorems, TLAPS

(* Multiplication keeps the order of natural numbers.                      *)
LEMMA MulMonotone ==
  ASSUME NEW a \in Nat, NEW b \in Nat, NEW n \in Nat, a <= b
  PROVE  a * n \in Nat /\ b * n \in Nat /\ a * n <= b * n
OBVIOUS

-----------------------------------------------------------------------------
(* The iterable map.                                                       *)

(***************************************************************************)
(* The inductive invariant: the types, the bijection between positions and *)
(* items, and the absence of "broken" panics that it implies.              *)
(***************************************************************************)
IInv == TypeOK /\ Consistent /\ NeverBroken

(***************************************************************************)
(* While some item is missing there is a free position: the stored items   *)
(* are in one-to-one correspondence with 1..count.                         *)
(***************************************************************************)
LEMMA RoomLeft ==
  ASSUME TypeOK, Consistent, NEW x \in Item, pos[x] = 0
  PROVE  count + 1 \in Pos
<1> DEFINE f == [p \in 1..count |-> items[p]]
<1>1. f \in Injection(1..count, Item \ {x})
  <2>1. \A p \in 1..count : p \in Pos /\ p <= count /\ p # 0
    BY SizeAssumption DEF TypeOK, Pos
  <2>2. \A p \in 1..count : items[p] \in Item \ {x}
    BY <2>1 DEF Consistent, TypeOK
  <2>3. \A p, q \in 1..count : items[p] = items[q] => p = q
    BY <2>1 DEF Consistent
  <2>4. QED
    BY <2>2, <2>3 DEF Injection, IsInjective
<1>2. IsFiniteSet(Item \ {x}) /\ Cardinality(Item \ {x}) = Cardinality(Item) - 1
  BY FS_RemoveElement, SizeAssumption
<1>3. IsFiniteSet(1..count) /\ Cardinality(1..count) = count
  <2>1. count \in Nat
    BY SizeAssumption DEF TypeOK
  <2>2. QED
    BY <2>1, FS_Interval
<1>4. Cardinality(1..count) <= Cardinality(Item \ {x})
  BY <1>1, <1>2, FS_Injection
<1>5. Cardinality(Item) \in Nat
  BY FS_CardinalityType, SizeAssumption
<1>6. QED
  BY <1>2, <1>3, <1>4, <1>5, SizeAssumption DEF TypeOK, Pos

(* The empty map satisfies the invariant.                                  *)
LEMMA InitIInv == Init => IInv
  BY SizeAssumption DEF Init, IInv, TypeOK, Consistent, NeverBroken, Pos, Panic

(* CreateItem preserves the invariant.                                     *)
LEMMA CreatePreserves ==
  ASSUME IInv, NEW x \in Item, CreateItem(x)
  PROVE  IInv'
<1>1. CASE ItemExists(x)
  BY <1>1 DEF CreateItem, Stop, IInv, TypeOK, Consistent, NeverBroken, Panic
<1>2. CASE ~ItemExists(x)
  <2>1. count + 1 \in Pos /\ pos[x] = 0
    BY <1>2, RoomLeft DEF ItemExists, IInv
  <2>2. (count + 1) % (MaxPos + 1) = count + 1
    BY <2>1, SizeAssumption DEF Pos
  <2>3. /\ items' = [items EXCEPT ![count + 1] = x]
        /\ pos' = [pos EXCEPT ![x] = count + 1]
        /\ count' = count + 1
        /\ panic' = panic
    BY <1>2, <2>2 DEF CreateItem
  <2>4. TypeOK'
    BY <2>1, <2>3, SizeAssumption DEF IInv, TypeOK, Pos
  <2>5. Consistent'
    BY <2>1, <2>3, SizeAssumption, NilAssumption DEF IInv, TypeOK, Consistent, Pos
  <2>6. QED
    BY <2>3, <2>4, <2>5 DEF IInv, NeverBroken
<1>3. QED
  BY <1>1, <1>2

(* RemoveItem preserves the invariant, at the end and in the middle.       *)
LEMMA RemovePreserves ==
  ASSUME IInv, NEW x \in Item, RemoveItem(x)
  PROVE  IInv'
<1>1. CASE (count = 0 \/ ~ItemExists(x)) /\ Stop("caller")
  BY <1>1 DEF Stop, IInv, TypeOK, Consistent, NeverBroken, Panic
<1>2. CASE RemoveLast(x)
  <2>1. pos[x] \in Pos /\ pos[x] = count /\ count - 1 \in 0..MaxPos
    BY <1>2, SizeAssumption DEF RemoveLast, ItemExists, IInv, TypeOK, Pos
  <2>2. TypeOK'
    BY <1>2, <2>1, SizeAssumption DEF RemoveLast, IInv, TypeOK, Pos
  <2>3. Consistent'
    BY <1>2, <2>1, SizeAssumption, NilAssumption
    DEF RemoveLast, ItemExists, IInv, TypeOK, Consistent, Pos
  <2>4. QED
    BY <1>2, <2>2, <2>3 DEF RemoveLast, IInv, NeverBroken
<1>3. CASE RemoveMiddle(x)
  <2> DEFINE y == items[count]
  <2>1. /\ pos[x] \in Pos /\ count \in Pos /\ pos[x] < count
        /\ items[pos[x]] = x
    BY <1>3, SizeAssumption DEF RemoveMiddle, ItemExists, IInv, TypeOK, Consistent, Pos
  <2>2. y \in Item /\ pos[y] = count /\ y # x /\ y # Nil /\ items[count] = y
    BY <2>1, NilAssumption DEF IInv, Consistent, Pos
  <2>3. /\ pos' = [pos EXCEPT ![y] = pos[x], ![x] = 0]
        /\ items' = [items EXCEPT ![pos[x]] = y, ![count] = Nil]
        /\ count' = count - 1
        /\ panic' = panic
    BY <1>3, <2>2 DEF RemoveMiddle
  <2>4. TypeOK'
    BY <2>1, <2>2, <2>3, SizeAssumption DEF IInv, TypeOK, Pos
  <2> HIDE DEF y
  <2>5. ASSUME NEW p \in Pos, p <= count'
        PROVE  items'[p] \in Item /\ pos'[items'[p]] = p
    <3>1. CASE p = pos[x]
      BY <2>1, <2>2, <2>3, <2>5, <3>1, SizeAssumption DEF IInv, TypeOK, Pos
    <3>2. CASE p # pos[x]
      <4>1. items[p] \in Item /\ pos[items[p]] = p /\ items[p] # x /\ items[p] # y
        BY <2>1, <2>2, <2>3, <2>5, <3>2, SizeAssumption DEF IInv, TypeOK, Consistent, Pos
      <4>2. items'[p] = items[p]
        BY <2>1, <2>3, <2>5, <3>2, SizeAssumption DEF IInv, TypeOK, Pos
      <4>3. QED
        BY <2>1, <2>3, <4>1, <4>2 DEF IInv, TypeOK
    <3>3. QED
      BY <3>1, <3>2
  <2>6. ASSUME NEW p \in Pos, p > count'
        PROVE  items'[p] = Nil
    BY <2>1, <2>3, <2>6, SizeAssumption DEF IInv, TypeOK, Consistent, Pos
  <2>7. ASSUME NEW z \in Item, pos'[z] # 0
        PROVE  pos'[z] <= count' /\ items'[pos'[z]] = z
    <3>1. CASE z = y
      BY <2>1, <2>2, <2>3, <3>1, SizeAssumption DEF IInv, TypeOK, Pos
    <3>2. CASE z # y
      <4>1. z # x /\ pos'[z] = pos[z]
        BY <2>2, <2>3, <2>7, <3>2 DEF IInv, TypeOK
      <4>2. /\ pos[z] \in Pos /\ pos[z] <= count /\ items[pos[z]] = z
            /\ pos[z] # count /\ pos[z] # pos[x]
        BY <2>1, <2>2, <2>7, <3>2, <4>1, SizeAssumption DEF IInv, TypeOK, Consistent, Pos
      <4>3. items'[pos[z]] = items[pos[z]]
        BY <2>1, <2>3, <4>2 DEF IInv, TypeOK
      <4>4. QED
        BY <2>1, <2>3, <4>1, <4>2, <4>3, SizeAssumption DEF Pos
    <3>3. QED
      BY <3>1, <3>2
  <2>8. QED
    BY <2>3, <2>4, <2>5, <2>6, <2>7 DEF IInv, NeverBroken, Consistent
<1>4. QED
  BY <1>1, <1>2, <1>3 DEF RemoveItem

(***************************************************************************)
(* Every behaviour of the map keeps the two slot families inverse to each  *)
(* other and never meets one of the "should never happen" panics.          *)
(***************************************************************************)
THEOREM SlotsStayConsistent == Spec => [](TypeOK /\ Consistent /\ NeverBroken)
<1>1. IInv /\ [Next]_vars => IInv'
  <2> SUFFICES ASSUME IInv, [Next]_vars PROVE IInv'
    OBVIOUS
  <2>1. CASE Next
    BY <2>1, CreatePreserves, RemovePreserves DEF Next
  <2>2. CASE UNCHANGED vars
    BY <2>2 DEF vars, IInv, TypeOK, Consistent, NeverBroken
  <2>3. QED
    BY <2>1, <2>2
<1>2. QED
  BY InitIInv, <1>1, PTL DEF Spec, IInv

-----------------------------------------------------------------------------
(***************************************************************************)
(* The refinement mapping: the list of the items at positions 1..count.    *)
(***************************************************************************)
TheList == [i \in 1..count |-> items[i]]

(* The list the slots stand for: its items and its length.                 *)
LEMMA ListFacts ==
  ASSUME IInv
  PROVE  /\ TheList \in Seq(Item)
         /\ Len(TheList) = count
         /\ \A x \in Item : x \in List!Stored(TheList) <=> pos[x] # 0
<1>1. count \in Nat /\ \A p \in 1..count : p \in Pos /\ p <= count /\ items[p] \in Item
  BY SizeAssumption DEF IInv, TypeOK, Consistent, Pos
<1>2. TheList \in Seq(Item) /\ Len(TheList) = count
  BY <1>1 DEF TheList
<1>3. ASSUME NEW x \in Item
      PROVE  x \in List!Stored(TheList) <=> pos[x] # 0
  <2>1. x \in List!Stored(TheList) <=> \E i \in 1..count : items[i] = x
    BY <1>2 DEF List!Stored, TheList
  <2>2. \A i \in 1..count : items[i] = x => pos[x] # 0
    BY <1>1 DEF IInv, Consistent
  <2>3. pos[x] # 0 => pos[x] \in 1..count /\ items[pos[x]] = x
    BY SizeAssumption DEF IInv, TypeOK, Consistent
  <2>4. QED
    BY <2>1, <2>2, <2>3
<1>4. QED
  BY <1>2, <1>3

(* CreateItem appends to the abstract list.                                *)
LEMMA CreateRefines ==
  ASSUME IInv, panic = "none", NEW x \in Item, CreateItem(x)
  PROVE  List!ListNext
<1>1. CASE ItemExists(x)
  BY <1>1 DEF CreateItem, Stop, List!ListNext, List!Halt
<1>2. CASE ~ItemExists(x)
  <2>1. count + 1 \in Pos /\ pos[x] = 0 /\ count \in Nat
    BY <1>2, RoomLeft, SizeAssumption DEF ItemExists, IInv, TypeOK
  <2>2. (count + 1) % (MaxPos + 1) = count + 1
    BY <2>1, SizeAssumption DEF Pos
  <2>3. /\ items' = [items EXCEPT ![count + 1] = x]
        /\ count' = count + 1
        /\ panic' = panic
    BY <1>2, <2>2 DEF CreateItem
  <2>4. \A i \in 1..(count + 1) : items'[i] = IF i = count + 1 THEN x ELSE items[i]
    BY <2>1, <2>3, SizeAssumption DEF IInv, TypeOK, Pos
  <2>5. Append(TheList, x) = [i \in 1..(count + 1) |-> items'[i]]
    BY <2>1, <2>4, ListFacts DEF TheList
  <2>6. List!Insert(x)
    BY <2>1, <2>3, <2>5, ListFacts DEF List!Insert, TheList
  <2>7. QED
    BY <2>6 DEF List!ListNext
<1>3. QED
  BY <1>1, <1>2

(* RemoveItem swaps with the last item and shortens the list.              *)
LEMMA RemoveRefines ==
  ASSUME IInv, panic = "none", NEW x \in Item, RemoveItem(x)
  PROVE  List!ListNext
<1>1. CASE (count = 0 \/ ~ItemExists(x)) /\ Stop("caller")
  BY <1>1 DEF Stop, List!ListNext, List!Halt
<1>2. CASE RemoveLast(x) \/ RemoveMiddle(x)
  <2>1. /\ pos[x] \in 1..count /\ count \in Pos /\ items[pos[x]] = x
        /\ items[count] \in Item /\ items[count] # Nil
    BY <1>2, SizeAssumption, NilAssumption
    DEF RemoveLast, RemoveMiddle, ItemExists, IInv, TypeOK, Consistent, Pos
  <2>2. /\ count' = count - 1 /\ panic' = panic
        /\ \A i \in 1..(count - 1) :
             items'[i] = IF i = pos[x] THEN items[count] ELSE items[i]
    <3>1. CASE RemoveLast(x)
      BY <2>1, <3>1, SizeAssumption DEF RemoveLast, IInv, TypeOK, Pos
    <3>2. CASE RemoveMiddle(x)
      BY <2>1, <3>2, SizeAssumption DEF RemoveMiddle, IInv, TypeOK, Pos
    <3>3. QED
      BY <1>2, <3>1, <3>2
  <2>3. List!PositionOf(TheList, x) = pos[x]
    <3>1. \A i \in 1..count : TheList[i] = x <=> i = pos[x]
      BY <2>1, SizeAssumption DEF TheList, IInv, TypeOK, Consistent, Pos
    <3>2. QED
      BY <2>1, <3>1, ListFacts DEF List!PositionOf
  <2>4. List!ListWithout(TheList, x) = [i \in 1..(count - 1) |-> items'[i]]
    BY <2>1, <2>2, <2>3, ListFacts, SizeAssumption DEF List!ListWithout, List!SwapRemove, TheList, Pos
  <2>5. x \in List!Stored(TheList)
    BY <2>1, ListFacts DEF Pos
  <2>6. List!Delete(x)
    BY <2>2, <2>4, <2>5 DEF List!Delete, TheList
  <2>7. QED
    BY <2>6 DEF List!ListNext
<1>3. QED
  BY <1>1, <1>2 DEF RemoveItem

(***************************************************************************)
(* The three families of slots implement the list of distinct items: every *)
(* CreateItem is an Insert, every RemoveItem a Delete, every panic a Halt. *)
(***************************************************************************)
THEOREM MapImplementsList == Spec => ImplementsList
<1>1. Init => List!ListInit
  BY DEF Init, List!ListInit
<1>2. IInv /\ [Next]_vars => [List!ListNext]_(List!listVars)
  <2> SUFFICES ASSUME IInv, [Next]_vars PROVE [List!ListNext]_(List!listVars)
    OBVIOUS
  <2>1. CASE Next
    BY <2>1, CreateRefines, RemoveRefines DEF Next
  <2>2. CASE UNCHANGED vars
    BY <2>2 DEF vars, List!listVars
  <2>3. QED
    BY <2>1, <2>2
<1>3. QED
  BY <1>1, <1>2, SlotsStayConsistent, PTL DEF Spec, ImplementsList, List!ListSpec, IInv

-----------------------------------------------------------------------------
(* Paging.                                                                 *)

(* There are no more positions in use than items.                          *)
LEMMA CountBounded ==
  ASSUME TypeOK, Consistent
  PROVE  count \in Nat /\ count <= Cardinality(Item)
<1> DEFINE f == [p \in 1..count |-> items[p]]
<1>1. \A p \in 1..count : p \in Pos /\ p <= count
  BY SizeAssumption DEF TypeOK, Pos
<1>2. \A p \in 1..count : items[p] \in Item
  BY <1>1 DEF Consistent, TypeOK
<1>3. \A p, q \in 1..count : items[p] = items[q] => p = q
  BY <1>1 DEF Consistent
<1>4. f \in Injection(1..count, Item)
  BY <1>2, <1>3 DEF Injection, IsInjective
<1>5. count \in Nat
  BY SizeAssumption DEF TypeOK
<1>6. IsFiniteSet(1..count) /\ Cardinality(1..count) = count
  BY <1>5, FS_Interval
<1>7. Cardinality(1..count) <= Cardinality(Item)
  BY <1>4, SizeAssumption, FS_Injection
<1> QED
  BY <1>5, <1>6, <1>7

(***************************************************************************)
(* A batch that begins before the last item: neither the product nor the   *)
(* sum of GetItems wraps, and the page holds the items from there on.      *)
(***************************************************************************)
LEMMA PageAt ==
  ASSUME NEW n \in Nat, NEW b \in Nat, n >= 1, count \in Nat, b * n < count,
         count + n <= MaxPos
  PROVE  LET page == GetAccounts(b, n)
             size == IF count <= b * n + n THEN count - b * n ELSE n
         IN  /\ page.end <=> count <= b * n + n
             /\ DOMAIN page.result = 1..size
             /\ \A i \in 1..size : page.result[i] = items[b * n + i]
<1> DEFINE start == b * n
<1>1. start \in Nat /\ start < count
  BY MulMonotone
<1>2. MaxPos \in Nat
  BY SizeAssumption
<1> HIDE DEF start
<1>3. start % (MaxPos + 1) = start /\ (start + n) % (MaxPos + 1) = start + n
  BY <1>1, <1>2
<1> DEFINE size == IF count <= start + n THEN count - start ELSE n
<1>4. \A i \in 1..size : start + i <= start + n /\ start + i <= count
  BY <1>1
<1>5. ~(count = 0 \/ start >= count)
  BY <1>1
<1> HIDE DEF size
<1> DEFINE result == [i \in 1..size |->
                        IF start + i <= start + n /\ start + i <= count
                        THEN items[start + i] ELSE Nil]
<1>6. GetItems(start, n) = [result |-> result, end |-> count <= start + n]
  BY <1>3, <1>5 DEF GetItems, size
<1>7. GetAccounts(b, n) = [result |-> result, end |-> count <= start + n]
  BY <1>3, <1>6 DEF GetAccounts, start
<1>8. DOMAIN result = 1..size /\ \A i \in 1..size : result[i] = items[start + i]
  BY <1>4
<1> HIDE DEF result
<1>9. GetAccounts(b, n).result = result /\ (GetAccounts(b, n).end <=> count <= start + n)
  <2>1. GetAccounts(b, n).result = result
    BY <1>7
  <2>2. CASE count <= start + n
    <3>1. GetAccounts(b, n) = [result |-> result, end |-> TRUE]
      BY <1>7, <2>2, Zenon
    <3> QED
      BY <2>1, <2>2, <3>1
  <2>3. CASE ~(count <= start + n)
    <3>1. (count <= start + n) = FALSE
      BY <2>3
    <3>2. GetAccounts(b, n) = [result |-> result, end |-> FALSE]
      BY <1>7, <3>1, Zenon
    <3> QED
      BY <2>1, <2>3, <3>2
  <2> QED
    BY <2>2, <2>3
<1> QED
  BY <1>8, <1>9 DEF start, size

(* The number of the last batch: no earlier one says "end", and it does.   *)
LEMMA LastPage ==
  ASSUME NEW n \in Nat, n >= 1, count \in Nat, count >= 1, count + n <= MaxPos
  PROVE  \E k \in 0..count :
           /\ k * n < count /\ count <= (k + 1) * n
           /\ GetAccounts(k, n).end
           /\ \A c \in 0..(k - 1) : ~GetAccounts(c, n).end
<1> DEFINE k == (count - 1) \div n
<1>1. k \in Nat /\ k * n <= count - 1 /\ count - 1 < (k + 1) * n
  OBVIOUS
<1> HIDE DEF k
<1>2. k * n < count /\ count <= (k + 1) * n /\ (k + 1) * n = k * n + n
  BY <1>1
<1>3. k <= k * n
  BY <1>1
<1>4. k \in 0..count
  BY <1>1, <1>2, <1>3
<1>5. GetAccounts(k, n).end
  BY <1>1, <1>2, PageAt
<1>6. ASSUME NEW c \in 0..(k - 1) PROVE ~GetAccounts(c, n).end
  <2>1. c \in Nat /\ c + 1 \in Nat /\ c + 1 <= k
    BY <1>1
  <2>2. (c + 1) * n <= k * n /\ (c + 1) * n = c * n + n /\ c * n \in Nat
    BY <2>1, <1>1, MulMonotone
  <2>3. c * n < count /\ ~(count <= c * n + n)
    BY <2>2, <1>2, <1>1
  <2> QED
    BY <2>1, <2>3, PageAt
<1> QED
  BY <1>2, <1>4, <1>5, <1>6

(* Two batches that are both the first to say "end" are the same.          *)
LEMMA FirstEndUnique ==
  ASSUME NEW n, NEW k \in Nat, NEW m \in Nat,
         GetAccounts(k, n).end, \A c \in 0..(k - 1) : ~GetAccounts(c, n).end,
         GetAccounts(m, n).end, \A c \in 0..(m - 1) : ~GetAccounts(c, n).end
  PROVE  k = m
<1>1. ~(k < m)
  <2> SUFFICES ASSUME k < m PROVE FALSE
    OBVIOUS
  <2>1. k \in 0..(m - 1)
    OBVIOUS
  <2> QED
    BY <2>1
<1>2. ~(m < k)
  <2> SUFFICES ASSUME m < k PROVE FALSE
    OBVIOUS
  <2>1. m \in 0..(k - 1)
    OBVIOUS
  <2> QED
    BY <2>1
<1> QED
  BY <1>1, <1>2

(***************************************************************************)
(* ForEachValidator: as long as there are at most half as many items as    *)
(* positions, so that the uint32 sum start_idx + n cannot wrap, the batches*)
(* of every page size give every stored item once and in order, and the    *)
(* last one says so, after any series of creations and removals.           *)
(***************************************************************************)
THEOREM PagesStayComplete ==
  ASSUME 2 * Cardinality(Item) <= MaxPos
  PROVE  Spec => []PagesCoverItems
<1>1. IInv => PagesCoverItems
  <2> SUFFICES ASSUME IInv, NEW n \in 1..Cardinality(Item)
               PROVE  LET lastPage == CHOOSE b \in 0..Cardinality(Item) :
                                        /\ GetAccounts(b, n).end
                                        /\ \A c \in 0..(b - 1) : ~GetAccounts(c, n).end
                          page(b) == GetAccounts(b, n).result
                      IN  /\ \A b \in 0..lastPage, i \in 1..n :
                               /\ i \in DOMAIN page(b) => page(b)[i] = items[b * n + i]
                               /\ i \in DOMAIN page(b) <=> b * n + i <= count
                          /\ (lastPage + 1) * n >= count
    BY DEF PagesCoverItems
  <2> DEFINE P(b) == GetAccounts(b, n).end /\ \A c \in 0..(b - 1) : ~GetAccounts(c, n).end
             L == CHOOSE b \in 0..Cardinality(Item) : P(b)
             page(b) == GetAccounts(b, n).result
             Good(b, i) == /\ i \in DOMAIN page(b) => page(b)[i] = items[b * n + i]
                           /\ i \in DOMAIN page(b) <=> b * n + i <= count
  <2>1. count \in Nat /\ count <= Cardinality(Item) /\ Cardinality(Item) \in Nat
    BY CountBounded, SizeAssumption, FS_CardinalityType DEF IInv
  <2>2. n \in Nat /\ n >= 1 /\ n <= Cardinality(Item)
    BY <2>1
  <2>3. count + n <= MaxPos
    BY <2>1, <2>2, SizeAssumption
  <2>4. \E k \in 0..Cardinality(Item) :
           /\ P(k) /\ (count >= 1 => k * n < count) /\ count <= (k + 1) * n /\ (count = 0 => k = 0)
    <3>1. CASE count = 0
      <4>1. \A b \in Nat : GetAccounts(b, n) = [result |-> <<>>, end |-> TRUE]
        BY <3>1 DEF GetAccounts, GetItems
      <4>2. P(0)
        BY <4>1
      <4>3. count <= (0 + 1) * n
        BY <3>1, <2>2
      <4> HIDE DEF P
      <4> QED
        BY <4>2, <4>3, <3>1, <2>1
    <3>2. CASE count >= 1
      <4>1. PICK k \in 0..count :
              /\ k * n < count /\ count <= (k + 1) * n
              /\ GetAccounts(k, n).end
              /\ \A c \in 0..(k - 1) : ~GetAccounts(c, n).end
        BY <3>2, <2>1, <2>2, <2>3, LastPage
      <4>2. k \in 0..Cardinality(Item) /\ P(k)
        BY <4>1, <2>1
      <4> HIDE DEF P
      <4> QED
        BY <4>1, <4>2, <3>2
    <3> QED
      BY <3>1, <3>2, <2>1
  <2>5. PICK k \in 0..Cardinality(Item) :
           /\ P(k) /\ (count >= 1 => k * n < count) /\ count <= (k + 1) * n /\ (count = 0 => k = 0)
    <3> HIDE DEF P
    <3> QED
      BY <2>4
  <2>6. L \in 0..Cardinality(Item) /\ P(L)
    <3> HIDE DEF P
    <3> QED
      BY <2>5
  <2>7. L = k
    <3> HIDE DEF L
    <3>1. L \in Nat /\ k \in Nat
      BY <2>5, <2>6, <2>1
    <3> QED
      BY <3>1, <2>5, <2>6, FirstEndUnique
  <2>8. ASSUME NEW b \in 0..k, NEW i \in 1..n PROVE Good(b, i)
    <3>0. b \in Nat /\ k \in Nat /\ i \in Nat /\ b <= k
      BY <2>1, <2>2, <2>5
    <3>1. CASE count = 0
      <4>1. b = 0 /\ b * n + i = i
        BY <3>1, <2>5, <3>0, <2>2
      <4>2. GetAccounts(b, n) = [result |-> <<>>, end |-> TRUE]
        BY <3>1 DEF GetAccounts, GetItems
      <4>3. DOMAIN page(b) = {}
        BY <4>2
      <4> HIDE DEF page
      <4> QED
        BY <4>1, <4>3, <3>1, <3>0, <2>2
    <3>2. CASE count >= 1
      <4>1. b * n \in Nat /\ b * n <= k * n /\ k * n \in Nat
        BY <3>0, <2>2, MulMonotone
      <4>2. b * n < count
        BY <4>1, <2>5, <3>2, <2>1
      <4> DEFINE size == IF count <= b * n + n THEN count - b * n ELSE n
      <4>3. DOMAIN page(b) = 1..size /\ \A j \in 1..size : page(b)[j] = items[b * n + j]
        BY <4>2, <3>0, <2>1, <2>2, <2>3, PageAt
      <4> HIDE DEF page
      <4>4. i \in 1..size <=> b * n + i <= count
        BY <4>1, <4>2, <2>1, <2>2, <3>0
      <4> QED
        BY <4>3, <4>4
    <3> QED
      BY <3>1, <3>2, <2>1
  <2>9. (k + 1) * n >= count
    BY <2>5, <2>1, <2>2
  <2>10. /\ \A b \in 0..L, i \in 1..n : Good(b, i)
         /\ (L + 1) * n >= count
    <3> HIDE DEF L, Good
    <3> QED
      BY <2>7, <2>8, <2>9
  <2> QED
    BY <2>10
<1>2. Spec => []IInv
  BY SlotsStayConsistent DEF IInv
<1> QED
  BY <1>1, <1>2, PTL

-----------------------------------------------------------------------------
(* The split of the block reward, and the yield.                           *)

(***************************************************************************)
(* The three parts of a reward fit into it; each part has been given out   *)
(* at most in proportion to the counts met so far; and the supply has room *)
(* for the whole reward.                                                   *)
(***************************************************************************)
PartsFit == dagProposersReward + votesReward + paidAuthor <= blockReward

Proportional(paid, total, rest, part) ==
  /\ rest <= total
  /\ paid * total <= (total - rest) * part
  /\ total = 0 => paid = 0

DagProportional == Proportional(paidDag, stats.dag, left.dag, dagProposersReward)

VotesProportional == Proportional(paidVotes, stats.votes, left.votes, votesReward)

RoomInSupply == blockReward = 0 \/ total_supply + blockReward <= MaxSupply

SplitInv ==
  /\ SplitTypeOK
  /\ SupplyCapped
  /\ running => PartsFit /\ DagProportional /\ VotesProportional /\ RoomInSupply

-----------------------------------------------------------------------------
(***************************************************************************)
(* Rounding down never gives more than the exact quotient.                 *)
(***************************************************************************)
LEMMA DivBounds ==
  ASSUME NEW a \in Nat, NEW b \in Nat, b > 0
  PROVE  a \div b \in Nat /\ (a \div b) * b <= a
OBVIOUS

(* A common positive factor can be cancelled.                              *)
LEMMA MulCancel ==
  ASSUME NEW a \in Nat, NEW b \in Nat, NEW c \in Nat, c > 0, a * c <= b * c
  PROVE  a <= b
<1>1. SUFFICES ASSUME a >= b + 1 PROVE FALSE
  OBVIOUS
<1>2. (b + 1) * c <= a * c
  BY <1>1, MulMonotone
<1>3. (b + 1) * c = b * c + c
  OBVIOUS
<1> QED
  BY <1>2, <1>3

(* What is left in a word is no more than the number put there.            *)
LEMMA WordBounds ==
  ASSUME NEW a \in Nat
  PROVE  a % Word \in Nat /\ a % Word <= a
BY SplitAssumption

(* A product that wraps only makes the quotient smaller.                   *)
LEMMA MulDivBounds ==
  ASSUME NEW a \in Nat, NEW b \in Nat, NEW c \in Nat, c > 0
  PROVE  MulDiv(a, b, c) \in Nat /\ MulDiv(a, b, c) * c <= a * b
<1>1. a * b \in Nat
  OBVIOUS
<1>2. (a * b) % Word \in Nat /\ (a * b) % Word <= a * b
  BY <1>1, WordBounds
<1>3. MulDiv(a, b, c) \in Nat /\ MulDiv(a, b, c) * c <= (a * b) % Word
  BY <1>2, DivBounds DEF MulDiv
<1>4. MulDiv(a, b, c) * c \in Nat
  BY <1>3
<1> QED
  BY <1>1, <1>2, <1>3, <1>4

(***************************************************************************)
(* A part of an amount, by quotient or by percentage, is at most all of it.*)
(***************************************************************************)
LEMMA QuotientBounds ==
  ASSUME NEW x \in Nat, NEW n \in Nat, NEW d \in Nat, d > 0, n <= d
  PROVE  MulDiv(x, n, d) \in Nat /\ MulDiv(x, n, d) <= x
<1>1. x * n \in Nat /\ x * n <= x * d
  BY MulMonotone
<1>2. MulDiv(x, n, d) \in Nat /\ MulDiv(x, n, d) * d <= x * n
  BY MulDivBounds
<1> QED
  BY <1>1, <1>2, MulCancel

-----------------------------------------------------------------------------
(* The yield of the curve is a natural number.                             *)
LEMMA YieldIsNat ==
  ASSUME NEW b \in Nat
  PROVE  calculateCurrentYield(b) \in Nat
<1> DEFINE epoch == b \div EpochLength
<1>1. epoch \in Nat
  BY CurveAssumption, DivBounds
<1>2. \A i \in 1..38 : EblaYieldTable[i] \in Nat
  BY DEF EblaYieldTable
<1>3. CASE epoch > MaxEpoch
  BY <1>3 DEF calculateCurrentYield, MinYieldValue
<1>4. CASE ~(epoch > MaxEpoch)
  <2>1. epoch + 1 \in 1..38
    BY <1>1, <1>4 DEF MaxEpoch
  <2> QED
    BY <2>1, <1>2, <1>4 DEF calculateCurrentYield
<1> QED
  BY <1>3, <1>4

(***************************************************************************)
(* The reward of a block leaves room for itself in the supply.             *)
(***************************************************************************)
LEMMA RewardFits ==
  ASSUME total_supply \in Nat, NEW d \in Nat, NEW b \in Nat
  PROVE  /\ processBlockReward(d, b) \in Nat
         /\ \/ processBlockReward(d, b) = 0
            \/ total_supply + processBlockReward(d, b) <= MaxSupply
<1>1. d * calculateCurrentYield(b) \in Nat
  BY YieldIsNat
<1>2. YieldFractionDecimalPrecision * BlocksPerYear \in Nat
      /\ YieldFractionDecimalPrecision * BlocksPerYear > 0
  BY CurveAssumption DEF YieldFractionDecimalPrecision
<1>3. CalculateBlockReward(d, b) \in Nat
  BY <1>1, <1>2, DivBounds DEF CalculateBlockReward
<1> QED
  BY <1>3, SplitAssumption DEF processBlockReward

(* The author gets no more than the bonus of the reward.                   *)
LEMMA AuthorWithinBonus ==
  ASSUME NEW bonus \in Nat, NEW total \in Nat, NEW maximum \in Nat
  PROVE  AuthorReward(bonus, total, maximum) \in Nat
         /\ AuthorReward(bonus, total, maximum) <= bonus
<1> DEFINE top == IF total > maximum THEN total ELSE maximum
           five == (top * 5 + 7) \div 8
           weight == IF total >= five THEN total - five ELSE 0
<1>1. top \in Nat /\ total <= top
  OBVIOUS
<1>2. five \in Nat
  BY <1>1
<1>3. CASE top = total \/ top <= five
  BY <1>3 DEF AuthorReward
<1>4. CASE ~(top = total \/ top <= five)
  <2>1. weight \in Nat /\ top - five \in Nat /\ top - five > 0 /\ weight <= top - five
    BY <1>1, <1>2, <1>4
  <2>2. MulDiv(bonus, weight, top - five) \in Nat
        /\ MulDiv(bonus, weight, top - five) <= bonus
    BY <2>1, QuotientBounds
  <2>3. AuthorReward(bonus, total, maximum) = MulDiv(bonus, weight, top - five)
    BY <1>4 DEF AuthorReward
  <2> QED
    BY <2>2, <2>3
<1> QED
  BY <1>3, <1>4

(***************************************************************************)
(* One more share keeps a part proportional to the counts met: the shape   *)
(* both parts of the reward have.                                          *)
(***************************************************************************)
LEMMA ShareKeepsProportion ==
  ASSUME NEW paid \in Nat, NEW total \in Nat, NEW rest \in Nat, NEW part \in Nat,
         NEW c \in Nat, c <= rest,
         Proportional(paid, total, rest, part)
  PROVE  /\ Share(c, part, total) \in Nat
         /\ Proportional(paid + Share(c, part, total), total, rest - c, part)
<1>0. /\ rest <= total
      /\ paid * total <= (total - rest) * part
      /\ total = 0 => paid = 0
  BY DEF Proportional
<1> DEFINE share == Share(c, part, total)
<1>1. (total - (rest - c)) * part = (total - rest) * part + c * part
  OBVIOUS
<1>2. CASE c = 0
  <2>1. share = 0
    BY <1>2 DEF Share
  <2> QED
    BY <1>0, <1>1, <1>2, <2>1 DEF Proportional
<1>3. CASE c > 0
  <2>1. total > 0
    BY <1>0, <1>3
  <2>2. share = MulDiv(c, part, total)
    BY <1>3 DEF Share
  <2>3. c * part \in Nat
    OBVIOUS
  <2>4. share \in Nat /\ share * total <= c * part
    BY <2>1, <2>2, MulDivBounds
  <2>5. (paid + share) * total = paid * total + share * total
    BY <2>4
  <2>6. (paid + share) * total <= (total - (rest - c)) * part
    BY <1>0, <1>1, <2>4, <2>5
  <2> QED
    BY <1>0, <2>1, <2>4, <2>6 DEF Proportional
<1> QED
  BY <1>2, <1>3

(***************************************************************************)
(* Skipping a validator keeps it too.                                      *)
(***************************************************************************)
LEMMA SkipKeepsProportion ==
  ASSUME NEW paid \in Nat, NEW total \in Nat, NEW rest \in Nat, NEW part \in Nat,
         NEW c \in Nat, c <= rest,
         Proportional(paid, total, rest, part)
  PROVE  Proportional(paid, total, rest - c, part)
<1>1. (total - (rest - c)) * part = (total - rest) * part + c * part
  OBVIOUS
<1>2. c * part \in Nat
  OBVIOUS
<1> QED
  BY <1>1, <1>2 DEF Proportional

(***************************************************************************)
(* A part that was given out in proportion was not exceeded.               *)
(***************************************************************************)
LEMMA ProportionBounds ==
  ASSUME NEW paid \in Nat, NEW total \in Nat, NEW rest \in Nat, NEW part \in Nat,
         Proportional(paid, total, rest, part)
  PROVE  paid <= part
<1>0. /\ rest <= total
      /\ paid * total <= (total - rest) * part
      /\ total = 0 => paid = 0
  BY DEF Proportional
<1>1. CASE total = 0
  BY <1>0, <1>1
<1>2. CASE total > 0
  <2>1. (total - rest) * part <= total * part
    BY <1>0, MulMonotone
  <2>2. paid * total <= part * total
    BY <1>0, <2>1
  <2> QED
    BY <1>2, <2>2, MulCancel
<1> QED
  BY <1>1, <1>2

(* When the loop is done, what was paid is within the reward.              *)
LEMMA PaidWithinReward ==
  ASSUME SplitInv, running
  PROVE  newMintedRewards \in Nat /\ newMintedRewards <= blockReward
<1>1. left.dag \in Nat /\ stats.dag \in Nat /\ left.votes \in Nat /\ stats.votes \in Nat
  BY DEF SplitInv, SplitTypeOK, Counts
<1>2. paidDag <= dagProposersReward
  BY <1>1, ProportionBounds DEF SplitInv, SplitTypeOK, DagProportional
<1>3. paidVotes <= votesReward
  BY <1>1, ProportionBounds DEF SplitInv, SplitTypeOK, VotesProportional
<1>4. newMintedRewards \in Nat /\ newMintedRewards <= paidAuthor + paidDag + paidVotes
  BY WordBounds DEF SplitInv, SplitTypeOK, newMintedRewards
<1> QED
  BY <1>2, <1>3, <1>4 DEF SplitInv, SplitTypeOK, PartsFit

-----------------------------------------------------------------------------
(* The start of a distribution preserves the invariant, if the percentages *)
(* together are at most 100.                                               *)
LEMMA StartPreserves ==
  ASSUME SplitInv, DagProposersReward + MaxBlockAuthorReward <= 100,
         NEW d \in Nat, NEW b \in Nat, NEW totals \in Counts, NEW maxVotes \in Nat,
         NEW exists \in BOOLEAN,
         DistributeRewards(d, b, totals, maxVotes, exists)
  PROVE  SplitInv'
<1> DEFINE reward == processBlockReward(d, b)
           dag == Percent(reward, DagProposersReward)
           bonus == Percent(reward, MaxBlockAuthorReward)
<1>0. totals.dag \in Nat /\ totals.votes \in Nat
  BY DEF Counts
<1>1. reward \in Nat /\ (reward = 0 \/ total_supply + reward <= MaxSupply)
  BY RewardFits DEF SplitInv, SplitTypeOK
<1>2. dag \in Nat /\ bonus \in Nat /\ dag + bonus <= reward
  <2>1. dag \in Nat /\ dag * 100 <= reward * DagProposersReward
    BY <1>1, SplitAssumption, MulDivBounds DEF Percent
  <2>2. bonus \in Nat /\ bonus * 100 <= reward * MaxBlockAuthorReward
    <3>1. MaxBlockAuthorReward \in Nat /\ 100 \in Nat /\ 100 > 0
      BY SplitAssumption
    <3> QED
      BY <1>1, <3>1, MulDivBounds DEF Percent
  <2>3. reward * DagProposersReward + reward * MaxBlockAuthorReward
          = (DagProposersReward + MaxBlockAuthorReward) * reward
    BY <1>1, SplitAssumption
  <2>4. (DagProposersReward + MaxBlockAuthorReward) * reward <= 100 * reward
    BY <1>1, SplitAssumption, MulMonotone
  <2>5. reward * DagProposersReward \in Nat /\ reward * MaxBlockAuthorReward \in Nat
    BY <1>1, SplitAssumption
  <2> QED
    BY <1>1, <2>1, <2>2, <2>3, <2>4, <2>5
<1>3. blockReward' = reward /\ total_supply' = total_supply /\ running' = TRUE
  BY DEF DistributeRewards
<1>4. /\ dagProposersReward' \in Nat /\ votesReward' \in Nat /\ paidAuthor' \in Nat
      /\ dagProposersReward' + votesReward' + paidAuthor' <= reward
  <2>1. CASE totals.votes > 0
    <3>1. AuthorReward(bonus, totals.votes, maxVotes) \in Nat
          /\ AuthorReward(bonus, totals.votes, maxVotes) <= bonus
      BY <1>0, <1>2, AuthorWithinBonus
    <3>2. dagProposersReward' = dag /\ votesReward' = (reward - dag - bonus) % Word
      BY <2>1 DEF DistributeRewards
    <3>4. reward - dag - bonus \in Nat
      BY <1>1, <1>2
    <3>5. votesReward' \in Nat /\ votesReward' <= reward - dag - bonus
      BY <3>2, <3>4, WordBounds
    <3>3. paidAuthor' = 0 \/ paidAuthor' = AuthorReward(bonus, totals.votes, maxVotes)
      BY <2>1 DEF DistributeRewards
    <3> QED
      BY <1>1, <1>2, <3>1, <3>2, <3>3, <3>5
  <2>2. CASE ~(totals.votes > 0)
    BY <1>1, <2>2 DEF DistributeRewards
  <2> QED
    BY <2>1, <2>2
<1>5. SplitTypeOK'
  BY <1>1, <1>3, <1>4 DEF SplitInv, SplitTypeOK, DistributeRewards
<1>6. /\ stats' = totals /\ left' = totals /\ paidDag' = 0 /\ paidVotes' = 0
  BY DEF DistributeRewards
<1>7. DagProportional' /\ VotesProportional'
  BY <1>0, <1>4, <1>6 DEF DagProportional, VotesProportional, Proportional
<1>8. PartsFit' /\ RoomInSupply'
  BY <1>1, <1>3, <1>4 DEF PartsFit, RoomInSupply
<1>9. SupplyCapped'
  BY <1>3 DEF SplitInv, SupplyCapped
<1> QED
  BY <1>5, <1>7, <1>8, <1>9 DEF SplitInv

(* The reward of one validator preserves the invariant.                    *)
LEMMA RewardPreserves ==
  ASSUME SplitInv,
         NEW v \in Validator, NEW dag \in Nat, NEW votes \in Nat, NEW exists \in BOOLEAN,
         RewardValidator(v, dag, votes, exists)
  PROVE  SplitInv'
<1>0. /\ left.dag \in Nat /\ left.votes \in Nat /\ stats.dag \in Nat /\ stats.votes \in Nat
      /\ dag <= left.dag /\ votes <= left.votes
      /\ DagProportional /\ VotesProportional /\ PartsFit /\ RoomInSupply
  BY DEF SplitInv, SplitTypeOK, Counts, RewardValidator
<1> DEFINE dagShare == Share(dag, dagProposersReward, stats.dag)
           voteShare == Share(votes, votesReward, stats.votes)
<1>1. /\ dagShare \in Nat
      /\ Proportional(paidDag + dagShare, stats.dag, left.dag - dag, dagProposersReward)
      /\ Proportional(paidDag, stats.dag, left.dag - dag, dagProposersReward)
  BY <1>0, ShareKeepsProportion, SkipKeepsProportion DEF SplitInv, SplitTypeOK, DagProportional
<1>2. /\ voteShare \in Nat
      /\ Proportional(paidVotes + voteShare, stats.votes, left.votes - votes, votesReward)
      /\ Proportional(paidVotes, stats.votes, left.votes - votes, votesReward)
  BY <1>0, ShareKeepsProportion, SkipKeepsProportion DEF SplitInv, SplitTypeOK, VotesProportional
<1>3. /\ left'.dag = left.dag - dag /\ left'.votes = left.votes - votes
      /\ left' \in Counts
      /\ UNCHANGED <<total_supply, block, running, blockReward, dagProposersReward,
                     votesReward, stats, paidAuthor>>
  BY <1>0 DEF RewardValidator, Counts
<1>4. \/ paidDag' = paidDag + dagShare /\ paidVotes' = paidVotes + voteShare
      \/ paidDag' = paidDag /\ paidVotes' = paidVotes
  BY DEF RewardValidator
<1>5. DagProportional' /\ VotesProportional'
  BY <1>1, <1>2, <1>3, <1>4 DEF DagProportional, VotesProportional
<1>6. SplitTypeOK'
  <2>1. paidDag' \in Nat /\ paidVotes' \in Nat
    BY <1>1, <1>2, <1>4 DEF SplitInv, SplitTypeOK
  <2> QED
    BY <1>3, <2>1 DEF SplitInv, SplitTypeOK, RewardValidator
<1> QED
  BY <1>0, <1>3, <1>5, <1>6 DEF SplitInv, PartsFit, RoomInSupply, SupplyCapped

(* Minting the reward preserves the invariant.                             *)
LEMMA MintPreserves ==
  ASSUME SplitInv, Mint
  PROVE  SplitInv'
<1>1. newMintedRewards \in Nat /\ newMintedRewards <= blockReward
  BY PaidWithinReward DEF Mint
<1>2. total_supply' = (total_supply + newMintedRewards) % Word
  BY DEF Mint
<1>3. RoomInSupply /\ blockReward \in Nat /\ total_supply \in Nat
  BY DEF Mint, SplitInv, SplitTypeOK
<1>6. total_supply' \in Nat /\ total_supply' <= total_supply + newMintedRewards
  BY <1>1, <1>2, <1>3, WordBounds
<1>4. SupplyCapped'
  BY <1>1, <1>2, <1>3, <1>6, SplitAssumption DEF SplitInv, SupplyCapped, RoomInSupply
<1>5. SplitTypeOK'
  <2>1. NoCounts \in Counts
    BY DEF NoCounts, Counts
  <2>2. total_supply' \in Nat /\ 0 \in Nat
    BY <1>6
  <2> QED
    BY <2>1, <2>2 DEF Mint, SplitInv, SplitTypeOK
<1> QED
  BY <1>4, <1>5 DEF SplitInv, Mint

(* The inductive invariant holds in every reachable state: no distribution *)
(* overruns its parts or the supply.                                       *)
THEOREM DistributionInvariant ==
  ASSUME DagProposersReward + MaxBlockAuthorReward <= 100
  PROVE  SplitSpec => []SplitInv
<1>1. SplitInit => SplitInv
  <2>1. NoCounts \in Counts
    BY DEF NoCounts, Counts
  <2>2. 0 \in Nat
    OBVIOUS
  <2> QED
    BY <2>1, <2>2, SplitAssumption DEF SplitInit, SplitInv, SplitTypeOK, SupplyCapped
<1>2. SplitInv /\ [SplitNext]_splitVars => SplitInv'
  <2> SUFFICES ASSUME SplitInv, [SplitNext]_splitVars PROVE SplitInv'
    OBVIOUS
  <2>1. CASE UNCHANGED splitVars
    BY <2>1 DEF splitVars, SplitInv, SplitTypeOK, SupplyCapped, PartsFit, DagProportional,
                VotesProportional, Proportional, RoomInSupply
  <2>2. ASSUME NEW d \in Delegations, NEW b \in BlockNums, NEW dag \in 0..MaxWeight,
               NEW votes \in 0..MaxWeight, NEW maxVotes \in 0..MaxWeight,
               NEW exists \in BOOLEAN,
               DistributeRewards(d, b, [dag |-> dag, votes |-> votes], maxVotes, exists)
        PROVE  SplitInv'
    <3>1. d \in Nat /\ b \in Nat /\ maxVotes \in Nat
      BY SplitAssumption
    <3>2. [dag |-> dag, votes |-> votes] \in Counts
      BY SplitAssumption DEF Counts
    <3> QED
      BY <2>2, <3>1, <3>2, StartPreserves
  <2>3. ASSUME NEW v \in Validator, NEW dag \in 0..MaxWeight,
               NEW votes \in 0..MaxWeight, NEW exists \in BOOLEAN,
               RewardValidator(v, dag, votes, exists)
        PROVE  SplitInv'
    <3>1. dag \in Nat /\ votes \in Nat
      BY SplitAssumption
    <3> QED
      BY <2>3, <3>1, RewardPreserves
  <2>4. CASE Mint
    BY <2>4, MintPreserves
  <2> QED
    BY <2>1, <2>2, <2>3, <2>4 DEF SplitNext
<1> QED
  BY <1>1, <1>2, PTL DEF SplitSpec

(***************************************************************************)
(* Every distribution mints at most its block reward, and the total supply *)
(* stays under max_supply for ever: for every yield, every set of          *)
(* validators, every split of consistent statistics and every              *)
(* configuration in which dag_proposers_reward and max_block_author_reward *)
(* are together at most 100 per cent.  The code does not assert that; with *)
(* more, votesReward.Sub of DistributeRewards goes below zero and wraps.   *)
(***************************************************************************)
THEOREM SupplyStaysCapped ==
  ASSUME DagProposersReward + MaxBlockAuthorReward <= 100
  PROVE  SplitSpec => [](MintedWithinReward /\ SupplyCapped)
<1>1. SplitInv => MintedWithinReward /\ SupplyCapped
  BY PaidWithinReward DEF SplitInv, MintedWithinReward
<1> QED
  BY <1>1, DistributionInvariant, PTL

-----------------------------------------------------------------------------
(* All blocks of an epoch have its number as their quotient.               *)
LEMMA EpochOfBlock ==
  ASSUME NEW e \in Nat, NEW r \in Nat, r < EpochLength
  PROVE  (e * EpochLength + r) \div EpochLength = e
<1> DEFINE x == e * EpochLength + r
           k == x \div EpochLength
<1>0. EpochLength \in Nat /\ EpochLength > 0
  BY CurveAssumption
<1>1. e * EpochLength \in Nat /\ x \in Nat
  BY <1>0
<1>2. k \in Nat /\ k * EpochLength <= x /\ x < (k + 1) * EpochLength
  <2> HIDE DEF x
  <2> QED
    BY <1>0, <1>1
<1> HIDE DEF k
<1>3. x < (e + 1) * EpochLength
  BY <1>0, <1>1
<1>4. ~(k >= e + 1)
  <2> SUFFICES ASSUME k >= e + 1 PROVE FALSE
    OBVIOUS
  <2>1. (e + 1) * EpochLength <= k * EpochLength
    BY <1>0, <1>2, MulMonotone
  <2> QED
    BY <2>1, <1>0, <1>1, <1>2, <1>3
<1>5. ~(e >= k + 1)
  <2> SUFFICES ASSUME e >= k + 1 PROVE FALSE
    OBVIOUS
  <2>1. (k + 1) * EpochLength <= e * EpochLength
    BY <1>0, <1>2, MulMonotone
  <2> QED
    BY <2>1, <1>0, <1>1, <1>2
<1> QED
  BY <1>2, <1>4, <1>5 DEF k

(***************************************************************************)
(* The table: each entry is 95 per cent of the one before, rounded, none   *)
(* is as low as the floor, and 95 per cent of the last one would be.       *)
(***************************************************************************)
LEMMA TableDecays ==
  /\ \A i \in 1..37 :
       /\ EblaYieldTable[i + 1] \in (EblaYieldTable[i] * 95) \div 100
                                    .. (EblaYieldTable[i] * 95 + 95) \div 100
       /\ EblaYieldTable[i + 1] > MinYieldValue
  /\ (EblaYieldTable[38] * 95) \div 100 < MinYieldValue
BY DEF EblaYieldTable, MinYieldValue

(* The yield of the blocks of epoch e.                                     *)
YieldOf(e) == IF e > MaxEpoch THEN MinYieldValue ELSE EblaYieldTable[e + 1]

(* The curve falls by 5 per cent from one epoch to the next, to the floor. *)
LEMMA EpochsDecay ==
  ASSUME NEW e \in Nat, e >= 1
  PROVE  LET decayed == (YieldOf(e - 1) * 95) \div 100
         IN  \/ YieldOf(e) = MinYieldValue /\ decayed < MinYieldValue
             \/ /\ YieldOf(e) \in decayed .. (YieldOf(e - 1) * 95 + 95) \div 100
                /\ YieldOf(e) > MinYieldValue
<1>1. CASE e <= 37
  <2>1. e \in 1..37 /\ YieldOf(e) = EblaYieldTable[e + 1] /\ YieldOf(e - 1) = EblaYieldTable[e]
    BY <1>1 DEF YieldOf, MaxEpoch
  <2> QED
    BY <2>1, TableDecays
<1>2. CASE e = 38
  <2>1. YieldOf(e) = MinYieldValue /\ YieldOf(e - 1) = EblaYieldTable[38]
    BY <1>2 DEF YieldOf, MaxEpoch
  <2> QED
    BY <2>1, TableDecays
<1>3. CASE e > 38
  <2>1. YieldOf(e) = MinYieldValue /\ YieldOf(e - 1) = MinYieldValue
    BY <1>3 DEF YieldOf, MaxEpoch
  <2> QED
    BY <2>1 DEF MinYieldValue
<1> QED
  BY <1>1, <1>2, <1>3

(* The yield at the first and at the last block of an epoch.               *)
LEMMA YieldOfBlock ==
  ASSUME NEW e \in Nat
  PROVE  /\ calculateCurrentYield(e * EpochLength) = YieldOf(e)
         /\ calculateCurrentYield((e + 1) * EpochLength - 1) = YieldOf(e)
<1>0. EpochLength \in Nat /\ EpochLength > 0
  BY CurveAssumption
<1>1. (e * EpochLength) \div EpochLength = e
  <2>1. e * EpochLength + 0 = e * EpochLength
    BY <1>0
  <2>2. (e * EpochLength + 0) \div EpochLength = e
    BY <1>0, EpochOfBlock
  <2> QED
    BY <2>1, <2>2
<1>2. ((e + 1) * EpochLength - 1) \div EpochLength = e
  <2>1. e * EpochLength + (EpochLength - 1) = (e + 1) * EpochLength - 1
    BY <1>0
  <2>2. EpochLength - 1 \in Nat /\ EpochLength - 1 < EpochLength
    BY <1>0
  <2>3. (e * EpochLength + (EpochLength - 1)) \div EpochLength = e
    BY <2>2, EpochOfBlock
  <2> QED
    BY <2>1, <2>3
<1> QED
  BY <1>1, <1>2 DEF calculateCurrentYield, YieldOf

(***************************************************************************)
(* yield_curve.go: in every reachable state, for every length of an epoch  *)
(* and every block, the yield is constant within an epoch, falls by 5 per  *)
(* cent at each boundary and becomes the floor exactly when the next step  *)
(* would fall below it.                                                    *)
(***************************************************************************)
THEOREM YieldKeepsDecaying == SplitSpec => []YieldDecays
<1>1. block \in Nat => YieldDecays
  <2> SUFFICES ASSUME block \in Nat, NEW n \in 1..(MaxEpoch + 3)
               PROVE  LET boundary == (block \div EpochLength + n) * EpochLength
                          now == calculateCurrentYield(boundary)
                          before == calculateCurrentYield(boundary - 1)
                          decayed == (before * 95) \div 100
                      IN  /\ before = calculateCurrentYield(boundary - EpochLength)
                          /\ \/ now = MinYieldValue /\ decayed < MinYieldValue
                             \/ now \in decayed .. (before * 95 + 95) \div 100 /\ now > MinYieldValue
    BY DEF YieldDecays
  <2> DEFINE q == block \div EpochLength
             e == q + n
  <2>1. EpochLength \in Nat /\ q \in Nat
    BY CurveAssumption, DivBounds
  <2> HIDE DEF q
  <2>2. n \in Nat /\ n >= 1
    BY DEF MaxEpoch
  <2>3. e \in Nat /\ e >= 1 /\ e - 1 \in Nat /\ (e - 1) + 1 = e
    BY <2>1, <2>2
  <2>4. (e - 1) * EpochLength = e * EpochLength - EpochLength
    BY <2>1, <2>3
  <2> HIDE DEF e
  <2>5. /\ calculateCurrentYield(e * EpochLength) = YieldOf(e)
        /\ calculateCurrentYield(e * EpochLength - 1) = YieldOf(e - 1)
        /\ calculateCurrentYield(e * EpochLength - EpochLength) = YieldOf(e - 1)
    BY <2>3, <2>4, YieldOfBlock
  <2>6. /\ calculateCurrentYield((q + n) * EpochLength) = YieldOf(e)
        /\ calculateCurrentYield((q + n) * EpochLength - 1) = YieldOf(e - 1)
        /\ calculateCurrentYield((q + n) * EpochLength - EpochLength) = YieldOf(e - 1)
    BY <2>5 DEF e
  <2> QED
    BY <2>3, <2>6, EpochsDecay DEF q
<1>2. SplitInit => block \in Nat
  BY DEF SplitInit
<1>3. block \in Nat /\ [SplitNext]_splitVars => (block \in Nat)'
  BY SplitAssumption DEF SplitNext, DistributeRewards, RewardValidator, Mint, splitVars
<1> QED
  BY <1>1, <1>2, <1>3, PTL DEF SplitSpec

=============================================================================
