---------------------------- MODULE IterableMap -----------------------------
(***************************************************************************)
(* The iterable map that the precompiled contracts keep in the account     *)
(* storage (contracts/storage/iterable_map.go, with its AddressesIMap and  *)
(* IdsIMap wrappers).  The map is three families of storage slots:         *)
(*   items  "items_storage_prefix + pos"      -> item                      *)
(*   pos    "items_pos_storage_prefix + item" -> position, 0 for absent    *)
(*   count  "items_count_storage_key"         -> number of items           *)
(* An empty slot is Nil (items) or 0 (pos, count).  Positions are uint32   *)
(* and start at 1.                                                         *)
(***************************************************************************)
EXTENDS Naturals, Sequences, FiniteSets

CONSTANTS
  Item,            (* the items that may be stored                         *)
  Nil,             (* content of an empty items slot                       *)
  MaxPos           (* largest position, 2^32 - 1 in the code               *)

ASSUME NilAssumption == Nil \notin Item

(***************************************************************************)
(* Positions are uint32: the map is used for accounts and undelegation ids,*)
(* of which there are fewer than 2^32.                                     *)
(***************************************************************************)
ASSUME SizeAssumption ==
  /\ MaxPos \in Nat \ {0}
  /\ IsFiniteSet(Item)
  /\ Cardinality(Item) <= MaxPos

Pos == 1..MaxPos

(***************************************************************************)
(* Why a call stopped the node: "caller" for a panic on a call the         *)
(* contract must not make, "broken" for the panics marked "This should     *)
(* never happen".                                                          *)
(***************************************************************************)
Panic == {"none", "caller", "broken"}

VARIABLES items, pos, count, panic

vars == <<items, pos, count, panic>>

TypeOK ==
  /\ items \in [Pos -> Item \cup {Nil}]
  /\ pos \in [Item -> 0..MaxPos]
  /\ count \in 0..MaxPos
  /\ panic \in Panic

Init ==
  /\ items = [p \in Pos |-> Nil]
  /\ pos = [x \in Item |-> 0]
  /\ count = 0
  /\ panic = "none"

ItemExistsFromOne(x) == pos[x] > 1                            (* mutant *)

ItemExists(x) == pos[x] # 0

Stop(why) ==
  /\ panic' = why
  /\ UNCHANGED <<items, pos, count>>

(***************************************************************************)
(* CreateItem: append after the last position.  The position is computed   *)
(* in uint32 and wraps.                                                    *)
(***************************************************************************)
CreateItem(x) ==
  LET new_item_pos == (count + 1) % (MaxPos + 1)
  IN  \/ /\ ItemExists(x)
         /\ Stop("caller")
      \/ /\ ~ItemExists(x)
         /\ items' = [items EXCEPT ![new_item_pos] = x]
         /\ pos' = [pos EXCEPT ![x] = new_item_pos]
         /\ count' = new_item_pos
         /\ UNCHANGED panic

(***************************************************************************)
(* RemoveItem of the item at the last position: only clears slots.         *)
(***************************************************************************)
RemoveLast(x) ==
  /\ count # 0 /\ ItemExists(x) /\ pos[x] = count
  /\ items' = [items EXCEPT ![pos[x]] = Nil]
  /\ pos' = [pos EXCEPT ![x] = 0]
  /\ count' = count - 1
  /\ UNCHANGED panic

(***************************************************************************)
(* RemoveItem of an item in the middle: the last item takes its place, in  *)
(* the order of the Puts of the code.                                      *)
(***************************************************************************)
RemoveMiddleStalePos(x) ==           (* mutant: pos of the moved item kept *)
  LET last_item == items[count]
  IN  /\ count # 0 /\ ItemExists(x) /\ pos[x] # count
      /\ IF last_item = Nil
         THEN Stop("broken")
         ELSE /\ pos' = [pos EXCEPT ![x] = 0]
              /\ items' = [items EXCEPT ![pos[x]] = last_item, ![count] = Nil]
              /\ count' = count - 1
              /\ UNCHANGED panic

RemoveMiddle(x) ==
  LET last_item == items[count]
  IN  /\ count # 0 /\ ItemExists(x) /\ pos[x] # count
      /\ IF last_item = Nil
         THEN Stop("broken")
         ELSE /\ pos' = [pos EXCEPT ![last_item] = pos[x], ![x] = 0]
              /\ items' = [items EXCEPT ![pos[x]] = last_item, ![count] = Nil]
              /\ count' = count - 1
              /\ UNCHANGED panic

RemoveItem(x) ==
  \/ /\ count = 0 \/ ~ItemExists(x)
     /\ Stop("caller")
  \/ RemoveLast(x)
  \/ RemoveMiddle(x)

(***************************************************************************)
(* GetItems(start_idx, n): the page of at most n items from start_idx, and *)
(* whether it is the last one.  start_idx + n is a uint32 sum; entries     *)
(* beyond it are left empty (Nil), and so is an entry whose slot is empty, *)
(* on which the code panics.                                               *)
(***************************************************************************)
GetItems(start_idx, n) ==
  LET end_idx == (start_idx + n) % (MaxPos + 1)
      size == IF count <= end_idx THEN count - start_idx ELSE n
  IN  IF count = 0 \/ start_idx >= count
      THEN [result |-> <<>>, end |-> TRUE]
      ELSE [result |-> [i \in 1..size |->
                          IF start_idx + i <= end_idx /\ start_idx + i <= count
                          THEN items[start_idx + i]
                          ELSE Nil],
            end |-> count <= end_idx]

(***************************************************************************)
(* GetAccounts(batch, n) of AddressesIMap: pages are numbered, and the     *)
(* start index is a uint32 product.  GetAllAccounts and GetAllIds ask for  *)
(* one page of all items.                                                  *)
(***************************************************************************)
GetAccountsOverlapping(batch, n) == GetItems(batch, n)      (* mutant *)

GetAccounts(batch, n) == GetItems((batch * n) % (MaxPos + 1), n)

GetAllAccounts == GetItems(0, count).result

Next ==
  /\ panic = "none"
  /\ \E x \in Item : CreateItem(x) \/ RemoveItem(x)

Spec == Init /\ [][Next]_vars

-----------------------------------------------------------------------------
(***************************************************************************)
(* The two slot families describe the same set: positions 1..count hold    *)
(* distinct items, and pos is the inverse of items.  Every later operation *)
(* relies on it, and only a series of creations and removals can break it. *)
(***************************************************************************)
Consistent ==
  /\ \A p \in Pos : p <= count => items[p] \in Item /\ pos[items[p]] = p
  /\ \A p \in Pos : p > count => items[p] = Nil
  /\ \A x \in Item : pos[x] # 0 => pos[x] <= count /\ items[pos[x]] = x

(***************************************************************************)
(* The panics that the code comments call impossible never fire: whenever  *)
(* an item is removed from the middle, the last position holds an item.    *)
(***************************************************************************)
NeverBroken == panic # "broken"

(***************************************************************************)
(* Paging, as ForEachValidator does it (validators.go): asking for batch   *)
(* 0, 1, 2, ... of any page size until "end" yields every stored item      *)
(* exactly once, in position order, and the last page says so.             *)
(***************************************************************************)
PagesCoverItems ==
  \A n \in 1..Cardinality(Item) :
    LET lastPage == CHOOSE b \in 0..Cardinality(Item) :
                      /\ GetAccounts(b, n).end
                      /\ \A c \in 0..(b - 1) : ~GetAccounts(c, n).end
        page(b) == GetAccounts(b, n).result
    IN  /\ \A b \in 0..lastPage, i \in 1..n :
             /\ i \in DOMAIN page(b) => page(b)[i] = items[b * n + i]
             /\ i \in DOMAIN page(b) <=> b * n + i <= count
        /\ (lastPage + 1) * n >= count

(***************************************************************************)
(* The map implements the list of distinct items the contracts think of.   *)
(***************************************************************************)
List == INSTANCE ItemList WITH
          list <- [i \in 1..count |-> items[i]],
          halted <- panic # "none"

ImplementsList == List!ListSpec

=============================================================================
