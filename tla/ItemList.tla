------------------------------ MODULE ItemList ------------------------------
(***************************************************************************)
(* What an IterableMap promises to the contracts that use it: a list of    *)
(* distinct items.  A new item goes to the end; a removed item is replaced *)
(* by the last one, so removal disturbs the position of one other item at  *)
(* most.  A call that the contract must not make (creating an item twice,  *)
(* removing an unknown one) stops the node.                                *)
(***************************************************************************)
EXTENDS Naturals, Sequences

CONSTANT Item      (* the items that may be stored: addresses or ids       *)

VARIABLES
  list,            (* the stored items, in iteration order                 *)
  halted           (* TRUE once a call has panicked                        *)

listVars == <<list, halted>>

Stored(l) == {l[i] : i \in 1..Len(l)}

(***************************************************************************)
(* The list without its i-th element, whose place the last element takes.  *)
(***************************************************************************)
SwapRemove(l, i) == [k \in 1..(Len(l) - 1) |-> IF k = i THEN l[Len(l)] ELSE l[k]]

PositionOf(l, x) == CHOOSE i \in 1..Len(l) : l[i] = x

ListWithout(l, x) == SwapRemove(l, PositionOf(l, x))

Insert(x) ==
  /\ x \notin Stored(list)
  /\ list' = Append(list, x)
  /\ UNCHANGED halted

Delete(x) ==
  /\ x \in Stored(list)
  /\ list' = ListWithout(list, x)
  /\ UNCHANGED halted

Halt ==
  /\ halted' = TRUE
  /\ UNCHANGED list

ListInit == list = <<>> /\ halted = FALSE

ListNext == ~halted /\ (Halt \/ \E x \in Item : Insert(x) \/ Delete(x))

ListSpec == ListInit /\ [][ListNext]_listVars

=============================================================================
