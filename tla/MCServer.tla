------------------------------- MODULE MCServer -------------------------------
(* Small instances of Server for TLC. *)
EXTENDS Server, TLC

NewItem(i) == [id |-> i, status |-> "NEW"]

(* What the updater program submits: an order of one item, of two items,   *)
(* and of two items that were given the same id.                           *)
OneItem   == [status |-> "NEW", items |-> <<NewItem(1)>>]
TwoItems  == [status |-> "NEW", items |-> <<NewItem(1), NewItem(2)>>]
TwinItems == [status |-> "NEW", items |-> <<NewItem(1), NewItem(1)>>]

MCOneItem  == {OneItem}
MCTwoItems == {TwoItems}
MCOrders   == {TwoItems, TwinItems}

Symmetry == Permutations(Displays)
===============================================================================
