-------------------------- MODULE MCSendOrderMessage --------------------------
(* A small instance of SendOrderMessage for TLC. *)
EXTENDS SendOrderMessage

OneItem    == [status |-> "NEW", items |-> <<[id |-> 1, status |-> "NEW"]>>]
MCOneItem  == {OneItem}
===============================================================================
