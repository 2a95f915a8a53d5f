------------------------------- MODULE MCObjects -------------------------------
(* Small instances of Objects for TLC. *)
EXTENDS Objects

NewItem(i) == [id |-> i, status |-> "NEW"]

MCTwoItems == {[status |-> "NEW", items |-> <<NewItem(1), NewItem(2)>>]}
================================================================================
