------------------------------- MODULE MCThreads -------------------------------
(* Small instances of Threads for TLC. *)
EXTENDS Threads

NewItem(i) == [id |-> i, status |-> "NEW"]

MCTwoItems == {[status |-> "NEW", items |-> <<NewItem(1), NewItem(2)>>]}
================================================================================
