------------------------------ MODULE MCSession -------------------------------
(* Small instances of Session for TLC. *)
EXTENDS Session, TLC

Single(i) == [status |-> "NEW", items |-> <<[id |-> i, status |-> "NEW"]>>]

(* Two orders that can be told apart, of one item each. *)
MCSingles == {Single(1), Single(2)}

MCOneSingle == {Single(1)}

Symmetry == Permutations(Updaters)
===============================================================================
