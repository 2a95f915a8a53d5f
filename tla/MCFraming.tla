------------------------------- MODULE MCFraming -------------------------------
(* Small instances of Framing for TLC: lengths of two binary digits, so that  *)
(* strings of more than two bytes are too long.                               *)
EXTENDS Framing, TLC

CONSTANTS a, b

(* The empty string; digits and newlines inside a string; the longest strings *)
(* that fit.                                                                  *)
MCFitting == {<< >>, <<0>>, <<Newline>>, <<1, Newline>>, <<a, b>>, <<Newline, 0>>}

(* With them, strings whose length has one or two digits too many. *)
MCLong == MCFitting \cup {<<a, b, a>>, <<0, 1, a, b>>, <<a, a, b, b, a, b, a>>}

ASSUME LongIsOneLine
===============================================================================
