--------------------------------- MODULE Pipe ---------------------------------
(***************************************************************************)
(* What the rest of the program takes one direction of a connection to be: *)
(* a first-in first-out pipe of whole strings that may break.  The sockets *)
(* of the modules Server and Session are such pipes.                       *)
(***************************************************************************)
EXTENDS Sequences

CONSTANTS
  Strings,    \* what may be sent
  NoString    \* nothing has been received yet

VARIABLES
  transit,    \* strings sent and not yet received
  last,       \* the string received last
  broken      \* the reader has given up

pipeVars == <<transit, last, broken>>

PipeInit ==
  /\ transit = << >>
  /\ last = NoString
  /\ broken = FALSE

Put ==
  /\ \E s \in Strings : transit' = Append(transit, s)
  /\ UNCHANGED <<last, broken>>

Take ==
  /\ ~broken
  /\ transit # << >>
  /\ last' = Head(transit)
  /\ transit' = Tail(transit)
  /\ UNCHANGED broken

Break ==
  /\ broken' = TRUE
  /\ UNCHANGED <<transit, last>>

PipeNext == Put \/ Take \/ Break

PipeSpec == PipeInit /\ [][PipeNext]_pipeVars
===============================================================================
