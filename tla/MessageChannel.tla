---------------------------- MODULE MessageChannel ----------------------------
(***************************************************************************)
(* What a MessageQueue keeps of the promise in include/message_queue.h: a  *)
(* first-in first-out channel from any number of threads to the one thread *)
(* that dequeues.  Nothing is lost, duplicated or reordered, and dequeue   *)
(* gives up only while there are at least as many calls of enqueue in      *)
(* progress as messages.                                                   *)
(*                                                                         *)
(* That is less than message_queue.h:33-35, where null means that the      *)
(* queue was empty.  It does not even mean that each message belongs to a  *)
(* call in progress: when the first of two producers is slow to post, the  *)
(* token of the second hands out the message of the first, and dequeue may *)
(* then give up although the enqueue of the message left has returned.     *)
(***************************************************************************)
EXTENDS Naturals, Sequences

CONSTANTS
  Messages,   \* what may be enqueued
  NoMessage   \* the null pointer dequeue returns after a second

VARIABLES
  channel,    \* messages enqueued and not yet dequeued
  inside,     \* how many calls have put their message in and not returned
  last        \* what the last call of dequeue returned

channelVars == <<channel, inside, last>>

ChannelInit ==
  /\ channel = << >>
  /\ inside = 0
  /\ last = NoMessage

Put ==
  /\ \E m \in Messages : channel' = Append(channel, m)
  /\ inside' = inside + 1
  /\ UNCHANGED last

Return ==
  /\ inside > 0
  /\ inside' = inside - 1
  /\ UNCHANGED <<channel, last>>

Get ==
  /\ channel # << >>
  /\ last' = Head(channel)
  /\ channel' = Tail(channel)
  /\ UNCHANGED inside

(* After a second without a token. *)
GiveUp ==
  /\ Len(channel) <= inside
  /\ last' = NoMessage
  /\ UNCHANGED <<channel, inside>>

ChannelNext == Put \/ Return \/ Get \/ GiveUp

ChannelSpec == ChannelInit /\ [][ChannelNext]_channelVars
===============================================================================
