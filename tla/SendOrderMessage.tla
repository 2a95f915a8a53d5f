--------------------------- MODULE SendOrderMessage ---------------------------
(***************************************************************************)
(* A display connection that gets its first orders from                    *)
(* Server::send_order_message (src/server.cpp) instead of sending a        *)
(* snapshot itself.  send_order_message copies the orders under my_lock,   *)
(* gives the lock back, and only then enqueues one DISP_ORDER per copy:    *)
(* the broadcasts of other threads may come in between.  The connection    *)
(* registers first, as Client::chat_display does; everything else is       *)
(* Server's.  The additional phase is                                      *)
(*                                                                         *)
(*   copied   the copies are made, backlog holds those not yet enqueued    *)
(***************************************************************************)
EXTENDS Server

copy_orders(d) ==
  /\ phase[d] = "joined"
  /\ \E ids \in Listings(LiveIds) :
       backlog' = [backlog EXCEPT ![d] = Copies(ids)]
  /\ phase' = [phase EXCEPT ![d] = "copied"]
  /\ UNCHANGED <<serverVars, my_clients, queue, sock, peer, screen>>

enqueue_copy(d) ==
  /\ phase[d] = "copied"
  /\ backlog[d] # << >>
  /\ queue'   = [queue   EXCEPT ![d] = Append(@, Head(backlog[d]))]
  /\ backlog' = [backlog EXCEPT ![d] = Tail(@)]
  /\ UNCHANGED <<serverVars, my_clients, phase, sock, peer, screen>>

(* send_order_message returns; the dequeue loop of chat_display begins. *)
start_stream(d) ==
  /\ phase[d] = "copied"
  /\ backlog[d] = << >>
  /\ phase' = [phase EXCEPT ![d] = "stream"]
  /\ UNCHANGED <<serverVars, my_clients, queue, backlog, sock, peer, screen>>

SendOrderMessageServe(d) ==
  \/ add_client(d)
  \/ copy_orders(d) \/ enqueue_copy(d) \/ start_stream(d)
  \/ SendQueued(d) \/ SendHeartbeat(d) \/ SendFails(d)
  \/ remove_client(d)

SendOrderMessageNext ==
  \/ Update
  \/ \E d \in Displays :
       Connect(d) \/ SendOrderMessageServe(d) \/ receive(d) \/ PeerCloses(d)

SendOrderMessageSpec == Init /\ [][SendOrderMessageNext]_vars

-------------------------------------------------------------------------------
(* README.txt says of send_order_message and the other methods that take   *)
(* my_lock that the guard "makes race conditions impossible".  Then a      *)
(* display that has read all that is on its way would show the server's    *)
(* orders.  It need not: a broadcast made between the copying and the      *)
(* enqueueing is undone on the screen by the older copy that follows it.   *)
CopiesAreNotStale == CaughtUp
===============================================================================
