-------------------------------- MODULE Server --------------------------------
(***************************************************************************)
(* The order server and its displays: the order map and the set of         *)
(* registered displays (src/server.cpp), the thread that serves one        *)
(* display connection (Client::chat_display, src/client.cpp), the socket   *)
(* to the display program, and that program (src/display_main.cpp).        *)
(*                                                                         *)
(* Every Server method holds my_lock from its first to its last statement, *)
(* so a method is one action here; broadcast runs inside it.  A display    *)
(* connection goes through                                                 *)
(*                                                                         *)
(*   idle     no Client object                                             *)
(*   login    logging in as DISPLAY, not yet in my_clients                 *)
(*   joined   in my_clients, snapshot not yet taken                        *)
(*   stream   sending the rest of its snapshot, then its queue             *)
(*   failed   a send threw IOException, ~Client has not run yet            *)
(***************************************************************************)
EXTENDS Orders, FiniteSets

CONSTANTS
  Displays,   \* display connections
  NewOrders,  \* the orders an updater may submit
  MaxOrders,  \* bound: how many orders are ever created
  SockCap     \* bound: messages a socket holds before a send blocks

FirstOrderId == 1000
OrderIds     == FirstOrderId .. FirstOrderId + MaxOrders - 1

ASSUME MaxOrdersAssumption == MaxOrders \in Nat
ASSUME SockCapAssumption   == SockCap \in Nat \ {0}
ASSUME NewOrdersAssumption == NewOrders \subseteq Order

(* An order as src/updater_main.cpp builds it: everything is NEW, and      *)
(* there is an item, since Wire::encode refuses an order without one.      *)
FreshOrder ==
  {o \in Order : /\ o.status = "NEW"
                 /\ o.items # << >>
                 /\ \A p \in DOMAIN o.items : o.items[p].status = "NEW"}

VARIABLES
  next_order_id,
  my_orders,    \* [OrderIds -> MaybeOrder]
  my_clients,   \* the registered displays
  phase,        \* where each connection's thread is
  queue,        \* Client::m_queue of each connection
  backlog,      \* the snapshot messages its thread has still to send
  sock,         \* sent, not yet read by the display program
  peer,         \* the display program's end of the socket
  screen        \* the display program's map of orders

serverVars  == <<next_order_id, my_orders>>
sessionVars == <<my_clients, phase, backlog, sock, peer, screen>>
vars == <<next_order_id, my_orders, my_clients, phase, queue, backlog, sock,
          peer, screen>>

EmptyScreen == [id \in OrderIds |-> NoOrder]

Init ==
  /\ next_order_id = FirstOrderId
  /\ my_orders  = EmptyScreen
  /\ my_clients = {}
  /\ phase   = [d \in Displays |-> "idle"]
  /\ queue   = [d \in Displays |-> << >>]
  /\ backlog = [d \in Displays |-> << >>]
  /\ sock    = [d \in Displays |-> << >>]
  /\ peer    = [d \in Displays |-> "closed"]
  /\ screen  = [d \in Displays |-> EmptyScreen]

-------------------------------------------------------------------------------
(* The operations of the server, each under my_lock. *)

(* Mutant: the loop over my_clients ends after its first turn. *)
broadcast_FirstOnly(msgs) ==
  queue' = IF my_clients = {} THEN queue
           ELSE [queue EXCEPT ![CHOOSE d \in my_clients : TRUE] = @ \o msgs]

broadcast(msgs) ==
  queue' = [d \in Displays |-> IF d \in my_clients THEN queue[d] \o msgs
                               ELSE queue[d]]

create_order(o) ==
  /\ next_order_id \in OrderIds
  /\ next_order_id' = next_order_id + 1
  /\ my_orders' = [my_orders EXCEPT ![next_order_id] = o]
  /\ broadcast(<<DispOrder(next_order_id, o)>>)
  /\ UNCHANGED sessionVars

(* The checks of update_item, in the order it makes them. *)
ItemUpdateAccepted(id, i, s) ==
  /\ my_orders[id] # NoOrder
  /\ HasItem(my_orders[id], i)
  /\ ItemStep(my_orders[id].items[find_item(my_orders[id], i)].status, s)

(* Mutant: a change of the order's status is broadcast instead of the      *)
(* item's change, not besides it.                                          *)
update_item_OneBroadcast(id, i, s) ==
  /\ ItemUpdateAccepted(id, i, s)
  /\ LET o  == set_item_status(my_orders[id], i, s)
         st == StatusAfter(o, s)
     IN  /\ my_orders' = [my_orders EXCEPT ![id] = [o EXCEPT !.status = st]]
         /\ broadcast(IF st # o.status THEN <<DispOrderUpdate(id, st)>>
                      ELSE <<DispItemUpdate(id, i, s)>>)
  /\ UNCHANGED <<next_order_id, sessionVars>>

(* Mutant: the messages go out before the checks that may refuse them. *)
update_item_BroadcastFirst(id, i, s) ==
  /\ my_orders[id] # NoOrder /\ HasItem(my_orders[id], i) /\ s # "NEW"
  /\ LET o  == set_item_status(my_orders[id], i, s)
         st == StatusAfter(o, s)
     IN  /\ my_orders' = IF ItemUpdateAccepted(id, i, s)
                         THEN [my_orders EXCEPT ![id] = [o EXCEPT !.status = st]]
                         ELSE my_orders
         /\ broadcast(<<DispItemUpdate(id, i, s)>>)
  /\ UNCHANGED <<next_order_id, sessionVars>>

update_item(id, i, s) ==
  /\ ItemUpdateAccepted(id, i, s)
  /\ LET o  == set_item_status(my_orders[id], i, s)
         st == StatusAfter(o, s)
     IN  /\ my_orders' = [my_orders EXCEPT ![id] = [o EXCEPT !.status = st]]
         /\ broadcast(IF st # o.status
                      THEN <<DispItemUpdate(id, i, s), DispOrderUpdate(id, st)>>
                      ELSE <<DispItemUpdate(id, i, s)>>)
  /\ UNCHANGED <<next_order_id, sessionVars>>

OrderUpdateAccepted(id, s) ==
  /\ my_orders[id] # NoOrder
  /\ my_orders[id].status = "DONE" /\ s = "DELIVERED"

update_order(id, s) ==
  /\ OrderUpdateAccepted(id, s)
  /\ broadcast(<<DispOrderUpdate(id, s)>>)
  /\ my_orders' = [my_orders EXCEPT ![id] = NoOrder]
  /\ UNCHANGED <<next_order_id, sessionVars>>

-------------------------------------------------------------------------------
(* The thread of a display connection. *)

(* Accepted, and m_mode set to ClientMode::DISPLAY; OK is sent next. *)
Connect(d) ==
  /\ phase[d] = "idle"
  /\ phase'  = [phase  EXCEPT ![d] = "login"]
  /\ peer'   = [peer   EXCEPT ![d] = "open"]
  /\ UNCHANGED <<serverVars, my_clients, queue, backlog, sock, screen>>

add_client(d) ==
  /\ phase[d] = "login"
  /\ my_clients' = my_clients \cup {d}
  /\ phase' = [phase EXCEPT ![d] = "joined"]
  /\ UNCHANGED <<serverVars, queue, backlog, sock, peer, screen>>

(* Every way to list a set: the iteration order of an unordered_map. *)
Listings(S) ==
  {f \in [1 .. Cardinality(S) -> S] : \A x \in S : \E k \in DOMAIN f : f[k] = x}

LiveIds     == {id \in OrderIds : my_orders[id] # NoOrder}
Copies(ids) == [k \in DOMAIN ids |-> DispOrder(ids[k], my_orders[ids[k]])]

snapshot_orders(d) ==
  /\ phase[d] = "joined"
  /\ \E ids \in Listings(LiveIds) :
       backlog' = [backlog EXCEPT ![d] = Copies(ids)]
  /\ phase' = [phase EXCEPT ![d] = "stream"]
  /\ UNCHANGED <<serverVars, my_clients, queue, sock, peer, screen>>

(* A send goes into the socket if it has room, and is lost if the display  *)
(* program has gone: the first such send still succeeds and brings the     *)
(* reset back that makes the next one fail.                                *)
send_msg(d, m) ==
  \/ /\ peer[d] = "open"
     /\ Len(sock[d]) < SockCap
     /\ sock' = [sock EXCEPT ![d] = Append(@, m)]
     /\ UNCHANGED peer
  \/ /\ peer[d] = "closed"
     /\ peer' = [peer EXCEPT ![d] = "reset"]
     /\ UNCHANGED sock

SendSnapshot(d) ==
  /\ phase[d] = "stream"
  /\ backlog[d] # << >>
  /\ send_msg(d, Head(backlog[d]))
  /\ backlog' = [backlog EXCEPT ![d] = Tail(@)]
  /\ UNCHANGED <<serverVars, my_clients, phase, queue, screen>>

(* Mutant: the queue is served while the snapshot is still being sent. *)
SendQueued_Early(d) ==
  /\ phase[d] = "stream"
  /\ queue[d] # << >>
  /\ send_msg(d, Head(queue[d]))
  /\ queue' = [queue EXCEPT ![d] = Tail(@)]
  /\ UNCHANGED <<serverVars, my_clients, phase, backlog, screen>>

(* Mutant: enqueue does not post the semaphore. *)
SendQueued_NoPost(d) == phase[d] = "stream" /\ FALSE /\ UNCHANGED vars

(* dequeue returned a message, which goes to the display. *)
SendQueued(d) ==
  /\ phase[d] = "stream"
  /\ backlog[d] = << >>
  /\ queue[d] # << >>
  /\ send_msg(d, Head(queue[d]))
  /\ queue' = [queue EXCEPT ![d] = Tail(@)]
  /\ UNCHANGED <<serverVars, my_clients, phase, backlog, screen>>

(* Mutant: dequeue waits for a message however long it takes. *)
SendHeartbeat_Never(d) == phase[d] = "stream" /\ FALSE /\ UNCHANGED vars

(* dequeue timed out after a second without a message.  There may be one   *)
(* all the same: it came in since, or its enqueue was not done yet.        *)
SendHeartbeat(d) ==
  /\ phase[d] = "stream"
  /\ backlog[d] = << >>
  /\ send_msg(d, DispHeartbeat)
  /\ UNCHANGED <<serverVars, my_clients, phase, queue, backlog, screen>>

(* IO::send throws IOException: the OK that answers LOGIN, a message of    *)
(* the snapshot or of the queue, a heartbeat.                              *)
SendFails(d) ==
  /\ phase[d] \in {"login", "stream"}
  /\ peer[d] = "reset"
  /\ phase' = [phase EXCEPT ![d] = "failed"]
  /\ UNCHANGED <<serverVars, my_clients, queue, backlog, sock, peer, screen>>

(* Mutant: ~Client does not unregister. *)
remove_client_Forgets(d) ==
  /\ phase[d] = "failed"
  /\ phase'   = [phase   EXCEPT ![d] = "idle"]
  /\ queue'   = [queue   EXCEPT ![d] = << >>]
  /\ backlog' = [backlog EXCEPT ![d] = << >>]
  /\ peer'    = [peer    EXCEPT ![d] = "closed"]
  /\ UNCHANGED <<serverVars, my_clients, sock, screen>>

(* ~Client: leaves my_clients, if it is there, then its queue is destroyed *)
(* with it.                                                                *)
remove_client(d) ==
  /\ phase[d] = "failed"
  /\ my_clients' = my_clients \ {d}
  /\ phase'   = [phase   EXCEPT ![d] = "idle"]
  /\ queue'   = [queue   EXCEPT ![d] = << >>]
  /\ backlog' = [backlog EXCEPT ![d] = << >>]
  /\ peer'    = [peer    EXCEPT ![d] = "closed"]
  /\ UNCHANGED <<serverVars, sock, screen>>

-------------------------------------------------------------------------------
(* The display program. *)

receive(d) ==
  /\ peer[d] = "open"
  /\ sock[d] # << >>
  /\ screen' = [screen EXCEPT ![d] = Show(@, Head(sock[d]))]
  /\ sock'   = [sock   EXCEPT ![d] = Tail(@)]
  /\ UNCHANGED <<serverVars, my_clients, phase, queue, backlog, peer>>

(* The display program exits: its map and what it has not read are gone.   *)
(* Unread data makes the kernel reset the connection at once.              *)
PeerCloses(d) ==
  /\ peer[d] = "open"
  /\ \E end \in {"closed", "reset"} : peer' = [peer EXCEPT ![d] = end]
  /\ sock'   = [sock   EXCEPT ![d] = << >>]
  /\ screen' = [screen EXCEPT ![d] = EmptyScreen]
  /\ UNCHANGED <<serverVars, my_clients, phase, queue, backlog>>

-------------------------------------------------------------------------------
Update ==
  \/ \E o \in NewOrders : create_order(o)
  \/ \E id \in OrderIds, i \in ItemIds, s \in ItemStatus : update_item(id, i, s)
  \/ \E id \in OrderIds, s \in OrderStatus : update_order(id, s)

(* What the thread of connection d does once the client has logged in. *)
Serve(d) ==
  \/ add_client(d)
  \/ snapshot_orders(d)
  \/ SendSnapshot(d)
  \/ SendQueued(d)
  \/ SendHeartbeat(d)
  \/ SendFails(d)
  \/ remove_client(d)

Next ==
  \/ Update
  \/ \E d \in Displays : Connect(d) \/ Serve(d) \/ receive(d) \/ PeerCloses(d)

Spec == Init /\ [][Next]_vars

(* Threads are scheduled and a running display program keeps reading.      *)
(* Nothing obliges a client to connect, to leave or to ask for anything.   *)
(* Heartbeats do not keep the queue waiting for ever: once a message has   *)
(* been enqueued its semaphore is up and sem_timedwait does not time out.  *)
Fairness ==
  \A d \in Displays :
    WF_vars(Serve(d)) /\ SF_vars(SendQueued(d)) /\ WF_vars(receive(d))

FairSpec == Spec /\ Fairness

-------------------------------------------------------------------------------
(* Type invariant.  Only the statuses that the code broadcasts occur in    *)
(* messages: an update never announces NEW.                                *)

DisplayMessage ==
  [type : {"DISP_ORDER"}, id : OrderIds, order : Order]
  \cup [type : {"DISP_ITEM_UPDATE"}, id : OrderIds, item : ItemIds,
        status : {"IN_PROGRESS", "DONE"}]
  \cup [type : {"DISP_ORDER_UPDATE"}, id : OrderIds,
        status : {"IN_PROGRESS", "DONE", "DELIVERED"}]
  \cup {DispHeartbeat}

(* Every variable has its type, and only real broadcasts travel: an update *)
(* message always announces a status that update_item or update_order set. *)
TypeOK ==
  /\ next_order_id \in FirstOrderId .. FirstOrderId + MaxOrders
  /\ my_orders  \in [OrderIds -> MaybeOrder]
  /\ my_clients \subseteq Displays
  /\ phase   \in [Displays -> {"idle", "login", "joined", "stream", "failed"}]
  /\ queue   \in [Displays -> Seq(DisplayMessage)]
  /\ backlog \in [Displays -> Seq(DisplayMessage)]
  /\ sock    \in [Displays -> Seq(DisplayMessage)]
  /\ peer    \in [Displays -> {"open", "closed", "reset"}]
  /\ screen  \in [Displays -> [OrderIds -> MaybeOrder]]

-------------------------------------------------------------------------------
(* Everything on its way to display d, oldest first: what is in the        *)
(* socket, what is left of the snapshot, what has been broadcast since d   *)
(* registered.                                                             *)
Pipe(d) == sock[d] \o backlog[d] \o queue[d]

Shows(m, id)    == m.type = "DISP_ORDER" /\ m.id = id
Delivers(m, id) ==
  m.type = "DISP_ORDER_UPDATE" /\ m.id = id /\ m.status = "DELIVERED"

(* broadcast, which walks my_clients in an updater's thread, only reaches  *)
(* Clients that exist: a connection that has not registered yet, or whose  *)
(* Client has been destroyed, never gets a message into its queue.         *)
NoDanglingClient ==
  \A d \in Displays :
    queue[d] # << >> => phase[d] \in {"joined", "stream", "failed"}

(* The status the items of o ask for. *)
Summary(o) ==
  IF \A p \in DOMAIN o.items : o.items[p].status = "NEW" THEN "NEW"
  ELSE IF AllDone(o) THEN "DONE"
  ELSE "IN_PROGRESS"

(* However the updaters' requests interleave, the status that update_item  *)
(* keeps for an order is the one its items ask for.                        *)
StatusAgrees ==
  \A id \in OrderIds : my_orders[id] # NoOrder =>
    my_orders[id].status = Summary(my_orders[id])

(* An item behind another one with its id can never be updated, however    *)
(* the updaters go about it: its order stays in the server for good.       *)
HiddenItemBlocksOrder ==
  \A id \in OrderIds : my_orders[id] # NoOrder =>
    \A p \in DOMAIN my_orders[id].items :
      ~ Names(my_orders[id], p, my_orders[id].items[p].id)
        => /\ my_orders[id].items[p].status = "NEW"
           /\ my_orders[id].status \in {"NEW", "IN_PROGRESS"}

(* An order leaves my_orders only when each of its items is done:          *)
(* update_order looks at the status stored with the order and at no item   *)
(* (server.cpp:180), so this rests on update_item, over all its calls.     *)
OnlyCompleteOrdersLeave ==
  [][\A id \in OrderIds :
       my_orders[id] # NoOrder /\ my_orders'[id] = NoOrder =>
         AllDone(my_orders[id])]_vars

(* A display that has read all that is on its way to it shows the server's *)
(* orders, whatever was created, changed or delivered while it registered, *)
(* took its snapshot and replayed its queue on top of it.                  *)
CaughtUp ==
  \A d \in Displays :
    /\ phase[d] = "stream"
    /\ peer[d] = "open"
    /\ \A k \in DOMAIN Pipe(d) : Pipe(d)[k] = DispHeartbeat
    => screen[d] = my_orders

(* A delivered order that a display has taken off its screen is never put  *)
(* back there: no DISP_ORDER for it is still on its way.                   *)
NeverReshown ==
  [][\A d \in Displays, id \in OrderIds :
       /\ peer[d] = "open" /\ peer'[d] = "open"
       /\ screen[d][id] # NoOrder /\ screen'[d][id] = NoOrder
       => \A k \in DOMAIN Pipe(d)' : ~ Shows(Pipe(d)'[k], id)]_vars

Rank(st) == CASE st = "NEW" -> 0 [] st = "IN_PROGRESS" -> 1 [] st = "DONE" -> 2
              [] OTHER -> 3

(* A screen may lag behind the server, but it is never ahead: no order and *)
(* no item is shown in a status that the server has not recorded yet.      *)
ScreenNeverAhead ==
  \A d \in Displays, id \in OrderIds :
    LET shown == screen[d][id]
        real  == my_orders[id]
    IN  shown # NoOrder =>
          /\ id < next_order_id
          /\ real # NoOrder =>
               /\ Rank(shown.status) <= Rank(real.status)
               /\ \A p \in DOMAIN shown.items :
                    Rank(shown.items[p].status) <= Rank(real.items[p].status)

(* model.h says of OrderStatus::DONE "kitchen has completed all items in   *)
(* order".  On a screen this does not hold: the queue's messages from      *)
(* before the snapshot take items of a DONE order back to IN_PROGRESS.     *)
ScreenDoneMeansComplete ==
  \A d \in Displays, id \in OrderIds :
    screen[d][id] # NoOrder /\ screen[d][id].status = "DONE"
      => AllDone(screen[d][id])

-------------------------------------------------------------------------------
(* Liveness, under FairSpec.  Orders and statuses only move forward, so    *)
(* the updates of a bounded number of orders come to an end by themselves. *)

(* A display that stays ends up showing exactly the server's orders. *)
DisplaysConverge ==
  \A d \in Displays :
    <>[](phase[d] = "stream" /\ peer[d] = "open") => <>[](screen[d] = my_orders)

(* A connection whose display program has exited is noticed, by the next   *)
(* message or else by a heartbeat, and removed from the server.            *)
GoneDisplaysAreRemoved ==
  \A d \in Displays :
    (d \in my_clients /\ peer[d] # "open") ~> (d \notin my_clients)
===============================================================================
