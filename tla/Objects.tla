-------------------------------- MODULE Objects --------------------------------
(***************************************************************************)
(* The Order and Item objects of the server process, and who has a         *)
(* shared_ptr to them.  Server takes an order for a value; in the program  *)
(* it is an object that update_item and update_order change in place,      *)
(* under my_lock, while display threads encode the orders in their         *)
(* messages without any lock.  What keeps the two apart are the copies     *)
(* that update_chat, create_order, broadcast and the snapshot make         *)
(* (src/client.cpp, src/server.cpp, src/model.cpp, src/message.cpp).       *)
(*                                                                         *)
(* Everything but the objects is Server's.  my_orders, and the DISP_ORDER  *)
(* messages in queue and backlog, hold the address of an order; an object  *)
(* is gone with the last shared_ptr to it.                                 *)
(***************************************************************************)
EXTENDS Server, Functions

CONSTANT Updaters   \* the sessions of updaters

(* Addresses are numbers; NoOrder is also the null pointer. *)
ASSUME NullAssumption == NoOrder \notin Nat

VARIABLES
  heap,      \* the objects: a function on the addresses in use
  request,   \* the order in the Message that an updater's session has read
  served     \* the sessions that have passed it on to the server

sharedVars == <<heap, request, served>>
objectVars == <<vars, sharedVars>>

ObjectsInit ==
  /\ Init
  /\ heap    = << >>
  /\ request = [u \in Updaters |-> NoOrder]
  /\ served  = {}

-------------------------------------------------------------------------------
(* What the pointers lead to. *)

OrderPointer(a) == [type |-> "DISP_ORDER", order |-> a]

(* The order at address a, as encode_order reads it. *)
OrderAt(h, a) ==
  [status |-> h[a].status,
   items  |-> [p \in DOMAIN h[a].items |->
                [id     |-> h[h[a].items[p]].id,
                 status |-> h[h[a].items[p]].status]]]

(* A message as Wire::encode reads it: the id in a DISP_ORDER is its       *)
(* order's.                                                                *)
Encoded(h, m) ==
  IF m.type = "DISP_ORDER"
  THEN DispOrder(h[m.order].id, OrderAt(h, m.order)) ELSE m

EncodedAll(h, msgs) == [k \in DOMAIN msgs |-> Encoded(h, msgs[k])]

(* What Server has, where the program has pointers. *)
OrderValues   == [id \in OrderIds |-> IF my_orders[id] = NoOrder THEN NoOrder
                                      ELSE OrderAt(heap, my_orders[id])]
QueueValues   == [d \in Displays |-> EncodedAll(heap, queue[d])]
BacklogValues == [d \in Displays |-> EncodedAll(heap, backlog[d])]

ByValue == INSTANCE Server WITH
  my_orders <- OrderValues, queue <- QueueValues, backlog <- BacklogValues

AndItems(h, orders) ==
  orders \cup UNION {{h[a].items[p] : p \in DOMAIN h[a].items} : a \in orders}

InMap      == {my_orders[id] : id \in OrderIds} \ {NoOrder}
InRequests == {request[u] : u \in Updaters} \ {NoOrder}

OrdersOf(msgs) ==
  {msgs[k].order : k \in {n \in DOMAIN msgs : msgs[n].type = "DISP_ORDER"}}

InMessages == UNION {OrdersOf(queue[d]) \cup OrdersOf(backlog[d]) : d \in Displays}

(* A step that leaves the heap as h but for the objects without a pointer. *)
Collect(h) ==
  heap' = [a \in AndItems(h, InMap' \cup InRequests' \cup InMessages') |-> h[a]]

-------------------------------------------------------------------------------
(* New objects. *)

(* Free addresses for new objects that go by the names in slots. *)
Fresh(h, slots) ==
  CHOOSE new \in [slots -> (1 .. Cardinality(slots) + Cardinality(DOMAIN h))
                             \ DOMAIN h] : IsInjective(new)

(* The heap with these objects at new. *)
Extended(h, new, object) ==
  [a \in DOMAIN h \cup Range(new) |->
    IF a \in DOMAIN h THEN h[a]
    ELSE object[CHOOSE s \in DOMAIN new : new[s] = a]]

(* For the order at from[k], <<k, 0>>; for its items, <<k, 1>>, <<k, 2>>,  *)
(* and so on.                                                              *)
Slots(h, from) ==
  UNION {{k} \X (0 .. Len(h[from[k]].items)) : k \in DOMAIN from}

(* Mutant: the vector of pointers is copied instead of the items. *)
duplicate_Shallow(h, from) ==
  LET new == Fresh(h, DOMAIN from)
  IN  [heap |-> Extended(h, new, [k \in DOMAIN from |-> h[from[k]]]),
       copy |-> new]

(* Mutant: the order's status is left as a new order has it. *)
duplicate_NewStatus(h, from) ==
  LET new == Fresh(h, Slots(h, from))
      object == [s \in DOMAIN new |->
        LET o == h[from[s[1]]]
        IN  IF s[2] = 0
            THEN [id |-> o.id, status |-> "NEW",
                  items |-> [p \in DOMAIN o.items |-> new[<<s[1], p>>]]]
            ELSE h[o.items[s[2]]]]
  IN  [heap |-> Extended(h, new, object),
       copy |-> [k \in DOMAIN from |-> new[<<k, 0>>]]]

(* A copy of each of the orders in from.  Order's copy constructor assigns *)
(* to an order without items, and the assignment appends a duplicate of    *)
(* each item.                                                              *)
duplicate(h, from) ==
  LET new == Fresh(h, Slots(h, from))
      object == [s \in DOMAIN new |->
        LET o == h[from[s[1]]]
        IN  IF s[2] = 0
            THEN [id |-> o.id, status |-> o.status,
                  items |-> [p \in DOMAIN o.items |-> new[<<s[1], p>>]]]
            ELSE h[o.items[s[2]]]]
  IN  [heap |-> Extended(h, new, object),
       copy |-> [k \in DOMAIN from |-> new[<<k, 0>>]]]

(* Message::duplicate, for each of my_clients: the message has a copy of   *)
(* the order at a.                                                         *)
duplicate_message(h, a) == duplicate(h, [d \in my_clients |-> a])

(* broadcast, when the order in the message has been copied. *)
Enqueued(copy) ==
  [d \in Displays |-> IF d \in my_clients
                      THEN Append(queue[d], OrderPointer(copy[d])) ELSE queue[d]]

-------------------------------------------------------------------------------
(* Updaters. *)

(* An ORDER_NEW is decoded: order and items are numbered 1. *)
ReadRequest(u) ==
  /\ request[u] = NoOrder
  /\ \E o \in NewOrders :
       LET new == Fresh(heap, 0 .. Len(o.items))
           object == [p \in 0 .. Len(o.items) |->
             IF p = 0 THEN [id |-> 1, status |-> o.status,
                            items |-> [k \in DOMAIN o.items |-> new[k]]]
             ELSE [id |-> o.items[p].id, order_id |-> 1,
                   status |-> o.items[p].status]]
       IN  /\ request' = [request EXCEPT ![u] = new[0]]
           /\ heap' = Extended(heap, new, object)
  /\ UNCHANGED <<vars, served>>

(* Mutant: the loop stops one item short. *)
Numbered_StopsEarly(h, a, id) ==
  [b \in DOMAIN h |->
    IF b = a THEN [h[b] EXCEPT !.id = id]
    ELSE IF b \in {h[a].items[p] : p \in 1 .. Len(h[a].items) - 1}
    THEN [h[b] EXCEPT !.order_id = id]
    ELSE h[b]]

(* The order at a and its items get their real order id. *)
Numbered(h, a, id) ==
  [b \in DOMAIN h |->
    IF b = a THEN [h[b] EXCEPT !.id = id]
    ELSE IF b \in AndItems(h, {a}) THEN [h[b] EXCEPT !.order_id = id]
    ELSE h[b]]

(* update_chat passes a copy to create_order, which keeps it, and makes a  *)
(* copy of that for the message that it broadcasts.                        *)
CreateOrder(u) ==
  /\ request[u] # NoOrder /\ u \notin served
  /\ next_order_id \in OrderIds
  /\ next_order_id' = next_order_id + 1
  /\ served' = served \cup {u}
  /\ UNCHANGED <<sessionVars, request>>
  /\ LET mine == duplicate(heap, <<request[u]>>)
         kept == mine.copy[1]
         sent == duplicate(Numbered(mine.heap, kept, next_order_id), <<kept>>)
         out  == duplicate_message(sent.heap, sent.copy[1])
     IN  /\ my_orders' = [my_orders EXCEPT ![next_order_id] = kept]
         /\ queue' = Enqueued(out.copy)
         /\ Collect(out.heap)

(* The end of the turn, by an answer or an exception: the Message goes. *)
EndRequest(u) ==
  /\ request[u] # NoOrder
  /\ request' = [request EXCEPT ![u] = NoOrder]
  /\ served'  = served \ {u}
  /\ UNCHANGED vars
  /\ Collect(heap)

UpdateItem(id, i, s) ==
  /\ ByValue!ItemUpdateAccepted(id, i, s)
  /\ LET order   == my_orders[id]
         item    == heap[order].items[find_item(OrderAt(heap, order), i)]
         changed == [heap EXCEPT ![item].status = s]
         st      == StatusAfter(OrderAt(changed, order), s)
     IN  /\ heap' = [changed EXCEPT ![order].status = st]
         /\ broadcast(IF st # heap[order].status
                      THEN <<DispItemUpdate(id, i, s), DispOrderUpdate(id, st)>>
                      ELSE <<DispItemUpdate(id, i, s)>>)
  /\ UNCHANGED <<next_order_id, my_orders, sessionVars, request, served>>

(* The order's status is set before the order goes. *)
UpdateOrder(id, s) ==
  /\ ByValue!OrderUpdateAccepted(id, s)
  /\ broadcast(<<DispOrderUpdate(id, s)>>)
  /\ my_orders' = [my_orders EXCEPT ![id] = NoOrder]
  /\ UNCHANGED <<next_order_id, sessionVars, request, served>>
  /\ Collect([heap EXCEPT ![my_orders[id]].status = s])

-------------------------------------------------------------------------------
(* The thread of a display connection. *)

(* Mutant: the snapshot is taken without copying the orders. *)
SnapshotOrders_NoCopy(d) ==
  /\ phase[d] = "joined"
  /\ \E ids \in Listings(LiveIds) :
       backlog' = [backlog EXCEPT ![d] =
                    [k \in DOMAIN ids |-> OrderPointer(my_orders[ids[k]])]]
  /\ phase' = [phase EXCEPT ![d] = "stream"]
  /\ UNCHANGED <<serverVars, my_clients, queue, sock, peer, screen, sharedVars>>

SnapshotOrders(d) ==
  /\ phase[d] = "joined"
  /\ \E ids \in Listings(LiveIds) :
       LET made == duplicate(heap, [k \in DOMAIN ids |-> my_orders[ids[k]]])
       IN  /\ backlog' = [backlog EXCEPT ![d] =
                [k \in DOMAIN ids |-> OrderPointer(made.copy[k])]]
           /\ heap' = made.heap
  /\ phase' = [phase EXCEPT ![d] = "stream"]
  /\ UNCHANGED <<serverVars, my_clients, queue, sock, peer, screen, request,
                 served>>

(* The order in the message is encoded, and gone with the message. *)
SendOrderOfSnapshot(d) ==
  /\ phase[d] = "stream" /\ backlog[d] # << >>
  /\ send_msg(d, Encoded(heap, Head(backlog[d])))
  /\ backlog' = [backlog EXCEPT ![d] = Tail(@)]
  /\ UNCHANGED <<serverVars, my_clients, phase, queue, screen, request, served>>
  /\ Collect(heap)

SendMessageOfQueue(d) ==
  /\ phase[d] = "stream" /\ backlog[d] = << >> /\ queue[d] # << >>
  /\ send_msg(d, Encoded(heap, Head(queue[d])))
  /\ queue' = [queue EXCEPT ![d] = Tail(@)]
  /\ UNCHANGED <<serverVars, my_clients, phase, backlog, screen, request, served>>
  /\ Collect(heap)

(* ~Client: the messages in its queue go, and the orders in them. *)
DestroyClient(d) ==
  /\ remove_client(d)
  /\ UNCHANGED <<request, served>>
  /\ Collect(heap)

-------------------------------------------------------------------------------
ObjectsNext ==
  \/ \E u \in Updaters : ReadRequest(u) \/ CreateOrder(u) \/ EndRequest(u)
  \/ \E id \in OrderIds, i \in ItemIds, s \in ItemStatus : UpdateItem(id, i, s)
  \/ \E id \in OrderIds, s \in OrderStatus : UpdateOrder(id, s)
  \/ \E d \in Displays :
       \/ SnapshotOrders(d) \/ SendOrderOfSnapshot(d) \/ SendMessageOfQueue(d)
       \/ DestroyClient(d)
       \/ /\ \/ Connect(d) \/ add_client(d) \/ SendHeartbeat(d) \/ SendFails(d)
             \/ receive(d) \/ PeerCloses(d)
          /\ UNCHANGED sharedVars

ObjectsSpec == ObjectsInit /\ [][ObjectsNext]_objectVars

-------------------------------------------------------------------------------
OrderObjects == InMap \cup InRequests \cup InMessages

(* The heap has exactly the objects that somebody points to, each order    *)
(* with items of its own: no item is in two orders, or twice in one.       *)
ObjectsTypeOK ==
  /\ DOMAIN heap = AndItems(heap, OrderObjects)
  /\ \A a \in OrderObjects :
       /\ heap[a].id \in OrderIds \cup {1}
       /\ OrderAt(heap, a) \in Order
       /\ IsInjective(heap[a].items)
       /\ \A b \in OrderObjects \ {a} :
            Range(heap[a].items) \cap Range(heap[b].items) = {}
  /\ served \subseteq {u \in Updaters : request[u] # NoOrder}

(* README.txt on my_lock: "makes race conditions impossible".  What the    *)
(* updates change under my_lock cannot be reached from a message, which a  *)
(* thread reads without it.                                                *)
ServerOwnsItsOrders ==
  AndItems(heap, InMap) \cap AndItems(heap, InRequests \cup InMessages) = {}

(* An order that displays get to see carries its own id in every item, as  *)
(* Wire::encode writes it out for them: the copies are made after the      *)
(* items got the id.                                                       *)
ItemsKnowTheirOrder ==
  \A a \in OrderObjects : \A p \in DOMAIN heap[a].items :
    heap[heap[a].items[p]].order_id = heap[a].id

(* The objects implement Server, where orders are values: a change of one  *)
(* object is never seen through another, and a message that waits in a     *)
(* queue says what it said when it was made.                               *)
IsByValue == ByValue!Spec
================================================================================
