---------------------------- MODULE Server_proofs ----------------------------
(***************************************************************************)
(* Theorems about Server, for any displays, any orders an updater submits, *)
(* any number of them and any socket capacity.                             *)
(***************************************************************************)
EXTENDS Server, TLAPS, FiniteSetTheorems, SequenceTheorems

USE DEF FirstOrderId

-------------------------------------------------------------------------------
(* Orders: what its operators return and what they leave alone *)

(* Order::find_item returns a position that carries the id it looks for. *)
LEMMA FindItemNames ==
  ASSUME NEW o, NEW i, HasItem(o, i)
  PROVE  Names(o, find_item(o, i), i)
BY DEF HasItem, find_item, Names

(* ... and the first such position, so only one position has a name. *)
LEMMA NamesUnique ==
  ASSUME NEW o \in Order, NEW i, NEW p, NEW q, Names(o, p, i), Names(o, q, i)
  PROVE  p = q
<1>1. p \in Nat /\ q \in Nat /\ p >= 1 /\ q >= 1
  BY DEF Names, Order
<1>2. ~ (p < q)
  BY <1>1 DEF Names
<1>3. ~ (q < p)
  BY <1>1 DEF Names
<1>4. QED
  BY <1>1, <1>2, <1>3

(* Setting the status of an item keeps an order an order, its status, its  *)
(* number of items and their ids, and every item but the one named.        *)
LEMMA SetItemStatus ==
  ASSUME NEW o \in Order, NEW i, NEW s \in ItemStatus, HasItem(o, i)
  PROVE  LET n == set_item_status(o, i, s)
             p == find_item(o, i)
         IN  /\ n \in Order
             /\ n.status = o.status
             /\ DOMAIN n.items = DOMAIN o.items
             /\ p \in DOMAIN o.items
             /\ n.items[p].status = s
             /\ \A q \in DOMAIN o.items :
                  /\ n.items[q].id = o.items[q].id
                  /\ q # p => n.items[q] = o.items[q]
<1> DEFINE p == find_item(o, i)
           n == set_item_status(o, i, s)
<1>1. p \in DOMAIN o.items
  BY FindItemNames DEF Names
<1>2. o.items \in Seq(Item)
  BY DEF Order
<1>3. DOMAIN o.items = 1 .. Len(o.items) /\ Len(o.items) \in Nat
  BY <1>2
<1>4. o.items[p] \in Item
  BY <1>1, <1>2
<1>5. [o.items[p] EXCEPT !.status = s] \in Item
  BY <1>4 DEF Item
<1>6. n = [o EXCEPT !.items = [o.items EXCEPT ![p] = [o.items[p] EXCEPT !.status = s]]]
  BY DEF set_item_status, Order
<1>7. [o.items EXCEPT ![p] = [o.items[p] EXCEPT !.status = s]] \in Seq(Item)
  BY <1>1, <1>2, <1>5
<1>8. n \in Order
  BY <1>6, <1>7 DEF Order
<1>9. n.items = [o.items EXCEPT ![p] = [o.items[p] EXCEPT !.status = s]]
  BY <1>6 DEF Order
<1>10. n.status = o.status
  BY <1>6 DEF Order
<1>11. DOMAIN n.items = DOMAIN o.items
  BY <1>9
<1>12. n.items[p].status = s
  BY <1>1, <1>4, <1>9 DEF Item
<1>13. \A q \in DOMAIN o.items :
         /\ n.items[q].id = o.items[q].id
         /\ q # p => n.items[q] = o.items[q]
  BY <1>1, <1>4, <1>9 DEF Item
<1>14. QED
  BY <1>1, <1>8, <1>10, <1>11, <1>12, <1>13

(* The status update_item computes for an order is an order status, and it *)
(* changes the status only to IN_PROGRESS or to DONE.                      *)
LEMMA StatusAfterType ==
  ASSUME NEW o \in Order, NEW s \in ItemStatus
  PROVE  /\ StatusAfter(o, s) \in OrderStatus
         /\ StatusAfter(o, s) # o.status
              => StatusAfter(o, s) \in {"IN_PROGRESS", "DONE"}
BY DEF StatusAfter, Order, OrderStatus

-------------------------------------------------------------------------------
(* Type correctness *)

(* A display's step keeps its map of orders a map of orders. *)
LEMMA ShowType ==
  ASSUME NEW scr \in [OrderIds -> MaybeOrder], NEW m \in DisplayMessage
  PROVE  Show(scr, m) \in [OrderIds -> MaybeOrder]
<1>1. CASE m.type = "DISP_ORDER"
  <2>1. m.id \in OrderIds /\ m.order \in Order
    BY <1>1 DEF DisplayMessage, DispHeartbeat
  <2>2. Show(scr, m) = [scr EXCEPT ![m.id] = m.order]
    BY <1>1 DEF Show
  <2>3. QED
    BY <2>1, <2>2 DEF MaybeOrder
<1>2. CASE /\ m.type = "DISP_ITEM_UPDATE"
           /\ scr[m.id] # NoOrder
           /\ HasItem(scr[m.id], m.item)
  <2>1. m.id \in OrderIds /\ m.status \in ItemStatus
    BY <1>2 DEF DisplayMessage, DispHeartbeat, ItemStatus
  <2>2. scr[m.id] \in Order
    BY <1>2, <2>1 DEF MaybeOrder
  <2>3. set_item_status(scr[m.id], m.item, m.status) \in Order
    BY <1>2, <2>1, <2>2, SetItemStatus
  <2>4. Show(scr, m) =
          [scr EXCEPT ![m.id] = set_item_status(scr[m.id], m.item, m.status)]
    BY <1>2 DEF Show
  <2>5. QED
    BY <2>1, <2>3, <2>4 DEF MaybeOrder
<1>3. CASE m.type = "DISP_ORDER_UPDATE" /\ scr[m.id] # NoOrder
  <2>1. m.id \in OrderIds /\ m.status \in OrderStatus
    BY <1>3 DEF DisplayMessage, DispHeartbeat, OrderStatus
  <2>2. scr[m.id] \in Order
    BY <1>3, <2>1 DEF MaybeOrder
  <2>3. [scr[m.id] EXCEPT !.status = m.status] \in Order
    BY <2>1, <2>2 DEF Order
  <2>4. Show(scr, m) = [scr EXCEPT ![m.id] = IF m.status = "DELIVERED" THEN NoOrder
                               ELSE [scr[m.id] EXCEPT !.status = m.status]]
    BY <1>3 DEF Show
  <2>5. QED
    BY <2>1, <2>3, <2>4 DEF MaybeOrder
<1>4. CASE /\ m.type # "DISP_ORDER"
           /\ ~ /\ m.type = "DISP_ITEM_UPDATE"
                /\ scr[m.id] # NoOrder
                /\ HasItem(scr[m.id], m.item)
           /\ ~ (m.type = "DISP_ORDER_UPDATE" /\ scr[m.id] # NoOrder)
  BY <1>4 DEF Show
<1>5. QED
  BY <1>1, <1>2, <1>3, <1>4

(* Appending messages to the queues of the registered displays keeps every *)
(* queue a sequence of messages.                                           *)
LEMMA BroadcastType ==
  ASSUME TypeOK, NEW msgs \in Seq(DisplayMessage), broadcast(msgs)
  PROVE  queue' \in [Displays -> Seq(DisplayMessage)]
<1>1. \A d \in Displays : queue[d] \o msgs \in Seq(DisplayMessage)
  BY ConcatProperties DEF TypeOK
<1>2. QED
  BY <1>1 DEF TypeOK, broadcast

(* The order that update_item works on, and the one it stores. *)
LEMMA UpdateItemOrders ==
  ASSUME TypeOK, NEW id \in OrderIds, NEW i \in ItemIds, NEW s \in ItemStatus,
         ItemUpdateAccepted(id, i, s)
  PROVE  LET o == set_item_status(my_orders[id], i, s)
         IN  /\ my_orders[id] \in Order
             /\ HasItem(my_orders[id], i)
             /\ s \in {"IN_PROGRESS", "DONE"}
             /\ o \in Order
             /\ StatusAfter(o, s) \in OrderStatus
             /\ [o EXCEPT !.status = StatusAfter(o, s)] \in Order
             /\ StatusAfter(o, s) # o.status
                  => StatusAfter(o, s) \in {"IN_PROGRESS", "DONE"}
<1> DEFINE o == set_item_status(my_orders[id], i, s)
<1>1. my_orders[id] \in Order /\ HasItem(my_orders[id], i)
  BY DEF TypeOK, ItemUpdateAccepted, MaybeOrder
<1>2. s \in {"IN_PROGRESS", "DONE"}
  BY DEF ItemUpdateAccepted, ItemStep
<1>3. o \in Order
  BY <1>1, SetItemStatus
<1>4. /\ StatusAfter(o, s) \in OrderStatus
      /\ StatusAfter(o, s) # o.status
           => StatusAfter(o, s) \in {"IN_PROGRESS", "DONE"}
  BY <1>3, StatusAfterType
<1>5. [o EXCEPT !.status = StatusAfter(o, s)] \in Order
  BY <1>3, <1>4 DEF Order
<1>6. QED
  BY <1>1, <1>2, <1>3, <1>4, <1>5

(* What a send does to the socket and to the display's end of it. *)
LEMMA SendType ==
  ASSUME TypeOK, NEW d \in Displays, NEW m \in DisplayMessage, send_msg(d, m)
  PROVE  /\ sock' \in [Displays -> Seq(DisplayMessage)]
         /\ peer' \in [Displays -> {"open", "closed", "reset"}]
<1>1. Append(sock[d], m) \in Seq(DisplayMessage)
  BY AppendProperties DEF TypeOK
<1>2. CASE sock' = [sock EXCEPT ![d] = Append(@, m)] /\ peer' = peer
  BY <1>1, <1>2 DEF TypeOK
<1>3. CASE sock' = sock /\ peer' = [peer EXCEPT ![d] = "reset"]
  BY <1>3 DEF TypeOK
<1>4. QED
  BY <1>2, <1>3 DEF send_msg

(* The messages a snapshot of the orders sends. *)
LEMMA ListingType ==
  ASSUME TypeOK, NEW ids \in Listings(LiveIds)
  PROVE  Copies(ids) \in Seq(DisplayMessage)
<1>1. ids \in [1 .. Cardinality(LiveIds) -> LiveIds]
  BY DEF Listings
<1>2. Cardinality(LiveIds) \in Nat
  <2>1. IsFiniteSet(OrderIds)
    BY FS_Interval, MaxOrdersAssumption DEF OrderIds
  <2>2. IsFiniteSet(LiveIds)
    BY <2>1, FS_Subset DEF LiveIds
  <2>3. QED
    BY <2>2, FS_CardinalityType
<1>3. ASSUME NEW id \in LiveIds
      PROVE  DispOrder(id, my_orders[id]) \in DisplayMessage
  <2>1. id \in OrderIds /\ my_orders[id] \in Order
    BY DEF TypeOK, MaybeOrder, LiveIds
  <2>2. QED
    BY <2>1 DEF DispOrder, DisplayMessage
<1>4. \A k \in 1 .. Cardinality(LiveIds) :
        DispOrder(ids[k], my_orders[ids[k]]) \in DisplayMessage
  BY <1>1, <1>3
<1>5. QED
  BY <1>1, <1>2, <1>4 DEF Copies

LEMMA TypeInit == Init => TypeOK
BY MaxOrdersAssumption
   DEF Init, TypeOK, EmptyScreen, OrderIds, MaybeOrder

LEMMA TypeStep == TypeOK /\ [Next]_vars => TypeOK'
<1> SUFFICES ASSUME TypeOK, [Next]_vars PROVE TypeOK'
  OBVIOUS
<1> USE DEF TypeOK
<1>1. ASSUME NEW o \in NewOrders, create_order(o) PROVE TypeOK'
  <2>1. o \in Order /\ next_order_id \in OrderIds
    BY <1>1, NewOrdersAssumption DEF create_order
  <2>2. <<DispOrder(next_order_id, o)>> \in Seq(DisplayMessage)
    BY <2>1 DEF DispOrder, DisplayMessage
  <2>3. queue' \in [Displays -> Seq(DisplayMessage)]
    <3>1. broadcast(<<DispOrder(next_order_id, o)>>)
      BY <1>1 DEF create_order
    <3> HIDE DEF TypeOK
    <3>2. QED
      BY <2>2, <3>1, BroadcastType
  <2>4. next_order_id' \in FirstOrderId .. FirstOrderId + MaxOrders
    BY <1>1, MaxOrdersAssumption DEF create_order, OrderIds
  <2>5. my_orders' \in [OrderIds -> MaybeOrder]
    BY <1>1, <2>1 DEF create_order, MaybeOrder
  <2>6. QED
    BY <1>1, <2>3, <2>4, <2>5 DEF create_order, sessionVars
<1>2. ASSUME NEW id \in OrderIds, NEW i \in ItemIds, NEW s \in ItemStatus,
             update_item(id, i, s)
      PROVE  TypeOK'
  <2> DEFINE o  == set_item_status(my_orders[id], i, s)
             st == StatusAfter(o, s)
             news == IF st # o.status
                     THEN <<DispItemUpdate(id, i, s), DispOrderUpdate(id, st)>>
                     ELSE <<DispItemUpdate(id, i, s)>>
  <2>1. /\ s \in {"IN_PROGRESS", "DONE"}
        /\ [o EXCEPT !.status = st] \in Order
        /\ st # o.status => st \in {"IN_PROGRESS", "DONE"}
    BY <1>2, UpdateItemOrders DEF update_item
  <2>2. news \in Seq(DisplayMessage)
    <3>1. DispItemUpdate(id, i, s) \in DisplayMessage
      BY <2>1 DEF DispItemUpdate, DisplayMessage
    <3>2. st # o.status => DispOrderUpdate(id, st) \in DisplayMessage
      BY <2>1 DEF DispOrderUpdate, DisplayMessage
    <3>3. QED
      BY <3>1, <3>2
  <2>3. queue' \in [Displays -> Seq(DisplayMessage)]
    <3>1. broadcast(news)
      BY <1>2 DEF update_item
    <3> HIDE DEF TypeOK, news
    <3>2. QED
      BY <2>2, <3>1, BroadcastType
  <2>4. my_orders' \in [OrderIds -> MaybeOrder]
    BY <1>2, <2>1 DEF update_item, MaybeOrder
  <2>5. QED
    BY <1>2, <2>3, <2>4 DEF update_item, sessionVars
<1>3. ASSUME NEW id \in OrderIds, NEW s \in OrderStatus, update_order(id, s)
      PROVE  TypeOK'
  <2>1. <<DispOrderUpdate(id, s)>> \in Seq(DisplayMessage)
    BY <1>3 DEF update_order, OrderUpdateAccepted, DispOrderUpdate, DisplayMessage
  <2>2. queue' \in [Displays -> Seq(DisplayMessage)]
    <3>1. broadcast(<<DispOrderUpdate(id, s)>>)
      BY <1>3 DEF update_order
    <3> HIDE DEF TypeOK
    <3>2. QED
      BY <2>1, <3>1, BroadcastType
  <2>3. my_orders' \in [OrderIds -> MaybeOrder]
    BY <1>3 DEF update_order, MaybeOrder
  <2>4. QED
    BY <1>3, <2>2, <2>3 DEF update_order, sessionVars
<1>4. ASSUME NEW d \in Displays, Connect(d) PROVE TypeOK'
  BY <1>4 DEF Connect, serverVars
<1>5. ASSUME NEW d \in Displays, add_client(d) PROVE TypeOK'
  BY <1>5 DEF add_client, serverVars
<1>6. ASSUME NEW d \in Displays, snapshot_orders(d) PROVE TypeOK'
  <2>1. PICK ids \in Listings(LiveIds) :
          backlog' = [backlog EXCEPT ![d] = Copies(ids)]
    <3> HIDE DEF TypeOK
    <3>1. QED
      BY <1>6 DEF snapshot_orders
  <2>2. Copies(ids) \in Seq(DisplayMessage)
    <3> HIDE DEF TypeOK
    <3>1. QED
      BY ListingType
  <2>3. backlog' \in [Displays -> Seq(DisplayMessage)]
    BY <2>1, <2>2
  <2>4. phase' \in [Displays -> {"idle", "login", "joined", "stream", "failed"}]
    BY <1>6 DEF snapshot_orders
  <2>5. QED
    BY <1>6, <2>3, <2>4 DEF snapshot_orders, serverVars
<1>7. ASSUME NEW d \in Displays, SendSnapshot(d) PROVE TypeOK'
  <2>1. /\ Head(backlog[d]) \in DisplayMessage
        /\ Tail(backlog[d]) \in Seq(DisplayMessage)
    BY <1>7 DEF SendSnapshot
  <2>2. QED
    BY <1>7, <2>1, SendType DEF SendSnapshot, serverVars
<1>8. ASSUME NEW d \in Displays, SendQueued(d) PROVE TypeOK'
  <2>1. /\ Head(queue[d]) \in DisplayMessage
        /\ Tail(queue[d]) \in Seq(DisplayMessage)
    BY <1>8 DEF SendQueued
  <2>2. QED
    BY <1>8, <2>1, SendType DEF SendQueued, serverVars
<1>9. ASSUME NEW d \in Displays, SendHeartbeat(d) PROVE TypeOK'
  <2>1. DispHeartbeat \in DisplayMessage
    BY DEF DisplayMessage
  <2>2. QED
    BY <1>9, <2>1, SendType DEF SendHeartbeat, serverVars
<1>10. ASSUME NEW d \in Displays, SendFails(d) PROVE TypeOK'
  BY <1>10 DEF SendFails, serverVars
<1>11. ASSUME NEW d \in Displays, remove_client(d) PROVE TypeOK'
  <2>1. << >> \in Seq(DisplayMessage)
    OBVIOUS
  <2>2. QED
    BY <1>11, <2>1 DEF remove_client, serverVars
<1>12. ASSUME NEW d \in Displays, receive(d) PROVE TypeOK'
  <2>1. /\ Head(sock[d]) \in DisplayMessage
        /\ Tail(sock[d]) \in Seq(DisplayMessage)
    BY <1>12 DEF receive
  <2>2. Show(screen[d], Head(sock[d])) \in [OrderIds -> MaybeOrder]
    <3>1. screen[d] \in [OrderIds -> MaybeOrder]
      OBVIOUS
    <3> HIDE DEF TypeOK
    <3>2. QED
      BY <2>1, <3>1, ShowType
  <2>3. QED
    BY <1>12, <2>1, <2>2 DEF receive, serverVars
<1>13. ASSUME NEW d \in Displays, PeerCloses(d) PROVE TypeOK'
  <2>1. << >> \in Seq(DisplayMessage)
    OBVIOUS
  <2>2. EmptyScreen \in [OrderIds -> MaybeOrder]
    BY DEF EmptyScreen, MaybeOrder
  <2>3. QED
    BY <1>13, <2>1, <2>2 DEF PeerCloses, serverVars
<1>14. CASE UNCHANGED vars
  BY <1>14 DEF vars
<1> HIDE DEF TypeOK
<1>15. QED
  BY <1>1, <1>2, <1>3, <1>4, <1>5, <1>6, <1>7, <1>8, <1>9, <1>10, <1>11,
     <1>12, <1>13, <1>14
     DEF Next, Update, Serve

(* The type invariant, for any displays, orders and bounds. *)
THEOREM TypeCorrect == Spec => []TypeOK
BY TypeInit, TypeStep, PTL DEF Spec

-------------------------------------------------------------------------------
(* Putting an element in front of a sequence, and taking it off. *)
LEMMA FrontOfSeq ==
  ASSUME NEW S, NEW m \in S, NEW s \in Seq(S)
  PROVE  /\ <<m>> \o s \in Seq(S) /\ <<m>> \o s # << >>
         /\ Head(<<m>> \o s) = m
         /\ Tail(<<m>> \o s) = s
         /\ s # << >> => <<Head(s)>> \o Tail(s) = s
<1> DEFINE c == <<m>> \o s
<1>1. <<m>> \in Seq(S) /\ Len(<<m>>) = 1 /\ <<m>>[1] = m
  OBVIOUS
<1>2. Len(s) \in Nat
  OBVIOUS
<1>3. /\ c \in Seq(S) /\ Len(c) = 1 + Len(s)
      /\ \A i \in 1 .. 1 + Len(s) : c[i] = IF i <= 1 THEN <<m>>[i] ELSE s[i - 1]
  BY <1>1, ConcatProperties
<1> HIDE DEF c
<1>4. c # << >> /\ c[1] = m /\ \A i \in 1 .. Len(s) : c[i + 1] = s[i]
  BY <1>1, <1>2, <1>3
<1>5. Head(c) = m
  BY <1>3, <1>4
<1>6. Tail(c) = s
  <2>1. /\ Tail(c) \in Seq(S) /\ Len(Tail(c)) = Len(s)
        /\ \A i \in 1 .. Len(Tail(c)) : Tail(c)[i] = c[i + 1]
    BY <1>2, <1>3, <1>4, HeadTailProperties
  <2>2. QED
    BY <1>4, <2>1, SeqEqual
<1>7. ASSUME s # << >> PROVE <<Head(s)>> \o Tail(s) = s
  <2> DEFINE h == <<Head(s)>>
             t == Tail(s)
  <2>1. /\ Head(s) \in S /\ t \in Seq(S) /\ Len(t) = Len(s) - 1
        /\ \A i \in 1 .. Len(t) : t[i] = s[i + 1]
    BY <1>7, HeadTailProperties
  <2>2. h \in Seq(S) /\ Len(h) = 1 /\ h[1] = s[1]
    BY <1>7, <2>1
  <2> HIDE DEF h, t
  <2>3. /\ h \o t \in Seq(S) /\ Len(h \o t) = Len(h) + Len(t)
        /\ \A i \in 1 .. Len(h) + Len(t) :
             (h \o t)[i] = IF i <= Len(h) THEN h[i] ELSE t[i - Len(h)]
    <3>1. h \in Seq(S) /\ t \in Seq(S)
      BY <2>1, <2>2
    <3>2. QED
      BY <3>1, ConcatProperties
  <2>4. Len(h \o t) = Len(s) /\ \A i \in 1 .. Len(s) : (h \o t)[i] = s[i]
    BY <1>2, <2>1, <2>2, <2>3
  <2>5. h \o t = s
    BY <2>3, <2>4, SeqEqual
  <2>6. QED
    BY <2>5 DEF h, t
<1>8. QED
  BY <1>3, <1>4, <1>5, <1>6, <1>7 DEF c

-------------------------------------------------------------------------------
(* Registration *)

(* The inductive part: my_clients holds the connections between add_client *)
(* and remove_client, and only they have messages queued.  A connection    *)
(* that failed at its login may or may not be there.                       *)
Registered ==
  /\ \A d \in Displays :
       /\ phase[d] \in {"joined", "stream"} => d \in my_clients
       /\ d \in my_clients => phase[d] \in {"joined", "stream", "failed"}
  /\ NoDanglingClient

(* No thread ever enqueues for a connection without a registered Client,   *)
(* in any execution with any number of displays.                           *)
THEOREM RegistrationCorrect == Spec => []NoDanglingClient
<1> USE DEF Registered, NoDanglingClient, TypeOK
<1>1. Init => Registered
  BY DEF Init
<1>2. TypeOK /\ Registered /\ [Next]_vars => Registered'
  <2> SUFFICES ASSUME TypeOK, Registered, [Next]_vars
               PROVE  Registered'
    OBVIOUS
  <2>1. CASE UNCHANGED <<my_clients, phase, queue>>
    BY <2>1
  <2>2. ASSUME UNCHANGED <<my_clients, phase>>, NEW msgs, broadcast(msgs)
        PROVE  Registered'
    BY <2>2 DEF broadcast
  <2>3. ASSUME NEW d \in Displays, Connect(d) PROVE Registered'
    BY <2>3 DEF Connect
  <2>4. ASSUME NEW d \in Displays, add_client(d) PROVE Registered'
    BY <2>4 DEF add_client
  <2>5. ASSUME NEW d \in Displays, snapshot_orders(d) PROVE Registered'
    BY <2>5 DEF snapshot_orders
  <2>6. ASSUME NEW d \in Displays, SendQueued(d) PROVE Registered'
    BY <2>6 DEF SendQueued
  <2>7. ASSUME NEW d \in Displays, SendFails(d) PROVE Registered'
    BY <2>7 DEF SendFails
  <2>8. ASSUME NEW d \in Displays, remove_client(d) PROVE Registered'
    BY <2>8 DEF remove_client
  <2>9. CASE Update
    <3>1. ASSUME NEW o \in NewOrders, create_order(o) PROVE Registered'
      BY <2>2, <3>1 DEF create_order, sessionVars
    <3>2. ASSUME NEW id \in OrderIds, NEW i \in ItemIds, NEW s \in ItemStatus,
                 update_item(id, i, s)
          PROVE  Registered'
      BY <2>2, <3>2 DEF update_item, sessionVars
    <3>3. ASSUME NEW id \in OrderIds, NEW s \in OrderStatus, update_order(id, s)
          PROVE  Registered'
      BY <2>2, <3>3 DEF update_order, sessionVars
    <3>4. QED
      BY <2>9, <3>1, <3>2, <3>3 DEF Update
  <2>10. QED
    BY <2>1, <2>3, <2>4, <2>5, <2>6, <2>7, <2>8, <2>9
       DEF Next, Serve, SendSnapshot, SendHeartbeat, receive, PeerCloses,
           serverVars, vars
<1>3. QED
  BY <1>1, <1>2, TypeCorrect, PTL DEF Spec

-------------------------------------------------------------------------------
(* The status of an order *)

(* update_item keeps the status of an order the one its items ask for.  An *)
(* item that may step to DONE was IN_PROGRESS, hence so was its order; the *)
(* completion check that the NEW branch skips is never needed there.       *)
LEMMA UpdateItemSummary ==
  ASSUME NEW o \in Order, NEW i, NEW s \in ItemStatus,
         HasItem(o, i),
         ItemStep(o.items[find_item(o, i)].status, s),
         o.status = Summary(o)
  PROVE  LET n == set_item_status(o, i, s)
             r == [n EXCEPT !.status = StatusAfter(n, s)]
         IN  r.status = Summary(r)
<1> DEFINE p == find_item(o, i)
           n == set_item_status(o, i, s)
           r == [n EXCEPT !.status = StatusAfter(n, s)]
<1>1. /\ n \in Order
      /\ n.status = o.status
      /\ DOMAIN n.items = DOMAIN o.items
      /\ p \in DOMAIN o.items
      /\ n.items[p].status = s
      /\ \A q \in DOMAIN o.items : q # p => n.items[q] = o.items[q]
  BY SetItemStatus
<1> HIDE DEF n, p
<1>2. /\ r.status = StatusAfter(n, s)
      /\ r.items = n.items
  BY <1>1 DEF Order
<1>3. Summary(r) = Summary(n)
  BY <1>2 DEF Summary, AllDone
<1>4. ItemStep(o.items[p].status, s)
  BY DEF p
<1>5. ASSUME s = "IN_PROGRESS" PROVE r.status = Summary(r)
  <2>1. o.items[p].status = "NEW"
    BY <1>4, <1>5 DEF ItemStep
  <2>2. o.status \in {"NEW", "IN_PROGRESS"}
    BY <1>1, <2>1 DEF Summary, AllDone
  <2>3. ~ AllDone(n) /\ Summary(n) = "IN_PROGRESS"
    BY <1>1, <1>5 DEF Summary, AllDone
  <2>4. StatusAfter(n, s) = "IN_PROGRESS"
    BY <1>1, <1>5, <2>2, <2>3 DEF StatusAfter
  <2>5. QED
    BY <1>2, <1>3, <2>3, <2>4
<1>6. ASSUME s = "DONE" PROVE r.status = Summary(r)
  <2>1. o.items[p].status = "IN_PROGRESS"
    BY <1>4, <1>6 DEF ItemStep
  <2>2. o.status = "IN_PROGRESS"
    BY <1>1, <2>1 DEF Summary, AllDone
  <2>3. Summary(n) = IF AllDone(n) THEN "DONE" ELSE "IN_PROGRESS"
    BY <1>1, <1>6 DEF Summary
  <2>4. StatusAfter(n, s) = IF AllDone(n) THEN "DONE" ELSE "IN_PROGRESS"
    BY <1>1, <1>6, <2>2 DEF StatusAfter
  <2>5. QED
    BY <1>2, <1>3, <2>3, <2>4
<1>7. QED
  BY <1>4, <1>5, <1>6 DEF ItemStep, n, r

LEMMA StatusStep ==
  ASSUME NewOrders \subseteq FreshOrder
  PROVE  TypeOK /\ StatusAgrees /\ [Next]_vars => StatusAgrees'
<1> SUFFICES ASSUME TypeOK, StatusAgrees, [Next]_vars
             PROVE  StatusAgrees'
  OBVIOUS
<1>1. ASSUME NEW o \in NewOrders, create_order(o) PROVE StatusAgrees'
  <2>1. o.status = Summary(o)
    BY DEF FreshOrder, Summary
  <2>2. QED
    BY <1>1, <2>1 DEF create_order, StatusAgrees, TypeOK
<1>2. ASSUME NEW id \in OrderIds, NEW i \in ItemIds, NEW s \in ItemStatus,
             update_item(id, i, s)
      PROVE  StatusAgrees'
  <2> DEFINE n == set_item_status(my_orders[id], i, s)
             r == [n EXCEPT !.status = StatusAfter(n, s)]
  <2>1. my_orders[id] \in Order /\ HasItem(my_orders[id], i)
    BY <1>2, UpdateItemOrders DEF update_item
  <2>2. my_orders[id].status = Summary(my_orders[id])
    BY <1>2 DEF StatusAgrees, update_item, ItemUpdateAccepted
  <2>3. r.status = Summary(r)
    BY <1>2, <2>1, <2>2, UpdateItemSummary DEF update_item, ItemUpdateAccepted
  <2>4. my_orders' = [my_orders EXCEPT ![id] = r]
    BY <1>2 DEF update_item
  <2> HIDE DEF r
  <2>5. QED
    BY <2>3, <2>4 DEF StatusAgrees, TypeOK
<1>3. ASSUME NEW id \in OrderIds, NEW s \in OrderStatus, update_order(id, s)
      PROVE  StatusAgrees'
  BY <1>3 DEF update_order, StatusAgrees, TypeOK
<1>4. CASE UNCHANGED my_orders
  BY <1>4 DEF StatusAgrees
<1>5. QED
  BY <1>1, <1>2, <1>3, <1>4
     DEF Next, Update, Serve, Connect, add_client, snapshot_orders,
         SendSnapshot, SendQueued, SendHeartbeat, SendFails, remove_client,
         receive, PeerCloses, serverVars, vars

(* If updaters submit the orders their program builds, the server's status *)
(* of an order is always the one its items ask for.                        *)
THEOREM StatusCorrect ==
  ASSUME NewOrders \subseteq FreshOrder
  PROVE  Spec => []StatusAgrees
<1>1. Init => StatusAgrees
  BY DEF Init, EmptyScreen, StatusAgrees
<1>2. TypeOK /\ StatusAgrees /\ [Next]_vars => StatusAgrees'
  BY StatusStep
<1>3. QED
  BY <1>1, <1>2, TypeCorrect, PTL DEF Spec

(* ... and no order is ever taken out of my_orders while one of its items  *)
(* is not done, although update_order looks at the order's status only.    *)
THEOREM DeliveryCorrect ==
  ASSUME NewOrders \subseteq FreshOrder
  PROVE  Spec => OnlyCompleteOrdersLeave
<1> DEFINE Leave == \A id \in OrderIds :
                      my_orders[id] # NoOrder /\ my_orders'[id] = NoOrder
                        => AllDone(my_orders[id])
<1>1. TypeOK /\ StatusAgrees /\ [Next]_vars => [Leave]_vars
  <2> SUFFICES ASSUME TypeOK, StatusAgrees, [Next]_vars,
                      NEW id \in OrderIds,
                      my_orders[id] # NoOrder, my_orders'[id] = NoOrder
               PROVE  AllDone(my_orders[id])
    OBVIOUS
  <2>1. ASSUME NEW o \in NewOrders, create_order(o)
        PROVE  AllDone(my_orders[id])
    <3>1. o # NoOrder
      BY NewOrdersAssumption, NoOrderAssumption
    <3>2. QED
      BY <2>1, <3>1 DEF create_order, TypeOK
  <2>2. ASSUME NEW k \in OrderIds, NEW i \in ItemIds, NEW s \in ItemStatus,
               update_item(k, i, s)
        PROVE  AllDone(my_orders[id])
    <3> DEFINE n == set_item_status(my_orders[k], i, s)
               r == [n EXCEPT !.status = StatusAfter(n, s)]
    <3>1. r \in Order
      BY <2>2, UpdateItemOrders DEF update_item
    <3>2. my_orders' = [my_orders EXCEPT ![k] = r]
      BY <2>2 DEF update_item
    <3> HIDE DEF r
    <3>3. QED
      BY <3>1, <3>2, NoOrderAssumption DEF TypeOK
  <2>3. ASSUME NEW k \in OrderIds, NEW s \in OrderStatus, update_order(k, s)
        PROVE  AllDone(my_orders[id])
    <3>1. k = id
      BY <2>3 DEF update_order, TypeOK
    <3>2. my_orders[id].status = "DONE"
      BY <2>3, <3>1 DEF update_order, OrderUpdateAccepted
    <3>3. Summary(my_orders[id]) = "DONE"
      BY <3>2 DEF StatusAgrees
    <3>4. QED
      BY <3>3 DEF Summary
  <2>4. CASE UNCHANGED my_orders
    BY <2>4
  <2>5. QED
    BY <2>1, <2>2, <2>3, <2>4
       DEF Next, Update, Serve, Connect, add_client, snapshot_orders,
           SendSnapshot, SendQueued, SendHeartbeat, SendFails, remove_client,
           receive, PeerCloses, serverVars, vars
<1>2. Spec => []StatusAgrees
  BY StatusCorrect
<1>3. QED
  BY <1>1, <1>2, TypeCorrect, PTL DEF Spec, OnlyCompleteOrdersLeave

-------------------------------------------------------------------------------
(* Hidden items *)

(* An order in which every item that find_item cannot reach is still NEW,  *)
(* and which is not completed if there is such an item.                    *)
Blocked(o) ==
  \A p \in DOMAIN o.items :
    ~ Names(o, p, o.items[p].id)
      => o.items[p].status = "NEW" /\ o.status \in {"NEW", "IN_PROGRESS"}

(* update_item changes the item that carries the name, never one behind    *)
(* it, and a NEW item keeps the order from being completed.                *)
LEMMA UpdateItemBlocked ==
  ASSUME NEW o \in Order, NEW i, NEW s \in ItemStatus,
         HasItem(o, i), Blocked(o)
  PROVE  LET n == set_item_status(o, i, s)
         IN  Blocked([n EXCEPT !.status = StatusAfter(n, s)])
<1> DEFINE q == find_item(o, i)
           n == set_item_status(o, i, s)
           r == [n EXCEPT !.status = StatusAfter(n, s)]
<1>1. /\ n \in Order
      /\ n.status = o.status
      /\ DOMAIN n.items = DOMAIN o.items
      /\ \A p \in DOMAIN o.items :
           /\ n.items[p].id = o.items[p].id
           /\ p # q => n.items[p] = o.items[p]
  BY SetItemStatus
<1>2. Names(o, q, i)
  BY FindItemNames
<1> HIDE DEF n, q
<1>3. /\ r.status = StatusAfter(n, s)
      /\ r.items = n.items
  BY <1>1 DEF Order
<1>4. DOMAIN o.items = 1 .. Len(o.items) /\ Len(o.items) \in Nat
  BY DEF Order
<1> HIDE DEF r
<1>5. ASSUME NEW p \in DOMAIN r.items, ~ Names(r, p, r.items[p].id)
      PROVE  r.items[p].status = "NEW" /\ r.status \in {"NEW", "IN_PROGRESS"}
  <2>1. p \in DOMAIN o.items /\ r.items[p].id = o.items[p].id
    BY <1>1, <1>3
  <2>2. \A k \in 1 .. p - 1 : k \in DOMAIN o.items
    BY <1>4, <2>1
  <2>3. ~ Names(o, p, o.items[p].id)
    BY <1>1, <1>3, <1>5, <2>1, <2>2 DEF Names
  <2>4. o.items[p].status = "NEW" /\ o.status \in {"NEW", "IN_PROGRESS"}
    BY <2>1, <2>3 DEF Blocked
  <2>5. p # q
    BY <1>2, <2>3 DEF Names
  <2>6. n.items[p].status = "NEW"
    BY <1>1, <2>1, <2>4, <2>5
  <2>7. ~ AllDone(n)
    BY <1>1, <2>1, <2>6 DEF AllDone
  <2>8. StatusAfter(n, s) \in {"NEW", "IN_PROGRESS"}
    BY <1>1, <2>4, <2>7 DEF StatusAfter
  <2>9. QED
    BY <1>3, <2>6, <2>8
<1>6. QED
  BY <1>5 DEF Blocked, r, n

(* If updaters submit the orders their program builds, an item hidden      *)
(* behind another one with its id keeps its order in the server for good.  *)
THEOREM HiddenItemsBlock ==
  ASSUME NewOrders \subseteq FreshOrder
  PROVE  Spec => []HiddenItemBlocksOrder
<1> DEFINE Inv == \A id \in OrderIds :
                    my_orders[id] # NoOrder => Blocked(my_orders[id])
<1>1. Init => Inv
  BY DEF Init, EmptyScreen
<1>2. TypeOK /\ Inv /\ [Next]_vars => Inv'
  <2> SUFFICES ASSUME TypeOK, Inv, [Next]_vars PROVE Inv'
    OBVIOUS
  <2>1. ASSUME NEW o \in NewOrders, create_order(o) PROVE Inv'
    <3>1. Blocked(o)
      BY DEF FreshOrder, Blocked
    <3>2. QED
      BY <2>1, <3>1 DEF create_order, TypeOK
  <2>2. ASSUME NEW k \in OrderIds, NEW i \in ItemIds, NEW s \in ItemStatus,
               update_item(k, i, s)
        PROVE  Inv'
    <3> DEFINE n == set_item_status(my_orders[k], i, s)
               r == [n EXCEPT !.status = StatusAfter(n, s)]
    <3>1. my_orders[k] \in Order /\ HasItem(my_orders[k], i)
      BY <2>2, UpdateItemOrders DEF update_item
    <3>2. Blocked(my_orders[k])
      BY <2>2 DEF update_item, ItemUpdateAccepted
    <3>3. Blocked(r)
      BY <3>1, <3>2, UpdateItemBlocked
    <3>4. my_orders' = [my_orders EXCEPT ![k] = r]
      BY <2>2 DEF update_item
    <3> HIDE DEF r
    <3>5. QED
      BY <3>3, <3>4 DEF TypeOK
  <2>3. ASSUME NEW k \in OrderIds, NEW s \in OrderStatus, update_order(k, s)
        PROVE  Inv'
    BY <2>3 DEF update_order, TypeOK
  <2>4. CASE UNCHANGED my_orders
    BY <2>4
  <2>5. QED
    BY <2>1, <2>2, <2>3, <2>4
       DEF Next, Update, Serve, Connect, add_client, snapshot_orders,
           SendSnapshot, SendQueued, SendHeartbeat, SendFails, remove_client,
           receive, PeerCloses, serverVars, vars
<1>3. Inv => HiddenItemBlocksOrder
  BY DEF Blocked, HiddenItemBlocksOrder
<1>4. QED
  BY <1>1, <1>2, <1>3, TypeCorrect, PTL DEF Spec

-------------------------------------------------------------------------------
(* Orders only advance *)

(* n is the order o some updates later. *)
Advanced(o, n) ==
  /\ DOMAIN n.items = DOMAIN o.items
  /\ \A p \in DOMAIN o.items :
       /\ n.items[p].id = o.items[p].id
       /\ Rank(o.items[p].status) <= Rank(n.items[p].status)

LEMMA RankType == ASSUME NEW st PROVE Rank(st) \in 0 .. 3
BY DEF Rank

(* Two orders of which one is a later state of the other give their items  *)
(* the same names.                                                         *)
LEMMA AdvancedNames ==
  ASSUME NEW o \in Order, NEW n \in Order, Advanced(o, n), NEW i
  PROVE  /\ HasItem(n, i) <=> HasItem(o, i)
         /\ HasItem(o, i) => find_item(n, i) = find_item(o, i)
<1>1. DOMAIN o.items = 1 .. Len(o.items) /\ Len(o.items) \in Nat
  BY DEF Order
<1>2. \A p : Names(n, p, i) <=> Names(o, p, i)
  BY <1>1, SMTT(30) DEF Names, Advanced
<1>3. HasItem(n, i) <=> HasItem(o, i)
  BY <1>2 DEF HasItem, Names
<1>4. ASSUME HasItem(o, i) PROVE find_item(n, i) = find_item(o, i)
  <2>1. Names(o, find_item(o, i), i) /\ Names(n, find_item(n, i), i)
    BY <1>3, <1>4, FindItemNames
  <2>2. QED
    BY <1>2, <2>1, NamesUnique
<1>5. QED
  BY <1>3, <1>4

(* What a step does to an order that has been created: it stays as it is,  *)
(* advances, or leaves; and once it has left it does not come back.        *)
LEMMA OrdersOnlyAdvance ==
  ASSUME TypeOK, [Next]_vars, NEW id \in OrderIds, id < next_order_id
  PROVE  /\ next_order_id <= next_order_id'
         /\ my_orders[id] = NoOrder => my_orders'[id] = NoOrder
         /\ my_orders'[id] # NoOrder => Advanced(my_orders[id], my_orders'[id])
<1> DEFINE Goal == /\ next_order_id <= next_order_id'
                   /\ my_orders[id] = NoOrder => my_orders'[id] = NoOrder
                   /\ my_orders'[id] # NoOrder => Advanced(my_orders[id], my_orders'[id])
<1>1. next_order_id \in Int /\ id \in Int
  BY MaxOrdersAssumption DEF TypeOK, OrderIds
<1>2. ASSUME NEW o PROVE Advanced(o, o)
  <2>1. \A p \in DOMAIN o.items : Rank(o.items[p].status) <= Rank(o.items[p].status)
    BY RankType
  <2>2. QED
    BY <2>1 DEF Advanced
<1>3. CASE UNCHANGED <<next_order_id, my_orders>>
  BY <1>1, <1>2, <1>3
<1>4. ASSUME NEW o \in NewOrders, create_order(o) PROVE Goal
  <2>1. next_order_id' = next_order_id + 1
    BY <1>4 DEF create_order
  <2>2. my_orders'[id] = my_orders[id]
    BY <1>1, <1>4 DEF create_order, TypeOK
  <2>3. QED
    BY <1>1, <1>2, <2>1, <2>2
<1>5. ASSUME NEW k \in OrderIds, NEW i \in ItemIds, NEW s \in ItemStatus,
             update_item(k, i, s)
      PROVE  Goal
  <2> DEFINE o == my_orders[k]
             p == find_item(o, i)
             n == set_item_status(o, i, s)
             r == [n EXCEPT !.status = StatusAfter(n, s)]
  <2>1. o \in Order /\ HasItem(o, i) /\ o # NoOrder
    BY <1>5, UpdateItemOrders DEF update_item, ItemUpdateAccepted
  <2>2. ItemStep(o.items[p].status, s)
    BY <1>5 DEF update_item, ItemUpdateAccepted
  <2>3. /\ n \in Order
        /\ DOMAIN n.items = DOMAIN o.items
        /\ p \in DOMAIN o.items
        /\ n.items[p].status = s
        /\ \A q \in DOMAIN o.items :
             /\ n.items[q].id = o.items[q].id
             /\ q # p => n.items[q] = o.items[q]
    BY <2>1, SetItemStatus
  <2>4. my_orders' = [my_orders EXCEPT ![k] = r] /\ next_order_id' = next_order_id
    BY <1>5 DEF update_item
  <2> HIDE DEF n, p
  <2>5. r.items = n.items
    BY <2>3 DEF Order
  <2>6. Rank(o.items[p].status) <= Rank(s)
    BY <2>2 DEF ItemStep, Rank
  <2>7. \A q \in DOMAIN o.items : Rank(o.items[q].status) <= Rank(r.items[q].status)
    BY <2>3, <2>5, <2>6, RankType
  <2>8. Advanced(o, r)
    BY <2>3, <2>5, <2>7 DEF Advanced
  <2>9. CASE k = id
    BY <1>1, <2>1, <2>4, <2>8, <2>9 DEF TypeOK
  <2>10. CASE k # id
    <3>1. my_orders'[id] = my_orders[id]
      BY <2>4, <2>10 DEF TypeOK
    <3>2. QED
      BY <1>1, <1>2, <2>4, <3>1
  <2>11. QED
    BY <2>9, <2>10
<1>6. ASSUME NEW k \in OrderIds, NEW s \in OrderStatus, update_order(k, s)
      PROVE  Goal
  <2>1. my_orders' = [my_orders EXCEPT ![k] = NoOrder] /\ next_order_id' = next_order_id
    BY <1>6 DEF update_order
  <2>2. my_orders'[id] = NoOrder \/ my_orders'[id] = my_orders[id]
    BY <2>1 DEF TypeOK
  <2>3. QED
    BY <1>1, <1>2, <2>1, <2>2
<1>7. QED
  BY <1>3, <1>4, <1>5, <1>6
     DEF Next, Update, Serve, Connect, add_client, snapshot_orders,
         SendSnapshot, SendQueued, SendHeartbeat, SendFails, remove_client,
         receive, PeerCloses, serverVars, vars

(* Only orders that have been created are in my_orders. *)
Allocated == \A id \in OrderIds : my_orders[id] # NoOrder => id < next_order_id

LEMMA AllocatedInit == Init => Allocated
BY DEF Init, EmptyScreen, Allocated

LEMMA AllocatedStep == TypeOK /\ Allocated /\ [Next]_vars => Allocated'
<1> SUFFICES ASSUME TypeOK, Allocated, [Next]_vars, NEW id \in OrderIds,
                    my_orders'[id] # NoOrder
             PROVE  id < next_order_id'
  BY DEF Allocated
<1>1. next_order_id \in Int /\ id \in Int
  BY MaxOrdersAssumption DEF TypeOK, OrderIds
<1>2. CASE UNCHANGED <<next_order_id, my_orders>>
  BY <1>2 DEF Allocated
<1>3. ASSUME NEW o \in NewOrders, create_order(o) PROVE id < next_order_id'
  BY <1>1, <1>3 DEF create_order, Allocated, TypeOK
<1>4. ASSUME NEW k \in OrderIds, NEW i \in ItemIds, NEW s \in ItemStatus,
             update_item(k, i, s)
      PROVE  id < next_order_id'
  BY <1>4 DEF update_item, ItemUpdateAccepted, Allocated, TypeOK
<1>5. ASSUME NEW k \in OrderIds, NEW s \in OrderStatus, update_order(k, s)
      PROVE  id < next_order_id'
  BY <1>5 DEF update_order, Allocated, TypeOK
<1>6. QED
  BY <1>2, <1>3, <1>4, <1>5
     DEF Next, Update, Serve, Connect, add_client, snapshot_orders,
         SendSnapshot, SendQueued, SendHeartbeat, SendFails, remove_client,
         receive, PeerCloses, serverVars, vars
===============================================================================
