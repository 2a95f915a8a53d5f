---------------------------- MODULE Threads_proofs ----------------------------
(***************************************************************************)
(* Theorems about Threads, for any number of display and updater threads,  *)
(* any orders and any bounds.                                              *)
(*                                                                         *)
(* The inductive invariant has one part per thing that a lock or the       *)
(* semaphore is there to protect: Typed, Holding (my_lock and the walk     *)
(* over my_clients), Saying (what a broadcast carries), Serving (a         *)
(* display's thread and its registration), Mutex (m_lock) and Counting     *)
(* (m_sem against the length of its queue).                                *)
(***************************************************************************)
EXTENDS Threads, Server_proofs

Places == {"out", "run", "inside", "loop", "visit", "push", "post", "token",
           "pop"}

(* No message, or one. *)
Hand == {<< >>} \cup {<<m>> : m \in DisplayMessage}

Typed ==
  /\ TypeOK
  /\ my_lock \in Updaters \cup {Nobody}
  /\ m_lock \in [Displays -> Threads \cup {Nobody}]
  /\ m_sem  \in [Displays -> Nat]
  /\ pc     \in [Threads -> Places]
  /\ msg    \in [Threads -> Hand]
  /\ left   \in [Updaters -> SUBSET Displays]
  /\ target \in [Updaters -> SUBSET Displays]

(* Only the owner of my_lock is in a method, and it walks over registered  *)
(* clients, one at a time and none twice.                                  *)
Holding ==
  \A u \in Updaters :
    /\ pc[u] \in {"run", "inside", "loop", "visit", "push", "post"}
    /\ pc[u] # "run" <=> my_lock = u
    /\ pc[u] \in {"run", "inside"} => left[u] = {}
    /\ pc[u] \in {"run", "inside", "loop"} => target[u] = {}
    /\ pc[u] \in {"visit", "push", "post"} => \E d \in Displays : target[u] = {d}
    /\ left[u] \cup target[u] \subseteq my_clients
    /\ left[u] \cap target[u] = {}

(* The messages that are broadcast. *)
Announcement == {m \in DisplayMessage : m.type # "DISP_HEARTBEAT"}

(* A broadcast carries a message about an order, which is still there if   *)
(* the method will look at it again.                                       *)
Saying ==
  \A u \in Updaters :
    /\ pc[u] \in {"run", "inside"} => msg[u] = << >>
    /\ pc[u] \in {"loop", "visit", "push", "post"} =>
         \E m \in Announcement :
           /\ msg[u] = <<m>>
           /\ m.type = "DISP_ITEM_UPDATE" => my_orders[m.id] \in Order

(* A display's thread has a Client from accept to ~Client, is in           *)
(* my_clients between registering and unregistering, and is in dequeue     *)
(* only in between.                                                        *)
Serving ==
  \A d \in Displays :
    /\ pc[d] \in {"out", "run", "token", "pop"}
    /\ pc[d] = "out" <=> phase[d] = "idle"
    /\ pc[d] \in {"token", "pop"} => phase[d] = "stream"
    /\ phase[d] \in {"joined", "stream"} => d \in my_clients
    /\ d \in my_clients => phase[d] \in {"joined", "stream", "failed"}

(* A queue's mutex has the owner that the places of the threads say.       *)
Mutex ==
  \A d \in Displays :
    /\ m_lock[d] = d <=> pc[d] = "pop"
    /\ \A u \in Updaters : m_lock[d] = u <=> pc[u] = "push" /\ d \in target[u]
    /\ \A e \in Displays : m_lock[d] = e => e = d

(* A token that d's thread has taken, and one that an updater still owes.  *)
Taken(d) == IF pc[d] \in {"token", "pop"} THEN 1 ELSE 0
Owed(d)  == IF \E u \in Updaters : pc[u] = "post" /\ d \in target[u] THEN 1 ELSE 0

(* Each token in or out of the semaphore stands for a message in the queue. *)
Counting ==
  \A d \in Displays : m_sem[d] + Taken(d) + Owed(d) <= Len(queue[d])

ThreadsInv ==
  Typed /\ Holding /\ Saying /\ Serving /\ Mutex /\ Counting

-------------------------------------------------------------------------------
(* A server step of a display's thread keeps the types of Server's state.  *)
LEMMA DisplayStepTypes ==
  ASSUME TypeOK, NEW d \in Displays,
         \/ Connect(d) \/ add_client(d) \/ snapshot_orders(d)
         \/ SendSnapshot(d) \/ SendFails(d) \/ remove_client(d)
         \/ receive(d) \/ PeerCloses(d)
  PROVE  TypeOK'
<1>1. Next
  BY DEF Next, Serve
<1>2. QED
  BY <1>1, TypeStep

(* The first change a method makes: the orders keep their type, and what   *)
(* is broadcast is a message.                                              *)
LEMMA MethodTypes ==
  ASSUME Typed, NEW u \in Updaters, Method(u)
  PROVE  \E m \in Announcement :
           /\ TypeOK'
           /\ msg'  = [msg  EXCEPT ![u] = <<m>>]
           /\ left' = [left EXCEPT ![u] = my_clients]
           /\ m.type = "DISP_ITEM_UPDATE" => my_orders'[m.id] \in Order
<1> DEFINE Goal(m) ==
             /\ TypeOK'
             /\ msg'  = [msg  EXCEPT ![u] = <<m>>]
             /\ left' = [left EXCEPT ![u] = my_clients]
             /\ m.type = "DISP_ITEM_UPDATE" => my_orders'[m.id] \in Order
<1>1. TypeOK /\ UNCHANGED <<sessionVars, queue>>
  BY DEF Typed, Method
<1>2. ASSUME next_order_id' \in FirstOrderId .. FirstOrderId + MaxOrders,
             my_orders' \in [OrderIds -> MaybeOrder]
      PROVE  TypeOK'
  BY <1>1, <1>2 DEF TypeOK, sessionVars
<1>3. ASSUME NEW o \in NewOrders, create_order_starts(u, o)
      PROVE  \E m \in Announcement : Goal(m)
  <2> DEFINE m == DispOrder(next_order_id, o)
  <2>1. o \in Order /\ next_order_id \in OrderIds
    BY <1>3, NewOrdersAssumption DEF create_order_starts
  <2>2. m \in Announcement /\ m.type = "DISP_ORDER"
    BY <2>1 DEF DispOrder, DisplayMessage, Announcement
  <2>3. next_order_id' \in FirstOrderId .. FirstOrderId + MaxOrders
    BY <1>3, <2>1, MaxOrdersAssumption
       DEF create_order_starts, OrderIds, FirstOrderId
  <2>4. my_orders' \in [OrderIds -> MaybeOrder]
    BY <1>1, <1>3, <2>1 DEF create_order_starts, MaybeOrder, TypeOK
  <2>5. Goal(m)
    BY <1>2, <1>3, <2>2, <2>3, <2>4 DEF create_order_starts, Broadcast
  <2>6. QED
    BY <2>2, <2>5
<1>4. ASSUME NEW id \in OrderIds, NEW i \in ItemIds, NEW s \in ItemStatus,
             update_item_starts(u, id, i, s)
      PROVE  \E m \in Announcement : Goal(m)
  <2> DEFINE m == DispItemUpdate(id, i, s)
  <2>1. /\ s \in {"IN_PROGRESS", "DONE"}
        /\ set_item_status(my_orders[id], i, s) \in Order
    BY <1>1, <1>4, UpdateItemOrders DEF update_item_starts
  <2>2. m \in Announcement /\ m.id = id
    BY <2>1 DEF DispItemUpdate, DisplayMessage, Announcement
  <2>3. /\ my_orders' \in [OrderIds -> MaybeOrder]
        /\ my_orders'[id] \in Order
    BY <1>1, <1>4, <2>1 DEF update_item_starts, MaybeOrder, TypeOK
  <2>4. TypeOK'
    BY <1>1, <1>2, <1>4, <2>3 DEF update_item_starts, TypeOK
  <2>5. Goal(m)
    BY <1>4, <2>2, <2>3, <2>4 DEF update_item_starts, Broadcast
  <2>6. QED
    BY <2>2, <2>5
<1>5. ASSUME NEW id \in OrderIds, NEW s \in OrderStatus,
             update_order_starts(u, id, s)
      PROVE  \E m \in Announcement : Goal(m)
  <2> DEFINE m == DispOrderUpdate(id, s)
  <2>1. s = "DELIVERED" /\ my_orders[id] \in Order
    BY <1>1, <1>5
       DEF update_order_starts, OrderUpdateAccepted, TypeOK, MaybeOrder
  <2>2. m \in Announcement /\ m.type = "DISP_ORDER_UPDATE"
    BY <2>1 DEF DispOrderUpdate, DisplayMessage, Announcement
  <2>3. [my_orders[id] EXCEPT !.status = s] \in Order
    BY <2>1 DEF Order
  <2>4. my_orders' \in [OrderIds -> MaybeOrder]
    BY <1>1, <1>5, <2>3 DEF update_order_starts, TypeOK, MaybeOrder
  <2>5. TypeOK'
    BY <1>1, <1>2, <1>5, <2>4 DEF update_order_starts, TypeOK
  <2>6. Goal(m)
    BY <1>5, <2>2, <2>5 DEF update_order_starts, Broadcast
  <2>7. QED
    BY <2>2, <2>6
<1>6. QED
  BY <1>3, <1>4, <1>5 DEF Method

(* The second broadcast of update_item: again a message, and not one that  *)
(* the method will look at again.                                          *)
LEMMA GoesOnTypes ==
  ASSUME Typed, Saying, NEW u \in Updaters, update_item_goes_on(u)
  PROVE  \E m \in Announcement :
           /\ TypeOK'
           /\ msg'  = [msg  EXCEPT ![u] = <<m>>]
           /\ left' = [left EXCEPT ![u] = my_clients]
           /\ m.type = "DISP_ORDER_UPDATE"
<1>1. PICK n \in Announcement :
        /\ msg[u] = <<n>>
        /\ n.type = "DISP_ITEM_UPDATE" => my_orders[n.id] \in Order
  BY DEF Saying, update_item_goes_on
<1>2. /\ n.type = "DISP_ITEM_UPDATE"
      /\ StatusNow(n) # my_orders[n.id].status
      /\ my_orders' = [my_orders EXCEPT ![n.id].status = StatusNow(n)]
      /\ msg'  = [msg  EXCEPT ![u] = <<DispOrderUpdate(n.id, StatusNow(n))>>]
      /\ left' = [left EXCEPT ![u] = my_clients]
  BY <1>1 DEF update_item_goes_on, StatusToChange, Broadcast
<1>3. n.id \in OrderIds /\ n.status \in ItemStatus
  BY <1>2 DEF Announcement, DisplayMessage, DispHeartbeat, ItemStatus
<1>4. StatusNow(n) \in {"IN_PROGRESS", "DONE"}
  BY <1>1, <1>2, <1>3, StatusAfterType DEF StatusNow
<1>5. [my_orders[n.id] EXCEPT !.status = StatusNow(n)] \in Order
  BY <1>1, <1>2, <1>4 DEF Order, OrderStatus
<1>6. TypeOK'
  <2>1. TypeOK /\ UNCHANGED <<next_order_id, sessionVars, queue>>
    BY DEF Typed, update_item_goes_on
  <2>2. my_orders' \in [OrderIds -> MaybeOrder]
    BY <1>2, <1>3, <1>5, <2>1 DEF TypeOK, MaybeOrder
  <2>3. QED
    BY <2>1, <2>2 DEF TypeOK, sessionVars
<1>7. /\ DispOrderUpdate(n.id, StatusNow(n)) \in Announcement
      /\ DispOrderUpdate(n.id, StatusNow(n)).type = "DISP_ORDER_UPDATE"
  BY <1>3, <1>4 DEF DispOrderUpdate, DisplayMessage, Announcement
<1>8. QED
  BY <1>2, <1>6, <1>7

(* pop_front never meets an empty queue. *)
LEMMA QueueHolds ==
  ASSUME ThreadsInv, NEW d \in Displays, pop_front(d)
  PROVE  queue[d] # << >>
<1>1. Taken(d) = 1 /\ Owed(d) \in Nat /\ m_sem[d] \in Nat
  BY DEF pop_front, Goto, Taken, Owed, ThreadsInv, Typed
<1>2. Len(queue[d]) # 0
  BY <1>1 DEF ThreadsInv, Counting
<1>3. QED
  BY <1>2

(* Whatever step is taken, the state that Server describes keeps its type. *)
LEMMA StateTypes == ThreadsInv /\ [ThreadsNext]_tvars => TypeOK'
<1> SUFFICES ASSUME ThreadsInv, [ThreadsNext]_tvars PROVE TypeOK'
  OBVIOUS
<1>1. TypeOK /\ Typed /\ Saying /\ Counting
  BY DEF ThreadsInv, Typed
<1>2. CASE UNCHANGED vars
  BY <1>1, <1>2 DEF TypeOK, vars
<1>3. ASSUME NEW u \in Updaters, Method(u) \/ update_item_goes_on(u)
      PROVE  TypeOK'
  BY <1>1, <1>3, MethodTypes, GoesOnTypes
<1>4. ASSUME NEW u \in Updaters, NEW d \in Displays, push_back(u, d)
      PROVE  TypeOK'
  <2>1. PICK m \in Announcement : msg[u] = <<m>>
    BY <1>1, <1>4 DEF Saying, push_back, Goto
  <2>2. queue[d] \o msg[u] \in Seq(DisplayMessage)
    BY <1>1, <2>1, ConcatProperties DEF TypeOK, Announcement
  <2>3. QED
    BY <1>1, <1>4, <2>2 DEF TypeOK, push_back, serverVars, sessionVars
<1>5. ASSUME NEW u \in Updaters, Return(u) PROVE TypeOK'
  <2>1. PICK m \in Announcement : msg[u] = <<m>>
    BY <1>1, <1>5 DEF Saying, Return, IsLast
  <2>2. my_orders' \in [OrderIds -> MaybeOrder]
    BY <1>1, <1>5, <2>1 DEF Return, TypeOK, MaybeOrder
  <2>3. UNCHANGED <<next_order_id, sessionVars, queue>>
    BY <1>5 DEF Return
  <2>4. QED
    BY <1>1, <2>2, <2>3 DEF TypeOK, sessionVars
<1>6. ASSUME NEW d \in Displays, pop_front(d) PROVE TypeOK'
  <2>1. queue[d] \in Seq(DisplayMessage)
    BY <1>1 DEF TypeOK
  <2>2. Tail(queue[d]) \in Seq(DisplayMessage)
    BY <1>1, <1>6, <2>1, QueueHolds
  <2>3. QED
    BY <1>1, <1>6, <2>2 DEF TypeOK, pop_front, serverVars, sessionVars
<1>7. ASSUME NEW d \in Displays, Stream(d) PROVE TypeOK'
  <2>1. PICK m \in DisplayMessage : msg[d] = <<m>>
    BY <1>1, <1>7 DEF Stream, Typed, Hand, Threads
  <2>2. send_msg(d, m)
    BY <1>7, <2>1 DEF Stream
  <2>3. QED
    BY <1>1, <1>7, <2>2, SendType DEF TypeOK, Stream, serverVars
<1>8. ASSUME NEW d \in Displays, Start(d) \/ Join(d) \/ Destroy(d)
             \/ StreamSnapshot(d) \/ StreamFails(d) \/ receive(d) \/ PeerCloses(d)
      PROVE  TypeOK'
  BY <1>1, <1>8, DisplayStepTypes
     DEF Start, Join, Destroy, StreamSnapshot, StreamFails
<1>9. QED
  BY <1>2, <1>3, <1>4, <1>5, <1>6, <1>7, <1>8
     DEF ThreadsNext, UpdaterHolds, DisplayHolds, DisplayRuns, Guard, Refuse,
         visit, enqueue_lock, post, sem_wait, timeout, dequeue_lock, tvars

(* ... and so do the locks and what the threads keep. *)
LEMMA TypedStep == ThreadsInv /\ [ThreadsNext]_tvars => Typed'
<1> SUFFICES ASSUME ThreadsInv, [ThreadsNext]_tvars PROVE Typed'
  OBVIOUS
<1>1. TypeOK'
  BY StateTypes
<1>2. Typed /\ my_clients \subseteq Displays
  BY DEF ThreadsInv, Typed, TypeOK
<1>3. Updaters \subseteq Threads /\ Displays \subseteq Threads
  BY DEF Threads
<1> USE DEF Typed
<1>4. CASE UNCHANGED threadVars
  BY <1>1, <1>2, <1>4 DEF threadVars
<1>5. ASSUME NEW u \in Updaters, Guard(u) \/ Refuse(u) PROVE Typed'
  BY <1>1, <1>2, <1>3, <1>5 DEF Guard, Refuse, Leave, Goto, Places
<1>6. ASSUME NEW u \in Updaters, Method(u) PROVE Typed'
  <2>1. PICK m \in Announcement :
          /\ msg'  = [msg  EXCEPT ![u] = <<m>>]
          /\ left' = [left EXCEPT ![u] = my_clients]
    BY <1>2, <1>6, MethodTypes
  <2>2. <<m>> \in Hand
    BY DEF Hand, Announcement
  <2>3. QED
    BY <1>1, <1>2, <1>3, <1>6, <2>1, <2>2 DEF Method, Goto, Places
<1>7. ASSUME NEW u \in Updaters, update_item_goes_on(u) PROVE Typed'
  <2>1. PICK m \in Announcement :
          /\ msg'  = [msg  EXCEPT ![u] = <<m>>]
          /\ left' = [left EXCEPT ![u] = my_clients]
    BY <1>2, <1>7, GoesOnTypes DEF ThreadsInv
  <2>2. <<m>> \in Hand
    BY DEF Hand, Announcement
  <2>3. QED
    BY <1>1, <1>2, <1>3, <1>7, <2>1, <2>2 DEF update_item_goes_on
<1>8. ASSUME NEW u \in Updaters, NEW d \in Displays, visit(u, d) PROVE Typed'
  BY <1>1, <1>2, <1>3, <1>8 DEF visit, Goto, Places
<1>9. ASSUME NEW u \in Updaters, NEW d \in Displays,
             enqueue_lock(u, d) \/ push_back(u, d) \/ post(u, d)
      PROVE  Typed'
  <2>1. CASE enqueue_lock(u, d)
    BY <1>1, <1>2, <1>3, <2>1 DEF enqueue_lock, Goto, Places
  <2>2. CASE push_back(u, d)
    BY <1>1, <1>2, <1>3, <2>2 DEF push_back, Goto, Places
  <2>3. CASE post(u, d)
    BY <1>1, <1>2, <1>3, <2>3 DEF post, Goto, Places
  <2>4. QED
    BY <1>9, <2>1, <2>2, <2>3
<1>10. ASSUME NEW u \in Updaters, Return(u) PROVE Typed'
  BY <1>1, <1>2, <1>3, <1>10 DEF Return, Leave, Goto, Places, Hand
<1>11. ASSUME NEW d \in Displays, Start(d) \/ Destroy(d) PROVE Typed'
  BY <1>1, <1>2, <1>3, <1>11, SMTT(30) DEF Start, Destroy, Goto, Places, Hand
<1>12. ASSUME NEW d \in Displays, sem_wait(d) \/ dequeue_lock(d) PROVE Typed'
  BY <1>1, <1>2, <1>3, <1>12 DEF sem_wait, dequeue_lock, Goto, Places
<1>13. ASSUME NEW d \in Displays, pop_front(d) PROVE Typed'
  <2>1. queue[d] \in Seq(DisplayMessage)
    BY <1>2 DEF TypeOK
  <2>2. Head(queue[d]) \in DisplayMessage
    BY <1>13, <2>1, QueueHolds
  <2>3. <<Head(queue[d])>> \in Hand
    BY <2>2 DEF Hand
  <2>4. QED
    BY <1>1, <1>2, <1>3, <1>13, <2>3 DEF pop_front, Goto, Places
<1>14. ASSUME NEW d \in Displays, timeout(d) \/ Stream(d) PROVE Typed'
  <2>1. <<DispHeartbeat>> \in Hand /\ << >> \in Hand
    BY DEF Hand, DisplayMessage
  <2>2. QED
    BY <1>1, <1>2, <1>3, <1>14, <2>1 DEF timeout, Stream
<1>15. QED
  BY <1>4, <1>5, <1>6, <1>7, <1>8, <1>9, <1>10, <1>11, <1>12, <1>13, <1>14
     DEF ThreadsNext, UpdaterHolds, DisplayHolds, DisplayRuns, Join,
         StreamSnapshot, StreamFails, threadVars, tvars

-------------------------------------------------------------------------------
(* my_lock *)

(* What a step of a display's thread leaves to the updaters' threads.      *)
LEMMA DisplayStepKeeps ==
  ASSUME Typed, NEW d \in Displays, DisplayHolds(d) \/ DisplayRuns(d)
  PROVE  /\ UNCHANGED <<my_lock, left, target>>
         /\ \A u \in Updaters : pc'[u] = pc[u] /\ msg'[u] = msg[u]
         /\ my_clients' = my_clients \/ my_lock = Nobody
         /\ my_orders' = my_orders
<1>1. \A u \in Updaters : u # d /\ u \in Threads
  BY ThreadsAssumption DEF Threads
<1>2. CASE DisplayHolds(d)
  BY <1>1, <1>2
     DEF Typed, DisplayHolds, dequeue_lock, pop_front, Goto, vars, serverVars,
         sessionVars
<1>3. CASE Start(d) \/ Destroy(d)
  BY <1>1, <1>3
     DEF Typed, Start, Destroy, Connect, remove_client, Goto, serverVars
<1>4. CASE Join(d) \/ StreamSnapshot(d) \/ StreamFails(d)
  BY <1>4
     DEF Join, StreamSnapshot, StreamFails, add_client, snapshot_orders,
         SendSnapshot, SendFails, threadVars, serverVars
<1>5. CASE (receive(d) \/ PeerCloses(d)) /\ UNCHANGED threadVars
  BY <1>5 DEF receive, PeerCloses, threadVars, serverVars
<1>6. CASE sem_wait(d) \/ timeout(d) \/ Stream(d)
  BY <1>1, <1>6
     DEF Typed, sem_wait, timeout, Stream, Goto, vars, serverVars
<1>7. QED
  BY <1>2, <1>3, <1>4, <1>5, <1>6 DEF DisplayRuns

(* my_lock excludes: an updater's thread in a method is the only one.      *)
LEMMA OneHolder ==
  ASSUME Holding, NEW u \in Updaters, pc[u] # "run",
         NEW v \in Updaters, pc[v] # "run"
  PROVE  u = v
BY DEF Holding

(* The walk of a method is over registered clients from its start, and no *)
(* client leaves my_clients before its end.                                *)
LEMMA HoldingStep == ThreadsInv /\ [ThreadsNext]_tvars => Holding'
<1> SUFFICES ASSUME ThreadsInv, [ThreadsNext]_tvars, NEW v \in Updaters
             PROVE  Holding!(v)'
  BY DEF Holding
<1>1. Typed /\ Holding
  BY DEF ThreadsInv
<1>2. v \in Threads /\ v # Nobody /\ my_clients \subseteq Displays
  BY <1>1, ThreadsAssumption DEF Threads, Typed, TypeOK
<1> USE DEF Holding
<1>3. CASE UNCHANGED tvars
  BY <1>1, <1>3 DEF tvars, threadVars, vars
<1>4. ASSUME NEW d \in Displays, DisplayHolds(d) \/ DisplayRuns(d)
      PROVE  Holding!(v)'
  BY <1>1, <1>2, <1>4, DisplayStepKeeps
<1>5. ASSUME NEW u \in Updaters, Guard(u) PROVE Holding!(v)'
  BY <1>1, <1>2, <1>5 DEF Typed, Guard, Goto, vars
<1>6. ASSUME NEW u \in Updaters, Method(u) PROVE Holding!(v)'
  <2>1. left' = [left EXCEPT ![u] = my_clients]
    BY <1>1, <1>6, MethodTypes
  <2>2. QED
    BY <1>1, <1>2, <1>6, <2>1 DEF Typed, Method, Goto, sessionVars
<1>7. ASSUME NEW u \in Updaters, Refuse(u) PROVE Holding!(v)'
  BY <1>1, <1>2, <1>7 DEF Typed, Refuse, Leave, Goto, vars
<1>8. ASSUME NEW u \in Updaters, NEW d \in Displays, visit(u, d)
      PROVE  Holding!(v)'
  BY <1>1, <1>2, <1>8 DEF Typed, visit, Goto, vars
<1>9. ASSUME NEW u \in Updaters, NEW d \in Displays, enqueue_lock(u, d)
      PROVE  Holding!(v)'
  BY <1>1, <1>2, <1>9 DEF Typed, enqueue_lock, Goto, vars
<1>10. ASSUME NEW u \in Updaters, NEW d \in Displays, push_back(u, d)
       PROVE  Holding!(v)'
  BY <1>1, <1>2, <1>10 DEF Typed, push_back, Goto, sessionVars
<1>11. ASSUME NEW u \in Updaters, NEW d \in Displays, post(u, d)
       PROVE  Holding!(v)'
  BY <1>1, <1>2, <1>11 DEF Typed, post, Goto, vars
<1>12. ASSUME NEW u \in Updaters, update_item_goes_on(u) PROVE Holding!(v)'
  <2>1. left' = [left EXCEPT ![u] = my_clients]
    BY <1>12 DEF update_item_goes_on, Broadcast
  <2>2. QED
    BY <1>1, <1>2, <1>12, <2>1 DEF Typed, update_item_goes_on, sessionVars
<1>13. ASSUME NEW u \in Updaters, Return(u) PROVE Holding!(v)'
  BY <1>1, <1>2, <1>13 DEF Typed, Return, IsLast, Leave, Goto, sessionVars
<1>14. QED
  BY <1>3, <1>4, <1>5, <1>6, <1>7, <1>8, <1>9, <1>10, <1>11, <1>12, <1>13
     DEF ThreadsNext, UpdaterHolds

(* What a broadcast carries stays a message about an order that is there:  *)
(* nobody else changes the orders before the method ends.                  *)
LEMMA SayingStep == ThreadsInv /\ [ThreadsNext]_tvars => Saying'
<1> SUFFICES ASSUME ThreadsInv, [ThreadsNext]_tvars, NEW v \in Updaters
             PROVE  Saying!(v)'
  BY DEF Saying
<1> DEFINE Out  == {"run", "inside"}
           Walk == {"loop", "visit", "push", "post"}
<1>1. Typed /\ Holding /\ Saying
  BY DEF ThreadsInv
<1>2. v \in Threads /\ pc[v] \in Out \cup Walk
  BY <1>1 DEF Threads, Holding
<1> USE DEF Saying
<1>3. ASSUME my_orders' = my_orders, msg'[v] = msg[v],
             \/ pc'[v] = pc[v]
             \/ pc[v] \in Out /\ pc'[v] \in Out
             \/ pc[v] \in Walk /\ pc'[v] \in Walk
      PROVE  Saying!(v)'
  BY <1>1, <1>3
<1>4. CASE UNCHANGED tvars
  BY <1>3, <1>4 DEF tvars, threadVars, vars
<1>5. ASSUME NEW d \in Displays, DisplayHolds(d) \/ DisplayRuns(d)
      PROVE  Saying!(v)'
  BY <1>1, <1>3, <1>5, DisplayStepKeeps
<1>6. ASSUME NEW u \in Updaters, Guard(u) \/ Refuse(u) PROVE Saying!(v)'
  <2>1. my_orders' = my_orders /\ msg' = msg
    BY <1>6 DEF Guard, Refuse, vars
  <2>2. pc'[v] = pc[v] \/ (pc[v] \in Out /\ pc'[v] \in Out)
    BY <1>1, <1>2, <1>6 DEF Typed, Guard, Refuse, Leave, Goto
  <2>3. QED
    BY <1>3, <2>1, <2>2
<1>7. ASSUME NEW u \in Updaters, NEW m \in Announcement,
             msg' = [msg EXCEPT ![u] = <<m>>],
             m.type = "DISP_ITEM_UPDATE" => my_orders'[m.id] \in Order,
             pc[u] # "run", pc'[u] \in Walk, v # u => pc'[v] = pc[v]
      PROVE  Saying!(v)'
  <2>1. CASE u = v
    <3>1. msg'[v] = <<m>> /\ pc'[v] \notin Out
      BY <1>1, <1>2, <1>7, <2>1 DEF Typed
    <3>2. QED
      BY <1>7, <3>1
  <2>2. CASE u # v
    <3>1. pc[v] = "run"
      BY <1>1, <1>7, <2>2, OneHolder
    <3>2. pc'[v] = "run" /\ msg'[v] = << >>
      BY <1>1, <1>2, <1>7, <2>2, <3>1 DEF Typed
    <3>3. QED
      BY <3>2
  <2>3. QED
    BY <2>1, <2>2
<1>8. ASSUME NEW u \in Updaters, Method(u) PROVE Saying!(v)'
  <2>1. PICK m \in Announcement :
          /\ msg' = [msg EXCEPT ![u] = <<m>>]
          /\ m.type = "DISP_ITEM_UPDATE" => my_orders'[m.id] \in Order
    BY <1>1, <1>8, MethodTypes
  <2>2. pc[u] = "inside" /\ pc'[u] = "loop" /\ (v # u => pc'[v] = pc[v])
    BY <1>1, <1>2, <1>8 DEF Typed, Method, Goto, Threads
  <2>3. QED
    BY <1>7, <2>1, <2>2
<1>9. ASSUME NEW u \in Updaters, NEW d \in Displays,
             visit(u, d) \/ enqueue_lock(u, d) \/ push_back(u, d) \/ post(u, d)
      PROVE  Saying!(v)'
  <2>1. my_orders' = my_orders /\ msg' = msg
    BY <1>9 DEF visit, enqueue_lock, push_back, post, vars, serverVars
  <2>2. pc'[v] = pc[v] \/ (pc[v] \in Walk /\ pc'[v] \in Walk)
    BY <1>1, <1>2, <1>9
       DEF Typed, visit, enqueue_lock, push_back, post, Goto
  <2>3. QED
    BY <1>3, <2>1, <2>2
<1>10. ASSUME NEW u \in Updaters, update_item_goes_on(u) PROVE Saying!(v)'
  <2>1. PICK m \in Announcement :
          msg' = [msg EXCEPT ![u] = <<m>>] /\ m.type = "DISP_ORDER_UPDATE"
    BY <1>1, <1>10, GoesOnTypes
  <2>2. pc[u] = "loop" /\ pc' = pc
    BY <1>10 DEF update_item_goes_on
  <2>3. QED
    BY <1>7, <2>1, <2>2
<1>11. ASSUME NEW u \in Updaters, Return(u) PROVE Saying!(v)'
  <2>1. pc'[v] = "run" /\ msg'[v] = << >>
    BY <1>1, <1>2, <1>11, OneHolder
       DEF Typed, Return, IsLast, Leave, Goto
  <2>2. QED
    BY <2>1
<1>12. QED
  BY <1>4, <1>5, <1>6, <1>8, <1>9, <1>10, <1>11 DEF ThreadsNext, UpdaterHolds

-------------------------------------------------------------------------------
(* The display threads *)

(* An updater's step neither moves a display's thread nor registers or     *)
(* unregisters anybody.                                                    *)
LEMMA UpdaterStepKeeps ==
  ASSUME Typed, NEW u \in Updaters, Guard(u) \/ UpdaterHolds(u)
  PROVE  /\ UNCHANGED sessionVars
         /\ \A d \in Displays : pc'[d] = pc[d]
<1>1. \A d \in Displays : d # u /\ d \in Threads
  BY ThreadsAssumption DEF Threads
<1>2. CASE Guard(u) \/ Refuse(u)
  BY <1>1, <1>2 DEF Typed, Guard, Refuse, Leave, Goto, vars, sessionVars
<1>3. CASE Method(u) \/ update_item_goes_on(u) \/ Return(u)
  BY <1>1, <1>3
     DEF Typed, Method, update_item_goes_on, Return, Leave, Goto, sessionVars
<1>4. ASSUME NEW d \in Displays, visit(u, d) \/ enqueue_lock(u, d)
      PROVE  UNCHANGED sessionVars /\ \A e \in Displays : pc'[e] = pc[e]
  BY <1>1, <1>4 DEF Typed, visit, enqueue_lock, Goto, vars, sessionVars
<1>5. ASSUME NEW d \in Displays, push_back(u, d) \/ post(u, d)
      PROVE  UNCHANGED sessionVars /\ \A e \in Displays : pc'[e] = pc[e]
  BY <1>1, <1>5 DEF Typed, push_back, post, Goto, vars, sessionVars
<1>6. QED
  BY <1>2, <1>3, <1>4, <1>5 DEF UpdaterHolds

(* A display's thread destroys its Client only outside dequeue, and after  *)
(* it has unregistered.                                                    *)
LEMMA ServingStep == ThreadsInv /\ [ThreadsNext]_tvars => Serving'
<1> SUFFICES ASSUME ThreadsInv, [ThreadsNext]_tvars, NEW e \in Displays
             PROVE  Serving!(e)'
  BY DEF Serving
<1>1. Typed /\ Serving
  BY DEF ThreadsInv
<1>2. /\ e \in Threads /\ my_clients \subseteq Displays
      /\ phase \in [Displays -> {"idle", "login", "joined", "stream", "failed"}]
  BY <1>1 DEF Threads, Typed, TypeOK
<1> USE DEF Serving
<1>3. CASE UNCHANGED tvars
  BY <1>1, <1>3 DEF tvars, threadVars, vars
<1>4. ASSUME NEW u \in Updaters, Guard(u) \/ UpdaterHolds(u)
      PROVE  Serving!(e)'
  BY <1>1, <1>4, UpdaterStepKeeps DEF sessionVars
<1>5. ASSUME NEW d \in Displays, Start(d) PROVE Serving!(e)'
  BY <1>1, <1>2, <1>5 DEF Typed, Start, Connect, Goto
<1>6. ASSUME NEW d \in Displays, Join(d) PROVE Serving!(e)'
  BY <1>1, <1>2, <1>6 DEF Join, add_client, snapshot_orders, threadVars
<1>7. ASSUME NEW d \in Displays, Destroy(d) PROVE Serving!(e)'
  BY <1>1, <1>2, <1>7 DEF Typed, Destroy, remove_client, Goto
<1>8. ASSUME NEW d \in Displays,
             \/ StreamSnapshot(d) \/ timeout(d) \/ Stream(d)
             \/ (receive(d) \/ PeerCloses(d)) /\ UNCHANGED threadVars
      PROVE  Serving!(e)'
  <2>1. UNCHANGED <<phase, my_clients, pc>>
    BY <1>8
       DEF StreamSnapshot, SendSnapshot, timeout, Stream, receive, PeerCloses,
           threadVars, vars
  <2>2. QED
    BY <1>1, <2>1
<1>9. ASSUME NEW d \in Displays, StreamFails(d) PROVE Serving!(e)'
  BY <1>1, <1>2, <1>9 DEF StreamFails, SendFails, threadVars
<1>10. ASSUME NEW d \in Displays, sem_wait(d) PROVE Serving!(e)'
  BY <1>1, <1>2, <1>10 DEF Typed, sem_wait, CallsDequeue, Goto, vars
<1>11. ASSUME NEW d \in Displays, dequeue_lock(d) PROVE Serving!(e)'
  BY <1>1, <1>2, <1>11 DEF Typed, dequeue_lock, Goto, vars
<1>12. ASSUME NEW d \in Displays, pop_front(d) PROVE Serving!(e)'
  BY <1>1, <1>2, <1>12 DEF Typed, pop_front, Goto, sessionVars
<1>13. QED
  BY <1>3, <1>4, <1>5, <1>6, <1>7, <1>8, <1>9, <1>10, <1>11, <1>12
     DEF ThreadsNext, DisplayHolds, DisplayRuns

-------------------------------------------------------------------------------
(* m_lock and m_sem *)

(* A queue's mutex is taken and given back by the thread that is at it.    *)
LEMMA MutexStep == ThreadsInv /\ [ThreadsNext]_tvars => Mutex'
<1> SUFFICES ASSUME ThreadsInv, [ThreadsNext]_tvars, NEW e \in Displays
             PROVE  Mutex!(e)'
  BY DEF Mutex
<1>1. Typed /\ Mutex /\ Holding /\ Serving
  BY DEF ThreadsInv
<1>2. /\ e \in Threads /\ e \notin Updaters /\ e # Nobody
      /\ \A u \in Updaters : u \in Threads /\ u \notin Displays /\ u # Nobody
      /\ \A d \in Displays : d \in Threads /\ d \notin Updaters /\ d # Nobody
  BY ThreadsAssumption DEF Threads
<1> USE DEF Mutex
<1>3. ASSUME m_lock' = m_lock,
             pc'[e] = "pop" <=> pc[e] = "pop",
             \A u \in Updaters : (pc'[u] = "push" /\ e \in target'[u])
                                   <=> (pc[u] = "push" /\ e \in target[u])
      PROVE  Mutex!(e)'
  BY <1>1, <1>3
<1>4. CASE UNCHANGED tvars
  BY <1>3, <1>4 DEF tvars, threadVars
<1>5. ASSUME NEW u \in Updaters,
             \/ Guard(u) \/ Method(u) \/ Refuse(u) \/ update_item_goes_on(u)
             \/ Return(u)
      PROVE  Mutex!(e)'
  <2>1. m_lock' = m_lock /\ target' = target /\ pc'[e] = pc[e]
    BY <1>1, <1>5, UpdaterStepKeeps
       DEF UpdaterHolds, Guard, Method, Refuse, update_item_goes_on, Return
  <2>2. /\ \A v \in Updaters \ {u} : pc'[v] = pc[v]
        /\ pc[u] # "push" /\ pc'[u] # "push"
    BY <1>1, <1>2, <1>5
       DEF Typed, Guard, Method, Refuse, update_item_goes_on, Return, IsLast,
           Leave, Goto
  <2>3. QED
    BY <1>3, <2>1, <2>2
<1>6. ASSUME NEW u \in Updaters, NEW d \in Displays, visit(u, d) \/ post(u, d)
      PROVE  Mutex!(e)'
  <2>1. m_lock' = m_lock
    BY <1>6 DEF visit, post
  <2>2. /\ \A v \in Updaters \ {u} : pc'[v] = pc[v] /\ target'[v] = target[v]
        /\ pc[u] # "push" /\ pc'[u] # "push" /\ pc'[e] = pc[e]
    BY <1>1, <1>2, <1>6 DEF Typed, visit, post, Goto
  <2>3. QED
    BY <1>3, <2>1, <2>2
<1>7. ASSUME NEW u \in Updaters, NEW d \in Displays, enqueue_lock(u, d)
      PROVE  Mutex!(e)'
  <2>1. target[u] = {d} /\ target' = target
    BY <1>1, <1>7 DEF Holding, enqueue_lock, Goto
  <2>2. pc'[u] = "push" /\ \A t \in Threads \ {u} : pc'[t] = pc[t]
    BY <1>1, <1>2, <1>7 DEF Typed, enqueue_lock, Goto
  <2>3. /\ m_lock[d] = Nobody /\ m_lock'[d] = u
        /\ \A f \in Displays \ {d} : m_lock'[f] = m_lock[f]
        /\ pc[u] # "push"
    BY <1>1, <1>7 DEF Typed, enqueue_lock, Goto
  <2>4. QED
    BY <1>1, <1>2, <2>1, <2>2, <2>3
<1>8. ASSUME NEW u \in Updaters, NEW d \in Displays, push_back(u, d)
      PROVE  Mutex!(e)'
  <2>1. target[u] = {d} /\ target' = target
    BY <1>1, <1>8 DEF Holding, push_back, Goto
  <2>2. /\ pc[u] = "push" /\ pc'[u] = "post"
        /\ \A t \in Threads \ {u} : pc'[t] = pc[t]
    BY <1>1, <1>2, <1>8 DEF Typed, push_back, Goto
  <2>3. /\ m_lock'[d] = Nobody
        /\ \A f \in Displays \ {d} : m_lock'[f] = m_lock[f]
    BY <1>1, <1>8 DEF Typed, push_back
  <2>4. QED
    BY <1>1, <1>2, <2>1, <2>2, <2>3
<1>9. ASSUME NEW d \in Displays, DisplayRuns(d) PROVE Mutex!(e)'
  <2>1. UNCHANGED <<m_lock, target>> /\ \A u \in Updaters : pc'[u] = pc[u]
    <3>1. m_lock' = m_lock
      BY <1>9
         DEF DisplayRuns, Start, Join, Destroy, StreamSnapshot, sem_wait,
             timeout, Stream, StreamFails, threadVars
    <3>2. QED
      BY <1>1, <1>9, <3>1, DisplayStepKeeps
  <2>2. pc'[e] = "pop" <=> pc[e] = "pop"
    BY <1>1, <1>2, <1>9
       DEF Typed, DisplayRuns, Start, Join, Destroy, StreamSnapshot, sem_wait,
           timeout, Stream, StreamFails, Goto, threadVars
  <2>3. QED
    BY <1>3, <2>1, <2>2
<1>10. ASSUME NEW d \in Displays, dequeue_lock(d) \/ pop_front(d)
       PROVE  Mutex!(e)'
  <2>1. target' = target /\ \A u \in Updaters : pc'[u] = pc[u]
    BY <1>1, <1>10, DisplayStepKeeps DEF DisplayHolds
  <2>2. /\ pc'[d] = "pop" <=> pc[d] # "pop"
        /\ \A f \in Displays \ {d} : pc'[f] = pc[f] /\ m_lock'[f] = m_lock[f]
        /\ pc[d] # "pop" => m_lock[d] = Nobody /\ m_lock'[d] = d
        /\ pc[d] = "pop" => m_lock[d] = d /\ m_lock'[d] = Nobody
    BY <1>1, <1>2, <1>10 DEF Typed, dequeue_lock, pop_front, Goto
  <2>3. QED
    BY <1>1, <1>2, <2>1, <2>2
<1>11. QED
  BY <1>4, <1>5, <1>6, <1>7, <1>8, <1>9, <1>10
     DEF ThreadsNext, UpdaterHolds, DisplayHolds

(* The semaphore never promises a message that is not there: it is posted  *)
(* after the push, and waited for before the pop.                          *)
LEMMA CountingStep == ThreadsInv /\ [ThreadsNext]_tvars => Counting'
<1> SUFFICES ASSUME ThreadsInv, [ThreadsNext]_tvars, NEW e \in Displays
             PROVE  (m_sem[e] + Taken(e) + Owed(e) <= Len(queue[e]))'
  BY DEF Counting
<1>1. Typed /\ Counting /\ Holding /\ Serving
  BY DEF ThreadsInv
<1>2. /\ e \in Threads /\ e \notin Updaters
      /\ \A u \in Updaters : u \in Threads /\ u \notin Displays
      /\ \A d \in Displays : d \in Threads
  BY ThreadsAssumption DEF Threads
<1>3. /\ m_sem[e] \in Nat /\ Taken(e) \in {0, 1} /\ Owed(e) \in {0, 1}
      /\ m_sem[e] + Taken(e) + Owed(e) <= Len(queue[e])
      /\ queue[e] \in Seq(DisplayMessage) /\ Len(queue[e]) \in Nat
  <2>1. m_sem[e] \in Nat /\ queue[e] \in Seq(DisplayMessage)
    BY <1>1 DEF Typed, TypeOK
  <2>2. Taken(e) \in {0, 1} /\ Owed(e) \in {0, 1}
    BY DEF Taken, Owed
  <2>3. m_sem[e] + Taken(e) + Owed(e) <= Len(queue[e])
    BY <1>1 DEF Counting
  <2>4. QED
    BY <2>1, <2>2, <2>3
<1>4. ASSUME m_sem'[e] = m_sem[e], Taken(e)' = Taken(e), Owed(e)' = Owed(e),
             queue'[e] = queue[e]
      PROVE  (m_sem[e] + Taken(e) + Owed(e) <= Len(queue[e]))'
  BY <1>3, <1>4
<1>5. CASE UNCHANGED tvars
  BY <1>3, <1>5 DEF tvars, threadVars, vars, Taken, Owed
<1>6. ASSUME NEW u \in Updaters,
             \/ Guard(u) \/ Method(u) \/ Refuse(u) \/ update_item_goes_on(u)
             \/ Return(u)
      PROVE  (m_sem[e] + Taken(e) + Owed(e) <= Len(queue[e]))'
  <2>1. UNCHANGED <<m_sem, queue, target>> /\ pc'[e] = pc[e]
    BY <1>1, <1>6, UpdaterStepKeeps
       DEF UpdaterHolds, Guard, Method, Refuse, update_item_goes_on, Return, vars
  <2>2. /\ \A v \in Updaters \ {u} : pc'[v] = pc[v]
        /\ pc[u] # "post" /\ pc'[u] # "post"
    BY <1>1, <1>2, <1>6
       DEF Typed, Guard, Method, Refuse, update_item_goes_on, Return, IsLast,
           Leave, Goto
  <2>3. QED
    BY <1>4, <2>1, <2>2 DEF Taken, Owed
<1>7. ASSUME NEW u \in Updaters, NEW d \in Displays,
             visit(u, d) \/ enqueue_lock(u, d)
      PROVE  (m_sem[e] + Taken(e) + Owed(e) <= Len(queue[e]))'
  <2>1. UNCHANGED <<m_sem, queue>>
    BY <1>7 DEF visit, enqueue_lock, vars
  <2>2. /\ \A v \in Updaters \ {u} : pc'[v] = pc[v] /\ target'[v] = target[v]
        /\ pc[u] # "post" /\ pc'[u] # "post" /\ pc'[e] = pc[e]
    BY <1>1, <1>2, <1>7 DEF Typed, visit, enqueue_lock, Goto
  <2>3. QED
    BY <1>4, <2>1, <2>2 DEF Taken, Owed
<1>8. ASSUME NEW u \in Updaters, NEW d \in Displays, push_back(u, d)
      PROVE  (m_sem[e] + Taken(e) + Owed(e) <= Len(queue[e]))'
  <2>1. /\ target[u] = {d} /\ UNCHANGED <<m_sem, target>>
        /\ pc[u] = "push" /\ pc'[u] = "post"
        /\ \A t \in Threads \ {u} : pc'[t] = pc[t]
    BY <1>1, <1>2, <1>8 DEF Typed, Holding, push_back, Goto
  <2>2. Taken(e)' = Taken(e)
    BY <1>2, <2>1 DEF Taken
  <2>3. CASE e = d
    <3>1. PICK m \in Announcement : msg[u] = <<m>>
      BY <2>1, <1>1 DEF ThreadsInv, Saying
    <3>2. queue'[e] = queue[e] \o <<m>>
      BY <1>1, <1>8, <2>3, <3>1 DEF push_back, Typed, TypeOK
    <3>3. Len(queue'[e]) = Len(queue[e]) + 1
      BY <1>3, <3>2
    <3>4. Owed(e) = 0
      <4>1. \A v \in Updaters : pc[v] = "post" => v = u
        BY <1>1, <2>1, OneHolder
      <4>2. QED
        BY <2>1, <4>1 DEF Owed
    <3>5. Owed(e)' \in {0, 1}
      BY DEF Owed
    <3>6. QED
      BY <1>3, <2>1, <2>2, <3>3, <3>4, <3>5
  <2>4. CASE e # d
    <3>1. queue'[e] = queue[e]
      BY <1>1, <1>8, <2>4 DEF push_back, Typed, TypeOK
    <3>2. Owed(e)' = Owed(e)
      BY <1>2, <2>1, <2>4 DEF Owed
    <3>3. QED
      BY <1>4, <2>1, <2>2, <3>1, <3>2
  <2>5. QED
    BY <2>3, <2>4
<1>9. ASSUME NEW u \in Updaters, NEW d \in Displays, post(u, d)
      PROVE  (m_sem[e] + Taken(e) + Owed(e) <= Len(queue[e]))'
  <2>1. /\ target[u] = {d} /\ target'[u] = {}
        /\ \A v \in Updaters \ {u} : target'[v] = target[v]
        /\ pc[u] = "post" /\ pc'[u] = "loop" /\ queue' = queue
        /\ \A t \in Threads \ {u} : pc'[t] = pc[t]
    BY <1>1, <1>2, <1>9 DEF Typed, Holding, post, Goto, vars
  <2>2. Taken(e)' = Taken(e)
    BY <1>2, <2>1 DEF Taken
  <2>3. CASE e = d
    <3>1. m_sem'[e] = m_sem[e] + 1
      BY <1>1, <1>9, <2>3 DEF post, Typed
    <3>2. Owed(e) = 1
      BY <2>1, <2>3 DEF Owed
    <3>3. Owed(e)' = 0
      <4>1. \A v \in Updaters : pc[v] = "post" => v = u
        BY <1>1, <2>1, OneHolder
      <4>2. \A v \in Updaters : pc'[v] # "post"
        BY <1>2, <2>1, <4>1
      <4>3. QED
        BY <4>2 DEF Owed
    <3>4. QED
      BY <1>3, <2>1, <2>2, <3>1, <3>2, <3>3
  <2>4. CASE e # d
    <3>1. m_sem'[e] = m_sem[e]
      BY <1>1, <1>9, <2>4 DEF post, Typed
    <3>2. Owed(e)' = Owed(e)
      BY <1>2, <2>1, <2>4 DEF Owed
    <3>3. QED
      BY <1>4, <2>1, <2>2, <3>1, <3>2
  <2>5. QED
    BY <2>3, <2>4
<1>10. ASSUME NEW d \in Displays, DisplayHolds(d) \/ DisplayRuns(d)
       PROVE  Owed(e)' = Owed(e)
  BY <1>1, <1>10, DisplayStepKeeps DEF Owed
<1>11. ASSUME NEW d \in Displays, Destroy(d)
       PROVE  (m_sem[e] + Taken(e) + Owed(e) <= Len(queue[e]))'
  <2>1. Owed(e)' = Owed(e)
    BY <1>10, <1>11 DEF DisplayRuns
  <2>2. CASE e = d
    <3>1. m_sem'[e] = 0 /\ Len(queue'[e]) = 0 /\ pc'[e] = "out"
      BY <1>1, <1>2, <1>11, <2>2
         DEF Destroy, remove_client, Goto, Typed, TypeOK
    <3>2. Owed(e) = 0
      BY <1>1, <1>11, ThreadsAssumption DEF Destroy, Owed, Holding
    <3>3. Taken(e)' = 0
      BY <3>1 DEF Taken
    <3>4. QED
      BY <2>1, <3>1, <3>2, <3>3
  <2>3. CASE e # d
    <3>1. m_sem'[e] = m_sem[e] /\ queue'[e] = queue[e] /\ pc'[e] = pc[e]
      BY <1>1, <1>2, <1>11, <2>3
         DEF Destroy, remove_client, Goto, Typed, TypeOK
    <3>2. QED
      BY <1>4, <2>1, <3>1 DEF Taken
  <2>4. QED
    BY <2>2, <2>3
<1>12. ASSUME NEW d \in Displays, sem_wait(d)
       PROVE  (m_sem[e] + Taken(e) + Owed(e) <= Len(queue[e]))'
  <2>1. Owed(e)' = Owed(e) /\ queue' = queue
    BY <1>10, <1>12 DEF DisplayRuns, sem_wait, vars
  <2>2. CASE e = d
    <3>1. m_sem'[e] = m_sem[e] - 1 /\ pc[e] = "run" /\ pc'[e] = "token"
      BY <1>1, <1>2, <1>12, <2>2 DEF sem_wait, Goto, Typed
    <3>2. Taken(e) = 0 /\ Taken(e)' = 1
      BY <3>1 DEF Taken
    <3>3. QED
      BY <1>3, <2>1, <3>1, <3>2
  <2>3. CASE e # d
    <3>1. m_sem'[e] = m_sem[e] /\ pc'[e] = pc[e]
      BY <1>1, <1>2, <1>12, <2>3 DEF sem_wait, Goto, Typed
    <3>2. QED
      BY <1>4, <2>1, <3>1 DEF Taken
  <2>4. QED
    BY <2>2, <2>3
<1>13. ASSUME NEW d \in Displays, dequeue_lock(d)
       PROVE  (m_sem[e] + Taken(e) + Owed(e) <= Len(queue[e]))'
  <2>1. Owed(e)' = Owed(e) /\ queue' = queue /\ m_sem' = m_sem
    BY <1>10, <1>13 DEF DisplayHolds, dequeue_lock, vars
  <2>2. Taken(e)' = Taken(e)
    BY <1>1, <1>2, <1>13 DEF dequeue_lock, Goto, Typed, Taken
  <2>3. QED
    BY <1>4, <2>1, <2>2
<1>14. ASSUME NEW d \in Displays, pop_front(d)
       PROVE  (m_sem[e] + Taken(e) + Owed(e) <= Len(queue[e]))'
  <2>1. Owed(e)' = Owed(e) /\ m_sem' = m_sem
    BY <1>10, <1>14 DEF DisplayHolds, pop_front
  <2>2. CASE e = d
    <3>1. queue[e] # << >>
      BY <1>14, <2>2, QueueHolds
    <3>2. queue'[e] = Tail(queue[e]) /\ pc[e] = "pop" /\ pc'[e] = "run"
      BY <1>1, <1>2, <1>14, <2>2 DEF pop_front, Goto, Typed, TypeOK
    <3>3. Len(queue'[e]) = Len(queue[e]) - 1
      BY <1>3, <3>1, <3>2
    <3>4. Taken(e) = 1 /\ Taken(e)' = 0
      BY <3>2 DEF Taken
    <3>5. QED
      BY <1>3, <2>1, <3>3, <3>4
  <2>3. CASE e # d
    <3>1. queue'[e] = queue[e] /\ pc'[e] = pc[e]
      BY <1>1, <1>2, <1>14, <2>3 DEF pop_front, Goto, Typed, TypeOK
    <3>2. QED
      BY <1>4, <2>1, <3>1 DEF Taken
  <2>4. QED
    BY <2>2, <2>3
<1>15. ASSUME NEW d \in Displays,
              \/ Start(d) \/ Join(d) \/ StreamSnapshot(d) \/ timeout(d)
              \/ Stream(d) \/ StreamFails(d)
              \/ (receive(d) \/ PeerCloses(d)) /\ UNCHANGED threadVars
       PROVE  (m_sem[e] + Taken(e) + Owed(e) <= Len(queue[e]))'
  <2>1. Owed(e)' = Owed(e)
    BY <1>10, <1>15 DEF DisplayRuns
  <2>2. UNCHANGED <<m_sem, queue>>
    BY <1>15
       DEF Start, Connect, Join, add_client, snapshot_orders, StreamSnapshot,
           SendSnapshot, timeout, Stream, StreamFails, SendFails, receive,
           PeerCloses, threadVars, vars
  <2>3. Taken(e)' = Taken(e)
    BY <1>1, <1>2, <1>15
       DEF Typed, Start, Join, StreamSnapshot, timeout, Stream, StreamFails,
           Goto, threadVars, Taken
  <2>4. QED
    BY <1>4, <2>1, <2>2, <2>3
<1>16. QED
  BY <1>5, <1>6, <1>7, <1>8, <1>9, <1>11, <1>12, <1>13, <1>14, <1>15
     DEF ThreadsNext, UpdaterHolds, DisplayHolds, DisplayRuns

-------------------------------------------------------------------------------
(* The theorems *)

LEMMA ThreadsInvInit == ThreadsInit => ThreadsInv
<1> SUFFICES ASSUME ThreadsInit PROVE ThreadsInv
  OBVIOUS
<1>1. TypeOK
  BY TypeInit DEF ThreadsInit
<1>2. /\ \A d \in Displays : d \in Threads /\ d \notin Updaters /\ d # Nobody
      /\ \A u \in Updaters : u \in Threads /\ u # Nobody
  BY ThreadsAssumption DEF Threads
<1>3. Typed
  BY <1>1 DEF ThreadsInit, Typed, Places, Hand
<1>4. Holding /\ Saying
  BY <1>2 DEF ThreadsInit, Holding, Saying
<1>5. Serving
  BY <1>2 DEF ThreadsInit, Init, Serving
<1>6. Mutex
  BY <1>2 DEF ThreadsInit, Mutex
<1>7. Counting
  <2>1. ASSUME NEW d \in Displays
        PROVE  /\ m_sem[d] = 0 /\ Len(queue[d]) = 0
               /\ Taken(d) = 0 /\ Owed(d) = 0
    BY <1>2, <2>1 DEF ThreadsInit, Init, Taken, Owed
  <2>2. QED
    BY <2>1 DEF Counting
<1>8. QED
  BY <1>3, <1>4, <1>5, <1>6, <1>7 DEF ThreadsInv

LEMMA ThreadsInvariant == ThreadsSpec => []ThreadsInv
<1>1. ThreadsInv /\ [ThreadsNext]_tvars => ThreadsInv'
  BY TypedStep, HoldingStep, SayingStep, ServingStep, MutexStep, CountingStep
     DEF ThreadsInv
<1>2. QED
  BY <1>1, ThreadsInvInit, PTL DEF ThreadsSpec

(* Every variable keeps its type, and a semaphore never promises more      *)
(* messages than its queue holds.                                          *)
THEOREM ThreadsTypeCorrect == ThreadsSpec => []ThreadsTypeOK
<1>1. ThreadsInv => ThreadsTypeOK
  <2> SUFFICES ASSUME ThreadsInv PROVE ThreadsTypeOK
    OBVIOUS
  <2>1. Typed
    BY DEF ThreadsInv
  <2>2. ASSUME NEW h \in Hand PROVE h \in Seq(DisplayMessage) /\ Len(h) <= 1
    <3>1. CASE h = << >>
      BY <3>1
    <3>2. ASSUME NEW m \in DisplayMessage, h = <<m>>
          PROVE  h \in Seq(DisplayMessage) /\ Len(h) <= 1
      <4>1. <<m>> \in Seq(DisplayMessage) /\ Len(<<m>>) = 1
        OBVIOUS
      <4>2. QED
        BY <3>2, <4>1
    <3>3. QED
      BY <3>1, <3>2 DEF Hand
  <2>3. /\ msg \in [Threads -> Seq(DisplayMessage)]
        /\ \A t \in Threads : Len(msg[t]) <= 1
    BY <2>1, <2>2 DEF Typed
  <2>4. ASSUME NEW d \in Displays PROVE m_sem[d] <= Len(queue[d])
    <3>1. m_sem[d] \in Nat /\ queue[d] \in Seq(DisplayMessage)
      BY <2>1 DEF Typed, TypeOK
    <3>2. Taken(d) \in {0, 1} /\ Owed(d) \in {0, 1}
      BY DEF Taken, Owed
    <3>3. m_sem[d] + Taken(d) + Owed(d) <= Len(queue[d])
      BY DEF ThreadsInv, Counting
    <3>4. QED
      BY <3>1, <3>2, <3>3
  <2>5. QED
    BY <2>1, <2>3, <2>4 DEF Typed, ThreadsTypeOK, Places
<1>2. QED
  BY <1>1, ThreadsInvariant, PTL

(* broadcast never visits a Client that may have been destroyed: its walk  *)
(* is over registered clients, and unregistering needs the lock it holds.  *)
THEOREM NeverUsedAfterDestroy == ThreadsSpec => []NoUseAfterDestroy
<1>1. ThreadsInv => NoUseAfterDestroy
  <2> SUFFICES ASSUME ThreadsInv, NEW u \in Updaters,
                      NEW d \in left[u] \cup target[u]
               PROVE  pc[d] # "out"
    BY DEF NoUseAfterDestroy
  <2>1. d \in my_clients /\ d \in Displays
    BY DEF ThreadsInv, Holding, Typed, TypeOK
  <2>2. QED
    BY <2>1 DEF ThreadsInv, Serving
<1>2. QED
  BY <1>1, ThreadsInvariant, PTL

(* The threads never wait for each other in a circle, however many there   *)
(* are: the owner of my_lock waits at most for a display's thread in a     *)
(* queue, and that thread waits for nobody.                                *)
THEOREM NeverCircularWait == ThreadsSpec => []NoCircularWait
<1>1. ThreadsInv => NoCircularWait
  <2> SUFFICES ASSUME ThreadsInv, NEW S \in SUBSET Threads, NEW t \in S
               PROVE  \E w \in S : WaitsFor(w) \notin S
    BY DEF NoCircularWait
  <2>1. Typed /\ Holding /\ Serving /\ Mutex
    BY DEF ThreadsInv
  <2>2. /\ Nobody \notin S
        /\ \A w \in S : w \in Updaters \/ w \in Displays
        /\ \A u \in Updaters : u \notin Displays
    BY ThreadsAssumption DEF Threads
  <2>3. CASE my_lock \in S
    <3>1. my_lock \in Updaters
      BY <2>1, <2>2, <2>3 DEF Typed
    <3>2. pc[my_lock] \in {"inside", "loop", "visit", "push", "post"}
      BY <2>1, <3>1 DEF Holding
    <3>3. CASE pc[my_lock] # "visit"
      BY <2>2, <2>3, <3>2, <3>3 DEF WaitsFor
    <3>4. CASE pc[my_lock] = "visit"
      <4>1. PICK d \in Displays : target[my_lock] = {d}
        BY <2>1, <3>1, <3>4 DEF Holding
      <4>2. WaitsFor(my_lock) = m_lock[d]
        BY <3>4, <4>1 DEF WaitsFor
      <4>3. m_lock[d] \notin Updaters
        BY <2>1, <3>1, <3>4 DEF Holding, Mutex
      <4>4. m_lock[d] \in {Nobody, d}
        BY <2>1, <4>3 DEF Typed, Mutex, Threads
      <4>5. CASE m_lock[d] = d /\ d \in S
        <5>1. pc[d] = "pop"
          BY <2>1, <4>5 DEF Mutex
        <5>2. QED
          BY <2>2, <4>5, <5>1 DEF WaitsFor
      <4>6. QED
        BY <2>2, <2>3, <4>2, <4>4, <4>5
    <3>5. QED
      BY <3>3, <3>4
  <2>4. CASE my_lock \notin S
    <3>1. CASE pc[t] = "visit"
      BY <2>1, <2>2, <2>4, <3>1 DEF Holding, Serving
    <3>2. CASE pc[t] = "token"
      <4>1. t \in Displays /\ WaitsFor(t) = m_lock[t]
        BY <2>1, <2>2, <3>2 DEF Holding, WaitsFor
      <4>2. m_lock[t] # t /\ m_lock[t] \notin Displays
        BY <2>1, <3>2, <4>1 DEF Mutex
      <4>3. CASE m_lock[t] \in Updaters
        <5>1. my_lock = m_lock[t]
          BY <2>1, <4>1, <4>3 DEF Holding, Mutex
        <5>2. QED
          BY <2>4, <4>1, <5>1
      <4>4. QED
        BY <2>1, <2>2, <4>1, <4>2, <4>3 DEF Typed, Threads
    <3>3. CASE pc[t] \notin {"visit", "token"}
      BY <2>2, <2>4, <3>3 DEF WaitsFor
    <3>4. QED
      BY <3>1, <3>2, <3>3
  <2>5. QED
    BY <2>3, <2>4
<1>2. QED
  BY <1>1, ThreadsInvariant, PTL

-------------------------------------------------------------------------------
(* The threads with their locks implement Server, in which every method is *)
(* one step: Threads!IsAtomic.                                             *)
(*                                                                         *)
(* At most one method is under way (Holding).  If none is, the orders are  *)
(* my_orders, and a queue is what its thread has in hand and what is in    *)
(* it; these are the lemmas on quiet states.  If one is, the lemmas on     *)
(* busy states say what it will still do.                                  *)

(* Only broadcasts are queued. *)
Queued == queue \in [Displays -> Seq(Announcement)]

(* A display's thread has a message in hand only while it streams, and     *)
(* looks at its queue only when its snapshot has been sent.                *)
Streaming ==
  \A d \in Displays :
    /\ msg[d] # << >> => /\ pc[d] = "run"
                         /\ phase[d] \in {"stream", "failed"}
                         /\ backlog[d] = << >>
    /\ pc[d] \in {"token", "pop"} => backlog[d] = << >>

AtomicInv == ThreadsInv /\ Queued /\ Streaming

LEMMA QueuedStep == ThreadsInv /\ Queued /\ [ThreadsNext]_tvars => Queued'
<1> SUFFICES ASSUME ThreadsInv, Queued, [ThreadsNext]_tvars PROVE Queued'
  OBVIOUS
<1> USE DEF Queued
<1>1. CASE queue' = queue
  BY <1>1
<1>2. ASSUME NEW u \in Updaters, NEW d \in Displays, push_back(u, d)
      PROVE  Queued'
  <2>1. PICK m \in Announcement : msg[u] = <<m>>
    BY <1>2 DEF ThreadsInv, Saying, push_back, Goto
  <2>2. queue[d] \o msg[u] \in Seq(Announcement)
    BY <2>1, ConcatProperties
  <2>3. QED
    BY <1>2, <2>2 DEF push_back
<1>3. ASSUME NEW d \in Displays, pop_front(d) PROVE Queued'
  <2>1. queue[d] \in Seq(Announcement) /\ queue[d] # << >>
    BY <1>3, QueueHolds
  <2>2. Tail(queue[d]) \in Seq(Announcement)
    BY <2>1
  <2>3. QED
    BY <1>3, <2>2 DEF pop_front
<1>4. ASSUME NEW d \in Displays, Destroy(d) PROVE Queued'
  <2>1. << >> \in Seq(Announcement)
    OBVIOUS
  <2>2. QED
    BY <1>4, <2>1 DEF Destroy, remove_client
<1>5. QED
  BY <1>1, <1>2, <1>3, <1>4
     DEF ThreadsNext, UpdaterHolds, DisplayHolds, DisplayRuns, Guard, Method,
         Refuse, visit, enqueue_lock, post, update_item_goes_on, Return, Start,
         Connect, Join, add_client, snapshot_orders, StreamSnapshot,
         SendSnapshot, sem_wait, timeout, dequeue_lock, Stream, StreamFails,
         SendFails, receive, PeerCloses, vars, tvars

LEMMA StreamingStep == ThreadsInv /\ Streaming /\ [ThreadsNext]_tvars => Streaming'
<1> SUFFICES ASSUME ThreadsInv, Streaming, [ThreadsNext]_tvars,
                    NEW e \in Displays
             PROVE  Streaming!(e)'
  BY DEF Streaming
<1>1. Typed /\ Serving
  BY DEF ThreadsInv
<1>2. /\ e \in Threads /\ e \notin Updaters
      /\ phase \in [Displays -> {"idle", "login", "joined", "stream", "failed"}]
      /\ backlog \in [Displays -> Seq(DisplayMessage)]
  BY <1>1, ThreadsAssumption DEF Threads, Typed, TypeOK
<1> USE DEF Streaming
<1>3. ASSUME pc'[e] = pc[e], msg'[e] = msg[e], phase'[e] = phase[e],
             backlog'[e] = backlog[e]
      PROVE  Streaming!(e)'
  BY <1>3
<1>4. CASE UNCHANGED tvars
  BY <1>3, <1>4 DEF tvars, threadVars, vars
<1>5. ASSUME NEW u \in Updaters, Guard(u) \/ UpdaterHolds(u)
      PROVE  Streaming!(e)'
  <2>1. pc'[e] = pc[e] /\ phase' = phase /\ backlog' = backlog
    BY <1>1, <1>5, UpdaterStepKeeps DEF sessionVars
  <2>2. msg'[e] = msg[e]
    BY <1>1, <1>2, <1>5
       DEF Typed, UpdaterHolds, Guard, Method, Refuse, visit, enqueue_lock,
           push_back, post, update_item_goes_on, Return, Broadcast,
           create_order_starts, update_item_starts, update_order_starts
  <2>3. QED
    BY <1>3, <2>1, <2>2
<1>6. ASSUME NEW d \in Displays, DisplayHolds(d) \/ DisplayRuns(d), e # d
      PROVE  Streaming!(e)'
  <2>1. pc'[e] = pc[e] /\ msg'[e] = msg[e]
    BY <1>1, <1>2, <1>6
       DEF Typed, DisplayHolds, DisplayRuns, Start, Join, Destroy,
           StreamSnapshot, sem_wait, timeout, dequeue_lock, pop_front, Stream,
           StreamFails, Goto, threadVars
  <2>2. phase'[e] = phase[e] /\ backlog'[e] = backlog[e]
    BY <1>2, <1>6
       DEF DisplayHolds, DisplayRuns, Start, Connect, Join, add_client,
           snapshot_orders, Destroy, remove_client, StreamSnapshot,
           SendSnapshot, sem_wait, timeout, dequeue_lock, pop_front, Stream,
           StreamFails, SendFails, receive, PeerCloses, vars, sessionVars
  <2>3. QED
    BY <1>3, <2>1, <2>2
<1>7. CASE DisplayHolds(e)
  BY <1>1, <1>2, <1>7
     DEF Typed, Serving, DisplayHolds, dequeue_lock, pop_front, Goto, vars,
         sessionVars
<1>8. CASE Start(e) \/ Destroy(e)
  BY <1>1, <1>2, <1>8
     DEF Typed, Serving, Start, Destroy, Connect, remove_client, Goto
<1>9. CASE Join(e) \/ StreamSnapshot(e) \/ StreamFails(e)
  BY <1>1, <1>2, <1>9
     DEF Join, StreamSnapshot, StreamFails, add_client, snapshot_orders,
         SendSnapshot, SendFails, threadVars
<1>10. CASE sem_wait(e) \/ timeout(e) \/ Stream(e)
  BY <1>1, <1>2, <1>10
     DEF Typed, sem_wait, timeout, Stream, CallsDequeue, Goto, vars
<1>11. CASE (receive(e) \/ PeerCloses(e)) /\ UNCHANGED threadVars
  BY <1>3, <1>11 DEF receive, PeerCloses, threadVars
<1>12. QED
  BY <1>4, <1>5, <1>6, <1>7, <1>8, <1>9, <1>10, <1>11
     DEF ThreadsNext, DisplayRuns

LEMMA AtomicInvariant == ThreadsSpec => []AtomicInv
<1>1. ThreadsInit => Queued /\ Streaming
  <2> SUFFICES ASSUME ThreadsInit PROVE Queued /\ Streaming
    OBVIOUS
  <2>1. << >> \in Seq(Announcement)
    OBVIOUS
  <2>2. \A d \in Displays : d \in Threads /\ d \notin Updaters
    BY ThreadsAssumption DEF Threads
  <2>3. QED
    BY <2>1, <2>2 DEF ThreadsInit, Init, Queued, Streaming
<1>2. QED
  BY <1>1, QueuedStep, StreamingStep, ThreadsInvariant, PTL
     DEF ThreadsSpec, AtomicInv

-------------------------------------------------------------------------------
(* The mapping *)

LEMMA InHandType ==
  ASSUME AtomicInv, NEW d \in Displays
  PROVE  InHand(d) \in Seq(DisplayMessage)
<1>1. msg[d] \in Hand
  BY DEF AtomicInv, ThreadsInv, Typed, Threads
<1>2. ASSUME NEW m \in DisplayMessage PROVE <<m>> \in Seq(DisplayMessage)
  OBVIOUS
<1>3. << >> \in Seq(DisplayMessage)
  OBVIOUS
<1>4. QED
  BY <1>1, <1>2, <1>3 DEF Hand, InHand

LEMMA InHandTypeNext ==
  ASSUME AtomicInv', NEW d \in Displays
  PROVE  InHand(d)' \in Seq(DisplayMessage)
<1>1. msg'[d] \in Hand
  BY DEF AtomicInv, ThreadsInv, Typed, Threads
<1>2. ASSUME NEW m \in DisplayMessage PROVE <<m>> \in Seq(DisplayMessage)
  OBVIOUS
<1>3. << >> \in Seq(DisplayMessage)
  OBVIOUS
<1>4. QED
  BY <1>1, <1>2, <1>3 DEF Hand, InHand

Quiet == \A u \in Updaters : pc[u] \in {"run", "inside"}

(* With no method under way the mapping shows the state as it is. *)
ShownAsIs ==
  /\ Broadcasting = {}
  /\ AtomicOrders = my_orders
  /\ AtomicQueue = [d \in Displays |-> InHand(d) \o queue[d]]

LEMMA QuietMapping == AtomicInv /\ Quiet => ShownAsIs
<1> SUFFICES ASSUME AtomicInv, Quiet PROVE ShownAsIs
  OBVIOUS
<1>1. Broadcasting = {}
  BY DEF AtomicInv, ThreadsInv, Saying, Quiet, Broadcasting
<1>2. AtomicOrders = my_orders
  <2>1. my_orders = [id \in OrderIds |-> my_orders[id]]
    BY DEF AtomicInv, ThreadsInv, Typed, TypeOK
  <2>2. QED
    BY <1>1, <2>1 DEF AtomicOrders
<1>3. ASSUME NEW d \in Displays
      PROVE  AtomicQueue[d] = InHand(d) \o queue[d]
  <2>1. InHand(d) \o queue[d] \in Seq(DisplayMessage)
    BY InHandType, ConcatProperties DEF AtomicInv, ThreadsInv, Typed, TypeOK
  <2>2. QED
    BY <1>1, <2>1, ConcatEmptySeq DEF AtomicQueue
<1>4. QED
  BY <1>1, <1>2, <1>3 DEF AtomicQueue, ShownAsIs

LEMMA QuietMappingNext == AtomicInv' /\ Quiet' => ShownAsIs'
BY QuietMapping, PTL

(* Updater u is in a method, in its broadcast of m. *)
Busy(u, m) ==
  /\ pc[u] \in {"loop", "visit", "push", "post"}
  /\ msg[u] = <<m>>

(* What the method will make of the orders, and what it will still put     *)
(* into the queue of d: m itself, and a second message.                    *)
EndOrders(m) ==
  [id \in OrderIds |->
    IF m = DispOrderUpdate(id, "DELIVERED") THEN NoOrder
    ELSE IF m.id = id /\ StatusToChange(m)
         THEN [my_orders[id] EXCEPT !.status = StatusNow(m)]
    ELSE my_orders[id]]

Pending(u, d, m) ==
  IF d \in left[u] \/ (d \in target[u] /\ pc[u] \in {"visit", "push"})
  THEN <<m>> ELSE << >>

Trail(d, m) ==
  IF d \in my_clients /\ StatusToChange(m)
  THEN <<DispOrderUpdate(m.id, StatusNow(m))>> ELSE << >>

ShownAhead(u, m) ==
  /\ Broadcasting = {u}
  /\ AtomicOrders = EndOrders(m)
  /\ AtomicQueue = [d \in Displays |->
                     InHand(d) \o queue[d] \o (Pending(u, d, m) \o Trail(d, m))]

LEMMA BusyMapping ==
  ASSUME NEW u \in Updaters, NEW m
  PROVE  AtomicInv /\ Busy(u, m) => ShownAhead(u, m)
<1> SUFFICES ASSUME AtomicInv, Busy(u, m) PROVE ShownAhead(u, m)
  OBVIOUS
<1>1. Broadcasting = {u}
  <2>1. Holding /\ Saying
    BY DEF AtomicInv, ThreadsInv
  <2>2. \A v \in Updaters \ {u} : pc[v] = "run"
    BY <2>1, OneHolder DEF Busy
  <2>3. \A v \in Updaters \ {u} : msg[v] = << >>
    BY <2>1, <2>2 DEF Saying
  <2>4. msg[u] # << >>
    BY DEF Busy
  <2>5. QED
    BY <2>3, <2>4 DEF Broadcasting
<1>2. msg[u][1] = m
  BY DEF Busy
<1>3. Second(u) = (IF StatusToChange(m)
                   THEN <<DispOrderUpdate(m.id, StatusNow(m))>> ELSE << >>)
  BY <1>2 DEF Second
<1>4. Second(u) # << >> <=> StatusToChange(m)
  BY <1>3
<1>5. StatusToChange(m) => Second(u)[1].status = StatusNow(m)
  BY <1>3 DEF DispOrderUpdate
<1>6. ASSUME NEW id \in OrderIds
      PROVE  AtomicOrders[id] = EndOrders(m)[id]
  <2>1. (CHOOSE v \in Broadcasting : msg[v][1].id = id) = u
        \/ m.id # id
    BY <1>1, <1>2
  <2>2. QED
    BY <1>1, <1>2, <1>4, <1>5, <2>1 DEF AtomicOrders, EndOrders
<1>7. AtomicOrders = EndOrders(m)
  BY <1>6 DEF AtomicOrders, EndOrders
<1>8. ASSUME NEW d \in Displays
      PROVE  ToCome(u, d) = Pending(u, d, m) \o Trail(d, m)
  BY <1>3 DEF ToCome, Pending, Trail, Busy
<1>9. (CHOOSE v \in Broadcasting : TRUE) = u /\ Broadcasting # {}
  BY <1>1
<1>10. AtomicQueue = [d \in Displays |->
                       InHand(d) \o queue[d] \o (Pending(u, d, m) \o Trail(d, m))]
  BY <1>8, <1>9 DEF AtomicQueue
<1>11. QED
  BY <1>1, <1>7, <1>10 DEF ShownAhead

LEMMA BusyMappingNext ==
  ASSUME NEW u \in Updaters, NEW m
  PROVE  AtomicInv' /\ Busy(u, m)' => ShownAhead(u, m)'
<1>1. AtomicInv /\ Busy(u, m) => ShownAhead(u, m)
  BY BusyMapping
<1>2. QED
  BY <1>1, PTL

(* No method is under way while my_lock is free, or before the checks.     *)
LEMMA QuietWhen ==
  ASSUME Holding, \/ my_lock = Nobody
                  \/ \E u \in Updaters : pc[u] = "inside"
  PROVE  Quiet
<1>1. CASE my_lock = Nobody
  BY <1>1, ThreadsAssumption DEF Holding, Quiet
<1>2. ASSUME NEW u \in Updaters, pc[u] = "inside" PROVE Quiet
  BY <1>2, OneHolder DEF Quiet
<1>3. QED
  BY <1>1, <1>2

-------------------------------------------------------------------------------
(* The updaters' steps *)

(* What Server calls an order, an update and a message means the same when *)
(* Server is looked at through the mapping.                                *)
LEMMA SameOperators ==
  /\ Atomic!OrderIds = OrderIds
  /\ Atomic!OrderStatus = OrderStatus /\ Atomic!ItemStatus = ItemStatus
  /\ \A id, o : Atomic!DispOrder(id, o) = DispOrder(id, o)
  /\ \A id, i, s : Atomic!DispItemUpdate(id, i, s) = DispItemUpdate(id, i, s)
  /\ \A id, s : Atomic!DispOrderUpdate(id, s) = DispOrderUpdate(id, s)
  /\ \A o, i : Atomic!HasItem(o, i) <=> HasItem(o, i)
  /\ \A o, i : Atomic!find_item(o, i) = find_item(o, i)
  /\ \A a, b : Atomic!ItemStep(a, b) <=> ItemStep(a, b)
  /\ \A o, s : Atomic!StatusAfter(o, s) = StatusAfter(o, s)
<1>1. Atomic!OrderIds = OrderIds
  BY DEF Atomic!OrderIds, Atomic!FirstOrderId, OrderIds, FirstOrderId
<1>2. Atomic!OrderStatus = OrderStatus /\ Atomic!ItemStatus = ItemStatus
  BY DEF Atomic!OrderStatus, OrderStatus, Atomic!ItemStatus, ItemStatus
<1>3. /\ \A id, o : Atomic!DispOrder(id, o) = DispOrder(id, o)
      /\ \A id, i, s : Atomic!DispItemUpdate(id, i, s) = DispItemUpdate(id, i, s)
      /\ \A id, s : Atomic!DispOrderUpdate(id, s) = DispOrderUpdate(id, s)
  BY DEF Atomic!DispOrder, DispOrder, Atomic!DispItemUpdate, DispItemUpdate,
         Atomic!DispOrderUpdate, DispOrderUpdate
<1>4. \A o, p, i : Atomic!Names(o, p, i) <=> Names(o, p, i)
  BY DEF Atomic!Names, Names
<1>5. \A o, i : Atomic!HasItem(o, i) <=> HasItem(o, i)
  BY <1>4 DEF Atomic!HasItem, HasItem
<1>6. \A o, i : Atomic!find_item(o, i) = find_item(o, i)
  BY <1>4 DEF Atomic!find_item, find_item
<1>7. \A a, b : Atomic!ItemStep(a, b) <=> ItemStep(a, b)
  BY DEF Atomic!ItemStep, ItemStep
<1>8. \A o, s : Atomic!StatusAfter(o, s) = StatusAfter(o, s)
  BY DEF Atomic!StatusAfter, StatusAfter, Atomic!AllDone, AllDone
<1>9. QED
  BY <1>1, <1>2, <1>3, <1>5, <1>6, <1>7, <1>8

LEMMA SameSetItem ==
  \A o, i, s : Atomic!set_item_status(o, i, s) = set_item_status(o, i, s)
BY SameOperators DEF Atomic!set_item_status, set_item_status

(* The first step of a method, seen through the mapping: all of it. *)
LEMMA BroadcastIsAtomic ==
  ASSUME AtomicInv, AtomicInv', NEW u \in Updaters, Method(u),
         NEW m, Broadcast(u, m),
         NEW more, more \in Seq(Announcement),
         \A d \in my_clients : Trail(d, m)' = more
  PROVE  /\ AtomicOrders = my_orders
         /\ AtomicOrders' = EndOrders(m)'
         /\ Atomic!broadcast(<<m>> \o more)
         /\ UNCHANGED <<my_clients, phase, backlog, sock, peer, screen>>
<1>1. ShownAsIs
  BY QuietWhen, QuietMapping DEF AtomicInv, ThreadsInv, Method, Goto
<1>2. /\ u \in Threads /\ Typed
      /\ \A d \in Displays : d \in Threads /\ d # u
  BY ThreadsAssumption DEF AtomicInv, ThreadsInv, Threads
<1>3. pc'[u] = "loop" /\ msg'[u] = <<m>> /\ left'[u] = my_clients
  BY <1>2 DEF Typed, Method, Goto, Broadcast
<1>4. ShownAhead(u, m)'
  BY <1>3, BusyMappingNext DEF Busy
<1>5. target'[u] = {}
  BY <1>3 DEF AtomicInv, ThreadsInv, Holding
<1>6. ASSUME NEW d \in Displays
      PROVE  AtomicQueue'[d] = IF d \in my_clients
                               THEN AtomicQueue[d] \o (<<m>> \o more)
                               ELSE AtomicQueue[d]
  <2>1. AtomicQueue[d] = InHand(d) \o queue[d]
    BY <1>1 DEF ShownAsIs
  <2>2. AtomicQueue'[d] = InHand(d)' \o queue'[d]
                            \o (Pending(u, d, m)' \o Trail(d, m)')
    BY <1>4 DEF ShownAhead
  <2>3. InHand(d)' = InHand(d) /\ queue'[d] = queue[d] /\ my_clients' = my_clients
    BY <1>2 DEF InHand, Broadcast, Typed, Method, sessionVars
  <2>4. CASE d \in my_clients
    <3>1. Pending(u, d, m)' = <<m>> /\ Trail(d, m)' = more
      BY <1>3, <2>4 DEF Pending
    <3>2. QED
      BY <2>1, <2>2, <2>3, <2>4, <3>1
  <2>5. CASE d \notin my_clients
    <3>1. Pending(u, d, m)' = << >> /\ Trail(d, m)' = << >>
      BY <1>3, <1>5, <2>3, <2>5 DEF Pending, Trail
    <3>2. InHand(d) \o queue[d] \in Seq(DisplayMessage)
      BY <1>2, InHandType, ConcatProperties DEF Typed, TypeOK
    <3>3. << >> \o << >> = << >>
      BY ConcatEmptySeq
    <3>4. QED
      BY <2>1, <2>2, <2>3, <2>5, <3>1, <3>2, <3>3, ConcatEmptySeq
  <2>6. QED
    BY <2>4, <2>5
<1>7. Atomic!broadcast(<<m>> \o more)
  <2>1. AtomicQueue' = [d \in Displays |-> AtomicQueue'[d]]
    BY <1>4 DEF ShownAhead
  <2>2. QED
    BY <1>6, <2>1 DEF Atomic!broadcast
<1>8. QED
  BY <1>1, <1>4, <1>7 DEF ShownAsIs, ShownAhead, Method, sessionVars

LEMMA PairConcat ==
  /\ \A m : <<m>> \o << >> = <<m>>
  /\ \A m, n : <<m>> \o <<n>> = <<m, n>>
<1>1. \A m : <<m>> \o << >> = <<m>>
  OBVIOUS
<1>2. ASSUME NEW m, NEW n PROVE <<m>> \o <<n>> = <<m, n>>
  <2> DEFINE S == {m, n}
  <2>1. /\ <<m>> \in Seq(S) /\ Len(<<m>>) = 1 /\ <<m>>[1] = m
        /\ <<n>> \in Seq(S) /\ Len(<<n>>) = 1 /\ <<n>>[1] = n
    OBVIOUS
  <2>2. /\ <<m, n>> \in Seq(S) /\ Len(<<m, n>>) = 2
        /\ <<m, n>>[1] = m /\ <<m, n>>[2] = n
    OBVIOUS
  <2> DEFINE c == <<m>> \o <<n>>
             t == <<m, n>>
  <2> HIDE DEF S
  <2>3. /\ c \in Seq(S) /\ Len(c) = 2
        /\ \A i \in 1 .. 2 : c[i] = IF i <= 1 THEN <<m>>[i] ELSE <<n>>[i - 1]
    BY <2>1, ConcatProperties
  <2> HIDE DEF c, t
  <2>4. c[1] = m /\ c[2] = n
    BY <2>1, <2>3
  <2>5. \A i \in 1 .. Len(c) : c[i] = t[i]
    BY <2>2, <2>3, <2>4 DEF t
  <2>6. c = t
    BY <2>2, <2>3, <2>5, SeqEqual DEF t
  <2>7. QED
    BY <2>6 DEF c, t
<1>3. QED
  BY <1>1, <1>2

LEMMA MethodIsAtomic ==
  ASSUME AtomicInv, AtomicInv', NEW u \in Updaters, Method(u)
  PROVE  Atomic!Update
<1>1. /\ Typed /\ TypeOK /\ my_orders \in [OrderIds -> MaybeOrder]
      /\ my_orders' \in [OrderIds -> MaybeOrder]
      /\ << >> \in Seq(Announcement)
  BY DEF AtomicInv, ThreadsInv, Typed, TypeOK
<1>2. /\ \A m : <<m>> \o << >> = <<m>>
      /\ \A m, n : <<m>> \o <<n>> = <<m, n>>
  BY PairConcat
<1>3. ASSUME NEW o \in NewOrders, create_order_starts(u, o)
      PROVE  Atomic!create_order(o)
  <2>0. PICK id : id = next_order_id
    OBVIOUS
  <2> DEFINE m == DispOrder(id, o)
  <2>1. Broadcast(u, m) /\ m.type = "DISP_ORDER"
    BY <1>3, <2>0 DEF create_order_starts, DispOrder
  <2>2. ~ StatusToChange(m)' /\ \A k : m # DispOrderUpdate(k, "DELIVERED")
    <3>1. \A k : DispOrderUpdate(k, "DELIVERED").type = "DISP_ORDER_UPDATE"
      BY DEF DispOrderUpdate
    <3> HIDE DEF m
    <3>2. QED
      BY <2>1, <3>1 DEF StatusToChange
  <2> HIDE DEF m
  <2>3. \A d \in my_clients : Trail(d, m)' = << >>
    BY <2>2 DEF Trail
  <2>4. EndOrders(m)' = my_orders'
    <3>1. \A k \in OrderIds : EndOrders(m)'[k] = my_orders'[k]
      BY <2>2 DEF EndOrders
    <3>2. QED
      BY <1>1, <3>1 DEF EndOrders
  <2>5. /\ AtomicOrders = my_orders
        /\ AtomicOrders' = my_orders'
        /\ Atomic!broadcast(<<m>> \o << >>)
        /\ UNCHANGED <<my_clients, phase, backlog, sock, peer, screen>>
    BY <1>1, <2>1, <2>3, <2>4, BroadcastIsAtomic
  <2>6. Atomic!broadcast(<<Atomic!DispOrder(next_order_id, o)>>)
    BY <1>2, <2>0, <2>5, SameOperators DEF m
  <2>7. QED
    BY <1>3, <2>5, <2>6, SameOperators
       DEF create_order_starts, Atomic!create_order, Atomic!sessionVars
<1>4. ASSUME NEW id \in OrderIds, NEW i \in ItemIds, NEW s \in ItemStatus,
             update_item_starts(u, id, i, s)
      PROVE  Atomic!update_item(id, i, s)
  <2> DEFINE m  == DispItemUpdate(id, i, s)
             n  == set_item_status(my_orders[id], i, s)
             st == StatusAfter(n, s)
             more == IF st # n.status THEN <<DispOrderUpdate(id, st)>> ELSE << >>
  <2>1. ItemUpdateAccepted(id, i, s) /\ Broadcast(u, m)
    BY <1>4 DEF update_item_starts
  <2>2. n \in Order /\ (st # n.status => st \in {"IN_PROGRESS", "DONE"})
    BY <1>1, <2>1, UpdateItemOrders
  <2>3. my_orders' = [my_orders EXCEPT ![id] = n] /\ my_orders'[id] = n
    BY <1>1, <1>4 DEF update_item_starts
  <2>4. /\ m.type = "DISP_ITEM_UPDATE" /\ m.id = id /\ m.status = s
        /\ \A k : m # DispOrderUpdate(k, "DELIVERED")
    BY DEF DispItemUpdate, DispOrderUpdate
  <2>5. more \in Seq(Announcement)
    <3>1. st # n.status => DispOrderUpdate(id, st) \in Announcement
      BY <2>2 DEF DispOrderUpdate, Announcement, DisplayMessage
    <3>2. QED
      BY <3>1
  <2> HIDE DEF m, n
  <2>6. StatusNow(m)' = st
    BY <2>3, <2>4 DEF StatusNow
  <2>7. StatusToChange(m)' <=> st # n.status
    BY <2>3, <2>4, <2>6 DEF StatusToChange
  <2> HIDE DEF st
  <2>8. \A d \in my_clients : Trail(d, m)' = more
    <3>1. my_clients' = my_clients
      BY DEF Method, sessionVars
    <3>2. QED
      BY <2>4, <2>6, <2>7, <3>1 DEF Trail
  <2>9. EndOrders(m)' = [my_orders EXCEPT ![id] = [n EXCEPT !.status = st]]
    <3>1. st = n.status => [n EXCEPT !.status = st] = n
      BY <2>2 DEF Order
    <3>2. ASSUME NEW k \in OrderIds
          PROVE  EndOrders(m)'[k]
                   = [my_orders EXCEPT ![id] = [n EXCEPT !.status = st]][k]
      BY <1>1, <2>3, <2>4, <2>6, <2>7, <3>1, <3>2 DEF EndOrders
    <3>3. QED
      BY <1>1, <3>2 DEF EndOrders
  <2>10. /\ AtomicOrders = my_orders
         /\ AtomicOrders' = [my_orders EXCEPT ![id] = [n EXCEPT !.status = st]]
         /\ Atomic!broadcast(<<m>> \o more)
         /\ UNCHANGED <<my_clients, phase, backlog, sock, peer, screen>>
    <3> HIDE DEF more
    <3>1. QED
      BY <2>1, <2>5, <2>8, <2>9, BroadcastIsAtomic
  <2>11. <<m>> \o more = IF st # n.status
                         THEN <<m, DispOrderUpdate(id, st)>> ELSE <<m>>
    BY <1>2
  <2>12. Atomic!ItemUpdateAccepted(id, i, s)
    BY <2>1, <2>10, SameOperators
       DEF ItemUpdateAccepted, Atomic!ItemUpdateAccepted
  <2>13. /\ Atomic!set_item_status(AtomicOrders[id], i, s) = n
         /\ Atomic!StatusAfter(n, s) = st
    BY <2>10, SameOperators, SameSetItem DEF n, st
  <2>14. Atomic!DispItemUpdate(id, i, s) = m
         /\ Atomic!DispOrderUpdate(id, st) = DispOrderUpdate(id, st)
    BY SameOperators DEF m
  <2>15. next_order_id' = next_order_id
    BY <1>4 DEF update_item_starts
  <2> HIDE DEF more
  <2>16. QED
    BY <2>10, <2>11, <2>12, <2>13, <2>14, <2>15
       DEF Atomic!update_item, Atomic!sessionVars
<1>5. ASSUME NEW id \in OrderIds, NEW s \in OrderStatus,
             update_order_starts(u, id, s)
      PROVE  Atomic!update_order(id, s)
  <2> DEFINE m == DispOrderUpdate(id, s)
  <2>1. OrderUpdateAccepted(id, s) /\ Broadcast(u, m) /\ s = "DELIVERED"
    BY <1>5 DEF update_order_starts, OrderUpdateAccepted
  <2>2. /\ m.type = "DISP_ORDER_UPDATE" /\ m.id = id
        /\ \A k : m = DispOrderUpdate(k, "DELIVERED") <=> k = id
    BY <2>1 DEF DispOrderUpdate
  <2>3. ~ StatusToChange(m)'
    BY <2>2 DEF StatusToChange
  <2> HIDE DEF m
  <2>4. \A d \in my_clients : Trail(d, m)' = << >>
    BY <2>3 DEF Trail
  <2>5. EndOrders(m)' = [my_orders EXCEPT ![id] = NoOrder]
    <3>1. \A k \in OrderIds : k # id => my_orders'[k] = my_orders[k]
      BY <1>1, <1>5 DEF update_order_starts
    <3>2. ASSUME NEW k \in OrderIds
          PROVE  EndOrders(m)'[k] = [my_orders EXCEPT ![id] = NoOrder][k]
      BY <1>1, <2>2, <2>3, <3>1 DEF EndOrders
    <3>3. QED
      BY <1>1, <3>2 DEF EndOrders
  <2>6. /\ AtomicOrders = my_orders
        /\ AtomicOrders' = [my_orders EXCEPT ![id] = NoOrder]
        /\ Atomic!broadcast(<<m>> \o << >>)
        /\ UNCHANGED <<my_clients, phase, backlog, sock, peer, screen>>
    BY <1>1, <2>1, <2>4, <2>5, BroadcastIsAtomic
  <2>7. Atomic!broadcast(<<Atomic!DispOrderUpdate(id, s)>>)
    BY <1>2, <2>6, SameOperators DEF m
  <2>8. Atomic!OrderUpdateAccepted(id, s)
    BY <2>1, <2>6 DEF OrderUpdateAccepted, Atomic!OrderUpdateAccepted
  <2>9. QED
    BY <1>5, <2>6, <2>7, <2>8
       DEF update_order_starts, Atomic!update_order, Atomic!sessionVars
<1>6. QED
  BY <1>3, <1>4, <1>5, SameOperators DEF Method, Atomic!Update

(* Before the checks nothing has happened yet. *)
LEMMA QuietStutter ==
  ASSUME AtomicInv, AtomicInv', NEW u \in Updaters, Guard(u) \/ Refuse(u)
  PROVE  UNCHANGED Atomic!vars
<1>1. Quiet /\ Quiet'
  <2>1. \A v \in Updaters : v \in Threads
    BY DEF Threads
  <2>2. Quiet
    BY QuietWhen DEF AtomicInv, ThreadsInv, Guard, Refuse, Leave, Goto
  <2>3. \A v \in Updaters : pc'[v] \in {pc[v], "run", "inside"}
    BY <2>1
       DEF AtomicInv, ThreadsInv, Typed, Guard, Refuse, Leave, Goto
  <2>4. QED
    BY <2>2, <2>3 DEF Quiet
<1>2. ShownAsIs /\ ShownAsIs'
  BY <1>1, QuietMapping, QuietMappingNext
<1>3. UNCHANGED vars /\ \A d \in Displays : InHand(d)' = InHand(d)
  BY DEF Guard, Refuse, InHand
<1>4. QED
  BY <1>2, <1>3 DEF ShownAsIs, Atomic!vars, vars

(* What update_item will broadcast after m is a message, too. *)
LEMMA SecondType ==
  ASSUME AtomicInv, NEW u \in Updaters, NEW m, Busy(u, m), StatusToChange(m)
  PROVE  /\ m.id \in OrderIds
         /\ my_orders[m.id] \in Order
         /\ StatusNow(m) \in {"IN_PROGRESS", "DONE"}
<1>1. /\ m \in DisplayMessage
      /\ m.type = "DISP_ITEM_UPDATE" => my_orders[m.id] \in Order
  BY DEF AtomicInv, ThreadsInv, Saying, Busy, Announcement
<1>2. m.type = "DISP_ITEM_UPDATE" /\ StatusNow(m) # my_orders[m.id].status
  BY DEF StatusToChange
<1>3. m.id \in OrderIds /\ m.status \in ItemStatus
  BY <1>1, <1>2 DEF DisplayMessage, DispHeartbeat, ItemStatus
<1>4. QED
  BY <1>1, <1>2, <1>3, StatusAfterType DEF StatusNow

LEMMA TrailType ==
  ASSUME AtomicInv, NEW u \in Updaters, NEW m, Busy(u, m), NEW d \in Displays
  PROVE  Trail(d, m) \in Seq(DisplayMessage)
<1>1. CASE StatusToChange(m)
  <2>1. DispOrderUpdate(m.id, StatusNow(m)) \in DisplayMessage
    BY <1>1, SecondType DEF DispOrderUpdate, DisplayMessage
  <2>2. QED
    BY <2>1 DEF Trail
<1>2. CASE ~ StatusToChange(m)
  BY <1>2 DEF Trail
<1>3. QED
  BY <1>1, <1>2

(* The walk over the clients changes nothing that is not already seen:     *)
(* what a push puts into a queue was seen there from the start.            *)
LEMMA WalkStutter ==
  ASSUME AtomicInv, AtomicInv', NEW u \in Updaters, NEW d \in Displays,
         visit(u, d) \/ enqueue_lock(u, d) \/ push_back(u, d) \/ post(u, d)
  PROVE  UNCHANGED Atomic!vars
<1>1. /\ Typed /\ Holding /\ Saying /\ queue \in [Displays -> Seq(DisplayMessage)]
      /\ u \in Threads
  BY DEF AtomicInv, ThreadsInv, Typed, TypeOK, Threads
<1>2. PICK m \in Announcement : msg[u] = <<m>>
  BY <1>1 DEF Saying, visit, enqueue_lock, push_back, post, Goto
<1>3. ShownAhead(u, m) /\ ShownAhead(u, m)'
  <2>1. Busy(u, m)
    BY <1>2 DEF Busy, visit, enqueue_lock, push_back, post, Goto
  <2>2. Busy(u, m)'
    BY <1>1, <1>2 DEF Busy, Typed, visit, enqueue_lock, push_back, post, Goto
  <2>3. QED
    BY <2>1, <2>2, BusyMapping, BusyMappingNext
<1>4. /\ UNCHANGED <<serverVars, sessionVars>>
      /\ \A e \in Displays : InHand(e)' = InHand(e) /\ Trail(e, m)' = Trail(e, m)
      /\ EndOrders(m)' = EndOrders(m)
  <2>1. UNCHANGED <<serverVars, sessionVars, msg>>
    BY DEF visit, enqueue_lock, push_back, post, vars, serverVars, sessionVars
  <2>2. QED
    BY <2>1
       DEF InHand, Trail, EndOrders, StatusToChange, StatusNow, serverVars,
           sessionVars
<1>5. \A e \in Displays : Trail(e, m) \in Seq(DisplayMessage)
  BY <1>2, TrailType DEF Busy, visit, enqueue_lock, push_back, post, Goto
<1>6. ASSUME NEW e \in Displays
      PROVE  queue'[e] \o (Pending(u, e, m)' \o Trail(e, m))
               = queue[e] \o (Pending(u, e, m) \o Trail(e, m))
  <2>1. CASE visit(u, d) \/ enqueue_lock(u, d) \/ post(u, d)
    <3>1. queue' = queue
      BY <2>1 DEF visit, enqueue_lock, post, vars
    <3>2. Pending(u, e, m)' = Pending(u, e, m)
      BY <1>1, <2>1
         DEF Pending, Typed, Holding, visit, enqueue_lock, post, Goto
    <3>3. QED
      BY <3>1, <3>2
  <2>2. CASE push_back(u, d) /\ e # d
    <3>1. queue'[e] = queue[e]
      BY <1>1, <2>2 DEF push_back
    <3>2. Pending(u, e, m)' = Pending(u, e, m)
      BY <1>1, <2>2 DEF Pending, Typed, Holding, push_back, Goto
    <3>3. QED
      BY <3>1, <3>2
  <2>3. CASE push_back(u, d) /\ e = d
    <3>1. d \notin left[u] => Pending(u, e, m)' = << >>
      BY <1>1, <2>3 DEF Pending, Typed, Holding, push_back, Goto
    <3>2. Pending(u, e, m) = <<m>>
      BY <2>3 DEF Pending, push_back, Goto
    <3>3. queue'[e] = queue[e] \o <<m>>
      BY <1>1, <1>2, <2>3 DEF push_back
    <3>4. d \notin left[u]
      BY <1>1, <2>3 DEF Holding, push_back
    <3>5. <<m>> \in Seq(DisplayMessage) /\ Trail(e, m) \in Seq(DisplayMessage)
      BY <1>5 DEF Announcement
    <3>6. queue'[e] \o (<< >> \o Trail(e, m)) = queue[e] \o (<<m>> \o Trail(e, m))
      BY <1>1, <3>3, <3>5, ConcatAssociative, ConcatEmptySeq
    <3>7. QED
      BY <3>1, <3>2, <3>4, <3>6
  <2>4. QED
    BY <2>1, <2>2, <2>3
<1>7. ASSUME NEW e \in Displays PROVE AtomicQueue'[e] = AtomicQueue[e]
  <2> DEFINE news == Pending(u, e, m) \o Trail(e, m)
             news2 == Pending(u, e, m)' \o Trail(e, m)
  <2>1. /\ InHand(e) \in Seq(DisplayMessage)
        /\ queue[e] \in Seq(DisplayMessage)
        /\ queue'[e] \in Seq(DisplayMessage)
    BY <1>1, InHandType DEF AtomicInv, ThreadsInv, Typed, TypeOK
  <2>2. /\ news \in Seq(DisplayMessage)
        /\ news2 \in Seq(DisplayMessage)
    <3>1. /\ Pending(u, e, m) \in Seq(DisplayMessage)
          /\ Pending(u, e, m)' \in Seq(DisplayMessage)
      BY DEF Pending, Announcement
    <3>2. QED
      BY <1>5, <3>1, ConcatProperties
  <2> HIDE DEF news, news2
  <2>3. queue'[e] \o news2 = queue[e] \o news
    BY <1>6 DEF news, news2
  <2>4. InHand(e) \o queue'[e] \o news2 = InHand(e) \o queue[e] \o news
    <3>1. \A s, t, v \in Seq(DisplayMessage) : (s \o t) \o v = s \o (t \o v)
      BY ConcatAssociative, SMTT(30)
    <3>2. (InHand(e) \o queue'[e]) \o news2 = InHand(e) \o (queue'[e] \o news2)
      BY <2>1, <2>2, <3>1, ZenonT(30)
    <3>3. (InHand(e) \o queue[e]) \o news = InHand(e) \o (queue[e] \o news)
      BY <2>1, <2>2, <3>1, ZenonT(30)
    <3>4. QED
      BY <2>3, <3>2, <3>3, Zenon
  <2>5. QED
    BY <1>3, <1>4, <2>4 DEF ShownAhead, news, news2
<1>8. AtomicQueue' = AtomicQueue
  BY <1>3, <1>7 DEF ShownAhead
<1>9. QED
  BY <1>3, <1>4, <1>8
     DEF ShownAhead, Atomic!vars, serverVars, sessionVars

(* The second broadcast of update_item was seen from the start, and so was *)
(* the new status of the order.                                            *)
LEMMA GoesOnStutter ==
  ASSUME AtomicInv, AtomicInv', NEW u \in Updaters, update_item_goes_on(u)
  PROVE  UNCHANGED Atomic!vars
<1>1. /\ Typed /\ Holding /\ Saying /\ u \in Threads
      /\ my_orders \in [OrderIds -> MaybeOrder]
  BY DEF AtomicInv, ThreadsInv, Typed, TypeOK, Threads
<1>2. PICK m \in Announcement : msg[u] = <<m>>
  BY <1>1 DEF Saying, update_item_goes_on
<1>3. Busy(u, m) /\ StatusToChange(m)
  BY <1>2 DEF Busy, update_item_goes_on
<1>4. PICK st : st = StatusNow(m)
  OBVIOUS
<1> DEFINE n == DispOrderUpdate(m.id, st)
<1>5. /\ msg'[u] = <<n>> /\ left'[u] = my_clients /\ pc' = pc /\ target' = target
      /\ my_orders' = [my_orders EXCEPT ![m.id].status = st]
      /\ UNCHANGED <<next_order_id, sessionVars, queue>>
  BY <1>1, <1>2, <1>4 DEF Typed, update_item_goes_on, Broadcast
<1>6. /\ n.type = "DISP_ORDER_UPDATE"
      /\ \A id : n # DispOrderUpdate(id, "DELIVERED")
  <2>1. n.status # "DELIVERED" /\ n.type = "DISP_ORDER_UPDATE"
    BY <1>3, <1>4, SecondType DEF DispOrderUpdate
  <2>2. \A id : DispOrderUpdate(id, "DELIVERED").status = "DELIVERED"
    BY DEF DispOrderUpdate
  <2> HIDE DEF n
  <2>3. QED
    BY <2>1, <2>2
<1> HIDE DEF n
<1>7. ShownAhead(u, m) /\ ShownAhead(u, n)'
  <2>1. Busy(u, n)'
    BY <1>3, <1>5 DEF Busy
  <2>2. QED
    BY <1>3, <2>1, BusyMapping, BusyMappingNext
<1>8. ~ StatusToChange(n)'
  BY <1>6 DEF StatusToChange
<1>9. EndOrders(n)' = EndOrders(m)
  <2>1. EndOrders(n)' = my_orders'
    <3>1. \A id \in OrderIds : EndOrders(n)'[id] = my_orders'[id]
      BY <1>6, <1>8 DEF EndOrders
    <3>2. my_orders' \in [OrderIds -> MaybeOrder]
      BY DEF AtomicInv, ThreadsInv, Typed, TypeOK
    <3>3. QED
      BY <3>1, <3>2 DEF EndOrders
  <2>2. \A id \in OrderIds :
          my_orders'[id] = IF m.id = id
                           THEN [my_orders[id] EXCEPT !.status = st]
                           ELSE my_orders[id]
    BY <1>1, <1>5
  <2>3. \A id \in OrderIds : m # DispOrderUpdate(id, "DELIVERED")
    BY <1>3 DEF StatusToChange, DispOrderUpdate
  <2>4. \A id \in OrderIds : EndOrders(m)[id] = my_orders'[id]
    BY <1>3, <1>4, <2>2, <2>3 DEF EndOrders
  <2>5. QED
    BY <1>1, <2>1, <2>4, <1>5 DEF EndOrders
<1>10. ASSUME NEW d \in Displays PROVE AtomicQueue'[d] = AtomicQueue[d]
  <2>1. InHand(d)' = InHand(d)
    BY <1>1, ThreadsAssumption
       DEF InHand, Typed, update_item_goes_on, Broadcast
  <2>2. Pending(u, d, m) = << >> /\ Trail(d, n)' = << >>
    BY <1>1, <1>8 DEF Holding, Pending, Trail, update_item_goes_on
  <2>3. target'[u] = {} /\ my_clients' = my_clients
    BY <1>1, <1>5 DEF Holding, update_item_goes_on, sessionVars
  <2>4. Pending(u, d, n)' = Trail(d, m)
    BY <1>3, <1>4, <1>5, <2>3 DEF Pending, Trail, n
  <2>5. Trail(d, m) \in Seq(DisplayMessage)
    BY <1>3, TrailType
  <2>6. Pending(u, d, n)' \o Trail(d, n)' = Pending(u, d, m) \o Trail(d, m)
    BY <2>2, <2>4, <2>5, ConcatEmptySeq
  <2>7. QED
    BY <1>5, <1>7, <2>1, <2>6 DEF ShownAhead
<1>11. AtomicQueue' = AtomicQueue
  BY <1>7, <1>10 DEF ShownAhead
<1>12. QED
  BY <1>5, <1>7, <1>9, <1>11 DEF ShownAhead, Atomic!vars, sessionVars

(* When a method returns, everything it was going to do has been done; an  *)
(* order that was delivered has been out of sight already.                 *)
LEMMA ReturnStutter ==
  ASSUME AtomicInv, AtomicInv', NEW u \in Updaters, Return(u)
  PROVE  UNCHANGED Atomic!vars
<1>1. /\ Typed /\ Holding /\ Saying /\ u \in Threads
      /\ my_orders \in [OrderIds -> MaybeOrder]
      /\ queue \in [Displays -> Seq(DisplayMessage)]
  BY DEF AtomicInv, ThreadsInv, Typed, TypeOK, Threads
<1>2. PICK m \in Announcement : msg[u] = <<m>>
  BY <1>1 DEF Saying, Return, IsLast
<1>3. Busy(u, m) /\ left[u] = {} /\ target[u] = {} /\ ~ StatusToChange(m)
  BY <1>1, <1>2 DEF Busy, Return, IsLast, Holding
<1>4. ShownAhead(u, m)
  BY <1>3, BusyMapping
<1>5. ShownAsIs'
  <2>1. my_lock' = Nobody
    BY DEF Return, Leave
  <2>2. Quiet'
    BY <2>1, ThreadsAssumption DEF AtomicInv, ThreadsInv, Holding, Quiet
  <2>3. QED
    BY <2>2, QuietMappingNext
<1>6. UNCHANGED <<next_order_id, sessionVars, queue>>
  BY DEF Return
<1>7. my_orders' = EndOrders(m)
  <2>1. \A id : m = DispOrderUpdate(id, "DELIVERED")
                  <=> /\ m.type = "DISP_ORDER_UPDATE"
                      /\ m.status = "DELIVERED" /\ m.id = id
    BY DEF Announcement, DisplayMessage, DispHeartbeat, DispOrderUpdate
  <2>2. my_orders' = IF m.type = "DISP_ORDER_UPDATE" /\ m.status = "DELIVERED"
                     THEN [my_orders EXCEPT ![m.id] = NoOrder] ELSE my_orders
    BY <1>2 DEF Return
  <2>3. \A id \in OrderIds : my_orders'[id] = EndOrders(m)[id]
    BY <1>1, <1>3, <2>1, <2>2 DEF EndOrders
  <2>4. my_orders' \in [OrderIds -> MaybeOrder]
    BY DEF AtomicInv, ThreadsInv, Typed, TypeOK
  <2>5. QED
    BY <2>3, <2>4 DEF EndOrders
<1>8. ASSUME NEW d \in Displays PROVE AtomicQueue'[d] = AtomicQueue[d]
  <2>1. InHand(d)' = InHand(d)
    BY <1>1, ThreadsAssumption DEF InHand, Typed, Return
  <2>2. Pending(u, d, m) \o Trail(d, m) = << >>
    BY <1>3, ConcatEmptySeq DEF Pending, Trail
  <2>3. InHand(d) \o queue[d] \in Seq(DisplayMessage)
    BY <1>1, InHandType, ConcatProperties
  <2>4. QED
    BY <1>4, <1>5, <1>6, <2>1, <2>2, <2>3, ConcatEmptySeq
       DEF ShownAhead, ShownAsIs
<1>9. AtomicQueue' = AtomicQueue
  BY <1>4, <1>5, <1>8 DEF ShownAhead, ShownAsIs
<1>10. QED
  BY <1>4, <1>5, <1>6, <1>7, <1>9
     DEF ShownAhead, ShownAsIs, Atomic!vars, sessionVars

-------------------------------------------------------------------------------
(* The displays' steps *)

(* While a display's thread takes a step, what a method under way will     *)
(* still do stays the same.                                                *)
LEMMA RestStays ==
  ASSUME AtomicInv, AtomicInv', NEW d \in Displays,
         DisplayHolds(d) \/ DisplayRuns(d)
  PROVE  /\ AtomicOrders' = AtomicOrders
         /\ \E rest \in [Displays -> Seq(DisplayMessage)] :
              /\ AtomicQueue =
                   [e \in Displays |-> InHand(e) \o queue[e] \o rest[e]]
              /\ AtomicQueue' =
                   [e \in Displays |-> InHand(e)' \o queue'[e] \o rest[e]]
<1>1. /\ UNCHANGED <<my_lock, left, target>>
      /\ \A u \in Updaters : pc'[u] = pc[u] /\ msg'[u] = msg[u]
      /\ my_clients' = my_clients \/ my_lock = Nobody
      /\ my_orders' = my_orders
  BY DisplayStepKeeps DEF AtomicInv, ThreadsInv
<1>2. CASE Quiet
  <2>1. ShownAsIs /\ ShownAsIs'
    <3>1. Quiet'
      BY <1>1, <1>2 DEF Quiet
    <3>2. QED
      BY <1>2, <3>1, QuietMapping, QuietMappingNext
  <2> DEFINE rest == [e \in Displays |-> << >>]
  <2>2. rest \in [Displays -> Seq(DisplayMessage)]
    OBVIOUS
  <2>3. ASSUME NEW e \in Displays
        PROVE  /\ InHand(e) \o queue[e] \o rest[e] = InHand(e) \o queue[e]
               /\ InHand(e)' \o queue'[e] \o rest[e] = InHand(e)' \o queue'[e]
    <3>1. InHand(e) \o queue[e] \in Seq(DisplayMessage)
      BY InHandType, ConcatProperties DEF AtomicInv, ThreadsInv, Typed, TypeOK
    <3>2. InHand(e)' \o queue'[e] \in Seq(DisplayMessage)
      <4>1. InHand(e)' \in Seq(DisplayMessage)
        BY InHandTypeNext
      <4>2. queue'[e] \in Seq(DisplayMessage)
        BY DEF AtomicInv, ThreadsInv, Typed, TypeOK
      <4>3. QED
        BY <4>1, <4>2, ConcatProperties
    <3>3. QED
      BY <3>1, <3>2, ConcatEmptySeq
  <2>4. QED
    BY <1>1, <2>1, <2>2, <2>3 DEF ShownAsIs
<1>3. CASE ~ Quiet
  <2>1. PICK u \in Updaters : pc[u] \in {"loop", "visit", "push", "post"}
    BY <1>3 DEF Quiet, AtomicInv, ThreadsInv, Holding
  <2>2. PICK m \in Announcement : msg[u] = <<m>>
    BY <2>1 DEF AtomicInv, ThreadsInv, Saying
  <2>3. Busy(u, m) /\ Busy(u, m)'
    BY <1>1, <2>1, <2>2 DEF Busy
  <2>4. ShownAhead(u, m) /\ ShownAhead(u, m)'
    BY <2>3, BusyMapping, BusyMappingNext
  <2>5. my_clients' = my_clients
    BY <1>1, <2>1, ThreadsAssumption DEF AtomicInv, ThreadsInv, Holding
  <2>6. EndOrders(m)' = EndOrders(m)
    BY <1>1 DEF EndOrders, StatusToChange, StatusNow
  <2>7. \A e \in Displays :
          Pending(u, e, m)' = Pending(u, e, m) /\ Trail(e, m)' = Trail(e, m)
    BY <1>1, <2>5 DEF Pending, Trail, StatusToChange, StatusNow
  <2> DEFINE rest == [e \in Displays |-> Pending(u, e, m) \o Trail(e, m)]
  <2>8. rest \in [Displays -> Seq(DisplayMessage)]
    <3>1. ASSUME NEW e \in Displays
          PROVE  Pending(u, e, m) \o Trail(e, m) \in Seq(DisplayMessage)
      <4>1. Pending(u, e, m) \in Seq(DisplayMessage)
        BY DEF Pending, Announcement
      <4>2. QED
        BY <2>3, <4>1, TrailType, ConcatProperties
    <3>2. QED
      BY <3>1
  <2>9. /\ AtomicQueue =
             [e \in Displays |-> InHand(e) \o queue[e] \o rest[e]]
        /\ AtomicQueue' =
             [e \in Displays |-> InHand(e)' \o queue'[e] \o rest[e]]
    BY <2>4, <2>7 DEF ShownAhead
  <2>10. QED
    BY <2>4, <2>6, <2>8, <2>9 DEF ShownAhead
<1>4. QED
  BY <1>2, <1>3

LEMMA QueuesStay ==
  ASSUME AtomicInv, AtomicInv', NEW d \in Displays,
         DisplayHolds(d) \/ DisplayRuns(d),
         \A e \in Displays : InHand(e)' \o queue'[e] = InHand(e) \o queue[e]
  PROVE  AtomicOrders' = AtomicOrders /\ AtomicQueue' = AtomicQueue
<1>1. PICK rest \in [Displays -> Seq(DisplayMessage)] :
        /\ AtomicQueue = [e \in Displays |-> InHand(e) \o queue[e] \o rest[e]]
        /\ AtomicQueue' =
             [e \in Displays |-> InHand(e)' \o queue'[e] \o rest[e]]
  BY RestStays
<1>2. QED
  BY <1>1, RestStays

(* dequeue only moves a message from the queue into its thread's hand. *)
LEMMA DequeueStutter ==
  ASSUME AtomicInv, AtomicInv', NEW d \in Displays,
         DisplayHolds(d) \/ sem_wait(d) \/ timeout(d)
  PROVE  UNCHANGED Atomic!vars
<1>1. /\ Typed /\ d \in Threads /\ \A e \in Displays : e \in Threads
      /\ queue \in [Displays -> Seq(DisplayMessage)]
  BY DEF AtomicInv, ThreadsInv, Typed, TypeOK, Threads
<1>2. DisplayHolds(d) \/ DisplayRuns(d)
  BY DEF DisplayRuns
<1>3. ASSUME NEW e \in Displays
      PROVE  InHand(e)' \o queue'[e] = InHand(e) \o queue[e]
  <2>1. CASE sem_wait(d) \/ dequeue_lock(d)
    BY <2>1 DEF sem_wait, dequeue_lock, InHand, vars
  <2>2. CASE timeout(d)
    <3>1. queue' = queue /\ msg[d] = << >> /\ msg'[d] = <<DispHeartbeat>>
      BY <1>1, <2>2 DEF timeout, CallsDequeue, vars, Typed
    <3>2. e # d => msg'[e] = msg[e]
      BY <1>1, <2>2 DEF timeout, Typed
    <3>3. InHand(e)' = InHand(e)
      BY <3>1, <3>2 DEF InHand
    <3>4. QED
      BY <3>1, <3>3
  <2>3. CASE pop_front(d) /\ e # d
    <3>1. queue'[e] = queue[e] /\ msg'[e] = msg[e]
      BY <1>1, <2>3 DEF pop_front, Typed
    <3>2. QED
      BY <3>1 DEF InHand
  <2>4. CASE pop_front(d) /\ e = d
    <3>1. msg[d] = << >>
      BY <2>4 DEF AtomicInv, Streaming, pop_front, Goto
    <3>2. queue[d] # << >> /\ queue[d] \in Seq(Announcement)
      BY <2>4, QueueHolds DEF AtomicInv, Queued
    <3>3. Head(queue[d]) # DispHeartbeat /\ Tail(queue[d]) \in Seq(Announcement)
      BY <3>2 DEF Announcement, DispHeartbeat
    <3>4. msg'[d] = <<Head(queue[d])>> /\ queue'[d] = Tail(queue[d])
      BY <1>1, <2>4 DEF pop_front, Typed
    <3>5. InHand(d) = << >> /\ InHand(d)' = <<Head(queue[d])>>
      BY <3>1, <3>3, <3>4 DEF InHand
    <3>6. <<Head(queue[d])>> \o Tail(queue[d]) = queue[d]
      <4>1. Head(queue[d]) \in Announcement
        BY <3>2
      <4>2. QED
        BY <3>2, <4>1, FrontOfSeq
    <3>7. << >> \o queue[d] = queue[d]
      BY <3>2, ConcatEmptySeq
    <3>8. QED
      BY <2>4, <3>4, <3>5, <3>6, <3>7
  <2>5. QED
    BY <2>1, <2>2, <2>3, <2>4 DEF DisplayHolds
<1>4. AtomicOrders' = AtomicOrders /\ AtomicQueue' = AtomicQueue
  BY <1>2, <1>3, QueuesStay
<1>5. UNCHANGED <<serverVars, sessionVars>>
  BY DEF DisplayHolds, dequeue_lock, pop_front, sem_wait, timeout, vars,
         serverVars, sessionVars
<1>6. QED
  BY <1>4, <1>5 DEF Atomic!vars, serverVars, sessionVars

(* What is sent is what Server takes from the queue, or its heartbeat. *)
LEMMA StreamIsAtomic ==
  ASSUME AtomicInv, AtomicInv', NEW d \in Displays, Stream(d)
  PROVE  Atomic!SendQueued(d) \/ Atomic!SendHeartbeat(d)
<1>1. /\ Typed /\ \A e \in Displays : e \in Threads
      /\ queue \in [Displays -> Seq(DisplayMessage)]
  BY DEF AtomicInv, ThreadsInv, Typed, TypeOK, Threads
<1>2. DisplayHolds(d) \/ DisplayRuns(d)
  BY DEF DisplayRuns
<1>3. PICK m \in DisplayMessage : msg[d] = <<m>>
  BY <1>1 DEF Typed, Hand, Stream
<1>4. /\ phase[d] = "stream" /\ backlog[d] = << >> /\ send_msg(d, m)
      /\ UNCHANGED <<serverVars, my_clients, phase, queue, backlog, screen>>
  BY <1>3 DEF AtomicInv, Streaming, Stream
<1>5. msg'[d] = << >> /\ \A e \in Displays : e # d => msg'[e] = msg[e]
  BY <1>1 DEF Typed, Stream
<1>6. Atomic!send_msg(d, m)
  BY <1>4 DEF send_msg, Atomic!send_msg
<1>7. CASE m = DispHeartbeat
  <2>1. \A e \in Displays : InHand(e)' = InHand(e)
    BY <1>3, <1>5, <1>7 DEF InHand
  <2>2. AtomicOrders' = AtomicOrders /\ AtomicQueue' = AtomicQueue
    BY <1>2, <1>4, <2>1, QueuesStay
  <2>3. Atomic!DispHeartbeat = DispHeartbeat
    BY DEF Atomic!DispHeartbeat, DispHeartbeat
  <2>4. Atomic!SendHeartbeat(d)
    BY <1>4, <1>6, <1>7, <2>2, <2>3
       DEF Atomic!SendHeartbeat, Atomic!serverVars, serverVars
  <2>5. QED
    BY <2>4
<1>8. CASE m # DispHeartbeat
  <2>1. PICK rest \in [Displays -> Seq(DisplayMessage)] :
          /\ AtomicQueue = [e \in Displays |-> InHand(e) \o queue[e] \o rest[e]]
          /\ AtomicQueue' =
               [e \in Displays |-> InHand(e)' \o queue'[e] \o rest[e]]
    BY <1>2, RestStays
  <2>2. <<m>> # <<DispHeartbeat>>
    BY <1>8
  <2>3. /\ InHand(d) = <<m>> /\ InHand(d)' = << >>
        /\ \A e \in Displays : e # d => InHand(e)' = InHand(e)
    BY <1>3, <1>5, <2>2 DEF InHand
  <2> DEFINE s == queue[d] \o rest[d]
  <2>4. s \in Seq(DisplayMessage)
    BY <1>1, <2>1, ConcatProperties
  <2>5. AtomicQueue[d] = <<m>> \o s
    <3>1. AtomicQueue[d] = <<m>> \o queue[d] \o rest[d]
      BY <2>1, <2>3
    <3>2. <<m>> \in Seq(DisplayMessage)
      OBVIOUS
    <3>3. QED
      BY <1>1, <2>1, <3>1, <3>2, ConcatAssociative, Z3
  <2>6. AtomicQueue'[d] = s
    <3>1. << >> \o queue[d] = queue[d]
      BY <1>1, ConcatEmptySeq
    <3>2. QED
      BY <1>4, <2>1, <2>3, <3>1
  <2> HIDE DEF s
  <2>7. /\ AtomicQueue[d] # << >> /\ Head(AtomicQueue[d]) = m
        /\ AtomicQueue'[d] = Tail(AtomicQueue[d])
    BY <2>4, <2>5, <2>6, FrontOfSeq
  <2>8. AtomicQueue' = [AtomicQueue EXCEPT ![d] = Tail(@)]
    <3>1. \A e \in Displays : e # d => AtomicQueue'[e] = AtomicQueue[e]
      BY <1>4, <2>1, <2>3
    <3>2. /\ AtomicQueue = [e \in Displays |-> AtomicQueue[e]]
          /\ AtomicQueue' = [e \in Displays |-> AtomicQueue'[e]]
      BY <2>1
    <3>3. QED
      BY <2>7, <3>1, <3>2
  <2>9. Atomic!SendQueued(d)
    BY <1>2, <1>4, <1>6, <2>7, <2>8, RestStays
       DEF Atomic!SendQueued, Atomic!serverVars, serverVars
  <2>10. QED
    BY <2>9
<1>9. QED
  BY <1>7, <1>8

(* The display program's reaction to a message. *)
LEMMA SameShow ==
  /\ Atomic!EmptyScreen = EmptyScreen
  /\ \A s, m : Atomic!Show(s, m) = Show(s, m)
<1>1. Atomic!EmptyScreen = EmptyScreen
  BY SameOperators DEF Atomic!EmptyScreen, EmptyScreen
<1>2. \A s, m : Atomic!Show(s, m) = Show(s, m)
  BY SameOperators, SameSetItem DEF Atomic!Show, Show
<1>3. QED
  BY <1>1, <1>2

(* The steps of a connection that touch neither its queue nor my_lock. *)
LEMMA ConnectionIsAtomic ==
  ASSUME AtomicInv, AtomicInv', NEW d \in Displays,
         \/ Start(d) \/ StreamSnapshot(d) \/ StreamFails(d)
         \/ (receive(d) \/ PeerCloses(d)) /\ UNCHANGED threadVars
  PROVE  \/ Atomic!Connect(d) \/ Atomic!SendSnapshot(d) \/ Atomic!SendFails(d)
         \/ Atomic!receive(d) \/ Atomic!PeerCloses(d)
<1>1. DisplayHolds(d) \/ DisplayRuns(d)
  BY DEF DisplayRuns
<1>2. queue' = queue /\ msg' = msg /\ UNCHANGED serverVars
  BY DEF Start, StreamSnapshot, StreamFails, Connect, SendSnapshot, SendFails,
         receive, PeerCloses, threadVars
<1>3. AtomicOrders' = AtomicOrders /\ AtomicQueue' = AtomicQueue
  BY <1>1, <1>2, QueuesStay DEF InHand
<1>4. UNCHANGED Atomic!serverVars
  BY <1>2, <1>3 DEF Atomic!serverVars, serverVars
<1>5. CASE Start(d)
  BY <1>3, <1>4, <1>5 DEF Start, Connect, Atomic!Connect
<1>6. CASE StreamSnapshot(d)
  BY <1>3, <1>4, <1>6
     DEF StreamSnapshot, SendSnapshot, Atomic!SendSnapshot, send_msg,
         Atomic!send_msg
<1>7. CASE StreamFails(d)
  BY <1>3, <1>4, <1>7 DEF StreamFails, SendFails, Atomic!SendFails
<1>8. CASE receive(d)
  BY <1>3, <1>4, <1>8, SameShow DEF receive, Atomic!receive
<1>9. CASE PeerCloses(d)
  BY <1>3, <1>4, <1>9, SameShow DEF PeerCloses, Atomic!PeerCloses
<1>10. QED
  BY <1>5, <1>6, <1>7, <1>8, <1>9

(* The steps of a connection under my_lock: no method is under way. *)
LEMMA JoinIsAtomic ==
  ASSUME AtomicInv, AtomicInv', NEW d \in Displays, Join(d)
  PROVE  Atomic!add_client(d) \/ Atomic!snapshot_orders(d)
<1>1. DisplayHolds(d) \/ DisplayRuns(d)
  BY DEF DisplayRuns
<1>2. queue' = queue /\ msg' = msg /\ UNCHANGED serverVars
  BY DEF Join, add_client, snapshot_orders, threadVars
<1>3. AtomicOrders' = AtomicOrders /\ AtomicQueue' = AtomicQueue
  BY <1>1, <1>2, QueuesStay DEF InHand
<1>4. UNCHANGED Atomic!serverVars
  BY <1>2, <1>3 DEF Atomic!serverVars, serverVars
<1>5. AtomicOrders = my_orders
  <2>1. Quiet
    BY QuietWhen DEF AtomicInv, ThreadsInv, Join
  <2>2. QED
    BY <2>1, QuietMapping DEF ShownAsIs
<1>6. CASE add_client(d)
  BY <1>3, <1>4, <1>6 DEF add_client, Atomic!add_client
<1>7. CASE snapshot_orders(d)
  <2>1. Atomic!LiveIds = LiveIds
    BY <1>5, SameOperators DEF Atomic!LiveIds, LiveIds
  <2>2. \A S : Atomic!Listings(S) = Listings(S)
    BY DEF Atomic!Listings, Listings, Atomic!Cardinality, Cardinality
  <2>3. \A ids : Atomic!Copies(ids) = Copies(ids)
    BY <1>5, SameOperators DEF Atomic!Copies, Copies
  <2>4. QED
    BY <1>3, <1>4, <1>7, <2>1, <2>2, <2>3
       DEF snapshot_orders, Atomic!snapshot_orders
<1>8. QED
  BY <1>6, <1>7 DEF Join

LEMMA DestroyIsAtomic ==
  ASSUME AtomicInv, AtomicInv', NEW d \in Displays, Destroy(d)
  PROVE  Atomic!remove_client(d)
<1>1. /\ Typed /\ \A e \in Displays : e \in Threads
      /\ queue \in [Displays -> Seq(DisplayMessage)]
  BY DEF AtomicInv, ThreadsInv, Typed, TypeOK, Threads
<1>2. ShownAsIs /\ ShownAsIs'
  <2>1. Quiet
    BY QuietWhen DEF AtomicInv, ThreadsInv, Destroy
  <2>2. \A u \in Updaters : pc'[u] = pc[u]
    BY DisplayStepKeeps DEF AtomicInv, ThreadsInv, DisplayRuns
  <2>3. Quiet'
    BY <2>1, <2>2 DEF Quiet
  <2>4. QED
    BY <2>1, <2>3, QuietMapping, QuietMappingNext
<1>3. /\ remove_client(d) /\ msg'[d] = << >> /\ queue'[d] = << >>
      /\ \A e \in Displays : e # d => msg'[e] = msg[e] /\ queue'[e] = queue[e]
  BY <1>1 DEF Typed, Destroy, remove_client
<1>4. AtomicQueue'[d] = << >>
  <2>1. InHand(d)' = << >>
    BY <1>3 DEF InHand
  <2>2. << >> \o << >> = << >>
    BY ConcatEmptySeq
  <2>3. QED
    BY <1>2, <1>3, <2>1, <2>2 DEF ShownAsIs
<1>5. \A e \in Displays : e # d => AtomicQueue'[e] = AtomicQueue[e]
  BY <1>2, <1>3 DEF ShownAsIs, InHand
<1>6. AtomicQueue' = [AtomicQueue EXCEPT ![d] = << >>]
  <2>1. /\ AtomicQueue = [e \in Displays |-> AtomicQueue[e]]
        /\ AtomicQueue' = [e \in Displays |-> AtomicQueue'[e]]
    BY <1>2 DEF ShownAsIs
  <2>2. QED
    BY <1>4, <1>5, <2>1
<1>7. QED
  BY <1>2, <1>3, <1>6
     DEF ShownAsIs, remove_client, Atomic!remove_client, Atomic!serverVars,
         serverVars

-------------------------------------------------------------------------------
LEMMA AtomicInit == ThreadsInit => Atomic!Init
<1> SUFFICES ASSUME ThreadsInit PROVE Atomic!Init
  OBVIOUS
<1>1. /\ Init /\ \A t \in Threads : msg[t] = << >>
      /\ Updaters \subseteq Threads /\ Displays \subseteq Threads
  BY DEF ThreadsInit, Threads
<1>2. Broadcasting = {}
  BY <1>1 DEF Broadcasting
<1>3. AtomicOrders = EmptyScreen
  BY <1>1, <1>2 DEF AtomicOrders, Init, EmptyScreen
<1>4. AtomicQueue = [d \in Displays |-> << >>]
  <2>1. << >> \o << >> = << >>
    BY ConcatEmptySeq
  <2>2. \A d \in Displays : InHand(d) = << >> /\ queue[d] = << >>
    BY <1>1 DEF Init, InHand
  <2>3. QED
    BY <1>2, <2>1, <2>2 DEF AtomicQueue
<1>5. QED
  BY <1>1, <1>3, <1>4, SameShow
     DEF Init, Atomic!Init, FirstOrderId, Atomic!FirstOrderId

LEMMA AtomicStep ==
  AtomicInv /\ AtomicInv' /\ [ThreadsNext]_tvars => [Atomic!Next]_(Atomic!vars)
<1> SUFFICES ASSUME AtomicInv, AtomicInv', [ThreadsNext]_tvars
             PROVE  Atomic!Next \/ UNCHANGED Atomic!vars
  OBVIOUS
<1>1. ASSUME NEW u \in Updaters, Guard(u) \/ UpdaterHolds(u)
      PROVE  Atomic!Next \/ UNCHANGED Atomic!vars
  <2>1. CASE Method(u)
    BY <2>1, MethodIsAtomic DEF Atomic!Next
  <2>2. CASE Guard(u) \/ Refuse(u)
    BY <2>2, QuietStutter
  <2>3. CASE \E d \in Displays :
               visit(u, d) \/ enqueue_lock(u, d) \/ push_back(u, d) \/ post(u, d)
    BY <2>3, WalkStutter
  <2>4. CASE update_item_goes_on(u)
    BY <2>4, GoesOnStutter
  <2>5. CASE Return(u)
    BY <2>5, ReturnStutter
  <2>6. QED
    BY <1>1, <2>1, <2>2, <2>3, <2>4, <2>5 DEF UpdaterHolds
<1>2. ASSUME NEW d \in Displays, DisplayHolds(d) \/ DisplayRuns(d)
      PROVE  Atomic!Next \/ UNCHANGED Atomic!vars
  <2>1. CASE DisplayHolds(d) \/ sem_wait(d) \/ timeout(d)
    BY <2>1, DequeueStutter
  <2>2. CASE Stream(d)
    BY <2>2, StreamIsAtomic DEF Atomic!Next, Atomic!Serve
  <2>3. CASE \/ Start(d) \/ StreamSnapshot(d) \/ StreamFails(d)
             \/ (receive(d) \/ PeerCloses(d)) /\ UNCHANGED threadVars
    BY <2>3, ConnectionIsAtomic DEF Atomic!Next, Atomic!Serve
  <2>4. CASE Join(d)
    BY <2>4, JoinIsAtomic DEF Atomic!Next, Atomic!Serve
  <2>5. CASE Destroy(d)
    BY <2>5, DestroyIsAtomic DEF Atomic!Next, Atomic!Serve
  <2>6. QED
    BY <1>2, <2>1, <2>2, <2>3, <2>4, <2>5 DEF DisplayRuns
<1>3. CASE UNCHANGED tvars
  <2>1. Atomic!vars' = Atomic!vars
    BY <1>3
       DEF tvars, threadVars, vars, Atomic!vars, AtomicOrders, AtomicQueue,
           Broadcasting, Second, StatusToChange, StatusNow, ToCome, InHand
  <2>2. QED
    BY <2>1
<1>4. QED
  BY <1>1, <1>2, <1>3 DEF ThreadsNext

(* Whatever the threads do between taking and giving back their locks, the *)
(* orders and the queues of the displays are at all times what a server    *)
(* whose methods take effect in one step could have made of them.          *)
THEOREM MethodsAreAtomic == ThreadsSpec => IsAtomic
<1>1. ThreadsInit => Atomic!Init
  BY AtomicInit
<1>2. AtomicInv /\ AtomicInv' /\ [ThreadsNext]_tvars => [Atomic!Next]_(Atomic!vars)
  BY AtomicStep
<1>3. ThreadsSpec => []AtomicInv
  BY AtomicInvariant
<1>4. QED
  BY <1>1, <1>2, <1>3, PTL DEF ThreadsSpec, IsAtomic, Atomic!Spec
===============================================================================
