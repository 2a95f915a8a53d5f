-------------------------------- MODULE Threads --------------------------------
(***************************************************************************)
(* The threads of the order server at the granularity of their locks:      *)
(* Server::my_lock, taken by a Guard (include/guard.h), and the m_lock and *)
(* m_sem of each display's MessageQueue (src/message_queue.cpp).           *)
(*                                                                         *)
(* Server has a whole method of the server as one action.  Here a method   *)
(* changes the order, visits one display after the other, changes the      *)
(* order again, while display threads take messages from their queues in   *)
(* between, and the threads wait for each other's locks.  The data and the *)
(* display connections are Server's.  A thread goes through                *)
(*                                                                         *)
(*   out       a connection without a Client object                        *)
(*   run       holds no lock                                               *)
(* and an updater's thread, in a method of the server, also through        *)
(*   inside    has my_lock                                                 *)
(*   loop      has changed the order, is between two turns of broadcast    *)
(*   visit     waits for the m_lock of its target                          *)
(*   push      has that m_lock              post     has given it back     *)
(* and a display's thread, inside dequeue, through                         *)
(*   token     got past the semaphore, waits for its m_lock                *)
(*   pop       has it                                                      *)
(***************************************************************************)
EXTENDS Server

CONSTANTS
  Updaters,   \* threads that serve updater connections
  Nobody      \* the owner of a free mutex

ASSUME ThreadsAssumption ==
  Updaters \cap Displays = {} /\ Nobody \notin Updaters \cup Displays

Threads == Updaters \cup Displays

VARIABLES
  my_lock,    \* the owner of Server::my_lock
  m_lock,     \* the owner of each queue's mutex
  m_sem,      \* the value of each queue's semaphore
  pc,         \* where each thread is
  msg,        \* what broadcast was called with, what dequeue returned
  left,       \* the clients that a broadcast has still to visit
  target      \* the clients it is visiting: none or one

threadVars == <<my_lock, m_lock, m_sem, pc, msg, left, target>>
tvars      == <<vars, threadVars>>

ThreadsInit ==
  /\ Init
  /\ my_lock = Nobody
  /\ m_lock = [d \in Displays |-> Nobody]
  /\ m_sem  = [d \in Displays |-> 0]
  /\ pc     = [t \in Threads  |-> IF t \in Updaters THEN "run" ELSE "out"]
  /\ msg    = [t \in Threads  |-> << >>]
  /\ left   = [u \in Updaters |-> {}]
  /\ target = [u \in Updaters |-> {}]

Goto(t, from, to) ==
  /\ pc[t] = from
  /\ pc' = [pc EXCEPT ![t] = to]

-------------------------------------------------------------------------------
(* Every method of the server constructs a Guard first; the destructor     *)
(* gives the lock back on each way out of the method, the throws included. *)

Guard(u) ==
  /\ Goto(u, "run", "inside")
  /\ my_lock = Nobody /\ my_lock' = u
  /\ UNCHANGED <<vars, m_lock, m_sem, msg, left, target>>

Leave(u, from) == Goto(u, from, "run") /\ my_lock' = Nobody

-------------------------------------------------------------------------------
(* The updaters' methods.  The checks and the first change of the order    *)
(* come before the first broadcast. *)

Broadcast(u, m) ==
  /\ msg'  = [msg  EXCEPT ![u] = <<m>>]
  /\ left' = [left EXCEPT ![u] = my_clients]

create_order_starts(u, o) ==
  /\ next_order_id \in OrderIds
  /\ next_order_id' = next_order_id + 1
  /\ my_orders' = [my_orders EXCEPT ![next_order_id] = o]
  /\ Broadcast(u, DispOrder(next_order_id, o))

update_item_starts(u, id, i, s) ==
  /\ ItemUpdateAccepted(id, i, s)
  /\ my_orders' = [my_orders EXCEPT ![id] = set_item_status(@, i, s)]
  /\ Broadcast(u, DispItemUpdate(id, i, s))
  /\ UNCHANGED next_order_id

update_order_starts(u, id, s) ==
  /\ OrderUpdateAccepted(id, s)
  /\ my_orders' = [my_orders EXCEPT ![id].status = s]
  /\ Broadcast(u, DispOrderUpdate(id, s))
  /\ UNCHANGED next_order_id

Method(u) ==
  /\ Goto(u, "inside", "loop")
  /\ \/ \E o \in NewOrders : create_order_starts(u, o)
     \/ \E id \in OrderIds, i \in ItemIds, s \in ItemStatus :
          update_item_starts(u, id, i, s)
     \/ \E id \in OrderIds, s \in OrderStatus : update_order_starts(u, id, s)
  /\ UNCHANGED <<sessionVars, queue, my_lock, m_lock, m_sem, target>>

(* One of the checks throws SemanticError. *)
Refuse(u) ==
  /\ Leave(u, "inside")
  /\ UNCHANGED <<vars, m_lock, m_sem, msg, left, target>>

(* The loop of broadcast, and enqueue in it. *)

visit(u, d) ==
  /\ d \in left[u]
  /\ Goto(u, "loop", "visit")
  /\ left'   = [left   EXCEPT ![u] = @ \ {d}]
  /\ target' = [target EXCEPT ![u] = {d}]
  /\ UNCHANGED <<vars, my_lock, m_lock, m_sem, msg>>

(* Mutant: enqueue polls until there is room in a queue of bounded length. *)
enqueue_lock_Bounded(u, d) ==
  \/ /\ d \in target[u]
     /\ queue[d] = << >>
     /\ Goto(u, "visit", "push")
     /\ m_lock[d] = Nobody /\ m_lock' = [m_lock EXCEPT ![d] = u]
     /\ UNCHANGED <<vars, my_lock, m_sem, msg, left, target>>
  \/ d \in target[u] /\ queue[d] # << >> /\ UNCHANGED tvars

enqueue_lock(u, d) ==
  /\ d \in target[u]
  /\ Goto(u, "visit", "push")
  /\ m_lock[d] = Nobody /\ m_lock' = [m_lock EXCEPT ![d] = u]
  /\ UNCHANGED <<vars, my_lock, m_sem, msg, left, target>>

push_back(u, d) ==
  /\ d \in target[u]
  /\ Goto(u, "push", "post")
  /\ queue'  = [queue  EXCEPT ![d] = @ \o msg[u]]
  /\ m_lock' = [m_lock EXCEPT ![d] = Nobody]
  /\ UNCHANGED <<serverVars, sessionVars, my_lock, m_sem, msg, left, target>>

(* Mutant: the semaphore counts one message twice. *)
post_Twice(u, d) ==
  /\ d \in target[u]
  /\ Goto(u, "post", "loop")
  /\ m_sem'  = [m_sem  EXCEPT ![d] = @ + 2]
  /\ target' = [target EXCEPT ![u] = {}]
  /\ UNCHANGED <<vars, my_lock, m_lock, msg, left>>

post(u, d) ==
  /\ d \in target[u]
  /\ Goto(u, "post", "loop")
  /\ m_sem'  = [m_sem  EXCEPT ![d] = @ + 1]
  /\ target' = [target EXCEPT ![u] = {}]
  /\ UNCHANGED <<vars, my_lock, m_lock, msg, left>>

-------------------------------------------------------------------------------
(* What follows a broadcast.  Its message tells which method made it: only *)
(* update_order announces DELIVERED, and only the first of update_item's   *)
(* two broadcasts is an item update.                                       *)

(* The status that update_item computes between its two broadcasts. *)
StatusNow(m) == StatusAfter(my_orders[m.id], m.status)

StatusToChange(m) ==
  m.type = "DISP_ITEM_UPDATE" /\ StatusNow(m) # my_orders[m.id].status

IsLast(u) == pc[u] = "loop" /\ left[u] = {} /\ ~ StatusToChange(msg[u][1])

(* Mutant: the order's status is changed after the lock was given back. *)
update_item_goes_on_Unlocked(u) ==
  /\ pc[u] = "loop" /\ left[u] = {} /\ StatusToChange(msg[u][1])
  /\ LET m == msg[u][1]
     IN  /\ my_orders' = [my_orders EXCEPT ![m.id].status = StatusNow(m)]
         /\ Broadcast(u, DispOrderUpdate(m.id, StatusNow(m)))
  /\ my_lock' = Nobody
  /\ UNCHANGED <<next_order_id, sessionVars, queue, m_lock, m_sem, pc, target>>

(* The order's status changes too, and is broadcast. *)
update_item_goes_on(u) ==
  /\ pc[u] = "loop" /\ left[u] = {} /\ StatusToChange(msg[u][1])
  /\ LET m == msg[u][1]
     IN  /\ my_orders' = [my_orders EXCEPT ![m.id].status = StatusNow(m)]
         /\ Broadcast(u, DispOrderUpdate(m.id, StatusNow(m)))
  /\ UNCHANGED <<next_order_id, sessionVars, queue, my_lock, m_lock, m_sem, pc,
                 target>>

(* The method ends; update_order erases the order first. *)
Return(u) ==
  /\ IsLast(u)
  /\ my_orders' = IF msg[u][1].type = "DISP_ORDER_UPDATE"
                       /\ msg[u][1].status = "DELIVERED"
                  THEN [my_orders EXCEPT ![msg[u][1].id] = NoOrder]
                  ELSE my_orders
  /\ msg' = [msg EXCEPT ![u] = << >>]
  /\ Leave(u, "loop")
  /\ UNCHANGED <<next_order_id, sessionVars, queue, m_lock, m_sem, left, target>>

-------------------------------------------------------------------------------
(* The thread of a display connection. *)

Start(d) ==
  /\ Goto(d, "out", "run")
  /\ Connect(d)
  /\ UNCHANGED <<my_lock, m_lock, m_sem, msg, left, target>>

(* These methods of the server wait for nothing while they have my_lock:   *)
(* each is one step, made while nobody else has it.                        *)
Join(d) ==
  /\ pc[d] = "run" /\ my_lock = Nobody
  /\ add_client(d) \/ snapshot_orders(d)
  /\ UNCHANGED threadVars

(* Mutant: remove_client has no Guard. *)
Destroy_NoGuard(d) ==
  /\ remove_client(d)
  /\ Goto(d, "run", "out")
  /\ m_sem' = [m_sem EXCEPT ![d] = 0]
  /\ msg'   = [msg   EXCEPT ![d] = << >>]
  /\ UNCHANGED <<my_lock, m_lock, left, target>>

(* From the end of remove_client on, the Client may be destroyed, and its  *)
(* queue with its lock and its semaphore.                                  *)
Destroy(d) ==
  /\ my_lock = Nobody
  /\ remove_client(d)
  /\ Goto(d, "run", "out")
  /\ m_sem' = [m_sem EXCEPT ![d] = 0]
  /\ msg'   = [msg   EXCEPT ![d] = << >>]
  /\ UNCHANGED <<my_lock, m_lock, left, target>>

StreamSnapshot(d) ==
  /\ pc[d] = "run"
  /\ SendSnapshot(d)
  /\ UNCHANGED threadVars

CallsDequeue(d) == phase[d] = "stream" /\ backlog[d] = << >> /\ msg[d] = << >>

sem_wait(d) ==
  /\ CallsDequeue(d)
  /\ m_sem[d] > 0
  /\ Goto(d, "run", "token")
  /\ m_sem' = [m_sem EXCEPT ![d] = @ - 1]
  /\ UNCHANGED <<vars, my_lock, m_lock, msg, left, target>>

(* The null pointer, for which a heartbeat is sent. *)
timeout(d) ==
  /\ CallsDequeue(d)
  /\ m_sem[d] = 0
  /\ pc[d] = "run"
  /\ msg' = [msg EXCEPT ![d] = <<DispHeartbeat>>]
  /\ UNCHANGED <<vars, my_lock, m_lock, m_sem, pc, left, target>>

dequeue_lock(d) ==
  /\ Goto(d, "token", "pop")
  /\ m_lock[d] = Nobody /\ m_lock' = [m_lock EXCEPT ![d] = d]
  /\ UNCHANGED <<vars, my_lock, m_sem, msg, left, target>>

(* Mutant: m_lock is still held when the message is sent. *)
pop_front_NoUnlock(d) ==
  /\ Goto(d, "pop", "run")
  /\ msg'    = [msg    EXCEPT ![d] = <<Head(queue[d])>>]
  /\ queue'  = [queue  EXCEPT ![d] = Tail(@)]
  /\ UNCHANGED <<serverVars, sessionVars, my_lock, m_lock, m_sem, left, target>>

pop_front(d) ==
  /\ Goto(d, "pop", "run")
  /\ msg'    = [msg    EXCEPT ![d] = <<Head(queue[d])>>]
  /\ queue'  = [queue  EXCEPT ![d] = Tail(@)]
  /\ m_lock' = [m_lock EXCEPT ![d] = Nobody]
  /\ UNCHANGED <<serverVars, sessionVars, my_lock, m_sem, left, target>>

Stream(d) ==
  /\ pc[d] = "run" /\ phase[d] = "stream" /\ msg[d] # << >>
  /\ send_msg(d, Head(msg[d]))
  /\ msg' = [msg EXCEPT ![d] = << >>]
  /\ UNCHANGED <<serverVars, my_clients, phase, queue, backlog, screen, my_lock,
                 m_lock, m_sem, pc, left, target>>

StreamFails(d) ==
  /\ pc[d] = "run"
  /\ phase[d] = "login" \/ backlog[d] # << >> \/ msg[d] # << >>
  /\ SendFails(d)
  /\ UNCHANGED threadVars

-------------------------------------------------------------------------------
(* What an updater's thread does from Guard to Return. *)
UpdaterHolds(u) ==
  \/ Method(u) \/ Refuse(u)
  \/ \E d \in Displays :
       visit(u, d) \/ enqueue_lock(u, d) \/ push_back(u, d) \/ post(u, d)
  \/ update_item_goes_on(u) \/ Return(u)

(* What a display's thread does in dequeue once past the semaphore. *)
DisplayHolds(d) == dequeue_lock(d) \/ pop_front(d)

DisplayRuns(d) ==
  \/ Start(d) \/ Join(d) \/ Destroy(d) \/ StreamSnapshot(d)
  \/ sem_wait(d) \/ timeout(d) \/ Stream(d)
  \/ StreamFails(d)
  \/ (receive(d) \/ PeerCloses(d)) /\ UNCHANGED threadVars

ThreadsNext ==
  \/ \E u \in Updaters : Guard(u) \/ UpdaterHolds(u)
  \/ \E d \in Displays : DisplayHolds(d) \/ DisplayRuns(d)

ThreadsSpec == ThreadsInit /\ [][ThreadsNext]_tvars

(* A thread that holds a lock is scheduled.  Nothing obliges anybody to    *)
(* make a call, to send, or to read what was sent.                         *)
ThreadsFairness ==
  /\ \A u \in Updaters : WF_tvars(UpdaterHolds(u))
  /\ \A d \in Displays : WF_tvars(DisplayHolds(d))

FairThreadsSpec == ThreadsSpec /\ ThreadsFairness

-------------------------------------------------------------------------------
(* Every variable has its type, and a semaphore never promises more than   *)
(* its queue holds.                                                        *)
ThreadsTypeOK ==
  /\ TypeOK
  /\ my_lock \in Updaters \cup {Nobody}
  /\ m_lock \in [Displays -> Threads \cup {Nobody}]
  /\ m_sem  \in [Displays -> Nat]
  /\ pc \in [Threads -> {"out", "run", "inside", "loop", "visit", "push",
                         "post", "token", "pop"}]
  /\ msg \in [Threads -> Seq(DisplayMessage)]
  /\ \A t \in Threads : Len(msg[t]) <= 1
  /\ left   \in [Updaters -> SUBSET Displays]
  /\ target \in [Updaters -> SUBSET Displays]
  /\ \A d \in Displays : m_sem[d] <= Len(queue[d])

(* The owner of the lock that thread t waits for.  Any updater's thread    *)
(* may be about to call the server, and so may a display's at the points   *)
(* where chat_display and ~Client do.                                      *)
WaitsFor(t) ==
  IF pc[t] = "run" /\ (t \in Displays => phase[t] # "stream") THEN my_lock
  ELSE IF pc[t] = "token" THEN m_lock[t]
  ELSE IF pc[t] = "visit" THEN m_lock[CHOOSE d \in target[t] : TRUE]
  ELSE Nobody

(* README.txt on the two mutexes: "circular waiting is impossible".  In    *)
(* every set of threads there is one that does not wait for another of it. *)
NoCircularWait ==
  \A S \in (SUBSET Threads) \ {{}} : \E t \in S : WaitsFor(t) \notin S

(* No updater's thread is on its way to, or inside, a MessageQueue whose   *)
(* Client may have been destroyed: not in its loop over my_clients, not    *)
(* between the unlock and the sem_post that ends enqueue.                  *)
NoUseAfterDestroy ==
  \A u \in Updaters : \A d \in left[u] \cup target[u] : pc[d] # "out"

(* my_lock is always given back, even if the display programs have stopped *)
(* reading and their threads hang in a send: a slow display does not hold  *)
(* up the updaters.                                                        *)
LockIsGivenBack == \A u \in Updaters : (my_lock = u) ~> (my_lock # u)

-------------------------------------------------------------------------------
(* Seen through its locks, a method takes effect at once, after its        *)
(* checks: the orders are those its thread will leave behind, and a queue  *)
(* holds what it will still put there.                                     *)

Broadcasting == {u \in Updaters : msg[u] # << >>}

(* The order update that the second broadcast of update_item will bring. *)
Second(u) ==
  IF StatusToChange(msg[u][1])
  THEN <<DispOrderUpdate(msg[u][1].id, StatusNow(msg[u][1]))>> ELSE << >>

AtomicOrders ==
  [id \in OrderIds |->
    IF \E u \in Broadcasting : msg[u][1] = DispOrderUpdate(id, "DELIVERED")
    THEN NoOrder
    ELSE IF \E u \in Broadcasting : msg[u][1].id = id /\ Second(u) # << >>
    THEN LET u == CHOOSE u \in Broadcasting : msg[u][1].id = id
         IN  [my_orders[id] EXCEPT !.status = Second(u)[1].status]
    ELSE my_orders[id]]

ToCome(u, d) ==
  (IF d \in left[u] \/ (d \in target[u] /\ pc[u] \in {"visit", "push"})
   THEN msg[u] ELSE << >>)
  \o (IF d \in my_clients THEN Second(u) ELSE << >>)

(* What dequeue has taken out and its thread has not sent. *)
InHand(d) == IF msg[d] = <<DispHeartbeat>> THEN << >> ELSE msg[d]

AtomicQueue ==
  [d \in Displays |->
    InHand(d) \o queue[d]
    \o (IF Broadcasting = {} THEN << >>
        ELSE ToCome(CHOOSE u \in Broadcasting : TRUE, d))]

Atomic == INSTANCE Server WITH my_orders <- AtomicOrders, queue <- AtomicQueue

(* The threads with their locks implement Server, in which every method is *)
(* one step: whatever is checked or proved of Server holds of them.        *)
IsAtomic == Atomic!Spec
================================================================================
