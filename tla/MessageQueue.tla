----------------------------- MODULE MessageQueue -----------------------------
(***************************************************************************)
(* The queue of messages for one display (src/message_queue.cpp), at the   *)
(* granularity of its mutex and its semaphore.  Any number of threads      *)
(* enqueue; the thread of the display connection dequeues, over and over.  *)
(*                                                                         *)
(* push_back and pop_front are not atomic: a thread reads the deque in one *)
(* step and writes it back in another, so that only m_lock keeps two       *)
(* threads from overwriting each other's change.  A producer's message is  *)
(* named by the producer and by how many it has sent.                      *)
(*                                                                         *)
(* A thread goes through                                                   *)
(*   producer   idle -> read -> write -> unlock -> post -> idle            *)
(*   Consumer   idle -> token -> read -> write -> unlock -> idle           *)
(***************************************************************************)
EXTENDS Naturals, Sequences, FiniteSets

CONSTANTS
  Producers,  \* the threads that call enqueue
  Consumer,   \* the thread that calls dequeue
  Nobody,     \* the owner of a free mutex
  NoMessage,  \* the null pointer
  MaxSent     \* bound: how many messages a producer ever sends

Threads  == Producers \cup {Consumer}
Messages == Producers \X (1 .. MaxSent)

ASSUME ProducersAssumption == IsFiniteSet(Producers)
ASSUME ThreadsAssumption   == Consumer \notin Producers /\ Nobody \notin Threads
ASSUME NoMessageAssumption == NoMessage \notin Messages
ASSUME MaxSentAssumption   == MaxSent \in Nat

VARIABLES
  m_lock,     \* the owner of the mutex
  m_sem,      \* the value of the semaphore
  m_queue,    \* the deque
  pc,         \* where each thread is
  view,       \* the deque as a thread about to write it has read it
  sent,       \* how many messages each producer has pushed
  last        \* what the last call of dequeue returned

vars == <<m_lock, m_sem, m_queue, pc, view, sent, last>>

Init ==
  /\ m_lock  = Nobody
  /\ m_sem   = 0
  /\ m_queue = << >>
  /\ pc   = [t \in Threads |-> "idle"]
  /\ view = [t \in Threads |-> << >>]
  /\ sent = [p \in Producers |-> 0]
  /\ last = NoMessage

Goto(t, from, to) ==
  /\ pc[t] = from
  /\ pc' = [pc EXCEPT ![t] = to]

Acquire(t) == m_lock = Nobody /\ m_lock' = t
Release(t) == m_lock' = Nobody

(* The first half of push_back and of pop_front. *)
Read(t) ==
  /\ Goto(t, "read", "write")
  /\ view' = [view EXCEPT ![t] = m_queue]
  /\ UNCHANGED <<m_lock, m_sem, m_queue, sent, last>>

-------------------------------------------------------------------------------
(* enqueue *)

enqueue_lock(p) ==
  /\ sent[p] < MaxSent
  /\ Goto(p, "idle", "read")
  /\ Acquire(p)
  /\ UNCHANGED <<m_sem, m_queue, view, sent, last>>

push_back(p) ==
  /\ Goto(p, "write", "unlock")
  /\ m_queue' = Append(view[p], <<p, sent[p] + 1>>)
  /\ sent' = [sent EXCEPT ![p] = @ + 1]
  /\ view' = [view EXCEPT ![p] = << >>]
  /\ UNCHANGED <<m_lock, m_sem, last>>

enqueue_unlock(p) ==
  /\ Goto(p, "unlock", "post")
  /\ Release(p)
  /\ UNCHANGED <<m_sem, m_queue, view, sent, last>>

(* Mutant: the semaphore is used as a flag. *)
post_IfZero(p) ==
  /\ Goto(p, "post", "idle")
  /\ m_sem' = 1
  /\ UNCHANGED <<m_lock, m_queue, view, sent, last>>

post(p) ==
  /\ Goto(p, "post", "idle")
  /\ m_sem' = m_sem + 1
  /\ UNCHANGED <<m_lock, m_queue, view, sent, last>>

-------------------------------------------------------------------------------
(* dequeue *)

(* Mutant: the semaphore is decremented without having waited for it. *)
wait_Unconditional ==
  /\ Goto(Consumer, "idle", "token")
  /\ m_sem' = m_sem - 1
  /\ UNCHANGED <<m_lock, m_queue, view, sent, last>>

wait ==
  /\ m_sem > 0
  /\ Goto(Consumer, "idle", "token")
  /\ m_sem' = m_sem - 1
  /\ UNCHANGED <<m_lock, m_queue, view, sent, last>>

(* Mutant: the result of sem_timedwait is not looked at. *)
timeout_Ignored ==
  /\ m_sem = 0
  /\ Goto(Consumer, "idle", "token")
  /\ UNCHANGED <<m_lock, m_sem, m_queue, view, sent, last>>

(* sem_timedwait gives up only while it cannot take the semaphore. *)
timeout ==
  /\ m_sem = 0
  /\ pc[Consumer] = "idle"
  /\ last' = NoMessage
  /\ UNCHANGED <<m_lock, m_sem, m_queue, pc, view, sent>>

(* Mutant: dequeue does not lock m_lock. *)
dequeue_lock_Not ==
  /\ Goto(Consumer, "token", "read")
  /\ UNCHANGED <<m_lock, m_sem, m_queue, view, sent, last>>

dequeue_lock ==
  /\ Goto(Consumer, "token", "read")
  /\ Acquire(Consumer)
  /\ UNCHANGED <<m_sem, m_queue, view, sent, last>>

pop_front ==
  /\ Goto(Consumer, "write", "unlock")
  /\ last' = Head(view[Consumer])
  /\ m_queue' = Tail(view[Consumer])
  /\ view' = [view EXCEPT ![Consumer] = << >>]
  /\ UNCHANGED <<m_lock, m_sem, sent>>

dequeue_unlock ==
  /\ Goto(Consumer, "unlock", "idle")
  /\ Release(Consumer)
  /\ UNCHANGED <<m_sem, m_queue, view, sent, last>>

-------------------------------------------------------------------------------
enqueue(p) ==
  enqueue_lock(p) \/ Read(p) \/ push_back(p) \/ enqueue_unlock(p) \/ post(p)

dequeue ==
  wait \/ timeout \/ dequeue_lock \/ Read(Consumer) \/ pop_front \/ dequeue_unlock

Next == dequeue \/ \E p \in Producers : enqueue(p)

Spec == Init /\ [][Next]_vars

(* A thread that is inside a call is scheduled until the call is over, and *)
(* chat_display calls dequeue again and again.                             *)
Fairness ==
  /\ WF_vars(dequeue)
  /\ \A p \in Producers : WF_vars(pc[p] # "idle" /\ enqueue(p))

FairSpec == Spec /\ Fairness

-------------------------------------------------------------------------------
TypeOK ==
  /\ m_lock  \in Threads \cup {Nobody}
  /\ m_sem   \in Nat
  /\ m_queue \in Seq(Messages)
  /\ pc   \in [Threads -> {"idle", "token", "read", "write", "unlock", "post"}]
  /\ view \in [Threads -> Seq(Messages)]
  /\ sent \in [Producers -> 0 .. MaxSent]
  /\ last \in Messages \cup {NoMessage}

(* The producers whose message is in the deque (or already out again) but  *)
(* not yet announced by sem_post.                                          *)
Entered == {p \in Producers : pc[p] \in {"unlock", "post"}}

(* dequeue never takes the front of an empty deque, which would be         *)
(* undefined behaviour: whoever got past the semaphore finds a message.    *)
FrontExists == pc[Consumer] = "write" => view[Consumer] # << >>

(* While no call is in progress the semaphore counts the messages in the   *)
(* deque exactly: no wake-up is lost and none is left over.                *)
SemaphoreCounts ==
  (\A t \in Threads : pc[t] = "idle") => m_sem = Len(m_queue)

Channel == INSTANCE MessageChannel WITH
  channel <- m_queue, inside <- Cardinality(Entered)

(* The two locks implement the first-in first-out channel (of which a      *)
(* timeout may find no more messages than there are calls in progress).    *)
IsChannel == Channel!ChannelSpec

(* Every message that is enqueued is dequeued: an enqueue that overlaps    *)
(* with a timeout of dequeue is noticed by a later call.                   *)
EveryMessageArrives ==
  \A m \in Messages :
    (\E k \in DOMAIN m_queue : m_queue[k] = m) ~> (last = m)
===============================================================================
