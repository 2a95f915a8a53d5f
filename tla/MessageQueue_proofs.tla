-------------------------- MODULE MessageQueue_proofs --------------------------
(***************************************************************************)
(* Theorems about MessageQueue, for any finite set of producers and any    *)
(* number of messages.                                                     *)
(***************************************************************************)
EXTENDS MessageQueue, TLAPS, FiniteSetTheorems, SequenceTheorems

-------------------------------------------------------------------------------
(* The inductive invariant *)

(* A producer that is about to push has not used up its messages. *)
Room == \A p \in Producers : pc[p] \in {"read", "write"} => sent[p] < MaxSent

(* Whoever is between lock and unlock owns m_lock, and what it has read of *)
(* the deque is still what the deque holds.                                *)
Exclusion ==
  \A t \in Threads :
    /\ pc[t] \in {"read", "write", "unlock"} => m_lock = t
    /\ pc[t] = "write" => view[t] = m_queue

(* The consumer has got past the semaphore and has not popped yet. *)
Tokens == IF pc[Consumer] \in {"token", "read", "write"} THEN 1 ELSE 0

(* Every message in the deque is counted once: by the semaphore, by the    *)
(* consumer's token, or by a producer that has still to post.              *)
Count == Len(m_queue) = m_sem + Tokens + Cardinality(Entered)

IInv == TypeOK /\ Room /\ Exclusion /\ Count

LEMMA EnteredFinite == IsFiniteSet(Entered) /\ Cardinality(Entered) \in Nat
<1>1. IsFiniteSet(Entered)
  BY ProducersAssumption, FS_Subset DEF Entered
<1>2. QED
  BY <1>1, FS_CardinalityType

LEMMA TokensType == Tokens \in {0, 1}
BY DEF Tokens

LEMMA InvInit == Init => IInv
<1> SUFFICES ASSUME Init PROVE IInv
  OBVIOUS
<1>1. TypeOK /\ Room /\ Exclusion
  BY MaxSentAssumption, ThreadsAssumption
     DEF Init, TypeOK, Room, Exclusion, Threads
<1>2. Entered = {}
  BY DEF Init, Entered, Threads
<1>3. Count
  BY <1>2, FS_EmptySet DEF Init, Count, Tokens, Threads
<1>4. QED
  BY <1>1, <1>3 DEF IInv

(* A step that is not push_back, post or a step of the consumer across its *)
(* token keeps the count.                                                  *)
LEMMA CountUnchanged ==
  ASSUME IInv, UNCHANGED <<m_sem, m_queue>>, Entered' = Entered, Tokens' = Tokens
  PROVE  Count'
BY DEF IInv, Count

LEMMA InvStep == IInv /\ [Next]_vars => IInv'
<1> SUFFICES ASSUME IInv, [Next]_vars PROVE IInv'
  OBVIOUS
<1> USE DEF IInv
<1>1. ASSUME NEW t \in Threads, Read(t) PROVE IInv'
  <2> USE <1>1 DEF Read, Goto
  <2>1. TypeOK'
    BY DEF TypeOK
  <2>2. Room'
    BY DEF Room, TypeOK, Threads
  <2>3. Exclusion'
    BY DEF Exclusion, TypeOK
  <2>4. Entered' = Entered /\ Tokens' = Tokens
    BY DEF Entered, Tokens, TypeOK, Threads
  <2>5. QED
    BY <2>1, <2>2, <2>3, <2>4, CountUnchanged
<1>2. ASSUME NEW p \in Producers, enqueue_lock(p) PROVE IInv'
  <2> USE <1>2 DEF enqueue_lock, Goto, Acquire
  <2>1. TypeOK'
    BY DEF TypeOK, Threads
  <2>2. Room'
    BY DEF Room, TypeOK, Threads
  <2>3. Exclusion'
    BY ThreadsAssumption DEF Exclusion, TypeOK, Threads
  <2>4. Entered' = Entered /\ Tokens' = Tokens
    BY ThreadsAssumption DEF Entered, Tokens, TypeOK, Threads
  <2>5. QED
    BY <2>1, <2>2, <2>3, <2>4, CountUnchanged
<1>3. ASSUME NEW p \in Producers, push_back(p) PROVE IInv'
  <2> USE <1>3 DEF push_back, Goto
  <2>1. view[p] = m_queue /\ m_lock = p
    BY DEF Exclusion, Threads
  <2>2. sent[p] + 1 \in 1 .. MaxSent
    BY MaxSentAssumption DEF Room, TypeOK
  <2>3. <<p, sent[p] + 1>> \in Messages
    BY <2>2 DEF Messages
  <2>4. /\ m_queue' \in Seq(Messages)
        /\ Len(m_queue') = Len(m_queue) + 1
    BY <2>1, <2>3, AppendProperties DEF TypeOK
  <2>5. TypeOK'
    BY <2>2, <2>4, EmptySeq DEF TypeOK, Threads
  <2>6. Room'
    BY DEF Room, TypeOK, Threads
  <2>7. Exclusion'
    BY <2>1 DEF Exclusion, TypeOK, Threads
  <2>8. Entered' = Entered \cup {p} /\ p \notin Entered /\ Tokens' = Tokens
    BY ThreadsAssumption DEF Entered, Tokens, TypeOK, Threads
  <2>9. Cardinality(Entered') = Cardinality(Entered) + 1
    BY <2>8, EnteredFinite, FS_AddElement
  <2>10. Count'
    BY <2>4, <2>8, <2>9, EnteredFinite, TokensType DEF Count, TypeOK
  <2>11. QED
    BY <2>5, <2>6, <2>7, <2>10
<1>4. ASSUME NEW p \in Producers, enqueue_unlock(p) PROVE IInv'
  <2> USE <1>4 DEF enqueue_unlock, Goto, Release
  <2>1. TypeOK'
    BY DEF TypeOK, Threads
  <2>2. Room'
    BY DEF Room, TypeOK, Threads
  <2>3. m_lock = p
    BY DEF Exclusion, Threads
  <2>4. Exclusion'
    BY <2>3 DEF Exclusion, TypeOK, Threads
  <2>5. Entered' = Entered /\ Tokens' = Tokens
    BY ThreadsAssumption DEF Entered, Tokens, TypeOK, Threads
  <2>6. QED
    BY <2>1, <2>2, <2>4, <2>5, CountUnchanged
<1>5. ASSUME NEW p \in Producers, post(p) PROVE IInv'
  <2> USE <1>5 DEF post, Goto
  <2>1. TypeOK'
    BY DEF TypeOK, Threads
  <2>2. Room'
    BY DEF Room, TypeOK, Threads
  <2>3. Exclusion'
    BY DEF Exclusion, TypeOK, Threads
  <2>4. Entered' = Entered \ {p} /\ p \in Entered /\ Tokens' = Tokens
    BY ThreadsAssumption DEF Entered, Tokens, TypeOK, Threads
  <2>5. Cardinality(Entered') = Cardinality(Entered) - 1
    BY <2>4, EnteredFinite, FS_RemoveElement
  <2>6. Count'
    BY <2>4, <2>5, EnteredFinite, TokensType DEF Count, TypeOK
  <2>7. QED
    BY <2>1, <2>2, <2>3, <2>6
<1>6. CASE wait
  <2> USE <1>6 DEF wait, Goto
  <2>1. TypeOK' /\ Room' /\ Exclusion'
    BY ThreadsAssumption DEF TypeOK, Room, Exclusion, Threads
  <2>2. Entered' = Entered /\ Tokens = 0 /\ Tokens' = 1
    BY ThreadsAssumption DEF Entered, Tokens, TypeOK, Threads
  <2>3. Count'
    BY <2>2, EnteredFinite DEF Count, TypeOK
  <2>4. QED
    BY <2>1, <2>3
<1>7. CASE timeout
  <2>1. TypeOK' /\ Room' /\ Exclusion'
    BY <1>7 DEF timeout, TypeOK, Room, Exclusion
  <2>2. Entered' = Entered /\ Tokens' = Tokens
    BY <1>7 DEF timeout, Entered, Tokens
  <2>3. QED
    BY <1>7, <2>1, <2>2, CountUnchanged DEF timeout
<1>8. CASE dequeue_lock
  <2> USE <1>8 DEF dequeue_lock, Goto, Acquire
  <2>1. TypeOK' /\ Room'
    BY ThreadsAssumption DEF TypeOK, Room, Threads
  <2>2. Exclusion'
    BY ThreadsAssumption DEF Exclusion, TypeOK, Threads
  <2>3. Entered' = Entered /\ Tokens' = Tokens
    BY ThreadsAssumption DEF Entered, Tokens, TypeOK, Threads
  <2>4. QED
    BY <2>1, <2>2, <2>3, CountUnchanged
<1>9. CASE pop_front
  <2> USE <1>9 DEF pop_front, Goto
  <2>1. view[Consumer] = m_queue /\ m_lock = Consumer
    BY DEF Exclusion, Threads
  <2>2. Tokens = 1 /\ Tokens' = 0 /\ Entered' = Entered
    BY ThreadsAssumption DEF Entered, Tokens, TypeOK, Threads
  <2>3. m_queue # << >>
    BY <2>2, EnteredFinite DEF Count, TypeOK
  <2>4. /\ Head(m_queue) \in Messages
        /\ m_queue' \in Seq(Messages)
        /\ Len(m_queue') = Len(m_queue) - 1
    BY <2>1, <2>3, HeadTailProperties DEF TypeOK
  <2>5. TypeOK'
    BY <2>1, <2>4, EmptySeq DEF TypeOK, Threads
  <2>6. Room'
    BY ThreadsAssumption DEF Room, TypeOK, Threads
  <2>7. Exclusion'
    BY <2>1 DEF Exclusion, TypeOK, Threads
  <2>8. Count'
    BY <2>2, <2>4, EnteredFinite DEF Count, TypeOK
  <2>9. QED
    BY <2>5, <2>6, <2>7, <2>8
<1>10. CASE dequeue_unlock
  <2> USE <1>10 DEF dequeue_unlock, Goto, Release
  <2>1. TypeOK' /\ Room'
    BY ThreadsAssumption DEF TypeOK, Room, Threads
  <2>2. m_lock = Consumer
    BY DEF Exclusion, Threads
  <2>3. Exclusion'
    BY <2>2 DEF Exclusion, TypeOK, Threads
  <2>4. Entered' = Entered /\ Tokens' = Tokens
    BY ThreadsAssumption DEF Entered, Tokens, TypeOK, Threads
  <2>5. QED
    BY <2>1, <2>3, <2>4, CountUnchanged
<1>11. CASE UNCHANGED vars
  <2>1. TypeOK' /\ Room' /\ Exclusion'
    BY <1>11 DEF vars, TypeOK, Room, Exclusion
  <2>2. Entered' = Entered /\ Tokens' = Tokens
    BY <1>11 DEF vars, Entered, Tokens
  <2>3. QED
    BY <1>11, <2>1, <2>2, CountUnchanged DEF vars
<1>12. QED
  BY <1>1, <1>2, <1>3, <1>4, <1>5, <1>6, <1>7, <1>8, <1>9, <1>10, <1>11
     DEF Next, enqueue, dequeue, Threads

LEMMA InvAlways == Spec => []IInv
BY InvInit, InvStep, PTL DEF Spec

-------------------------------------------------------------------------------
(* What the invariant shows *)

(* Every variable has its type in every execution. *)
THEOREM QueueTypeCorrect == Spec => []TypeOK
BY InvAlways, PTL DEF IInv

(* dequeue never reads the front of an empty deque, however many threads   *)
(* enqueue: the semaphore never lets the consumer past too early.          *)
THEOREM FrontAlwaysExists == Spec => []FrontExists
<1>1. IInv => FrontExists
  <2> SUFFICES ASSUME IInv, pc[Consumer] = "write" PROVE view[Consumer] # << >>
    BY DEF FrontExists
  <2>1. view[Consumer] = m_queue /\ Tokens = 1
    BY DEF IInv, Exclusion, Threads, Tokens
  <2>2. Len(m_queue) >= 1
    BY <2>1, EnteredFinite DEF IInv, Count, TypeOK
  <2>3. QED
    BY <2>1, <2>2
<1>2. QED
  BY <1>1, InvAlways, PTL

(* When no call is in progress, the semaphore's value is the length of the *)
(* deque.                                                                  *)
THEOREM SemaphoreAlwaysCounts == Spec => []SemaphoreCounts
<1>1. IInv => SemaphoreCounts
  <2> SUFFICES ASSUME IInv, \A t \in Threads : pc[t] = "idle"
               PROVE  m_sem = Len(m_queue)
    BY DEF SemaphoreCounts
  <2>1. Entered = {} /\ Tokens = 0
    BY DEF Entered, Tokens, Threads
  <2>2. QED
    BY <2>1, FS_EmptySet DEF IInv, Count, TypeOK
<1>2. QED
  BY <1>1, InvAlways, PTL

-------------------------------------------------------------------------------
(* Refinement *)

LEMMA ChannelStep ==
  IInv /\ [Next]_vars => [Channel!ChannelNext]_(Channel!channelVars)
<1> DEFINE Stutter == UNCHANGED <<m_queue, Cardinality(Entered), last>>
<1> SUFFICES ASSUME IInv, [Next]_vars
             PROVE  Channel!ChannelNext \/ Stutter
  BY DEF Channel!channelVars
<1> USE DEF IInv
<1>1. ASSUME NEW t \in Threads, Read(t) PROVE Stutter
  <2>1. Entered' = Entered
    BY <1>1 DEF Read, Goto, Entered, TypeOK, Threads
  <2>2. QED
    BY <1>1, <2>1 DEF Read
<1>2. ASSUME NEW p \in Producers, enqueue_lock(p) \/ enqueue_unlock(p)
      PROVE  Stutter
  <2>1. Entered' = Entered
    BY <1>2 DEF enqueue_lock, enqueue_unlock, Goto, Entered, TypeOK, Threads
  <2>2. QED
    BY <1>2, <2>1 DEF enqueue_lock, enqueue_unlock
<1>3. ASSUME NEW p \in Producers, push_back(p) PROVE Channel!Put
  <2>1. view[p] = m_queue
    BY <1>3 DEF push_back, Goto, Exclusion, Threads
  <2>2. <<p, sent[p] + 1>> \in Messages
    <3>1. sent[p] + 1 \in 1 .. MaxSent
      BY <1>3, MaxSentAssumption DEF push_back, Goto, Room, TypeOK
    <3>2. QED
      BY <3>1 DEF Messages
  <2>3. Entered' = Entered \cup {p} /\ p \notin Entered
    BY <1>3 DEF push_back, Goto, Entered, TypeOK, Threads
  <2>4. Cardinality(Entered') = Cardinality(Entered) + 1
    BY <2>3, EnteredFinite, FS_AddElement
  <2>5. QED
    BY <1>3, <2>1, <2>2, <2>4 DEF push_back, Channel!Put
<1>4. ASSUME NEW p \in Producers, post(p) PROVE Channel!Return
  <2>1. Entered' = Entered \ {p} /\ p \in Entered
    BY <1>4 DEF post, Goto, Entered, TypeOK, Threads
  <2>2. Cardinality(Entered') = Cardinality(Entered) - 1
    BY <2>1, EnteredFinite, FS_RemoveElement
  <2>3. Cardinality(Entered) > 0
    BY <2>1, EnteredFinite, FS_EmptySet
  <2>4. QED
    BY <1>4, <2>2, <2>3 DEF post, Channel!Return
<1>5. CASE wait \/ dequeue_lock \/ dequeue_unlock
  <2>1. Entered' = Entered
    BY <1>5, ThreadsAssumption
       DEF wait, dequeue_lock, dequeue_unlock, Goto, Entered, TypeOK, Threads
  <2>2. QED
    BY <1>5, <2>1 DEF wait, dequeue_lock, dequeue_unlock
<1>6. CASE timeout
  <2>1. Entered' = Entered /\ Tokens = 0
    BY <1>6 DEF timeout, Entered, Tokens
  <2>2. Len(m_queue) <= Cardinality(Entered)
    BY <1>6, <2>1, EnteredFinite DEF timeout, Count
  <2>3. Channel!GiveUp
    BY <1>6, <2>1, <2>2 DEF timeout, Channel!GiveUp
  <2>4. QED
    BY <2>3 DEF Channel!ChannelNext
<1>7. CASE pop_front
  <2>1. view[Consumer] = m_queue /\ Tokens = 1
    BY <1>7 DEF pop_front, Goto, Exclusion, Tokens, Threads
  <2>2. Entered' = Entered
    BY <1>7, ThreadsAssumption DEF pop_front, Goto, Entered, TypeOK, Threads
  <2>3. m_queue # << >>
    BY <2>1, EnteredFinite DEF Count, TypeOK
  <2>4. Channel!Get
    BY <1>7, <2>1, <2>2, <2>3 DEF pop_front, Channel!Get
  <2>5. QED
    BY <2>4 DEF Channel!ChannelNext
<1>8. CASE UNCHANGED vars
  BY <1>8 DEF vars, Entered
<1>9. QED
  BY <1>1, <1>2, <1>3, <1>4, <1>5, <1>6, <1>7, <1>8
     DEF Next, enqueue, dequeue, Threads, Channel!ChannelNext

(* The queue with its two locks implements the first-in first-out channel: *)
(* no message is lost, duplicated or overtaken, and null is only returned  *)
(* while there are no more messages than calls of enqueue in progress.     *)
THEOREM QueueIsChannel == Spec => IsChannel
<1>1. Init => Channel!ChannelInit
  <2>1. Init => Entered = {}
    BY DEF Init, Entered, Threads
  <2>2. QED
    BY <2>1, FS_EmptySet DEF Init, Channel!ChannelInit
<1>2. QED
  BY <1>1, ChannelStep, InvAlways, PTL DEF Spec, IsChannel, Channel!ChannelSpec
================================================================================
