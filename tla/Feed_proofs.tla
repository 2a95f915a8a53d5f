------------------------------ MODULE Feed_proofs ------------------------------
(***************************************************************************)
(* Theorems about what the displays of Server show: CaughtUp, NeverReshown *)
(* and ScreenNeverAhead, for any displays, orders and bounds.              *)
(*                                                                         *)
(* All three are about Pipe(d), everything on its way to display d.  The   *)
(* inductive invariant says, field by field of an order (is it there, what *)
(* is its status, what is the status of each item), that the screen or a   *)
(* message on its way that has the field wrong is made good by a later     *)
(* message that has it right.                                              *)
(***************************************************************************)
EXTENDS Server_proofs

(* A message of R is on its way. *)
Has(s, R) == \E k \in DOMAIN s : s[k] \in R

(* Every message of W is made good by one of R behind it. *)
Corrected(s, W, R) ==
  \A k \in DOMAIN s : s[k] \in W => \E j \in DOMAIN s : k < j /\ s[j] \in R

(* Behind a message of A there is none of B. *)
NoneAfter(s, A, B) ==
  \A k, j \in DOMAIN s : k < j /\ s[k] \in A => s[j] \notin B

LEMMA ConcatIndices ==
  ASSUME NEW S, NEW s \in Seq(S), NEW t \in Seq(S)
  PROVE  /\ DOMAIN (s \o t) = 1 .. Len(s) + Len(t)
         /\ DOMAIN s = 1 .. Len(s) /\ DOMAIN t = 1 .. Len(t)
         /\ Len(s) \in Nat /\ Len(t) \in Nat
         /\ \A k \in DOMAIN s : k \in DOMAIN (s \o t) /\ (s \o t)[k] = s[k]
         /\ \A k \in DOMAIN t :
              Len(s) + k \in DOMAIN (s \o t) /\ (s \o t)[Len(s) + k] = t[k]
         /\ \A k \in DOMAIN (s \o t) :
              \/ k \in DOMAIN s
              \/ k - Len(s) \in DOMAIN t /\ k = Len(s) + (k - Len(s))
<1> DEFINE c == s \o t
<1>1. /\ c \in Seq(S) /\ Len(c) = Len(s) + Len(t)
      /\ \A i \in 1 .. Len(s) + Len(t) :
           c[i] = IF i <= Len(s) THEN s[i] ELSE t[i - Len(s)]
  BY ConcatProperties
<1>2. DOMAIN s = 1 .. Len(s) /\ DOMAIN t = 1 .. Len(t)
  OBVIOUS
<1>3. Len(s) \in Nat /\ Len(t) \in Nat
  OBVIOUS
<1> HIDE DEF c
<1>4. DOMAIN c = 1 .. Len(s) + Len(t)
  BY <1>1
<1>5. \A k \in DOMAIN s : k \in DOMAIN c /\ c[k] = s[k]
  BY <1>1, <1>2, <1>3, <1>4
<1>6. \A k \in DOMAIN t : Len(s) + k \in DOMAIN c /\ c[Len(s) + k] = t[k]
  BY <1>1, <1>2, <1>3, <1>4
<1>7. \A k \in DOMAIN c :
        \/ k \in DOMAIN s
        \/ k - Len(s) \in DOMAIN t /\ k = Len(s) + (k - Len(s))
  BY <1>2, <1>3, <1>4
<1>8. QED
  BY <1>2, <1>3, <1>4, <1>5, <1>6, <1>7 DEF c

LEMMA HasConcat ==
  ASSUME NEW S, NEW s \in Seq(S), NEW t \in Seq(S), NEW R
  PROVE  Has(s \o t, R) <=> Has(s, R) \/ Has(t, R)
<1> DEFINE c == s \o t
<1>1. ASSUME Has(c, R) PROVE Has(s, R) \/ Has(t, R)
  <2>1. PICK k \in DOMAIN c : c[k] \in R
    BY <1>1 DEF Has
  <2>2. QED
    BY <2>1, ConcatIndices DEF Has
<1>2. ASSUME Has(s, R) PROVE Has(c, R)
  <2>1. PICK k \in DOMAIN s : s[k] \in R
    BY <1>2 DEF Has
  <2>2. k \in DOMAIN c /\ c[k] = s[k]
    BY ConcatIndices
  <2>3. QED
    BY <2>1, <2>2 DEF Has
<1>3. ASSUME Has(t, R) PROVE Has(c, R)
  <2>1. PICK k \in DOMAIN t : t[k] \in R
    BY <1>3 DEF Has
  <2>2. Len(s) + k \in DOMAIN c /\ c[Len(s) + k] = t[k]
    BY ConcatIndices
  <2>3. QED
    BY <2>1, <2>2 DEF Has
<1>4. QED
  BY <1>1, <1>2, <1>3

LEMMA CorrectedConcat ==
  ASSUME NEW S, NEW s \in Seq(S), NEW t \in Seq(S), NEW W, NEW R
  PROVE  Corrected(s \o t, W, R)
           <=> Corrected(t, W, R) /\ (Corrected(s, W, R) \/ Has(t, R))
<1> DEFINE c == s \o t
<1>0. Len(s) \in Nat /\ Len(t) \in Nat
      /\ DOMAIN s = 1 .. Len(s) /\ DOMAIN t = 1 .. Len(t)
  OBVIOUS
<1>1. ASSUME Corrected(c, W, R) PROVE Corrected(t, W, R)
  <2> SUFFICES ASSUME NEW k \in DOMAIN t, t[k] \in W
               PROVE  \E j \in DOMAIN t : k < j /\ t[j] \in R
    BY DEF Corrected
  <2>1. Len(s) + k \in DOMAIN c /\ c[Len(s) + k] \in W
    BY ConcatIndices
  <2>2. PICK j \in DOMAIN c : Len(s) + k < j /\ c[j] \in R
    BY <1>1, <2>1 DEF Corrected
  <2>3. j \notin DOMAIN s /\ j \in Int /\ k < j - Len(s)
    BY <1>0, <2>2, ConcatIndices
  <2>4. j - Len(s) \in DOMAIN t /\ c[j] = t[j - Len(s)]
    BY <2>2, <2>3, ConcatIndices
  <2>5. QED
    BY <2>2, <2>3, <2>4
<1>2. ASSUME Corrected(c, W, R), ~ Has(t, R) PROVE Corrected(s, W, R)
  <2> SUFFICES ASSUME NEW k \in DOMAIN s, s[k] \in W
               PROVE  \E j \in DOMAIN s : k < j /\ s[j] \in R
    BY DEF Corrected
  <2>1. k \in DOMAIN c /\ c[k] \in W
    BY ConcatIndices
  <2>2. PICK j \in DOMAIN c : k < j /\ c[j] \in R
    BY <1>2, <2>1 DEF Corrected
  <2>3. j \in DOMAIN s
    BY <1>2, <2>2, ConcatIndices DEF Has
  <2>4. QED
    BY <2>2, <2>3, ConcatIndices
<1>3. ASSUME Corrected(t, W, R), Corrected(s, W, R) \/ Has(t, R)
      PROVE  Corrected(c, W, R)
  <2> SUFFICES ASSUME NEW k \in DOMAIN c, c[k] \in W
               PROVE  \E j \in DOMAIN c : k < j /\ c[j] \in R
    BY DEF Corrected
  <2>1. CASE k \in DOMAIN s /\ Has(t, R)
    <3>1. PICK j \in DOMAIN t : t[j] \in R
      BY <2>1 DEF Has
    <3>2. Len(s) + j \in DOMAIN c /\ c[Len(s) + j] \in R
      BY <3>1, ConcatIndices
    <3>3. k < Len(s) + j
      BY <1>0, <2>1
    <3>4. QED
      BY <3>2, <3>3
  <2>2. CASE k \in DOMAIN s /\ Corrected(s, W, R)
    <3>1. PICK j \in DOMAIN s : k < j /\ s[j] \in R
      BY <2>2, ConcatIndices DEF Corrected
    <3>2. QED
      BY <3>1, ConcatIndices
  <2>3. CASE k \notin DOMAIN s
    <3>1. k - Len(s) \in DOMAIN t /\ c[k] = t[k - Len(s)] /\ k \in Int
      BY <2>3, ConcatIndices
    <3>2. PICK j \in DOMAIN t : k - Len(s) < j /\ t[j] \in R
      BY <1>3, <3>1 DEF Corrected
    <3>3. Len(s) + j \in DOMAIN c /\ c[Len(s) + j] \in R
      BY <3>2, ConcatIndices
    <3>4. k < Len(s) + j
      BY <1>0, <3>1, <3>2
    <3>5. QED
      BY <3>3, <3>4
  <2>4. QED
    BY <1>3, <2>1, <2>2, <2>3
<1>4. QED
  BY <1>1, <1>2, <1>3

LEMMA NoneAfterConcat ==
  ASSUME NEW S, NEW s \in Seq(S), NEW t \in Seq(S), NEW A, NEW B
  PROVE  NoneAfter(s \o t, A, B)
           <=> /\ NoneAfter(s, A, B) /\ NoneAfter(t, A, B)
               /\ ~ (Has(s, A) /\ Has(t, B))
<1> DEFINE c == s \o t
<1>0. Len(s) \in Nat /\ Len(t) \in Nat
      /\ DOMAIN s = 1 .. Len(s) /\ DOMAIN t = 1 .. Len(t)
  OBVIOUS
<1>1. ASSUME NoneAfter(c, A, B) PROVE NoneAfter(s, A, B)
  BY <1>1, ConcatIndices DEF NoneAfter
<1>2. ASSUME NoneAfter(c, A, B) PROVE NoneAfter(t, A, B)
  <2> SUFFICES ASSUME NEW k \in DOMAIN t, NEW j \in DOMAIN t, k < j, t[k] \in A
               PROVE  t[j] \notin B
    BY DEF NoneAfter
  <2>1. /\ Len(s) + k \in DOMAIN c /\ c[Len(s) + k] = t[k]
        /\ Len(s) + j \in DOMAIN c /\ c[Len(s) + j] = t[j]
    BY ConcatIndices
  <2>2. Len(s) + k < Len(s) + j
    BY <1>0
  <2>3. QED
    BY <1>2, <2>1, <2>2 DEF NoneAfter
<1>3. ASSUME NoneAfter(c, A, B), Has(s, A), Has(t, B) PROVE FALSE
  <2>1. PICK k \in DOMAIN s : s[k] \in A
    BY <1>3 DEF Has
  <2>2. PICK j \in DOMAIN t : t[j] \in B
    BY <1>3 DEF Has
  <2>3. /\ k \in DOMAIN c /\ c[k] \in A
        /\ Len(s) + j \in DOMAIN c /\ c[Len(s) + j] \in B
    BY <2>1, <2>2, ConcatIndices
  <2>4. k < Len(s) + j
    BY <1>0
  <2>5. QED
    BY <1>3, <2>3, <2>4 DEF NoneAfter
<1>4. ASSUME NoneAfter(s, A, B), NoneAfter(t, A, B), ~ (Has(s, A) /\ Has(t, B))
      PROVE  NoneAfter(c, A, B)
  <2> SUFFICES ASSUME NEW k \in DOMAIN c, NEW j \in DOMAIN c, k < j, c[k] \in A,
                      c[j] \in B
               PROVE  FALSE
    BY DEF NoneAfter
  <2>1. CASE j \in DOMAIN s
    <3>1. k \in DOMAIN s
      BY <1>0, <2>1, ConcatIndices
    <3>2. QED
      BY <1>4, <2>1, <3>1, ConcatIndices DEF NoneAfter
  <2>2. CASE j \notin DOMAIN s /\ k \in DOMAIN s
    <3>1. Has(t, B)
      BY <2>2, ConcatIndices DEF Has
    <3>2. Has(s, A)
      BY <2>2, ConcatIndices DEF Has
    <3>3. QED
      BY <1>4, <3>1, <3>2
  <2>3. CASE j \notin DOMAIN s /\ k \notin DOMAIN s
    <3>1. /\ k - Len(s) \in DOMAIN t /\ c[k] = t[k - Len(s)] /\ k \in Int
          /\ j - Len(s) \in DOMAIN t /\ c[j] = t[j - Len(s)] /\ j \in Int
      BY <2>3, ConcatIndices
    <3>2. k - Len(s) < j - Len(s)
      BY <1>0, <3>1
    <3>3. QED
      BY <1>4, <3>1, <3>2 DEF NoneAfter
  <2>4. QED
    BY <2>1, <2>2, <2>3
<1>5. QED
  BY <1>1, <1>2, <1>3, <1>4

(* Sequences of no message, and of one. *)
LEMMA ShortSequences ==
  /\ \A R : ~ Has(<< >>, R)
  /\ \A W, R : Corrected(<< >>, W, R) /\ NoneAfter(<< >>, W, R)
  /\ \A m, R : Has(<<m>>, R) <=> m \in R
  /\ \A m, W, R : Corrected(<<m>>, W, R) <=> m \notin W
  /\ \A m, A, B : NoneAfter(<<m>>, A, B)
BY DEF Has, Corrected, NoneAfter

(* Nothing that is wrong needs no correction. *)
LEMMA CorrectedIfNone ==
  ASSUME NEW s, NEW W, NEW R, ~ Has(s, W)
  PROVE  Corrected(s, W, R)
BY DEF Has, Corrected

-------------------------------------------------------------------------------
(* The messages that say something about a field of an order *)

ShowsOf(id)    == {m \in DisplayMessage : Shows(m, id)}
DeliversOf(id) == {m \in DisplayMessage : Delivers(m, id)}

SetsStatus(id) ==
  {m \in DisplayMessage :
     m.type \in {"DISP_ORDER", "DISP_ORDER_UPDATE"} /\ m.id = id}

StatusIn(m) == IF m.type = "DISP_ORDER" THEN m.order.status ELSE m.status

StatusRight(id, st) == {m \in SetsStatus(id) : StatusIn(m) = st}
StatusWrong(id, st) == {m \in SetsStatus(id) : StatusIn(m) # st}

(* Those about item p of an order that has the items of o. *)
SetsItem(id, o, p) ==
  {m \in DisplayMessage :
     \/ Shows(m, id)
     \/ m.type = "DISP_ITEM_UPDATE" /\ m.id = id /\ Names(o, p, m.item)}

ItemIn(m, p) ==
  IF m.type = "DISP_ORDER" THEN m.order.items[p].status ELSE m.status

ItemRight(id, o, p) ==
  {m \in SetsItem(id, o, p) : ItemIn(m, p) = o.items[p].status}
ItemWrong(id, o, p) ==
  {m \in SetsItem(id, o, p) : ItemIn(m, p) # o.items[p].status}

(* n is the order o some updates later, status included. *)
Later(o, n) == Advanced(o, n) /\ Rank(o.status) <= Rank(n.status)

(* What m says has been true of the order that is now o. *)
Told(m, o) ==
  \/ m.type = "DISP_ORDER" /\ Later(m.order, o)
  \/ /\ m.type = "DISP_ITEM_UPDATE"
     /\ HasItem(o, m.item)
     /\ Rank(m.status) <= Rank(o.items[find_item(o, m.item)].status)
  \/ /\ m.type = "DISP_ORDER_UPDATE"
     /\ m.status # "DELIVERED"
     /\ Rank(m.status) <= Rank(o.status)

(* The messages that say what has not been true yet: they speak of an      *)
(* order that has not been created, or of what is still to come.           *)
Ahead ==
  {m \in DisplayMessage :
     /\ m # DispHeartbeat
     /\ \/ ~ (m.id < next_order_id)
        \/ my_orders[m.id] # NoOrder /\ ~ Told(m, my_orders[m.id])}

ScreenBehind(scr) ==
  \A id \in OrderIds : scr[id] # NoOrder =>
    /\ id < next_order_id
    /\ my_orders[id] # NoOrder => Later(scr[id], my_orders[id])

-------------------------------------------------------------------------------
(* The invariant *)

(* The display reads what it is sent. *)
On(d) == phase[d] = "stream" /\ peer[d] = "open"

(* What there is at each stage of a connection. *)
Stages ==
  \A d \in Displays :
    /\ phase[d] \in {"joined", "stream"} => d \in my_clients
    /\ d \in my_clients => phase[d] \in {"joined", "stream", "failed"}
    /\ d \notin my_clients => queue[d] = << >>
    /\ d \notin my_clients \/ phase[d] = "joined" => backlog[d] = << >>
    /\ ~ On(d) => sock[d] = << >> /\ screen[d] = EmptyScreen

(* Neither a screen nor what is on its way to it is ahead of the server. *)
NoneAhead ==
  \A d \in Displays : ~ Has(Pipe(d), Ahead) /\ ScreenBehind(screen[d])

(* No order comes after its delivery. *)
DeliveriesLast ==
  \A d \in Displays, id \in OrderIds :
    NoneAfter(Pipe(d), DeliversOf(id), ShowsOf(id))

(* A display that has, or will get, an order that is gone will hear of its *)
(* delivery.                                                               *)
Gone(d, id) ==
  /\ Corrected(Pipe(d), ShowsOf(id), DeliversOf(id))
  /\ screen[d][id] # NoOrder => Has(Pipe(d), DeliversOf(id))

(* A display that has an order wrong, or will get it wrong, will hear what *)
(* is right.                                                               *)
Kept(d, id, o) ==
  /\ Corrected(Pipe(d), StatusWrong(id, o.status), StatusRight(id, o.status))
  /\ \A p \in DOMAIN o.items :
       Corrected(Pipe(d), ItemWrong(id, o, p), ItemRight(id, o, p))

Shown(d, id, o) ==
  LET shown == screen[d][id]
  IN  IF shown = NoOrder THEN Has(Pipe(d), ShowsOf(id))
      ELSE /\ shown.status # o.status => Has(Pipe(d), StatusRight(id, o.status))
           /\ \A p \in DOMAIN o.items :
                shown.items[p].status # o.items[p].status
                  => Has(Pipe(d), ItemRight(id, o, p))

Fed(d, id) ==
  IF my_orders[id] = NoOrder THEN Gone(d, id)
  ELSE /\ Kept(d, id, my_orders[id])
       /\ On(d) => Shown(d, id, my_orders[id])

AllCorrected == \A d \in Displays, id \in OrderIds : Fed(d, id)

FeedInv == Stages /\ NoneAhead /\ DeliveriesLast /\ AllCorrected

-------------------------------------------------------------------------------
(* Orders only move forward, and so does what can be told of them *)

LEMMA LaterSame == ASSUME NEW o PROVE Later(o, o)
<1>1. \A st : Rank(st) <= Rank(st)
  BY RankType
<1>2. QED
  BY <1>1 DEF Later, Advanced

LEMMA LaterTransitive ==
  ASSUME NEW a, NEW b, NEW c, Later(a, b), Later(b, c)
  PROVE  Later(a, c)
<1>1. \A r, s, t : Rank(r) <= Rank(s) /\ Rank(s) <= Rank(t) => Rank(r) <= Rank(t)
  BY RankType
<1>2. QED
  BY <1>1 DEF Later, Advanced

LEMMA StatusAfterLater ==
  ASSUME NEW o \in Order, NEW s \in ItemStatus
  PROVE  Rank(o.status) <= Rank(StatusAfter(o, s))
<1>1. o.status \in OrderStatus
  BY DEF Order
<1>2. QED
  BY <1>1 DEF StatusAfter, Rank, OrderStatus

(* An order that is in my_orders before and after a step is later after it.*)
LEMMA OrderStep ==
  ASSUME TypeOK, [Next]_vars, NEW id \in OrderIds, id < next_order_id,
         my_orders'[id] # NoOrder
  PROVE  my_orders[id] # NoOrder /\ Later(my_orders[id], my_orders'[id])
<1>1. /\ my_orders[id] # NoOrder
      /\ Advanced(my_orders[id], my_orders'[id])
  BY OrdersOnlyAdvance
<1>2. \A st : Rank(st) <= Rank(st)
  BY RankType
<1> DEFINE Goal == Rank(my_orders[id].status) <= Rank(my_orders'[id].status)
<1>3. ASSUME UNCHANGED my_orders PROVE Goal
  BY <1>2, <1>3
<1>4. ASSUME NEW o \in NewOrders, create_order(o) PROVE Goal
  <2>1. id # next_order_id
    BY MaxOrdersAssumption DEF TypeOK, OrderIds
  <2>2. my_orders'[id] = my_orders[id]
    BY <1>4, <2>1 DEF create_order, TypeOK
  <2>3. QED
    BY <1>2, <2>2
<1>5. ASSUME NEW k \in OrderIds, NEW i \in ItemIds, NEW s \in ItemStatus,
             update_item(k, i, s)
      PROVE  Goal
  <2> DEFINE n == set_item_status(my_orders[k], i, s)
             r == [n EXCEPT !.status = StatusAfter(n, s)]
  <2>1. my_orders[k] \in Order /\ HasItem(my_orders[k], i)
    BY <1>5, UpdateItemOrders DEF update_item
  <2>2. n \in Order /\ n.status = my_orders[k].status
    BY <2>1, SetItemStatus
  <2>3. my_orders' = [my_orders EXCEPT ![k] = r]
    BY <1>5 DEF update_item
  <2> HIDE DEF n
  <2>4. Rank(n.status) <= Rank(StatusAfter(n, s)) /\ r.status = StatusAfter(n, s)
    BY <2>2, StatusAfterLater DEF Order
  <2> HIDE DEF r
  <2>5. QED
    BY <1>2, <2>2, <2>3, <2>4 DEF TypeOK
<1>6. ASSUME NEW k \in OrderIds, NEW s \in OrderStatus, update_order(k, s)
      PROVE  Goal
  BY <1>2, <1>6 DEF update_order, TypeOK
<1>7. Goal
  BY <1>3, <1>4, <1>5, <1>6
     DEF Next, Update, Serve, Connect, add_client, snapshot_orders,
         SendSnapshot, SendQueued, SendHeartbeat, SendFails, remove_client,
         receive, PeerCloses, serverVars, vars
<1>8. QED
  BY <1>1, <1>7 DEF Later

LEMMA ToldLater ==
  ASSUME NEW o \in Order, NEW n \in Order, Later(o, n),
         NEW m \in DisplayMessage, Told(m, o)
  PROVE  Told(m, n)
<1>1. \A r, s, t : Rank(r) <= Rank(s) /\ Rank(s) <= Rank(t) => Rank(r) <= Rank(t)
  BY RankType
<1>2. CASE m.type = "DISP_ORDER"
  BY <1>2, LaterTransitive DEF Told
<1>3. CASE m.type = "DISP_ITEM_UPDATE"
  <2> DEFINE p == find_item(o, m.item)
  <2>1. HasItem(o, m.item) /\ Rank(m.status) <= Rank(o.items[p].status)
    BY <1>3 DEF Told
  <2>2. HasItem(n, m.item) /\ find_item(n, m.item) = p
    BY <2>1, AdvancedNames DEF Later
  <2>3. p \in DOMAIN o.items
    BY <2>1, FindItemNames DEF Names
  <2>4. Rank(o.items[p].status) <= Rank(n.items[p].status)
    BY <2>3 DEF Later, Advanced
  <2> HIDE DEF p
  <2>5. Rank(m.status) <= Rank(n.items[p].status)
    BY <1>1, <2>1, <2>4
  <2>6. QED
    BY <1>3, <2>2, <2>5 DEF Told
<1>4. CASE m.type = "DISP_ORDER_UPDATE"
  BY <1>1, <1>4 DEF Told, Later
<1>5. QED
  BY <1>2, <1>3, <1>4 DEF Told

(* What has been true stays so. *)
LEMMA AheadShrinks == ASSUME TypeOK, TypeOK', [Next]_vars PROVE Ahead' \subseteq Ahead
<1> SUFFICES ASSUME NEW m \in Ahead' PROVE m \in Ahead
  OBVIOUS
<1>1. m \in DisplayMessage /\ m # DispHeartbeat
  BY DEF Ahead
<1>2. m.id \in OrderIds
  BY <1>1 DEF DisplayMessage
<1>3. ASSUME m.id < next_order_id, my_orders'[m.id] # NoOrder,
             Told(m, my_orders[m.id])
      PROVE  Told(m, my_orders'[m.id])
  <2>1. my_orders[m.id] # NoOrder /\ Later(my_orders[m.id], my_orders'[m.id])
    BY <1>2, <1>3, OrderStep
  <2>2. my_orders[m.id] \in Order /\ my_orders'[m.id] \in Order
    BY <1>2, <1>3, <2>1 DEF TypeOK, MaybeOrder
  <2>3. QED
    BY <1>1, <1>3, <2>1, <2>2, ToldLater
<1>4. m.id < next_order_id => m.id < next_order_id'
  <2>1. CASE m.id < next_order_id
    <3>1. next_order_id <= next_order_id'
      BY <1>2, <2>1, OrdersOnlyAdvance
    <3>2. m.id \in Int /\ next_order_id \in Int /\ next_order_id' \in Int
      BY <1>2, MaxOrdersAssumption DEF TypeOK, OrderIds
    <3>3. QED
      BY <2>1, <3>1, <3>2
  <2>2. QED
    BY <2>1
<1>5. CASE ~ (m.id < next_order_id)
  BY <1>1, <1>5 DEF Ahead
<1>6. CASE m.id < next_order_id
  <2>1. my_orders'[m.id] # NoOrder /\ ~ Told(m, my_orders'[m.id])
    BY <1>4, <1>6 DEF Ahead, Told
  <2>2. my_orders[m.id] # NoOrder /\ ~ Told(m, my_orders[m.id])
    BY <1>2, <1>3, <1>6, <2>1, OrderStep
  <2>3. QED
    BY <1>1, <2>2 DEF Ahead
<1>7. QED
  BY <1>5, <1>6

LEMMA BehindStep ==
  ASSUME TypeOK, TypeOK', [Next]_vars,
         NEW scr \in [OrderIds -> MaybeOrder], ScreenBehind(scr)
  PROVE  ScreenBehind(scr)'
<1> SUFFICES ASSUME NEW id \in OrderIds, scr[id] # NoOrder
             PROVE  /\ id < next_order_id'
                    /\ my_orders'[id] # NoOrder => Later(scr[id], my_orders'[id])
  BY DEF ScreenBehind
<1>1. id < next_order_id
  BY DEF ScreenBehind
<1>2. id < next_order_id'
  <2>1. next_order_id <= next_order_id'
    BY <1>1, OrdersOnlyAdvance
  <2>2. id \in Int /\ next_order_id \in Int /\ next_order_id' \in Int
    BY MaxOrdersAssumption DEF TypeOK, OrderIds
  <2>3. QED
    BY <1>1, <2>1, <2>2
<1>3. ASSUME my_orders'[id] # NoOrder PROVE Later(scr[id], my_orders'[id])
  <2>1. my_orders[id] # NoOrder /\ Later(my_orders[id], my_orders'[id])
    BY <1>1, <1>3, OrderStep
  <2>2. Later(scr[id], my_orders[id])
    BY <2>1 DEF ScreenBehind
  <2>3. QED
    BY <2>1, <2>2, LaterTransitive
<1>4. QED
  BY <1>2, <1>3

-------------------------------------------------------------------------------
(* What a step does to what is on its way to one display *)

LEMMA PipeType ==
  ASSUME TypeOK, NEW d \in Displays
  PROVE  /\ sock[d] \in Seq(DisplayMessage) /\ backlog[d] \in Seq(DisplayMessage)
         /\ queue[d] \in Seq(DisplayMessage)
         /\ Pipe(d) \in Seq(DisplayMessage)
<1>1. /\ sock[d] \in Seq(DisplayMessage) /\ backlog[d] \in Seq(DisplayMessage)
      /\ queue[d] \in Seq(DisplayMessage)
  BY DEF TypeOK
<1>2. sock[d] \o backlog[d] \in Seq(DisplayMessage)
  BY <1>1, ConcatProperties
<1>3. QED
  BY <1>1, <1>2, ConcatProperties DEF Pipe

LEMMA PipeTypeNext ==
  ASSUME TypeOK', NEW d \in Displays
  PROVE  Pipe(d)' \in Seq(DisplayMessage)
<1>1. /\ sock'[d] \in Seq(DisplayMessage) /\ backlog'[d] \in Seq(DisplayMessage)
      /\ queue'[d] \in Seq(DisplayMessage)
  BY DEF TypeOK
<1>2. sock'[d] \o backlog'[d] \in Seq(DisplayMessage)
  BY <1>1, ConcatProperties
<1>3. QED
  BY <1>1, <1>2, ConcatProperties DEF Pipe

LEMMA ConcatRegroups ==
  \A s, t, u \in Seq(DisplayMessage) : (s \o t) \o u = s \o (t \o u)
BY ConcatAssociative

(* The head of the second sequence goes to the end of the first. *)
LEMMA MoveHead ==
  ASSUME NEW S, NEW s \in Seq(S), NEW t \in Seq(S), t # << >>
  PROVE  Append(s, Head(t)) \o Tail(t) = s \o t
<1>1. Head(t) \in S /\ Tail(t) \in Seq(S)
  BY HeadTailProperties
<1> DEFINE h == <<Head(t)>>
<1>2. h \in Seq(S) /\ h \o Tail(t) = t
  BY <1>1, FrontOfSeq
<1>3. Append(s, Head(t)) = s \o h
  BY <1>1
<1> HIDE DEF h
<1>4. (s \o h) \o Tail(t) = s \o (h \o Tail(t))
  BY <1>1, <1>2, ConcatAssociative, Z3
<1>5. QED
  BY <1>2, <1>3, <1>4

(* Nothing moves, or something moves along within the pipe. *)
Keeps(d) ==
  /\ Pipe(d)' = Pipe(d)
  /\ screen'[d] = screen[d]
  /\ On(d)' => On(d)

(* A heartbeat goes out. *)
Beats(d) ==
  /\ \E a, b \in Seq(DisplayMessage) :
       Pipe(d) = a \o b /\ Pipe(d)' = a \o (<<DispHeartbeat>> \o b)
  /\ screen'[d] = screen[d]
  /\ On(d)' => On(d)

(* Messages are lost: the display program has gone. *)
Drops(d) ==
  /\ \E a \in Seq(DisplayMessage) : Pipe(d) = a \o Pipe(d)'
  /\ screen'[d] = EmptyScreen
  /\ peer'[d] # "open"

(* The display program reads a message. *)
Reads(d) ==
  \E m \in DisplayMessage :
    /\ Pipe(d) = <<m>> \o Pipe(d)'
    /\ screen'[d] = Show(screen[d], m)
    /\ On(d)

(* The snapshot is taken: it goes before all that has been queued. *)
Snaps(d) ==
  /\ \E ids \in Listings(LiveIds) : Pipe(d)' = Copies(ids) \o Pipe(d)
  /\ screen[d] = EmptyScreen /\ screen'[d] = EmptyScreen

Gets(d, msgs) ==
  /\ IF d \in my_clients THEN Pipe(d)' = Pipe(d) \o msgs
     ELSE Pipe(d)' = << >> /\ Pipe(d) = << >>
  /\ screen'[d] = screen[d]
  /\ On(d)' <=> On(d)

LEMMA SendSnapshotMoves ==
  ASSUME TypeOK, Stages, NEW d \in Displays, SendSnapshot(d)
  PROVE  Keeps(d) \/ Drops(d)
<1>1. /\ sock[d] \in Seq(DisplayMessage) /\ backlog[d] \in Seq(DisplayMessage)
      /\ queue[d] \in Seq(DisplayMessage)
  BY PipeType
<1>2. /\ backlog[d] # << >> /\ backlog'[d] = Tail(backlog[d])
      /\ queue' = queue /\ screen' = screen /\ phase' = phase
  BY DEF SendSnapshot, TypeOK
<1>3. CASE peer[d] = "open"
  <2>1. sock'[d] = Append(sock[d], Head(backlog[d])) /\ peer' = peer
    BY <1>3 DEF SendSnapshot, send_msg, TypeOK
  <2>2. Append(sock[d], Head(backlog[d])) \o Tail(backlog[d]) = sock[d] \o backlog[d]
    BY <1>1, <1>2, MoveHead
  <2>3. Pipe(d)' = Pipe(d)
    BY <1>2, <2>1, <2>2 DEF Pipe
  <2>4. QED
    BY <1>2, <2>1, <2>3 DEF Keeps, On
<1>4. CASE peer[d] # "open"
  <2>1. sock' = sock /\ peer'[d] = "reset"
    BY <1>4 DEF SendSnapshot, send_msg, TypeOK
  <2>2. sock[d] = << >> /\ screen[d] = EmptyScreen
    BY <1>4 DEF Stages, On
  <2> DEFINE h == <<Head(backlog[d])>>
             t == Tail(backlog[d])
  <2>3. Head(backlog[d]) \in DisplayMessage /\ t \in Seq(DisplayMessage)
    BY <1>1, <1>2, HeadTailProperties
  <2>4. h \in Seq(DisplayMessage) /\ h \o t = backlog[d]
    BY <1>1, <1>2, <2>3, FrontOfSeq
  <2> HIDE DEF h, t
  <2>5. << >> \o backlog[d] = backlog[d] /\ << >> \o t = t
    BY <1>1, <2>3, ConcatEmptySeq
  <2>6. Pipe(d)' = t \o queue[d] /\ Pipe(d) = (h \o t) \o queue[d]
    BY <1>2, <2>1, <2>2, <2>4, <2>5 DEF Pipe, t
  <2>7. (h \o t) \o queue[d] = h \o (t \o queue[d])
    BY <1>1, <2>3, <2>4, ConcatRegroups
  <2>8. QED
    BY <1>2, <2>1, <2>2, <2>4, <2>6, <2>7 DEF Drops
<1>5. QED
  BY <1>3, <1>4

LEMMA SendQueuedMoves ==
  ASSUME TypeOK, Stages, NEW d \in Displays, SendQueued(d)
  PROVE  Keeps(d) \/ Drops(d)
<1>1. sock[d] \in Seq(DisplayMessage) /\ queue[d] \in Seq(DisplayMessage)
  BY PipeType
<1>2. /\ backlog[d] = << >> /\ backlog' = backlog
      /\ queue[d] # << >> /\ queue'[d] = Tail(queue[d])
      /\ screen' = screen /\ phase' = phase
  BY DEF SendQueued, TypeOK
<1>3. /\ Head(queue[d]) \in DisplayMessage
      /\ Tail(queue[d]) \in Seq(DisplayMessage)
  BY <1>1, <1>2, HeadTailProperties
<1>4. CASE peer[d] = "open"
  <2> DEFINE more == Append(sock[d], Head(queue[d]))
  <2>1. sock'[d] = more /\ peer' = peer
    BY <1>4 DEF SendQueued, send_msg, TypeOK
  <2>2. more \o Tail(queue[d]) = sock[d] \o queue[d]
    BY <1>1, <1>2, MoveHead
  <2>3. more \in Seq(DisplayMessage)
    BY <1>1, <1>3, AppendProperties
  <2> HIDE DEF more
  <2>4. more \o << >> = more /\ sock[d] \o << >> = sock[d]
    BY <1>1, <2>3, ConcatEmptySeq
  <2>5. Pipe(d)' = Pipe(d)
    BY <1>2, <2>1, <2>2, <2>4 DEF Pipe
  <2>6. QED
    BY <1>2, <2>1, <2>5 DEF Keeps, On
<1>5. CASE peer[d] # "open"
  <2>1. sock' = sock /\ peer'[d] = "reset"
    BY <1>5 DEF SendQueued, send_msg, TypeOK
  <2>2. sock[d] = << >> /\ screen[d] = EmptyScreen
    BY <1>5 DEF Stages, On
  <2> DEFINE h == <<Head(queue[d])>>
  <2>3. h \in Seq(DisplayMessage) /\ h \o Tail(queue[d]) = queue[d]
    BY <1>1, <1>2, <1>3, FrontOfSeq
  <2> HIDE DEF h
  <2>4. /\ << >> \o << >> = << >> /\ << >> \o queue[d] = queue[d]
        /\ << >> \o Tail(queue[d]) = Tail(queue[d])
    BY <1>1, <1>3, ConcatEmptySeq
  <2>5. Pipe(d)' = Tail(queue[d]) /\ Pipe(d) = queue[d]
    BY <1>2, <2>1, <2>2, <2>4 DEF Pipe
  <2>6. QED
    BY <1>2, <2>1, <2>2, <2>3, <2>5 DEF Drops
<1>6. QED
  BY <1>4, <1>5

LEMMA SendHeartbeatMoves ==
  ASSUME TypeOK, Stages, NEW d \in Displays, SendHeartbeat(d)
  PROVE  Keeps(d) \/ Beats(d)
<1>1. sock[d] \in Seq(DisplayMessage) /\ queue[d] \in Seq(DisplayMessage)
  BY PipeType
<1>2. /\ backlog[d] = << >> /\ backlog' = backlog
      /\ queue' = queue /\ screen' = screen /\ phase' = phase
  BY DEF SendHeartbeat
<1>3. CASE peer[d] = "open"
  <2> DEFINE h == <<DispHeartbeat>>
  <2>1. sock'[d] = Append(sock[d], DispHeartbeat) /\ peer' = peer
    BY <1>3 DEF SendHeartbeat, send_msg, TypeOK
  <2>2. DispHeartbeat \in DisplayMessage
    BY DEF DisplayMessage
  <2>3. h \in Seq(DisplayMessage) /\ Append(sock[d], DispHeartbeat) = sock[d] \o h
    BY <1>1, <2>2
  <2> HIDE DEF h
  <2>4. sock[d] \o h \in Seq(DisplayMessage)
    BY <1>1, <2>3, ConcatProperties
  <2>5. (sock[d] \o h) \o << >> = sock[d] \o h /\ sock[d] \o << >> = sock[d]
    BY <1>1, <2>4, ConcatEmptySeq
  <2>6. (sock[d] \o h) \o queue[d] = sock[d] \o (h \o queue[d])
    BY <1>1, <2>3, ConcatRegroups
  <2>7. Pipe(d) = sock[d] \o queue[d] /\ Pipe(d)' = sock[d] \o (h \o queue[d])
    BY <1>2, <2>1, <2>3, <2>5, <2>6 DEF Pipe
  <2>8. On(d)' => On(d)
    BY <1>2, <2>1 DEF On
  <2>9. QED
    BY <1>1, <1>2, <2>7, <2>8 DEF Beats, h
<1>4. CASE peer[d] # "open"
  <2>1. sock' = sock /\ peer'[d] = "reset"
    BY <1>4 DEF SendHeartbeat, send_msg, TypeOK
  <2>2. QED
    BY <1>2, <2>1 DEF Keeps, Pipe, On
<1>5. QED
  BY <1>3, <1>4

LEMMA SnapshotMoves ==
  ASSUME TypeOK, Stages, NEW d \in Displays, snapshot_orders(d)
  PROVE  Snaps(d)
<1>1. /\ sock[d] = << >> /\ screen[d] = EmptyScreen /\ backlog[d] = << >>
      /\ sock' = sock /\ queue' = queue /\ screen' = screen
  BY DEF snapshot_orders, Stages, On
<1>2. PICK ids \in Listings(LiveIds) : backlog'[d] = Copies(ids)
  BY DEF snapshot_orders, TypeOK
<1>3. Copies(ids) \in Seq(DisplayMessage) /\ queue[d] \in Seq(DisplayMessage)
  BY ListingType, PipeType
<1> DEFINE copies == Copies(ids)
<1> HIDE DEF copies
<1>4. /\ << >> \o << >> = << >> /\ << >> \o queue[d] = queue[d]
      /\ << >> \o copies = copies
  BY <1>3, ConcatEmptySeq DEF copies
<1>5. Pipe(d) = queue[d] /\ Pipe(d)' = copies \o queue[d]
  BY <1>1, <1>2, <1>4 DEF Pipe, copies
<1>6. QED
  BY <1>1, <1>5 DEF Snaps, copies

LEMMA ReceiveMoves ==
  ASSUME TypeOK, Stages, NEW d \in Displays, receive(d)
  PROVE  Reads(d)
<1>1. /\ sock[d] \in Seq(DisplayMessage) /\ backlog[d] \in Seq(DisplayMessage)
      /\ queue[d] \in Seq(DisplayMessage)
  BY PipeType
<1>2. /\ peer[d] = "open" /\ sock[d] # << >> /\ sock'[d] = Tail(sock[d])
      /\ screen'[d] = Show(screen[d], Head(sock[d]))
      /\ backlog' = backlog /\ queue' = queue
  BY DEF receive, TypeOK
<1>3. On(d)
  BY <1>2 DEF Stages
<1> DEFINE h == <<Head(sock[d])>>
           t == Tail(sock[d])
<1>4. Head(sock[d]) \in DisplayMessage /\ t \in Seq(DisplayMessage)
  BY <1>1, <1>2, HeadTailProperties
<1>5. h \in Seq(DisplayMessage) /\ h \o t = sock[d]
  BY <1>1, <1>2, <1>4, FrontOfSeq
<1> HIDE DEF h, t
<1>6. t \o backlog[d] \in Seq(DisplayMessage)
  BY <1>1, <1>4, ConcatProperties
<1>7. (h \o t) \o backlog[d] = h \o (t \o backlog[d])
  BY <1>1, <1>4, <1>5, ConcatRegroups
<1>8. (h \o (t \o backlog[d])) \o queue[d] = h \o ((t \o backlog[d]) \o queue[d])
  BY <1>1, <1>5, <1>6, ConcatRegroups
<1>9. Pipe(d) = h \o Pipe(d)'
  BY <1>2, <1>5, <1>7, <1>8 DEF Pipe, t
<1>10. QED
  BY <1>2, <1>3, <1>4, <1>9 DEF Reads, h

LEMMA PeerClosesMoves ==
  ASSUME TypeOK, Stages, NEW d \in Displays, PeerCloses(d)
  PROVE  Drops(d)
<1>1. /\ sock[d] \in Seq(DisplayMessage) /\ backlog[d] \in Seq(DisplayMessage)
      /\ queue[d] \in Seq(DisplayMessage)
  BY PipeType
<1>2. /\ peer'[d] # "open" /\ sock'[d] = << >> /\ screen'[d] = EmptyScreen
      /\ backlog' = backlog /\ queue' = queue
  BY DEF PeerCloses, TypeOK
<1>3. << >> \o backlog[d] = backlog[d]
  BY <1>1, ConcatEmptySeq
<1>4. (sock[d] \o backlog[d]) \o queue[d] = sock[d] \o (backlog[d] \o queue[d])
  BY <1>1, ConcatRegroups
<1>5. Pipe(d) = sock[d] \o Pipe(d)'
  BY <1>2, <1>3, <1>4 DEF Pipe
<1>6. QED
  BY <1>1, <1>2, <1>5 DEF Drops

LEMMA RemoveClientMoves ==
  ASSUME TypeOK, Stages, NEW d \in Displays, remove_client(d)
  PROVE  Drops(d)
<1>1. Pipe(d) \in Seq(DisplayMessage)
  BY PipeType
<1>2. /\ sock' = sock /\ backlog'[d] = << >> /\ queue'[d] = << >>
      /\ screen' = screen /\ peer'[d] = "closed" /\ ~ On(d)
  BY DEF remove_client, TypeOK, On
<1>3. sock[d] = << >> /\ screen[d] = EmptyScreen
  BY <1>2 DEF Stages
<1>4. << >> \o << >> = << >>
  BY ConcatEmptySeq
<1>5. Pipe(d)' = << >>
  BY <1>2, <1>3, <1>4 DEF Pipe
<1>6. Pipe(d) \o << >> = Pipe(d)
  BY <1>1, ConcatEmptySeq
<1>7. QED
  BY <1>1, <1>2, <1>3, <1>5, <1>6 DEF Drops

Moves(d) == Keeps(d) \/ Beats(d) \/ Drops(d) \/ Reads(d) \/ Snaps(d)

(* A step is an update, or it leaves the orders alone and moves what is on *)
(* its way to one display.                                                 *)
LEMMA DisplayStep ==
  ASSUME TypeOK, Stages, [Next]_vars
  PROVE  Update \/ (UNCHANGED serverVars /\ \A d \in Displays : Moves(d))
<1> DEFINE Others(d) == \A e \in Displays \ {d} : Keeps(e)
           Fine == UNCHANGED serverVars /\ \A d \in Displays : Moves(d)
<1>1. ASSUME NEW d \in Displays, UNCHANGED serverVars, Others(d), Moves(d) PROVE Fine
  BY <1>1 DEF Moves
<1>2. CASE UNCHANGED vars
  BY <1>2 DEF vars, serverVars, Moves, Keeps, Pipe, On
<1>3. ASSUME NEW d \in Displays, Connect(d) PROVE Fine
  <2>1. Others(d)
    BY <1>3 DEF Connect, TypeOK, Keeps, Pipe, On
  <2>2. Keeps(d)
    BY <1>3 DEF Connect, TypeOK, Keeps, Pipe, On
  <2>3. QED
    BY <1>1, <1>3, <2>1, <2>2 DEF Connect, Moves
<1>4. ASSUME NEW d \in Displays, add_client(d) PROVE Fine
  <2>1. Others(d)
    BY <1>4 DEF add_client, TypeOK, Keeps, Pipe, On
  <2>2. Keeps(d)
    BY <1>4 DEF add_client, TypeOK, Keeps, Pipe, On
  <2>3. QED
    BY <1>1, <1>4, <2>1, <2>2 DEF add_client, Moves
<1>5. ASSUME NEW d \in Displays, snapshot_orders(d) PROVE Fine
  <2>1. Others(d)
    BY <1>5 DEF snapshot_orders, TypeOK, Keeps, Pipe, On
  <2>2. QED
    BY <1>1, <1>5, <2>1, SnapshotMoves DEF snapshot_orders, Moves
<1>6. ASSUME NEW d \in Displays, SendSnapshot(d) PROVE Fine
  <2>1. Others(d)
    BY <1>6 DEF SendSnapshot, send_msg, TypeOK, Keeps, Pipe, On
  <2>2. QED
    BY <1>1, <1>6, <2>1, SendSnapshotMoves DEF SendSnapshot, Moves
<1>7. ASSUME NEW d \in Displays, SendQueued(d) PROVE Fine
  <2>1. Others(d)
    BY <1>7 DEF SendQueued, send_msg, TypeOK, Keeps, Pipe, On
  <2>2. QED
    BY <1>1, <1>7, <2>1, SendQueuedMoves DEF SendQueued, Moves
<1>8. ASSUME NEW d \in Displays, SendHeartbeat(d) PROVE Fine
  <2>1. Others(d)
    BY <1>8 DEF SendHeartbeat, send_msg, TypeOK, Keeps, Pipe, On
  <2>2. QED
    BY <1>1, <1>8, <2>1, SendHeartbeatMoves DEF SendHeartbeat, Moves
<1>9. ASSUME NEW d \in Displays, SendFails(d) PROVE Fine
  <2>1. Others(d)
    BY <1>9 DEF SendFails, TypeOK, Keeps, Pipe, On
  <2>2. Keeps(d)
    BY <1>9 DEF SendFails, TypeOK, Keeps, Pipe, On
  <2>3. QED
    BY <1>1, <1>9, <2>1, <2>2 DEF SendFails, Moves
<1>10. ASSUME NEW d \in Displays, remove_client(d) PROVE Fine
  <2>1. Others(d)
    BY <1>10 DEF remove_client, TypeOK, Keeps, Pipe, On
  <2>2. QED
    BY <1>1, <1>10, <2>1, RemoveClientMoves DEF remove_client, Moves
<1>11. ASSUME NEW d \in Displays, receive(d) PROVE Fine
  <2>1. Others(d)
    BY <1>11 DEF receive, TypeOK, Keeps, Pipe, On
  <2>2. QED
    BY <1>1, <1>11, <2>1, ReceiveMoves DEF receive, Moves
<1>12. ASSUME NEW d \in Displays, PeerCloses(d) PROVE Fine
  <2>1. Others(d)
    BY <1>12 DEF PeerCloses, TypeOK, Keeps, Pipe, On
  <2>2. QED
    BY <1>1, <1>12, <2>1, PeerClosesMoves DEF PeerCloses, Moves
<1>13. QED
  BY <1>2, <1>3, <1>4, <1>5, <1>6, <1>7, <1>8, <1>9, <1>10, <1>11, <1>12
     DEF Next, Serve

(* A broadcast adds to what is on its way to every registered display. *)
LEMMA BroadcastMoves ==
  ASSUME TypeOK, Stages, NEW msgs \in Seq(DisplayMessage), broadcast(msgs),
         UNCHANGED sessionVars, NEW d \in Displays
  PROVE  Gets(d, msgs)
<1>1. /\ sock[d] \in Seq(DisplayMessage) /\ backlog[d] \in Seq(DisplayMessage)
      /\ queue[d] \in Seq(DisplayMessage)
  BY PipeType
<1>2. /\ sock' = sock /\ backlog' = backlog /\ screen' = screen
      /\ On(d)' <=> On(d)
  BY DEF sessionVars, On
<1>3. CASE d \in my_clients
  <2>1. queue'[d] = queue[d] \o msgs
    BY <1>3 DEF broadcast
  <2>2. sock[d] \o backlog[d] \in Seq(DisplayMessage)
    BY <1>1, ConcatProperties
  <2>3. ((sock[d] \o backlog[d]) \o queue[d]) \o msgs
          = (sock[d] \o backlog[d]) \o (queue[d] \o msgs)
    BY <1>1, <2>2, ConcatRegroups
  <2>4. Pipe(d)' = Pipe(d) \o msgs
    BY <1>2, <2>1, <2>3 DEF Pipe
  <2>5. QED
    BY <1>2, <1>3, <2>4 DEF Gets
<1>4. CASE d \notin my_clients
  <2>1. queue[d] = << >> /\ backlog[d] = << >> /\ sock[d] = << >>
    BY <1>4 DEF Stages, On
  <2>2. queue'[d] = << >>
    BY <1>4, <2>1 DEF broadcast
  <2>3. << >> \o << >> = << >>
    BY ConcatEmptySeq
  <2>4. QED
    BY <1>2, <1>4, <2>1, <2>2, <2>3 DEF Gets, Pipe
<1>5. QED
  BY <1>3, <1>4

-------------------------------------------------------------------------------
(* Moving messages keeps what is said about them *)

LEMMA NoneAfterIfNone ==
  ASSUME NEW s, NEW A, NEW B, ~ Has(s, A) \/ ~ Has(s, B)
  PROVE  NoneAfter(s, A, B)
BY DEF Has, NoneAfter

(* What a heartbeat between two messages changes: nothing. *)
LEMMA BeatsChangeNothing ==
  ASSUME NEW a \in Seq(DisplayMessage), NEW b \in Seq(DisplayMessage),
         NEW W, NEW R, DispHeartbeat \notin W, DispHeartbeat \notin R
  PROVE  LET s == a \o b
             t == a \o (<<DispHeartbeat>> \o b)
         IN  /\ Has(t, R) <=> Has(s, R)
             /\ Corrected(t, W, R) <=> Corrected(s, W, R)
             /\ NoneAfter(t, W, R) <=> NoneAfter(s, W, R)
<1> DEFINE h == <<DispHeartbeat>>
           c == h \o b
<1>1. DispHeartbeat \in DisplayMessage
  BY DEF DisplayMessage
<1>2. h \in Seq(DisplayMessage) /\ c \in Seq(DisplayMessage)
  <2>1. h \in Seq(DisplayMessage)
    BY <1>1
  <2>2. QED
    BY <2>1, ConcatProperties
<1>3. /\ ~ Has(h, R) /\ ~ Has(h, W) /\ Corrected(h, W, R) /\ NoneAfter(h, W, R)
  BY ShortSequences
<1> HIDE DEF h
<1>4. /\ Has(c, R) <=> Has(b, R)
      /\ Corrected(c, W, R) <=> Corrected(b, W, R)
      /\ NoneAfter(c, W, R) <=> NoneAfter(b, W, R)
  BY <1>2, <1>3, HasConcat, CorrectedConcat, NoneAfterConcat
<1> HIDE DEF c
<1>5. Has(a \o c, R) <=> Has(a \o b, R)
  BY <1>2, <1>4, HasConcat
<1>6. Corrected(a \o c, W, R) <=> Corrected(a \o b, W, R)
  BY <1>2, <1>4, CorrectedConcat
<1>7. NoneAfter(a \o c, W, R) <=> NoneAfter(a \o b, W, R)
  BY <1>2, <1>4, NoneAfterConcat
<1>8. QED
  BY <1>5, <1>6, <1>7 DEF c, h

(* As long as nothing new comes in. *)
LEMMA MovesKeep ==
  ASSUME TypeOK, TypeOK', NEW d \in Displays,
         Keeps(d) \/ Beats(d) \/ Drops(d) \/ Reads(d),
         NEW W, NEW R, DispHeartbeat \notin W, DispHeartbeat \notin R
  PROVE  /\ Corrected(Pipe(d), W, R) => Corrected(Pipe(d)', W, R)
         /\ NoneAfter(Pipe(d), W, R) => NoneAfter(Pipe(d)', W, R)
         /\ Has(Pipe(d)', R) => Has(Pipe(d), R)
         /\ Keeps(d) \/ Beats(d) => (Has(Pipe(d), R) => Has(Pipe(d)', R))
<1> DEFINE P == Pipe(d)
           Q == Pipe(d)'
           Goal == /\ Corrected(P, W, R) => Corrected(Q, W, R)
                   /\ NoneAfter(P, W, R) => NoneAfter(Q, W, R)
                   /\ Has(Q, R) => Has(P, R)
<1>1. P \in Seq(DisplayMessage) /\ Q \in Seq(DisplayMessage)
  BY PipeType, PipeTypeNext
<1> HIDE DEF P, Q
<1>2. ASSUME NEW a \in Seq(DisplayMessage), P = a \o Q PROVE Goal
  BY <1>1, <1>2, HasConcat, CorrectedConcat, NoneAfterConcat
<1>3. ASSUME Keeps(d) PROVE P = Q
  BY <1>3 DEF Keeps, P, Q
<1>4. ASSUME Beats(d) PROVE Goal /\ (Has(P, R) => Has(Q, R))
  <2>1. PICK a \in Seq(DisplayMessage), b \in Seq(DisplayMessage) :
          P = a \o b /\ Q = a \o (<<DispHeartbeat>> \o b)
    BY <1>4 DEF Beats, P, Q
  <2>2. QED
    BY <2>1, BeatsChangeNothing
<1>5. ASSUME Drops(d) PROVE Goal
  BY <1>2, <1>5 DEF Drops, P, Q
<1>6. ASSUME Reads(d) PROVE Goal
  <2>1. PICK m \in DisplayMessage : P = <<m>> \o Q
    BY <1>6 DEF Reads, P, Q
  <2>2. <<m>> \in Seq(DisplayMessage)
    OBVIOUS
  <2>3. QED
    BY <1>2, <2>1, <2>2
<1>7. QED
  BY <1>3, <1>4, <1>5, <1>6 DEF P, Q

(* What reading a message changes. *)
LEMMA ReadingTakesHead ==
  ASSUME NEW m \in DisplayMessage, NEW q \in Seq(DisplayMessage), NEW W, NEW R
  PROVE  /\ Has(<<m>> \o q, R) => m \in R \/ Has(q, R)
         /\ Corrected(<<m>> \o q, W, R) /\ m \in W => Has(q, R)
<1> DEFINE h == <<m>>
<1>1. h \in Seq(DisplayMessage)
  OBVIOUS
<1>2. (Has(h, R) <=> m \in R) /\ (Corrected(h, W, R) <=> m \notin W)
  BY ShortSequences
<1> HIDE DEF h
<1>3. QED
  BY <1>1, <1>2, HasConcat, CorrectedConcat DEF h

(* A snapshot holds one copy of every order there is, and nothing else. *)
LEMMA SnapshotCopies ==
  ASSUME TypeOK, NEW ids \in Listings(LiveIds)
  PROVE  /\ \A k \in DOMAIN Copies(ids) :
              \E id \in LiveIds : Copies(ids)[k] = DispOrder(id, my_orders[id])
         /\ \A id \in LiveIds :
              \E k \in DOMAIN Copies(ids) :
                Copies(ids)[k] = DispOrder(id, my_orders[id])
<1>1. /\ ids \in [1 .. Cardinality(LiveIds) -> LiveIds]
      /\ \A id \in LiveIds : \E k \in DOMAIN ids : ids[k] = id
  BY DEF Listings
<1>2. /\ DOMAIN Copies(ids) = DOMAIN ids
      /\ \A k \in DOMAIN ids : Copies(ids)[k] = DispOrder(ids[k], my_orders[ids[k]])
  BY DEF Copies
<1>3. \A k \in DOMAIN ids : ids[k] \in LiveIds
  BY <1>1
<1>4. QED
  BY <1>1, <1>2, <1>3

-------------------------------------------------------------------------------
(* The stages of a connection *)

LEMMA StagesInit == Init => Stages
BY DEF Init, Stages

LEMMA StagesStep == TypeOK /\ Stages /\ [Next]_vars => Stages'
<1> SUFFICES ASSUME TypeOK, Stages, [Next]_vars PROVE Stages'
  OBVIOUS
<1> USE DEF Stages, On, TypeOK
<1>1. CASE UNCHANGED sessionVars /\ \E msgs : broadcast(msgs)
  BY <1>1 DEF sessionVars, broadcast
<1>2. CASE UNCHANGED vars
  BY <1>2 DEF vars
<1>3. ASSUME NEW d \in Displays, Connect(d) PROVE Stages'
  BY <1>3 DEF Connect
<1>4. ASSUME NEW d \in Displays, add_client(d) PROVE Stages'
  BY <1>4 DEF add_client
<1>5. ASSUME NEW d \in Displays, snapshot_orders(d) PROVE Stages'
  BY <1>5 DEF snapshot_orders
<1>6. ASSUME NEW d \in Displays, SendSnapshot(d) PROVE Stages'
  BY <1>6, Z3 DEF SendSnapshot, send_msg
<1>7. ASSUME NEW d \in Displays, SendQueued(d) PROVE Stages'
  BY <1>7 DEF SendQueued, send_msg
<1>8. ASSUME NEW d \in Displays, SendHeartbeat(d) PROVE Stages'
  BY <1>8 DEF SendHeartbeat, send_msg
<1>9. ASSUME NEW d \in Displays, SendFails(d) PROVE Stages'
  BY <1>9 DEF SendFails
<1>10. ASSUME NEW d \in Displays, remove_client(d) PROVE Stages'
  BY <1>10 DEF remove_client
<1>11. ASSUME NEW d \in Displays, receive(d) PROVE Stages'
  BY <1>11 DEF receive
<1>12. ASSUME NEW d \in Displays, PeerCloses(d) PROVE Stages'
  BY <1>12 DEF PeerCloses
<1>13. CASE Update
  BY <1>1, <1>13 DEF Update, create_order, update_item, update_order
<1>14. QED
  BY <1>2, <1>3, <1>4, <1>5, <1>6, <1>7, <1>8, <1>9, <1>10, <1>11, <1>12, <1>13
     DEF Next, Serve

-------------------------------------------------------------------------------
(* What an update changes, and what it tells the displays *)

AboutOf(id) == {m \in DisplayMessage : m.id = id}

Creates(id, msgs) ==
  /\ ~ (id < next_order_id)
  /\ my_orders'[id] # NoOrder
  /\ msgs = <<DispOrder(id, my_orders'[id])>>

(* Nothing that is said is wrong, and all that changes is said. *)
Advances(id, msgs) ==
  LET o == my_orders[id]
      n == my_orders'[id]
  IN  /\ o # NoOrder /\ n # NoOrder
      /\ Advanced(o, n)
      /\ ~ Has(msgs, ShowsOf(id)) /\ ~ Has(msgs, DeliversOf(id))
      /\ ~ Has(msgs, StatusWrong(id, n.status))
      /\ n.status # o.status => Has(msgs, StatusRight(id, n.status))
      /\ \A p \in DOMAIN n.items :
           /\ ~ Has(msgs, ItemWrong(id, n, p))
           /\ n.items[p].status # o.items[p].status
                => Has(msgs, ItemRight(id, n, p))

Leaves(id, msgs) ==
  /\ my_orders[id] # NoOrder /\ my_orders'[id] = NoOrder
  /\ msgs = <<DispOrderUpdate(id, "DELIVERED")>>

(* The messages speak of the one order that changes and say what is true   *)
(* once it has changed.                                                    *)
Changes(id, msgs) ==
  /\ msgs \in Seq(AboutOf(id) \ Ahead')
  /\ \A k \in OrderIds \ {id} : my_orders'[k] = my_orders[k]
  /\ Creates(id, msgs) \/ Advances(id, msgs) \/ Leaves(id, msgs)

LEMMA NoneOf ==
  ASSUME NEW S, NEW s \in Seq(S), NEW R, S \cap R = {}
  PROVE  ~ Has(s, R)
BY DEF Has

LEMMA AboutType ==
  ASSUME NEW id \in OrderIds, NEW A, NEW msgs \in Seq(AboutOf(id) \ A)
  PROVE  msgs \in Seq(DisplayMessage) /\ msgs \in Seq(AboutOf(id))
<1>1. AboutOf(id) \ A \subseteq AboutOf(id) /\ AboutOf(id) \ A \subseteq DisplayMessage
  BY DEF AboutOf
<1>2. QED
  BY <1>1, SeqMonotonic

LEMMA CreateChanges ==
  ASSUME TypeOK, TypeOK', NEW o \in NewOrders, create_order(o)
  PROVE  /\ next_order_id \in OrderIds
         /\ Changes(next_order_id, <<DispOrder(next_order_id, o)>>)
<1> DEFINE id == next_order_id
           m  == DispOrder(id, o)
<1>1. /\ id \in OrderIds /\ id \in Int /\ next_order_id' = id + 1
      /\ my_orders' = [my_orders EXCEPT ![id] = o]
  BY MaxOrdersAssumption DEF create_order, OrderIds
<1>2. o \in Order /\ o # NoOrder
  BY NewOrdersAssumption, NoOrderAssumption
<1>3. my_orders'[id] = o /\ \A k \in OrderIds \ {id} : my_orders'[k] = my_orders[k]
  BY <1>1 DEF TypeOK
<1>4. ~ (id < next_order_id) /\ id < next_order_id'
  BY <1>1
<1>5. m \in AboutOf(id)
  BY <1>1, <1>2 DEF AboutOf, DispOrder, DisplayMessage
<1>6. m \notin Ahead'
  BY <1>3, <1>4, LaterSame DEF Ahead, Told, DispOrder
<1>7. <<m>> \in Seq(AboutOf(id) \ Ahead')
  BY <1>5, <1>6
<1>8. Creates(id, <<m>>)
  BY <1>2, <1>3, <1>4 DEF Creates
<1>9. QED
  BY <1>1, <1>3, <1>7, <1>8 DEF Changes

LEMMA LeaveChanges ==
  ASSUME TypeOK, TypeOK', Allocated, NEW id \in OrderIds, NEW s \in OrderStatus,
         update_order(id, s)
  PROVE  Changes(id, <<DispOrderUpdate(id, s)>>)
<1> DEFINE m == DispOrderUpdate(id, s)
<1>1. /\ my_orders[id] # NoOrder /\ s = "DELIVERED" /\ next_order_id' = next_order_id
      /\ my_orders' = [my_orders EXCEPT ![id] = NoOrder]
  BY DEF update_order, OrderUpdateAccepted
<1>2. my_orders'[id] = NoOrder /\ \A k \in OrderIds \ {id} : my_orders'[k] = my_orders[k]
  BY <1>1 DEF TypeOK
<1>3. id < next_order_id'
  BY <1>1 DEF Allocated
<1>4. m \in AboutOf(id)
  BY <1>1 DEF AboutOf, DispOrderUpdate, DisplayMessage
<1>5. m \notin Ahead'
  BY <1>2, <1>3 DEF Ahead, DispOrderUpdate
<1>6. <<m>> \in Seq(AboutOf(id) \ Ahead')
  BY <1>4, <1>5
<1>7. Leaves(id, <<m>>)
  BY <1>1, <1>2 DEF Leaves
<1>8. QED
  BY <1>2, <1>6, <1>7 DEF Changes

(* The message about the item, and about the order if its status changed. *)
ItemNews(id, i, s) ==
  LET o  == set_item_status(my_orders[id], i, s)
      st == StatusAfter(o, s)
  IN  IF st # o.status THEN <<DispItemUpdate(id, i, s), DispOrderUpdate(id, st)>>
      ELSE <<DispItemUpdate(id, i, s)>>

LEMMA ItemChanges ==
  ASSUME TypeOK, TypeOK', Allocated, [Next]_vars,
         NEW id \in OrderIds, NEW i \in ItemIds, NEW s \in ItemStatus,
         update_item(id, i, s)
  PROVE  Changes(id, ItemNews(id, i, s))
<1> DEFINE o  == my_orders[id]
           n  == set_item_status(o, i, s)
           st == StatusAfter(n, s)
           r  == [n EXCEPT !.status = st]
           p  == find_item(o, i)
           mi == DispItemUpdate(id, i, s)
           mo == DispOrderUpdate(id, st)
           news == ItemNews(id, i, s)
<1>1. /\ o \in Order /\ HasItem(o, i) /\ o # NoOrder
      /\ s \in {"IN_PROGRESS", "DONE"}
      /\ n \in Order /\ r \in Order
      /\ st # n.status => st \in {"IN_PROGRESS", "DONE"}
  BY UpdateItemOrders DEF update_item, ItemUpdateAccepted
<1>2. /\ n.status = o.status
      /\ DOMAIN n.items = DOMAIN o.items
      /\ p \in DOMAIN o.items
      /\ n.items[p].status = s
      /\ \A q \in DOMAIN o.items :
           /\ n.items[q].id = o.items[q].id
           /\ q # p => n.items[q] = o.items[q]
  BY <1>1, SetItemStatus
<1>3. my_orders' = [my_orders EXCEPT ![id] = r] /\ next_order_id' = next_order_id
  BY DEF update_item
<1>4. Names(o, p, i)
  BY <1>1, FindItemNames
<1>5. news = IF st # n.status THEN <<mi, mo>> ELSE <<mi>>
  BY DEF ItemNews
<1> HIDE DEF n, p, st, news
<1>6. r.items = n.items /\ r.status = st
  BY <1>1 DEF Order
<1>7. my_orders'[id] = r /\ \A k \in OrderIds \ {id} : my_orders'[k] = my_orders[k]
  BY <1>3 DEF TypeOK
<1> HIDE DEF r, o
<1>8. id < next_order_id /\ id < next_order_id' /\ r # NoOrder
  BY <1>1, <1>3, NoOrderAssumption DEF Allocated, o
<1>9. Advanced(o, r)
  BY <1>7, <1>8, OrdersOnlyAdvance DEF o
<1>10. HasItem(r, i) /\ find_item(r, i) = p /\ r.items[p].status = s
  BY <1>1, <1>2, <1>6, <1>9, AdvancedNames DEF p
<1>11. /\ mi \in AboutOf(id) /\ mi.type = "DISP_ITEM_UPDATE" /\ mi.id = id
       /\ mi.item = i /\ mi.status = s
  BY <1>1 DEF AboutOf, DispItemUpdate, DisplayMessage
<1>12. ASSUME st # n.status
       PROVE  /\ mo \in AboutOf(id) /\ mo.type = "DISP_ORDER_UPDATE" /\ mo.id = id
              /\ mo.status = st /\ st # "DELIVERED"
  BY <1>1, <1>12 DEF AboutOf, DispOrderUpdate, DisplayMessage
<1> HIDE DEF mi, mo
<1>13. mi \notin Ahead'
  <2>1. Rank(mi.status) <= Rank(r.items[find_item(r, mi.item)].status)
    BY <1>10, <1>11, RankType
  <2>2. QED
    BY <1>7, <1>8, <1>10, <1>11, <2>1 DEF Ahead, Told
<1>14. ASSUME st # n.status PROVE mo \notin Ahead'
  <2>1. Rank(mo.status) <= Rank(r.status)
    BY <1>6, <1>12, <1>14, RankType
  <2>2. QED
    BY <1>7, <1>8, <1>12, <1>14, <2>1 DEF Ahead, Told
<1>15. news \in Seq(AboutOf(id) \ Ahead')
  <2>1. CASE st # n.status
    <3>1. mi \in AboutOf(id) \ Ahead' /\ mo \in AboutOf(id) \ Ahead'
      BY <1>11, <1>12, <1>13, <1>14, <2>1
    <3>2. <<mi, mo>> \in Seq(AboutOf(id) \ Ahead')
      BY <3>1
    <3>3. QED
      BY <1>5, <2>1, <3>2
  <2>2. CASE st = n.status
    <3>1. <<mi>> \in Seq(AboutOf(id) \ Ahead')
      BY <1>11, <1>13
    <3>2. QED
      BY <1>5, <2>2, <3>1
  <2>3. QED
    BY <2>1, <2>2
<1>16. \A R : Has(news, R) <=> mi \in R \/ (st # n.status /\ mo \in R)
  <2>1. \A R : Has(<<mi, mo>>, R) <=> mi \in R \/ mo \in R
    BY DEF Has
  <2>2. \A R : Has(<<mi>>, R) <=> mi \in R
    BY DEF Has
  <2>3. QED
    BY <1>5, <2>1, <2>2
<1>17. /\ ~ Has(news, ShowsOf(id)) /\ ~ Has(news, DeliversOf(id))
       /\ ~ Has(news, StatusWrong(id, st))
  BY <1>11, <1>12, <1>16
     DEF ShowsOf, Shows, DeliversOf, Delivers, StatusWrong, SetsStatus, StatusIn
<1>18. st # o.status => Has(news, StatusRight(id, st))
  BY <1>2, <1>12, <1>16 DEF StatusRight, SetsStatus, StatusIn, AboutOf
<1>19. ASSUME NEW q \in DOMAIN r.items
       PROVE  /\ ~ Has(news, ItemWrong(id, r, q))
              /\ r.items[q].status # o.items[q].status
                   => Has(news, ItemRight(id, r, q))
  <2>1. Names(r, p, i)
    BY <1>10, FindItemNames
  <2>2. CASE q = p
    <3>1. mi \in SetsItem(id, r, q) /\ ItemIn(mi, q) = r.items[q].status
      BY <1>10, <1>11, <2>1, <2>2 DEF SetsItem, ItemIn, AboutOf
    <3>2. st # n.status => mo \notin SetsItem(id, r, q)
      BY <1>12 DEF SetsItem, Shows
    <3>3. mi \in ItemRight(id, r, q) /\ mi \notin ItemWrong(id, r, q)
      BY <3>1 DEF ItemRight, ItemWrong
    <3>4. st # n.status => mo \notin ItemWrong(id, r, q)
      BY <3>2 DEF ItemWrong
    <3>5. QED
      BY <1>16, <3>3, <3>4
  <2>3. CASE q # p
    <3>1. ~ Names(r, q, i)
      <4>1. r \in Order
        BY <1>1
      <4>2. QED
        BY <2>1, <2>3, <4>1, NamesUnique
    <3>2. mi \notin SetsItem(id, r, q) /\ (st # n.status => mo \notin SetsItem(id, r, q))
      BY <1>11, <1>12, <3>1 DEF SetsItem, Shows
    <3>3. r.items[q].status = o.items[q].status
      BY <1>2, <1>6, <2>3
    <3>4. QED
      BY <1>16, <3>2, <3>3 DEF ItemWrong
  <2>4. QED
    BY <2>2, <2>3
<1>20. Advances(id, news)
  BY <1>1, <1>6, <1>7, <1>8, <1>9, <1>17, <1>18, <1>19 DEF Advances, o
<1>21. QED
  BY <1>7, <1>15, <1>20 DEF Changes, news

LEMMA UpdateChanges ==
  ASSUME TypeOK, TypeOK', Allocated, Stages, Update, [Next]_vars
  PROVE  \E id \in OrderIds : \E msgs :
           Changes(id, msgs) /\ \A d \in Displays : Gets(d, msgs)
<1> DEFINE Goal == \E id \in OrderIds : \E msgs :
                     Changes(id, msgs) /\ \A d \in Displays : Gets(d, msgs)
<1>1. ASSUME NEW id \in OrderIds, NEW msgs, Changes(id, msgs), broadcast(msgs),
             UNCHANGED sessionVars
      PROVE  Goal
  <2>1. msgs \in Seq(DisplayMessage)
    <3>1. msgs \in Seq(AboutOf(id) \ Ahead')
      BY <1>1 DEF Changes
    <3>2. QED
      BY <3>1, AboutType
  <2>2. \A d \in Displays : Gets(d, msgs)
    BY <1>1, <2>1, BroadcastMoves
  <2>3. QED
    BY <1>1, <2>2
<1>2. ASSUME NEW o \in NewOrders, create_order(o) PROVE Goal
  <2> DEFINE msgs == <<DispOrder(next_order_id, o)>>
  <2>1. next_order_id \in OrderIds /\ Changes(next_order_id, msgs)
    BY <1>2, CreateChanges
  <2>2. broadcast(msgs) /\ UNCHANGED sessionVars
    BY <1>2 DEF create_order
  <2> HIDE DEF msgs
  <2>3. QED
    BY <1>1, <2>1, <2>2
<1>3. ASSUME NEW id \in OrderIds, NEW i \in ItemIds, NEW s \in ItemStatus,
             update_item(id, i, s)
      PROVE  Goal
  <2>1. Changes(id, ItemNews(id, i, s))
    BY <1>3, ItemChanges
  <2>2. broadcast(ItemNews(id, i, s)) /\ UNCHANGED sessionVars
    BY <1>3 DEF update_item, ItemNews
  <2>3. QED
    BY <1>1, <2>1, <2>2
<1>4. ASSUME NEW id \in OrderIds, NEW s \in OrderStatus, update_order(id, s)
      PROVE  Goal
  <2>1. Changes(id, <<DispOrderUpdate(id, s)>>)
    BY <1>4, LeaveChanges
  <2>2. broadcast(<<DispOrderUpdate(id, s)>>) /\ UNCHANGED sessionVars
    BY <1>4 DEF update_order
  <2>3. QED
    BY <1>1, <2>1, <2>2
<1>5. QED
  BY <1>2, <1>3, <1>4 DEF Update

-------------------------------------------------------------------------------
(* Nothing is shown or told before it is true *)

LEMMA ShowBehind ==
  ASSUME TypeOK, NEW scr \in [OrderIds -> MaybeOrder], ScreenBehind(scr),
         NEW m \in DisplayMessage, m \notin Ahead
  PROVE  ScreenBehind(Show(scr, m))
<1> DEFINE id == m.id
           o  == my_orders[id]
           Behind(x) == x # NoOrder => /\ id < next_order_id
                                       /\ o # NoOrder => Later(x, o)
<1>1. ASSUME id \in OrderIds, NEW x, Show(scr, m) = [scr EXCEPT ![id] = x], Behind(x)
      PROVE  ScreenBehind(Show(scr, m))
  BY <1>1 DEF ScreenBehind
<1>2. ASSUME id \in OrderIds, m # DispHeartbeat
      PROVE  id < next_order_id /\ (o # NoOrder => o \in Order /\ Told(m, o))
  BY <1>2 DEF Ahead, TypeOK, MaybeOrder
<1>3. CASE m.type = "DISP_ORDER"
  <2>1. /\ id \in OrderIds /\ m # DispHeartbeat
        /\ Show(scr, m) = [scr EXCEPT ![id] = m.order]
    BY <1>3 DEF DisplayMessage, DispHeartbeat, Show
  <2>2. Behind(m.order)
    BY <1>2, <1>3, <2>1 DEF Told
  <2>3. QED
    BY <1>1, <2>1, <2>2
<1>4. CASE m.type = "DISP_ITEM_UPDATE" /\ scr[id] # NoOrder /\ HasItem(scr[id], m.item)
  <2> DEFINE x == scr[id]
             n == set_item_status(x, m.item, m.status)
             p == find_item(x, m.item)
  <2>1. id \in OrderIds /\ m # DispHeartbeat /\ m.status \in ItemStatus
    BY <1>4 DEF DisplayMessage, DispHeartbeat, ItemStatus
  <2>2. x \in Order
    BY <1>4, <2>1 DEF MaybeOrder
  <2>3. /\ n.status = x.status
        /\ DOMAIN n.items = DOMAIN x.items
        /\ n.items[p].status = m.status
        /\ \A q \in DOMAIN x.items :
             /\ n.items[q].id = x.items[q].id
             /\ q # p => n.items[q] = x.items[q]
    BY <1>4, <2>1, <2>2, SetItemStatus
  <2>4. Show(scr, m) = [scr EXCEPT ![id] = n]
    BY <1>4 DEF Show
  <2> HIDE DEF n, p
  <2>5. ASSUME o # NoOrder PROVE Later(n, o)
    <3>1. Later(x, o)
      BY <1>4, <2>1, <2>5 DEF ScreenBehind
    <3>2. o \in Order /\ Told(m, o)
      BY <1>2, <2>1, <2>5
    <3>3. find_item(o, m.item) = p
      BY <1>4, <2>2, <3>1, <3>2, AdvancedNames DEF Later, p
    <3>4. Rank(m.status) <= Rank(o.items[p].status)
      BY <1>4, <3>2, <3>3 DEF Told
    <3>5. QED
      BY <2>3, <3>1, <3>4 DEF Later, Advanced
  <2>6. Behind(n)
    BY <1>2, <2>1, <2>5
  <2>7. QED
    BY <1>1, <2>1, <2>4, <2>6
<1>5. CASE m.type = "DISP_ORDER_UPDATE" /\ scr[id] # NoOrder
  <2> DEFINE x == scr[id]
             n == [x EXCEPT !.status = m.status]
             z == IF m.status = "DELIVERED" THEN NoOrder ELSE n
  <2>1. id \in OrderIds /\ m # DispHeartbeat
    BY <1>5 DEF DisplayMessage, DispHeartbeat
  <2>2. x \in Order
    BY <1>5, <2>1 DEF MaybeOrder
  <2>3. n.items = x.items /\ n.status = m.status
    BY <2>2 DEF Order
  <2>4. Show(scr, m) = [scr EXCEPT ![id] = z]
    BY <1>5 DEF Show
  <2> HIDE DEF n
  <2>5. ASSUME o # NoOrder, m.status # "DELIVERED" PROVE Later(n, o)
    <3>1. Later(x, o)
      BY <1>5, <2>1, <2>5 DEF ScreenBehind
    <3>2. Rank(m.status) <= Rank(o.status)
      BY <1>2, <1>5, <2>1, <2>5 DEF Told
    <3>3. QED
      BY <2>3, <3>1, <3>2 DEF Later, Advanced
  <2>6. Behind(z)
    BY <1>2, <2>1, <2>5
  <2> HIDE DEF z
  <2>7. QED
    BY <1>1, <2>1, <2>4, <2>6
<1>6. CASE Show(scr, m) = scr
  BY <1>6
<1>7. QED
  BY <1>3, <1>4, <1>5, <1>6 DEF Show

LEMMA HasSubset ==
  ASSUME NEW s, NEW A, NEW B, B \subseteq A, ~ Has(s, A)
  PROVE  ~ Has(s, B)
BY DEF Has

LEMMA AheadAboutOrders ==
  /\ DispHeartbeat \notin Ahead
  /\ \A m \in Ahead : m.id \in OrderIds
BY DEF Ahead, DisplayMessage

LEMMA NoneAheadInit == Init => NoneAhead
<1> SUFFICES ASSUME Init, NEW d \in Displays
             PROVE  ~ Has(Pipe(d), Ahead) /\ ScreenBehind(screen[d])
  BY DEF NoneAhead
<1>1. Pipe(d) = << >> \o << >> \o << >>
  BY DEF Init, Pipe
<1>2. << >> \o << >> = << >>
  BY ConcatEmptySeq
<1>3. QED
  BY <1>1, <1>2, ShortSequences DEF Init, EmptyScreen, ScreenBehind

LEMMA NoneAheadStep ==
  ASSUME TypeOK, TypeOK', Allocated, Stages, NoneAhead, [Next]_vars
  PROVE  NoneAhead'
<1> SUFFICES ASSUME NEW d \in Displays
             PROVE  ~ Has(Pipe(d)', Ahead') /\ ScreenBehind(screen[d])'
  BY DEF NoneAhead
<1> DEFINE P == Pipe(d)
           Q == Pipe(d)'
<1>1. P \in Seq(DisplayMessage) /\ Q \in Seq(DisplayMessage)
  BY PipeType, PipeTypeNext
<1>2. ~ Has(P, Ahead) /\ ScreenBehind(screen[d])
  BY DEF NoneAhead
<1>3. screen[d] \in [OrderIds -> MaybeOrder] /\ EmptyScreen \in [OrderIds -> MaybeOrder]
  BY DEF TypeOK, EmptyScreen, MaybeOrder
<1>4. Ahead' \subseteq Ahead
  BY AheadShrinks
<1>5. ASSUME NEW scr \in [OrderIds -> MaybeOrder], screen'[d] = scr, ScreenBehind(scr)
      PROVE  ScreenBehind(screen[d])'
  <2>1. ScreenBehind(scr)'
    BY <1>5, BehindStep
  <2>2. QED
    BY <1>5, <2>1 DEF ScreenBehind
<1>6. ScreenBehind(EmptyScreen)
  BY DEF ScreenBehind, EmptyScreen
<1> HIDE DEF P, Q
<1>7. ASSUME ~ Has(Q, Ahead), screen'[d] = screen[d]
      PROVE  ~ Has(Q, Ahead') /\ ScreenBehind(screen[d])'
  <2>1. ~ Has(Q, Ahead')
    BY <1>4, <1>7, HasSubset
  <2>2. QED
    BY <1>2, <1>3, <1>5, <1>7, <2>1
<1>8. CASE Keeps(d) \/ Beats(d)
  <2>1. ~ Has(Q, Ahead)
    BY <1>2, <1>8, MovesKeep, AheadAboutOrders DEF P, Q
  <2>2. QED
    BY <1>7, <1>8, <2>1 DEF Keeps, Beats, Q
<1>9. CASE Drops(d)
  <2>1. ~ Has(Q, Ahead)
    BY <1>2, <1>9, MovesKeep, AheadAboutOrders DEF P, Q
  <2>2. ~ Has(Q, Ahead')
    BY <1>4, <2>1, HasSubset
  <2>3. screen'[d] = EmptyScreen
    BY <1>9 DEF Drops
  <2>4. QED
    BY <1>3, <1>5, <1>6, <2>2, <2>3 DEF Q
<1>10. CASE Reads(d)
  <2>1. ~ Has(Q, Ahead)
    BY <1>2, <1>10, MovesKeep, AheadAboutOrders DEF P, Q
  <2>2. ~ Has(Q, Ahead')
    BY <1>4, <2>1, HasSubset
  <2>3. PICK m \in DisplayMessage :
          P = <<m>> \o Q /\ screen'[d] = Show(screen[d], m)
    BY <1>10 DEF Reads, P, Q
  <2>4. m \notin Ahead
    <3> DEFINE h == <<m>>
    <3>1. h \in Seq(DisplayMessage)
      OBVIOUS
    <3>2. Has(h, Ahead) <=> m \in Ahead
      BY ShortSequences
    <3> HIDE DEF h
    <3>3. QED
      BY <1>1, <1>2, <2>3, <3>1, <3>2, HasConcat DEF h
  <2>5. ScreenBehind(Show(screen[d], m))
    BY <1>2, <1>3, <2>4, ShowBehind
  <2>6. Show(screen[d], m) \in [OrderIds -> MaybeOrder]
    BY <1>3, ShowType
  <2>7. QED
    BY <1>5, <2>2, <2>3, <2>5, <2>6 DEF Q
<1>11. CASE Snaps(d)
  <2>1. PICK ids \in Listings(LiveIds) : Q = Copies(ids) \o P
    BY <1>11 DEF Snaps, P, Q
  <2>2. \A id \in LiveIds : DispOrder(id, my_orders[id]) \notin Ahead
    BY LaterSame DEF LiveIds, Allocated, Ahead, Told, DispOrder
  <2>3. ~ Has(Copies(ids), Ahead)
    BY <2>2, SnapshotCopies DEF Has
  <2>4. Copies(ids) \in Seq(DisplayMessage)
    BY ListingType
  <2>5. ~ Has(Q, Ahead)
    BY <1>1, <1>2, <2>1, <2>3, <2>4, HasConcat DEF P
  <2>6. QED
    BY <1>7, <1>11, <2>5 DEF Snaps, Q
<1>12. CASE Update
  <2>1. PICK id \in OrderIds : \E msgs : Changes(id, msgs) /\ Gets(d, msgs)
    BY <1>12, UpdateChanges
  <2>2. PICK msgs : Changes(id, msgs) /\ Gets(d, msgs)
    BY <2>1
  <2>3. msgs \in Seq(AboutOf(id) \ Ahead')
    BY <2>2 DEF Changes
  <2>4. ~ Has(msgs, Ahead') /\ msgs \in Seq(DisplayMessage)
    <3>1. (AboutOf(id) \ Ahead') \cap Ahead' = {}
      OBVIOUS
    <3>2. ~ Has(msgs, Ahead')
      BY <2>3, <3>1, NoneOf
    <3>3. QED
      BY <2>3, <3>2, AboutType
  <2>5. ~ Has(P, Ahead')
    BY <1>2, <1>4, HasSubset
  <2>6. ~ Has(Q, Ahead')
    <3>1. CASE d \in my_clients
      <4>1. Q = P \o msgs
        BY <2>2, <3>1 DEF Gets, P, Q
      <4>2. QED
        BY <1>1, <2>4, <2>5, <4>1, HasConcat
    <3>2. CASE d \notin my_clients
      BY <2>2, <3>2, ShortSequences DEF Gets, Q
    <3>3. QED
      BY <3>1, <3>2
  <2>7. screen'[d] = screen[d]
    BY <2>2 DEF Gets
  <2>8. QED
    BY <1>2, <1>3, <1>5, <2>6, <2>7 DEF Q
<1>13. QED
  BY <1>8, <1>9, <1>10, <1>11, <1>12, DisplayStep DEF Moves, Q

-------------------------------------------------------------------------------
(* An order comes before its delivery *)

LEMMA NotHeartbeats ==
  ASSUME NEW id \in OrderIds
  PROVE  /\ ShowsOf(id) \subseteq AboutOf(id) /\ DeliversOf(id) \subseteq AboutOf(id)
         /\ SetsStatus(id) \subseteq AboutOf(id)
         /\ \A o, p : SetsItem(id, o, p) \subseteq AboutOf(id)
         /\ DispHeartbeat \notin AboutOf(id)
<1>1. id # -1
  BY MaxOrdersAssumption DEF OrderIds, FirstOrderId
<1>2. DispHeartbeat \notin AboutOf(id)
  BY <1>1 DEF DispHeartbeat, AboutOf
<1>3. ShowsOf(id) \subseteq AboutOf(id) /\ DeliversOf(id) \subseteq AboutOf(id)
  BY DEF ShowsOf, Shows, DeliversOf, Delivers, AboutOf
<1>4. SetsStatus(id) \subseteq AboutOf(id)
  BY DEF SetsStatus, AboutOf
<1>5. \A o, p : SetsItem(id, o, p) \subseteq AboutOf(id)
  BY DEF SetsItem, Shows, AboutOf
<1>6. QED
  BY <1>2, <1>3, <1>4, <1>5

(* What is told of one order says nothing of another. *)
LEMMA NothingOfOthers ==
  ASSUME NEW id \in OrderIds, NEW k \in OrderIds, k # id, NEW A,
         NEW msgs \in Seq(AboutOf(id) \ A), NEW R, R \subseteq AboutOf(k)
  PROVE  ~ Has(msgs, R)
<1>1. (AboutOf(id) \ A) \cap R = {}
  BY DEF AboutOf
<1>2. QED
  BY <1>1, NoneOf

(* Nothing is on its way about an order that is not there yet. *)
LEMMA NothingOfFuture ==
  ASSUME NoneAhead, NEW d \in Displays, NEW id \in OrderIds, ~ (id < next_order_id),
         NEW R, R \subseteq AboutOf(id)
  PROVE  ~ Has(Pipe(d), R) /\ screen[d][id] = NoOrder
<1>1. AboutOf(id) \subseteq Ahead
  BY NotHeartbeats DEF AboutOf, Ahead
<1>2. R \subseteq Ahead
  BY <1>1
<1>3. ~ Has(Pipe(d), R)
  BY <1>2, HasSubset DEF NoneAhead
<1>4. QED
  BY <1>3 DEF NoneAhead, ScreenBehind

LEMMA DeliveriesLastInit == Init => DeliveriesLast
<1> SUFFICES ASSUME Init, NEW d \in Displays
             PROVE  \A A, B : NoneAfter(Pipe(d), A, B)
  BY DEF DeliveriesLast
<1>1. Pipe(d) = << >> \o << >> \o << >>
  BY DEF Init, Pipe
<1>2. << >> \o << >> = << >>
  BY ConcatEmptySeq
<1>3. QED
  BY <1>1, <1>2, ShortSequences

LEMMA DeliveriesLastStep ==
  ASSUME TypeOK, TypeOK', Allocated, Stages, NoneAhead, DeliveriesLast, [Next]_vars
  PROVE  DeliveriesLast'
<1> SUFFICES ASSUME NEW d \in Displays, NEW id \in OrderIds
             PROVE  NoneAfter(Pipe(d)', DeliversOf(id), ShowsOf(id))
  BY DEF DeliveriesLast
<1> DEFINE P == Pipe(d)
           Q == Pipe(d)'
           A == DeliversOf(id)
           B == ShowsOf(id)
<1>1. P \in Seq(DisplayMessage) /\ Q \in Seq(DisplayMessage)
  BY PipeType, PipeTypeNext
<1>2. NoneAfter(P, A, B)
  BY DEF DeliveriesLast
<1>3. /\ A \subseteq AboutOf(id) /\ B \subseteq AboutOf(id)
      /\ DispHeartbeat \notin A /\ DispHeartbeat \notin B
  BY NotHeartbeats
<1>4. \A m : m \in B => m.type = "DISP_ORDER"
  BY DEF ShowsOf, Shows
<1>5. \A m : m \in A => m.type = "DISP_ORDER_UPDATE"
  BY DEF DeliversOf, Delivers
<1> HIDE DEF P, Q, A, B
<1>6. CASE Keeps(d) \/ Beats(d) \/ Drops(d) \/ Reads(d)
  <2>1. NoneAfter(Q, A, B)
    BY <1>2, <1>3, <1>6, MovesKeep DEF P, Q
  <2>2. QED
    BY <2>1 DEF Q, A, B
<1>7. CASE Snaps(d)
  <2>1. PICK ids \in Listings(LiveIds) : Q = Copies(ids) \o P
    BY <1>7 DEF Snaps, P, Q
  <2>2. ~ Has(Copies(ids), A)
    BY <1>5, SnapshotCopies DEF Has, DispOrder
  <2>3. Copies(ids) \in Seq(DisplayMessage)
    BY ListingType
  <2>4. NoneAfter(Copies(ids), A, B)
    BY <2>2, NoneAfterIfNone
  <2>5. NoneAfter(Q, A, B)
    BY <1>1, <1>2, <2>1, <2>2, <2>3, <2>4, NoneAfterConcat
  <2>6. QED
    BY <2>5 DEF Q, A, B
<1>8. CASE Update
  <2>1. PICK k \in OrderIds : \E msgs : Changes(k, msgs) /\ Gets(d, msgs)
    BY <1>8, UpdateChanges
  <2>2. PICK msgs : Changes(k, msgs) /\ Gets(d, msgs)
    BY <2>1
  <2>3. msgs \in Seq(AboutOf(k) \ Ahead')
    BY <2>2 DEF Changes
  <2>4. msgs \in Seq(DisplayMessage)
    BY <2>3, AboutType
  <2>5. (~ Has(msgs, A) \/ ~ Has(msgs, B)) /\ (~ Has(P, A) \/ ~ Has(msgs, B))
    <3>1. CASE k # id
      <4>1. ~ Has(msgs, B)
        BY <1>3, <2>3, <3>1, NothingOfOthers
      <4>2. QED
        BY <4>1
    <3>2. CASE k = id /\ Creates(k, msgs)
      <4>1. ~ Has(P, A)
        BY <1>3, <3>2, NothingOfFuture DEF Creates, P
      <4>2. ~ Has(msgs, A)
        BY <1>5, <3>2, ShortSequences DEF Creates, DispOrder
      <4>3. QED
        BY <4>1, <4>2
    <3>3. CASE k = id /\ Advances(k, msgs)
      BY <3>3 DEF Advances, A, B
    <3>4. CASE k = id /\ Leaves(k, msgs)
      <4>1. ~ Has(msgs, B)
        BY <1>4, <3>4, ShortSequences DEF Leaves, DispOrderUpdate
      <4>2. QED
        BY <4>1
    <3>5. QED
      BY <2>2, <3>1, <3>2, <3>3, <3>4 DEF Changes
  <2>6. NoneAfter(msgs, A, B)
    BY <2>5, NoneAfterIfNone
  <2>7. NoneAfter(Q, A, B)
    <3>1. CASE d \in my_clients
      <4>1. Q = P \o msgs
        BY <2>2, <3>1 DEF Gets, P, Q
      <4>2. QED
        BY <1>1, <1>2, <2>4, <2>5, <2>6, <4>1, NoneAfterConcat
    <3>2. CASE d \notin my_clients
      BY <2>2, <3>2, ShortSequences DEF Gets, Q
    <3>3. QED
      BY <3>1, <3>2
  <2>8. QED
    BY <2>7 DEF Q, A, B
<1>9. QED
  BY <1>6, <1>7, <1>8, DisplayStep DEF Moves

-------------------------------------------------------------------------------
(* What is wrong will be put right *)

(* What a message does to the order id on a screen. *)
LEMMA ShowOrder ==
  ASSUME NEW scr \in [OrderIds -> MaybeOrder], NEW m \in DisplayMessage,
         NEW id \in OrderIds
  PROVE  LET x == scr[id]
             y == Show(scr, m)[id]
         IN  /\ Shows(m, id) => y = m.order
             /\ x = NoOrder /\ ~ Shows(m, id) => y = NoOrder
             /\ x # NoOrder /\ Delivers(m, id) => y = NoOrder
             /\ x # NoOrder /\ ~ Shows(m, id) /\ ~ Delivers(m, id) =>
                  /\ y # NoOrder
                  /\ y.status = IF m \in SetsStatus(id) THEN m.status ELSE x.status
                  /\ \A p \in DOMAIN x.items :
                       y.items[p].status =
                         IF /\ m.type = "DISP_ITEM_UPDATE" /\ m.id = id
                            /\ Names(x, p, m.item)
                         THEN m.status ELSE x.items[p].status
<1> DEFINE x == scr[id]
           y == Show(scr, m)[id]
           Updated == /\ y # NoOrder
                      /\ y.status = IF m \in SetsStatus(id) THEN m.status ELSE x.status
                      /\ \A p \in DOMAIN x.items :
                           y.items[p].status =
                             IF /\ m.type = "DISP_ITEM_UPDATE" /\ m.id = id
                                /\ Names(x, p, m.item)
                             THEN m.status ELSE x.items[p].status
<1>1. Shows(m, id) => y = m.order
  BY DEF Shows, Show
<1>2. ASSUME ~ Shows(m, id), x = NoOrder PROVE y = NoOrder
  <2>1. CASE m.id # id
    BY <1>2, <2>1 DEF Show
  <2>2. CASE m.id = id
    BY <1>2, <2>2 DEF Show, Shows
  <2>3. QED
    BY <2>1, <2>2
<1>3. ASSUME x # NoOrder, Delivers(m, id) PROVE y = NoOrder
  BY <1>3 DEF Delivers, Show
<1>4. ASSUME x # NoOrder, ~ Shows(m, id), ~ Delivers(m, id) PROVE Updated
  <2>1. x \in Order /\ x # NoOrder
    BY <1>4 DEF MaybeOrder
  <2>2. CASE m.id # id \/ m.type = "DISP_HEARTBEAT"
    <3>1. y = x
      BY <2>2 DEF Show
    <3>2. m \notin SetsStatus(id)
      BY <2>2 DEF SetsStatus
    <3>3. QED
      BY <2>1, <2>2, <3>1, <3>2
  <2>3. CASE m.id = id /\ m.type = "DISP_ORDER_UPDATE"
    <3>1. y = [x EXCEPT !.status = m.status]
      BY <1>4, <2>3 DEF Show, Delivers
    <3>2. y.items = x.items /\ y.status = m.status /\ y \in Order
      <4>1. m.status \in OrderStatus
        BY <2>3 DEF DisplayMessage, DispHeartbeat, OrderStatus
      <4>2. QED
        BY <2>1, <3>1, <4>1 DEF Order
    <3>3. m \in SetsStatus(id)
      BY <2>3 DEF SetsStatus
    <3>4. y # NoOrder
      BY <3>2, NoOrderAssumption
    <3> HIDE DEF y
    <3>5. QED
      BY <2>3, <3>2, <3>3, <3>4
  <2>4. CASE m.id = id /\ m.type = "DISP_ITEM_UPDATE" /\ HasItem(x, m.item)
    <3> DEFINE q == find_item(x, m.item)
               n == set_item_status(x, m.item, m.status)
    <3>1. y = n
      BY <1>4, <2>4 DEF Show
    <3>2. m.status \in ItemStatus
      BY <2>4 DEF DisplayMessage, DispHeartbeat, ItemStatus
    <3>3. /\ n \in Order
          /\ n.status = x.status
          /\ n.items[q].status = m.status
          /\ \A p \in DOMAIN x.items : p # q => n.items[p] = x.items[p]
      BY <2>1, <2>4, <3>2, SetItemStatus
    <3>4. Names(x, q, m.item) /\ \A p : Names(x, p, m.item) => p = q
      BY <2>1, <2>4, FindItemNames, NamesUnique
    <3>5. m \notin SetsStatus(id)
      BY <2>4 DEF SetsStatus
    <3>6. n # NoOrder
      BY <3>3, NoOrderAssumption
    <3> HIDE DEF y, n, q
    <3>7. QED
      BY <2>4, <3>1, <3>3, <3>4, <3>5, <3>6
  <2>5. CASE m.id = id /\ m.type = "DISP_ITEM_UPDATE" /\ ~ HasItem(x, m.item)
    <3>1. y = x
      BY <2>5 DEF Show
    <3>2. m \notin SetsStatus(id)
      BY <2>5 DEF SetsStatus
    <3>3. \A p : ~ Names(x, p, m.item)
      BY <2>5 DEF HasItem, Names
    <3>4. QED
      BY <2>1, <3>1, <3>2, <3>3
  <2>6. m.type \in {"DISP_HEARTBEAT", "DISP_ORDER", "DISP_ORDER_UPDATE", "DISP_ITEM_UPDATE"}
    BY DEF DisplayMessage, DispHeartbeat
  <2>7. QED
    BY <1>4, <2>2, <2>3, <2>4, <2>5, <2>6 DEF Shows
<1>5. QED
  BY <1>1, <1>2, <1>3, <1>4

(* The messages about a field are about the order. *)
LEMMA FieldsAbout ==
  ASSUME NEW id \in OrderIds
  PROVE  /\ \A st : StatusRight(id, st) \subseteq AboutOf(id)
                    /\ StatusWrong(id, st) \subseteq AboutOf(id)
         /\ \A o, p : ItemRight(id, o, p) \subseteq AboutOf(id)
                      /\ ItemWrong(id, o, p) \subseteq AboutOf(id)
         /\ \A R : R \subseteq AboutOf(id) => DispHeartbeat \notin R
BY NotHeartbeats DEF StatusRight, StatusWrong, ItemRight, ItemWrong

LEMMA KeptMoves ==
  ASSUME TypeOK, TypeOK', NEW d \in Displays, NEW id \in OrderIds, NEW o,
         Keeps(d) \/ Beats(d) \/ Drops(d) \/ Reads(d), Kept(d, id, o)
  PROVE  Kept(d, id, o)'
<1>1. ASSUME NEW W, NEW R, W \subseteq AboutOf(id), R \subseteq AboutOf(id),
             Corrected(Pipe(d), W, R)
      PROVE  Corrected(Pipe(d)', W, R)
  BY <1>1, MovesKeep, NotHeartbeats
<1>2. QED
  BY <1>1, FieldsAbout DEF Kept

LEMMA GoneMoves ==
  ASSUME TypeOK, TypeOK', NEW d \in Displays, NEW id \in OrderIds,
         Keeps(d) \/ Beats(d) \/ Drops(d) \/ Reads(d), Gone(d, id)
  PROVE  Gone(d, id)'
<1> DEFINE A == ShowsOf(id)
           B == DeliversOf(id)
           P == Pipe(d)
           Q == Pipe(d)'
<1>1. /\ A \subseteq AboutOf(id) /\ B \subseteq AboutOf(id)
      /\ DispHeartbeat \notin A /\ DispHeartbeat \notin B
  BY NotHeartbeats
<1>2. Corrected(P, A, B) /\ (screen[d][id] # NoOrder => Has(P, B))
  BY DEF Gone
<1>3. P \in Seq(DisplayMessage) /\ Q \in Seq(DisplayMessage)
  BY PipeType, PipeTypeNext
<1> HIDE DEF A, B, P, Q
<1>4. Corrected(Q, A, B)
  BY <1>1, <1>2, MovesKeep DEF P, Q
<1>5. ASSUME screen'[d][id] # NoOrder PROVE Has(Q, B)
  <2>1. CASE Keeps(d) \/ Beats(d)
    <3>1. screen'[d] = screen[d]
      BY <2>1 DEF Keeps, Beats
    <3>2. QED
      BY <1>1, <1>2, <1>5, <2>1, <3>1, MovesKeep DEF P, Q
  <2>2. CASE Drops(d)
    BY <1>5, <2>2 DEF Drops, EmptyScreen
  <2>3. CASE Reads(d)
    <3>1. PICK m \in DisplayMessage :
            P = <<m>> \o Q /\ screen'[d] = Show(screen[d], m)
      BY <2>3 DEF Reads, P, Q
    <3>2. /\ Has(P, B) => m \in B \/ Has(Q, B)
          /\ Corrected(P, A, B) /\ m \in A => Has(Q, B)
      BY <1>3, <3>1, ReadingTakesHead
    <3>3. screen[d] \in [OrderIds -> MaybeOrder]
      BY DEF TypeOK
    <3>4. m \in A \/ (screen[d][id] # NoOrder /\ m \notin B)
      BY <1>5, <3>1, <3>3, ShowOrder DEF A, B, ShowsOf, DeliversOf
    <3>5. QED
      BY <1>2, <3>2, <3>4
  <2>4. QED
    BY <2>1, <2>2, <2>3
<1>6. QED
  BY <1>4, <1>5 DEF Gone, A, B, Q

(* An item keeps its name, or keeps having none. *)
LEMMA NamesStay ==
  ASSUME NEW o \in Order, NEW n, Advanced(o, n)
  PROVE  \A p, i : Names(n, p, i) <=> Names(o, p, i)
<1>1. DOMAIN o.items = 1 .. Len(o.items) /\ Len(o.items) \in Nat
  BY DEF Order
<1>2. QED
  BY <1>1 DEF Names, Advanced

(* A display that reads a message either has a field right afterwards, or  *)
(* what is right is still to come.                                         *)
LEMMA ShownReads ==
  ASSUME TypeOK, TypeOK', NoneAhead, NEW d \in Displays, NEW id \in OrderIds,
         NEW o \in Order, my_orders[id] = o, Reads(d),
         Kept(d, id, o), Shown(d, id, o)
  PROVE  Shown(d, id, o)'
<1> DEFINE P == Pipe(d)
           Q == Pipe(d)'
           x == screen[d][id]
           y == screen'[d][id]
<1>1. P \in Seq(DisplayMessage) /\ Q \in Seq(DisplayMessage)
  BY PipeType, PipeTypeNext
<1>2. PICK m \in DisplayMessage : P = <<m>> \o Q /\ screen'[d] = Show(screen[d], m)
  BY DEF Reads
<1> HIDE DEF P, Q
<1>3. ASSUME NEW W, NEW R
      PROVE  /\ Has(P, R) => m \in R \/ Has(Q, R)
             /\ Corrected(P, W, R) /\ m \in W => Has(Q, R)
  BY <1>1, <1>2, ReadingTakesHead
<1>4. o # NoOrder
  BY NoOrderAssumption
<1>5. screen[d] \in [OrderIds -> MaybeOrder] /\ x \in MaybeOrder
  BY DEF TypeOK
<1>6. ~ Delivers(m, id)
  <2>1. m \notin Ahead
    <3> DEFINE h == <<m>>
    <3>1. h \in Seq(DisplayMessage)
      OBVIOUS
    <3>2. Has(h, Ahead) <=> m \in Ahead
      BY ShortSequences
    <3>3. ~ Has(P, Ahead)
      BY DEF NoneAhead, P
    <3> HIDE DEF h
    <3>4. QED
      BY <1>1, <1>2, <3>1, <3>2, <3>3, HasConcat DEF h
  <2>2. ASSUME Delivers(m, id) PROVE FALSE
    <3>1. m # DispHeartbeat /\ ~ Told(m, o) /\ m.id = id
      BY <2>2 DEF Delivers, Told, DispHeartbeat
    <3>2. QED
      BY <1>4, <2>1, <3>1 DEF Ahead
  <2>3. QED
    BY <2>2
<1>7. /\ Shows(m, id) => y = m.order
      /\ x = NoOrder /\ ~ Shows(m, id) => y = NoOrder
      /\ x # NoOrder /\ ~ Shows(m, id) =>
           /\ y # NoOrder
           /\ y.status = IF m \in SetsStatus(id) THEN m.status ELSE x.status
           /\ \A p \in DOMAIN x.items :
                y.items[p].status =
                  IF /\ m.type = "DISP_ITEM_UPDATE" /\ m.id = id
                     /\ Names(x, p, m.item)
                  THEN m.status ELSE x.items[p].status
  BY <1>2, <1>5, <1>6, ShowOrder
<1>8. /\ Corrected(P, StatusWrong(id, o.status), StatusRight(id, o.status))
      /\ \A p \in DOMAIN o.items :
           Corrected(P, ItemWrong(id, o, p), ItemRight(id, o, p))
  BY DEF Kept, P
<1>9. /\ x = NoOrder => Has(P, ShowsOf(id))
      /\ x # NoOrder /\ x.status # o.status => Has(P, StatusRight(id, o.status))
      /\ \A p \in DOMAIN o.items :
           x # NoOrder /\ x.items[p].status # o.items[p].status
             => Has(P, ItemRight(id, o, p))
  BY DEF Shown, P
<1> HIDE DEF y
<1>10. ASSUME y = NoOrder PROVE Has(Q, ShowsOf(id))
  <2>1. Shows(m, id) => m.order \in Order
    BY DEF Shows, DisplayMessage, DispHeartbeat
  <2>2. ~ Shows(m, id) /\ x = NoOrder
    BY <1>7, <1>10, <2>1, NoOrderAssumption
  <2>3. m \notin ShowsOf(id)
    BY <2>2 DEF ShowsOf
  <2>4. QED
    BY <1>3, <1>9, <2>2, <2>3
<1>11. ASSUME y # NoOrder, y.status # o.status PROVE Has(Q, StatusRight(id, o.status))
  <2>1. CASE m \in SetsStatus(id)
    <3>1. y.status = StatusIn(m)
      <4>1. CASE Shows(m, id)
        BY <1>7, <4>1 DEF StatusIn, Shows
      <4>2. CASE ~ Shows(m, id)
        BY <1>7, <1>11, <2>1, <4>2 DEF StatusIn, SetsStatus, Shows
      <4>3. QED
        BY <4>1, <4>2
    <3>2. m \in StatusWrong(id, o.status)
      BY <1>11, <2>1, <3>1 DEF StatusWrong
    <3>3. QED
      BY <1>3, <1>8, <3>2
  <2>2. CASE m \notin SetsStatus(id)
    <3>1. ~ Shows(m, id)
      BY <2>2 DEF SetsStatus, Shows
    <3>2. x # NoOrder /\ y.status = x.status
      BY <1>7, <1>11, <2>2, <3>1
    <3>3. Has(P, StatusRight(id, o.status)) /\ m \notin StatusRight(id, o.status)
      BY <1>9, <1>11, <2>2, <3>2 DEF StatusRight
    <3>4. QED
      BY <1>3, <3>3
  <2>3. QED
    BY <2>1, <2>2
<1>12. ASSUME y # NoOrder, NEW p \in DOMAIN o.items,
              y.items[p].status # o.items[p].status
       PROVE  Has(Q, ItemRight(id, o, p))
  <2>1. CASE Shows(m, id)
    <3>1. m \in SetsItem(id, o, p) /\ ItemIn(m, p) = y.items[p].status
      BY <1>7, <2>1 DEF SetsItem, ItemIn, Shows
    <3>2. m \in ItemWrong(id, o, p)
      BY <1>12, <3>1 DEF ItemWrong
    <3>3. QED
      BY <1>3, <1>8, <3>2
  <2>2. CASE ~ Shows(m, id)
    <3>1. x # NoOrder
      BY <1>7, <1>12, <2>2
    <3>2. x \in Order /\ Advanced(x, o)
      BY <1>4, <1>5, <3>1 DEF MaybeOrder, NoneAhead, ScreenBehind, Later
    <3>3. p \in DOMAIN x.items
      BY <3>2 DEF Advanced
    <3>4. \A i : Names(x, p, i) <=> Names(o, p, i)
      BY <3>2, NamesStay
    <3>5. CASE m.type = "DISP_ITEM_UPDATE" /\ m.id = id /\ Names(o, p, m.item)
      <4>1. y.items[p].status = m.status
        BY <1>7, <2>2, <3>1, <3>3, <3>4, <3>5
      <4>2. m \in SetsItem(id, o, p) /\ ItemIn(m, p) = m.status
        BY <3>5 DEF SetsItem, ItemIn
      <4>3. m \in ItemWrong(id, o, p)
        BY <1>12, <4>1, <4>2 DEF ItemWrong
      <4>4. QED
        BY <1>3, <1>8, <4>3
    <3>6. CASE ~ (m.type = "DISP_ITEM_UPDATE" /\ m.id = id /\ Names(o, p, m.item))
      <4>1. y.items[p].status = x.items[p].status
        BY <1>7, <2>2, <3>1, <3>3, <3>4, <3>6
      <4>2. m \notin ItemRight(id, o, p)
        BY <2>2, <3>6 DEF ItemRight, SetsItem
      <4>3. QED
        BY <1>3, <1>9, <1>12, <3>1, <4>1, <4>2
    <3>7. QED
      BY <3>5, <3>6
  <2>3. QED
    BY <2>1, <2>2
<1>13. QED
  BY <1>10, <1>11, <1>12 DEF Shown, Q, y

(* ... and a display that only waits still has what it had coming. *)
LEMMA ShownWaits ==
  ASSUME TypeOK, TypeOK', NEW d \in Displays, NEW id \in OrderIds, NEW o,
         Keeps(d) \/ Beats(d), Shown(d, id, o)
  PROVE  Shown(d, id, o)'
<1>1. screen'[d] = screen[d]
  BY DEF Keeps, Beats
<1>2. ASSUME NEW R, R \subseteq AboutOf(id), Has(Pipe(d), R) PROVE Has(Pipe(d)', R)
  BY <1>2, MovesKeep, NotHeartbeats
<1>3. ShowsOf(id) \subseteq AboutOf(id)
  BY NotHeartbeats
<1>4. QED
  BY <1>1, <1>2, <1>3, FieldsAbout DEF Shown

(* A snapshot has every order, as it is. *)
LEMMA FedSnapshot ==
  ASSUME TypeOK, TypeOK', UNCHANGED my_orders,
         NEW d \in Displays, NEW id \in OrderIds, Snaps(d), Fed(d, id)
  PROVE  Fed(d, id)'
<1> DEFINE P == Pipe(d)
           Q == Pipe(d)'
<1>1. PICK ids \in Listings(LiveIds) : Q = Copies(ids) \o P
  BY DEF Snaps
<1>2. /\ screen[d][id] = NoOrder /\ screen'[d][id] = NoOrder
  BY DEF Snaps, EmptyScreen
<1> DEFINE c == Copies(ids)
<1>3. c \in Seq(DisplayMessage) /\ P \in Seq(DisplayMessage)
  BY ListingType, PipeType
<1>4. /\ \A k \in DOMAIN c : \E j \in LiveIds : c[k] = DispOrder(j, my_orders[j])
      /\ \A j \in LiveIds : \E k \in DOMAIN c : c[k] = DispOrder(j, my_orders[j])
  BY SnapshotCopies
<1> HIDE DEF c, P, Q
<1>5. ASSUME NEW W, NEW R, Corrected(P, W, R), ~ Has(c, W)
      PROVE  Corrected(Q, W, R)
  <2>1. Corrected(c, W, R)
    BY <1>5, CorrectedIfNone
  <2>2. QED
    BY <1>1, <1>3, <1>5, <2>1, CorrectedConcat DEF c
<1>6. CASE my_orders[id] = NoOrder
  <2>1. ~ Has(c, ShowsOf(id))
    BY <1>4, <1>6 DEF Has, ShowsOf, Shows, DispOrder, LiveIds
  <2>2. Corrected(P, ShowsOf(id), DeliversOf(id))
    BY <1>6 DEF Fed, Gone, P
  <2>3. Corrected(Q, ShowsOf(id), DeliversOf(id))
    BY <1>5, <2>1, <2>2
  <2>4. Gone(d, id)'
    BY <1>2, <2>3 DEF Gone, Q
  <2>5. QED
    BY <1>6, <2>4 DEF Fed
<1>7. CASE my_orders[id] # NoOrder
  <2>1. PICK o : o = my_orders[id]
    OBVIOUS
  <2>2. ~ Has(c, StatusWrong(id, o.status))
    BY <1>4, <2>1 DEF Has, StatusWrong, SetsStatus, StatusIn, DispOrder
  <2>3. ASSUME NEW p \in DOMAIN o.items PROVE ~ Has(c, ItemWrong(id, o, p))
    BY <1>4, <2>1 DEF Has, ItemWrong, SetsItem, Shows, ItemIn, DispOrder
  <2>4. Kept(d, id, o)
    BY <1>7, <2>1 DEF Fed
  <2>5. Kept(d, id, o)'
    BY <1>5, <2>2, <2>3, <2>4 DEF Kept, P, Q
  <2>6. Has(Q, ShowsOf(id))
    <3>1. id \in LiveIds
      BY <1>7 DEF LiveIds
    <3>2. PICK k \in DOMAIN c : c[k] = DispOrder(id, o)
      BY <1>4, <2>1, <3>1
    <3>3. c[k] \in ShowsOf(id)
      BY <1>3, <3>2 DEF ShowsOf, Shows, DispOrder
    <3>4. Has(c, ShowsOf(id))
      BY <3>3 DEF Has
    <3>5. QED
      BY <1>1, <1>3, <3>4, HasConcat DEF c
  <2>7. Shown(d, id, o)'
    BY <1>2, <2>6 DEF Shown, Q
  <2>8. my_orders'[id] = o
    BY <2>1
  <2>9. QED
    BY <1>7, <2>1, <2>5, <2>7, <2>8 DEF Fed, Kept, Shown
<1>8. QED
  BY <1>6, <1>7

LEMMA FedMoves ==
  ASSUME TypeOK, TypeOK', NoneAhead, UNCHANGED my_orders,
         NEW d \in Displays, NEW id \in OrderIds, Moves(d), Fed(d, id)
  PROVE  Fed(d, id)'
<1>1. CASE Snaps(d)
  BY <1>1, FedSnapshot
<1>2. CASE Keeps(d) \/ Beats(d) \/ Drops(d) \/ Reads(d)
  <2>1. CASE my_orders[id] = NoOrder
    <3>1. Gone(d, id)'
      BY <1>2, <2>1, GoneMoves DEF Fed
    <3>2. QED
      BY <2>1, <3>1 DEF Fed
  <2>2. CASE my_orders[id] # NoOrder
    <3>1. PICK o : o = my_orders[id]
      OBVIOUS
    <3>2. o \in Order /\ my_orders'[id] = o
      BY <2>2, <3>1 DEF TypeOK, MaybeOrder
    <3>3. Kept(d, id, o) /\ (On(d) => Shown(d, id, o))
      BY <2>2, <3>1 DEF Fed
    <3>4. Kept(d, id, o)'
      BY <1>2, <3>3, KeptMoves
    <3>5. ASSUME On(d)' PROVE Shown(d, id, o)'
      <4>1. CASE Keeps(d) \/ Beats(d)
        <5>1. Shown(d, id, o)
          BY <3>3, <3>5, <4>1 DEF Keeps, Beats
        <5>2. QED
          BY <4>1, <5>1, ShownWaits
      <4>2. CASE Reads(d)
        <5>1. Shown(d, id, o)
          BY <3>3, <4>2 DEF Reads
        <5>2. QED
          BY <3>1, <3>2, <3>3, <4>2, <5>1, ShownReads
      <4>3. CASE Drops(d)
        BY <3>5, <4>3 DEF Drops, On
      <4>4. QED
        BY <1>2, <4>1, <4>2, <4>3
    <3>6. QED
      BY <2>2, <3>1, <3>2, <3>4, <3>5 DEF Fed, Kept, Shown
  <2>3. QED
    BY <2>1, <2>2
<1>3. QED
  BY <1>1, <1>2 DEF Moves

(* What new messages change for a display. *)
LEMMA GetsKeep ==
  ASSUME TypeOK, TypeOK', Stages, NEW d \in Displays,
         NEW msgs \in Seq(DisplayMessage), Gets(d, msgs), NEW W, NEW R
  PROVE  /\ Has(Pipe(d), R) => Has(Pipe(d)', R)
         /\ ~ Has(msgs, W) /\ Corrected(Pipe(d), W, R) => Corrected(Pipe(d)', W, R)
         /\ ~ Has(msgs, W) /\ Has(msgs, R) => Corrected(Pipe(d)', W, R)
         /\ d \in my_clients /\ Has(msgs, R) => Has(Pipe(d)', R)
<1> DEFINE P == Pipe(d)
           Q == Pipe(d)'
<1>1. P \in Seq(DisplayMessage)
  BY PipeType
<1>2. CASE d \in my_clients
  <2>1. Q = P \o msgs
    BY <1>2 DEF Gets
  <2>2. ~ Has(msgs, W) => Corrected(msgs, W, R)
    BY CorrectedIfNone
  <2> HIDE DEF P, Q
  <2>3. Has(Q, R) <=> Has(P, R) \/ Has(msgs, R)
    BY <1>1, <2>1, HasConcat
  <2>4. Corrected(Q, W, R)
          <=> Corrected(msgs, W, R) /\ (Corrected(P, W, R) \/ Has(msgs, R))
    BY <1>1, <2>1, CorrectedConcat
  <2>5. QED
    BY <2>2, <2>3, <2>4 DEF P, Q
<1>3. CASE d \notin my_clients
  BY <1>3, ShortSequences DEF Gets
<1>4. QED
  BY <1>2, <1>3

(* An update of another order changes nothing for this one. *)
LEMMA FedOther ==
  ASSUME TypeOK, TypeOK', Stages, NEW d \in Displays, NEW id \in OrderIds,
         NEW k \in OrderIds, k # id, NEW msgs, Changes(k, msgs), Gets(d, msgs),
         Fed(d, id)
  PROVE  Fed(d, id)'
<1>1. msgs \in Seq(AboutOf(k) \ Ahead') /\ my_orders'[id] = my_orders[id]
  BY DEF Changes
<1>2. msgs \in Seq(DisplayMessage)
  BY <1>1, AboutType
<1>3. ASSUME NEW W, NEW R, W \subseteq AboutOf(id)
      PROVE  /\ Has(Pipe(d), R) => Has(Pipe(d)', R)
             /\ Corrected(Pipe(d), W, R) => Corrected(Pipe(d)', W, R)
  <2>1. ~ Has(msgs, W)
    BY <1>1, <1>3, NothingOfOthers
  <2>2. QED
    BY <1>2, <2>1, GetsKeep
<1>4. screen'[d] = screen[d] /\ (On(d)' <=> On(d))
  BY DEF Gets
<1>5. CASE my_orders[id] = NoOrder
  <2>1. Gone(d, id)'
    BY <1>3, <1>4, <1>5, NotHeartbeats DEF Fed, Gone
  <2>2. QED
    BY <1>1, <1>5, <2>1 DEF Fed
<1>6. CASE my_orders[id] # NoOrder
  <2>1. PICK o : o = my_orders[id]
    OBVIOUS
  <2>2. Kept(d, id, o) /\ (On(d) => Shown(d, id, o))
    BY <1>6, <2>1 DEF Fed
  <2>3. Kept(d, id, o)'
    BY <1>3, <2>2, FieldsAbout DEF Kept
  <2>4. On(d)' => Shown(d, id, o)'
    BY <1>3, <1>4, <2>2, FieldsAbout DEF Shown
  <2>5. QED
    BY <1>1, <1>6, <2>1, <2>3, <2>4 DEF Fed, Kept, Shown
<1>7. QED
  BY <1>5, <1>6

(* A new order is announced to all who do not get it with their snapshot. *)
LEMMA FedCreates ==
  ASSUME TypeOK, TypeOK', Stages, NoneAhead, NEW d \in Displays,
         NEW id \in OrderIds, NEW msgs \in Seq(DisplayMessage),
         Creates(id, msgs), Gets(d, msgs)
  PROVE  Fed(d, id)'
<1>1. PICK o : o = my_orders'[id]
  OBVIOUS
<1>2. o # NoOrder /\ o \in Order /\ ~ (id < next_order_id)
  BY <1>1 DEF Creates, TypeOK, MaybeOrder
<1> DEFINE m == DispOrder(id, o)
<1>3. msgs = <<m>>
  BY <1>1 DEF Creates
<1>4. \A R : Has(msgs, R) <=> m \in R
  BY <1>3, ShortSequences
<1>5. ASSUME NEW W, NEW R, W \subseteq AboutOf(id), m \notin W
      PROVE  Corrected(Pipe(d)', W, R)
  <2>1. ~ Has(Pipe(d), W)
    BY <1>2, <1>5, NothingOfFuture
  <2>2. Corrected(Pipe(d), W, R)
    BY <2>1, CorrectedIfNone
  <2>3. QED
    BY <1>4, <1>5, <2>2, GetsKeep
<1>6. m \notin StatusWrong(id, o.status) /\ \A p : m \notin ItemWrong(id, o, p)
  BY DEF StatusWrong, StatusIn, ItemWrong, ItemIn, DispOrder
<1>7. Kept(d, id, o)'
  BY <1>5, <1>6, FieldsAbout DEF Kept
<1>8. ASSUME On(d)' PROVE Shown(d, id, o)'
  <2>1. m \in ShowsOf(id)
    BY <1>2 DEF ShowsOf, Shows, DispOrder, DisplayMessage
  <2>2. d \in my_clients
    BY <1>8 DEF Gets, On, Stages
  <2>3. Has(Pipe(d)', ShowsOf(id))
    BY <1>4, <2>1, <2>2, GetsKeep
  <2>4. screen'[d][id] = NoOrder
    <3>1. {} \subseteq AboutOf(id)
      OBVIOUS
    <3>2. screen[d][id] = NoOrder
      BY <1>2, <3>1, NothingOfFuture
    <3>3. QED
      BY <3>2 DEF Gets
  <2>5. QED
    BY <2>3, <2>4 DEF Shown
<1>9. QED
  BY <1>1, <1>2, <1>7, <1>8 DEF Fed, Kept, Shown

LEMMA FedLeaves ==
  ASSUME TypeOK, TypeOK', Stages, NEW d \in Displays,
         NEW id \in OrderIds, NEW msgs \in Seq(DisplayMessage),
         Leaves(id, msgs), Gets(d, msgs)
  PROVE  Fed(d, id)'
<1> DEFINE m == DispOrderUpdate(id, "DELIVERED")
<1>1. my_orders'[id] = NoOrder /\ msgs = <<m>>
  BY DEF Leaves
<1>2. \A R : Has(msgs, R) <=> m \in R
  BY <1>1, ShortSequences
<1>3. m \in DeliversOf(id) /\ m \notin ShowsOf(id)
  BY DEF DeliversOf, Delivers, ShowsOf, Shows, DispOrderUpdate, DisplayMessage
<1>4. Corrected(Pipe(d)', ShowsOf(id), DeliversOf(id))
  BY <1>2, <1>3, GetsKeep
<1>5. ASSUME screen'[d][id] # NoOrder PROVE Has(Pipe(d)', DeliversOf(id))
  <2>1. On(d)
    BY <1>5 DEF Gets, Stages, EmptyScreen
  <2>2. d \in my_clients
    BY <2>1 DEF Stages, On
  <2>3. QED
    BY <1>2, <1>3, <2>2, GetsKeep
<1>6. QED
  BY <1>1, <1>4, <1>5 DEF Fed, Gone

(* Whoever has or gets an old value of a field hears the new one. *)
LEMMA FedAdvances ==
  ASSUME TypeOK, TypeOK', Stages, NEW d \in Displays,
         NEW id \in OrderIds, NEW msgs \in Seq(DisplayMessage),
         Advances(id, msgs), Gets(d, msgs), Fed(d, id)
  PROVE  Fed(d, id)'
<1>1. PICK o : o = my_orders[id]
  OBVIOUS
<1>2. PICK n : n = my_orders'[id]
  OBVIOUS
<1>3. /\ o # NoOrder /\ n # NoOrder /\ o \in Order
      /\ Advanced(o, n)
      /\ ~ Has(msgs, StatusWrong(id, n.status))
      /\ n.status # o.status => Has(msgs, StatusRight(id, n.status))
      /\ \A p \in DOMAIN n.items :
           /\ ~ Has(msgs, ItemWrong(id, n, p))
           /\ n.items[p].status # o.items[p].status
                => Has(msgs, ItemRight(id, n, p))
  BY <1>1, <1>2 DEF Advances, TypeOK, MaybeOrder
<1>4. DOMAIN n.items = DOMAIN o.items
  BY <1>3 DEF Advanced
<1>5. \A p \in DOMAIN n.items : n.items[p].status = o.items[p].status =>
        /\ ItemWrong(id, n, p) = ItemWrong(id, o, p)
        /\ ItemRight(id, n, p) = ItemRight(id, o, p)
  <2>1. \A p : SetsItem(id, n, p) = SetsItem(id, o, p)
    BY <1>3, NamesStay DEF SetsItem
  <2>2. QED
    BY <2>1 DEF ItemWrong, ItemRight
<1>6. Kept(d, id, o) /\ (On(d) => Shown(d, id, o))
  BY <1>1, <1>3 DEF Fed
<1>7. Kept(d, id, n)'
  <2>1. Corrected(Pipe(d)', StatusWrong(id, n.status), StatusRight(id, n.status))
    <3>1. CASE n.status = o.status
      BY <1>3, <1>6, <3>1, GetsKeep DEF Kept
    <3>2. CASE n.status # o.status
      BY <1>3, <3>2, GetsKeep
    <3>3. QED
      BY <3>1, <3>2
  <2>2. ASSUME NEW p \in DOMAIN n.items
        PROVE  Corrected(Pipe(d)', ItemWrong(id, n, p), ItemRight(id, n, p))
    <3>1. CASE n.items[p].status = o.items[p].status
      <4>1. Corrected(Pipe(d), ItemWrong(id, n, p), ItemRight(id, n, p))
        BY <1>4, <1>5, <1>6, <3>1 DEF Kept
      <4>2. QED
        BY <1>3, <4>1, GetsKeep
    <3>2. CASE n.items[p].status # o.items[p].status
      BY <1>3, <3>2, GetsKeep
    <3>3. QED
      BY <3>1, <3>2
  <2>3. QED
    BY <2>1, <2>2 DEF Kept
<1>8. ASSUME On(d)' PROVE Shown(d, id, n)'
  <2>1. On(d) /\ screen'[d] = screen[d]
    BY <1>8 DEF Gets
  <2>2. d \in my_clients
    BY <2>1 DEF Stages, On
  <2> DEFINE x == screen[d][id]
  <2>3. /\ x = NoOrder => Has(Pipe(d), ShowsOf(id))
        /\ x # NoOrder /\ x.status # o.status => Has(Pipe(d), StatusRight(id, o.status))
        /\ \A p \in DOMAIN o.items :
             x # NoOrder /\ x.items[p].status # o.items[p].status
               => Has(Pipe(d), ItemRight(id, o, p))
    BY <1>6, <2>1 DEF Shown
  <2> HIDE DEF x
  <2>4. ASSUME NEW R, Has(Pipe(d), R) \/ Has(msgs, R) PROVE Has(Pipe(d)', R)
    BY <2>2, <2>4, GetsKeep
  <2>5. x = NoOrder => Has(Pipe(d)', ShowsOf(id))
    BY <2>3, <2>4
  <2>6. ASSUME x # NoOrder, x.status # n.status
        PROVE  Has(Pipe(d)', StatusRight(id, n.status))
    <3>1. CASE n.status = o.status
      BY <2>3, <2>4, <2>6, <3>1
    <3>2. CASE n.status # o.status
      BY <1>3, <2>4, <3>2
    <3>3. QED
      BY <3>1, <3>2
  <2>7. ASSUME x # NoOrder, NEW p \in DOMAIN n.items,
               x.items[p].status # n.items[p].status
        PROVE  Has(Pipe(d)', ItemRight(id, n, p))
    <3>1. CASE n.items[p].status = o.items[p].status
      <4>1. Has(Pipe(d), ItemRight(id, o, p))
        BY <1>4, <2>3, <2>7, <3>1
      <4>2. QED
        BY <1>5, <2>4, <3>1, <4>1
    <3>2. CASE n.items[p].status # o.items[p].status
      BY <1>3, <2>4, <3>2
    <3>3. QED
      BY <3>1, <3>2
  <2>8. QED
    BY <2>1, <2>5, <2>6, <2>7 DEF Shown, x
<1>9. QED
  BY <1>2, <1>3, <1>7, <1>8 DEF Fed, Kept, Shown

LEMMA AllCorrectedInit == Init => AllCorrected
<1> SUFFICES ASSUME Init, NEW d \in Displays, NEW id \in OrderIds PROVE Fed(d, id)
  BY DEF AllCorrected
<1>1. Pipe(d) = << >> \o << >> \o << >>
  BY DEF Init, Pipe
<1>2. << >> \o << >> = << >>
  BY ConcatEmptySeq
<1>3. QED
  BY <1>1, <1>2, ShortSequences DEF Init, EmptyScreen, Fed, Gone

LEMMA AllCorrectedStep ==
  ASSUME TypeOK, TypeOK', Allocated, Stages, NoneAhead, AllCorrected, [Next]_vars
  PROVE  AllCorrected'
<1> SUFFICES ASSUME NEW d \in Displays, NEW id \in OrderIds PROVE Fed(d, id)'
  BY DEF AllCorrected
<1>1. Fed(d, id)
  BY DEF AllCorrected
<1>2. CASE UNCHANGED serverVars /\ Moves(d)
  BY <1>1, <1>2, FedMoves DEF serverVars
<1>3. CASE Update
  <2>1. PICK k \in OrderIds : \E msgs : Changes(k, msgs) /\ Gets(d, msgs)
    BY <1>3, UpdateChanges
  <2>2. PICK msgs : Changes(k, msgs) /\ Gets(d, msgs)
    BY <2>1
  <2>3. msgs \in Seq(DisplayMessage)
    <3>1. msgs \in Seq(AboutOf(k) \ Ahead')
      BY <2>2 DEF Changes
    <3>2. QED
      BY <3>1, AboutType
  <2>4. CASE k # id
    BY <1>1, <2>2, <2>4, FedOther
  <2>5. CASE k = id
    BY <1>1, <2>2, <2>3, <2>5, FedCreates, FedLeaves, FedAdvances DEF Changes
  <2>6. QED
    BY <2>4, <2>5
<1>4. QED
  BY <1>2, <1>3, DisplayStep

-------------------------------------------------------------------------------
(* The theorems *)

LEMMA FeedInit == Init => FeedInv
BY StagesInit, NoneAheadInit, DeliveriesLastInit, AllCorrectedInit DEF FeedInv

LEMMA FeedStep == TypeOK /\ TypeOK' /\ Allocated /\ FeedInv /\ [Next]_vars => FeedInv'
<1> SUFFICES ASSUME TypeOK, TypeOK', Allocated, FeedInv, [Next]_vars PROVE FeedInv'
  OBVIOUS
<1>1. Stages /\ NoneAhead /\ DeliveriesLast /\ AllCorrected
  BY DEF FeedInv
<1>2. Stages'
  BY <1>1, StagesStep
<1>3. NoneAhead'
  BY <1>1, NoneAheadStep
<1>4. DeliveriesLast'
  BY <1>1, DeliveriesLastStep
<1>5. AllCorrected'
  BY <1>1, AllCorrectedStep
<1>6. QED
  BY <1>2, <1>3, <1>4, <1>5 DEF FeedInv

(* On the way from the server to any display, whenever it registers, takes *)
(* its snapshot, reads or leaves, and whatever the updaters do meanwhile:  *)
(* nothing is told before it is true, an order comes before its delivery,  *)
(* and whatever is out of date is followed by what puts it right.          *)
THEOREM FeedCorrect == Spec => []FeedInv
<1>1. Init => Allocated
  BY AllocatedInit
<1>2. TypeOK /\ Allocated /\ [Next]_vars => Allocated'
  BY AllocatedStep
<1>3. Init => FeedInv
  BY FeedInit
<1>4. TypeOK /\ TypeOK' /\ Allocated /\ FeedInv /\ [Next]_vars => FeedInv'
  BY FeedStep
<1>5. QED
  BY <1>1, <1>2, <1>3, <1>4, TypeCorrect, PTL DEF Spec

(* No display ever shows a status of an order or of an item that the       *)
(* server has not recorded, although it applies a snapshot and, after it,  *)
(* updates from before the snapshot.                                       *)
THEOREM ScreensNeverAhead == Spec => []ScreenNeverAhead
<1>1. FeedInv => ScreenNeverAhead
  <2> SUFFICES ASSUME FeedInv, NEW d \in Displays, NEW id \in OrderIds,
                      screen[d][id] # NoOrder
               PROVE  /\ id < next_order_id
                      /\ my_orders[id] # NoOrder => Later(screen[d][id], my_orders[id])
    BY DEF ScreenNeverAhead, Later, Advanced
  <2>1. QED
    BY DEF FeedInv, NoneAhead, ScreenBehind
<1>2. QED
  BY <1>1, FeedCorrect, PTL

(* Two orders that agree field by field are the same. *)
LEMMA SameFields ==
  ASSUME NEW a \in Order, NEW b \in Order, a.status = b.status,
         DOMAIN a.items = DOMAIN b.items,
         \A p \in DOMAIN a.items : /\ a.items[p].id = b.items[p].id
                                   /\ a.items[p].status = b.items[p].status
  PROVE  a = b
<1>1. a.items \in Seq(Item) /\ b.items \in Seq(Item)
  BY DEF Order
<1>2. \A p \in DOMAIN a.items : a.items[p] = b.items[p]
  <2> SUFFICES ASSUME NEW p \in DOMAIN a.items PROVE a.items[p] = b.items[p]
    OBVIOUS
  <2>1. a.items[p] \in Item /\ b.items[p] \in Item
    BY <1>1
  <2>2. QED
    BY <2>1 DEF Item
<1>3. a.items = b.items
  <2>1. Len(a.items) = Len(b.items) /\ DOMAIN a.items = 1 .. Len(a.items)
    BY <1>1
  <2>2. QED
    BY <1>1, <1>2, <2>1, SeqEqual
<1>4. QED
  BY <1>3 DEF Order

(* A display to which nothing but heartbeats is on its way shows exactly   *)
(* the server's orders: no update falls between its snapshot and its       *)
(* queue, and replaying what the snapshot contains already does no harm    *)
(* that lasts.                                                             *)
THEOREM DisplaysCatchUp == Spec => []CaughtUp
<1>1. TypeOK /\ FeedInv => CaughtUp
  <2> SUFFICES ASSUME TypeOK, FeedInv, NEW d \in Displays,
                      phase[d] = "stream", peer[d] = "open",
                      \A k \in DOMAIN Pipe(d) : Pipe(d)[k] = DispHeartbeat
               PROVE  screen[d] = my_orders
    BY DEF CaughtUp
  <2>1. ASSUME NEW id \in OrderIds, NEW R, R \subseteq AboutOf(id)
        PROVE  ~ Has(Pipe(d), R)
    BY <2>1, NotHeartbeats DEF Has
  <2>2. ASSUME NEW id \in OrderIds PROVE screen[d][id] = my_orders[id]
    <3> DEFINE x == screen[d][id]
               o == my_orders[id]
    <3>1. CASE o = NoOrder
      <4>1. Gone(d, id)
        BY <3>1 DEF FeedInv, AllCorrected, Fed
      <4>2. ~ Has(Pipe(d), DeliversOf(id))
        BY <2>1, NotHeartbeats
      <4>3. QED
        BY <3>1, <4>1, <4>2 DEF Gone
    <3>2. CASE o # NoOrder
      <4>1. Shown(d, id, o)
        BY <3>2 DEF FeedInv, AllCorrected, Fed, On
      <4>2. /\ ~ Has(Pipe(d), ShowsOf(id))
            /\ ~ Has(Pipe(d), StatusRight(id, o.status))
            /\ \A p : ~ Has(Pipe(d), ItemRight(id, o, p))
        BY <2>1, NotHeartbeats, FieldsAbout
      <4>3. /\ x # NoOrder /\ x.status = o.status
            /\ \A p \in DOMAIN o.items : x.items[p].status = o.items[p].status
        BY <4>1, <4>2 DEF Shown
      <4>4. x \in Order /\ o \in Order
        BY <3>2, <4>3 DEF TypeOK, MaybeOrder
      <4>5. Advanced(x, o)
        BY <3>2, <4>3 DEF FeedInv, NoneAhead, ScreenBehind, Later
      <4> HIDE DEF x, o
      <4>6. /\ DOMAIN x.items = DOMAIN o.items
            /\ \A p \in DOMAIN x.items : x.items[p].id = o.items[p].id
        BY <4>5 DEF Advanced
      <4>7. x = o
        BY <4>3, <4>4, <4>6, SameFields
      <4>8. QED
        BY <4>7 DEF x, o
    <3>3. QED
      BY <3>1, <3>2
  <2>3. QED
    BY <2>2 DEF TypeOK
<1>2. QED
  BY <1>1, FeedCorrect, TypeCorrect, PTL

(* An order that a display has taken off its screen does not come back:    *)
(* whatever broadcasts and snapshots were under way, no DISP_ORDER for it  *)
(* is behind its delivery.                                                 *)
THEOREM DeliveredNeverReshown == Spec => NeverReshown
<1> DEFINE Stay == \A d \in Displays, id \in OrderIds :
                     /\ peer[d] = "open" /\ peer'[d] = "open"
                     /\ screen[d][id] # NoOrder /\ screen'[d][id] = NoOrder
                     => \A k \in DOMAIN Pipe(d)' : ~ Shows(Pipe(d)'[k], id)
<1>1. TypeOK /\ TypeOK' /\ Allocated /\ FeedInv /\ [Next]_vars => [Stay]_vars
  <2> SUFFICES ASSUME TypeOK, TypeOK', Allocated, FeedInv, [Next]_vars,
                      NEW d \in Displays, NEW id \in OrderIds,
                      peer'[d] = "open",
                      screen[d][id] # NoOrder, screen'[d][id] = NoOrder
               PROVE  \A k \in DOMAIN Pipe(d)' : ~ Shows(Pipe(d)'[k], id)
    OBVIOUS
  <2>1. Stages /\ DeliveriesLast
    BY DEF FeedInv
  <2>2. screen'[d] # screen[d] /\ screen[d] # EmptyScreen
    BY DEF EmptyScreen
  <2>3. ~ Update
    <3>1. ASSUME Update PROVE \E k \in OrderIds : \E msgs : Gets(d, msgs)
      BY <2>1, <3>1, UpdateChanges
    <3>2. QED
      BY <2>2, <3>1 DEF Gets
  <2>4. Reads(d)
    BY <2>1, <2>2, <2>3, DisplayStep DEF Moves, Keeps, Beats, Drops, Snaps
  <2> DEFINE Q == Pipe(d)'
             A == DeliversOf(id)
             B == ShowsOf(id)
  <2>5. PICK m \in DisplayMessage :
          Pipe(d) = <<m>> \o Q /\ screen'[d] = Show(screen[d], m)
    BY <2>4 DEF Reads
  <2>6. Delivers(m, id)
    <3>1. screen[d] \in [OrderIds -> MaybeOrder]
      BY DEF TypeOK
    <3>2. Shows(m, id) => m.order # NoOrder
      BY NoOrderAssumption DEF Shows, DisplayMessage, DispHeartbeat
    <3>3. QED
      BY <2>5, <3>1, <3>2, ShowOrder
  <2>7. Q \in Seq(DisplayMessage)
    BY PipeTypeNext
  <2>8. NoneAfter(Pipe(d), A, B)
    BY <2>1 DEF DeliveriesLast
  <2> HIDE DEF Q
  <2>9. ~ Has(Q, B)
    <3> DEFINE h == <<m>>
    <3>1. h \in Seq(DisplayMessage)
      OBVIOUS
    <3>2. Has(h, A)
      BY <2>6, ShortSequences DEF DeliversOf
    <3> HIDE DEF h, A, B
    <3>3. NoneAfter(h \o Q, A, B)
      BY <2>5, <2>8 DEF h
    <3>4. QED
      BY <2>7, <3>1, <3>2, <3>3, NoneAfterConcat
  <2>10. \A k \in DOMAIN Q : ~ Shows(Q[k], id)
    BY <2>7, <2>9 DEF Has, ShowsOf
  <2>11. QED
    BY <2>10 DEF Q
<1>2. Init => Allocated
  BY AllocatedInit
<1>3. TypeOK /\ Allocated /\ [Next]_vars => Allocated'
  BY AllocatedStep
<1>4. QED
  BY <1>1, <1>2, <1>3, FeedCorrect, TypeCorrect, PTL DEF Spec, NeverReshown
===============================================================================
