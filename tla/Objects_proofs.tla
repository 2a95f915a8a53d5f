---------------------------- MODULE Objects_proofs ----------------------------
(***************************************************************************)
(* Theorems about Objects, for any updaters and displays, any orders that  *)
(* are submitted and any number of them: what the server changes in place  *)
(* is out of reach of every message, every copy is whole, and the objects  *)
(* implement Server, where orders are values.                              *)
(***************************************************************************)
EXTENDS Objects, Server_proofs, FunctionTheorems

OrderObject == [id : OrderIds \cup {1}, status : OrderStatus, items : Seq(Nat)]
ItemObject  == [id : ItemIds, order_id : OrderIds \cup {1}, status : ItemStatus]

(* The orders of a heap are whole: every item is there, belongs to its     *)
(* order, and is in no other order and at no other place of its own.       *)
Whole(h, orders) ==
  /\ AndItems(h, orders) \subseteq DOMAIN h
  /\ \A a \in orders :
       /\ h[a] \in OrderObject
       /\ \A p \in DOMAIN h[a].items :
            /\ h[h[a].items[p]] \in ItemObject
            /\ h[h[a].items[p]].order_id = h[a].id
            /\ \A b \in orders : \A q \in DOMAIN h[b].items :
                 h[a].items[p] = h[b].items[q] => a = b /\ p = q

MessageObject ==
  {OrderPointer(a) : a \in Nat}
  \cup {DispItemUpdate(id, i, s) : id \in OrderIds, i \in ItemIds, s \in ItemStatus}
  \cup {DispOrderUpdate(id, s) : id \in OrderIds, s \in OrderStatus}

PointersOK ==
  /\ my_orders \in [OrderIds -> Nat \cup {NoOrder}]
  /\ request \in [Updaters -> Nat \cup {NoOrder}]
  /\ served \subseteq {u \in Updaters : request[u] # NoOrder}
  /\ my_clients \subseteq Displays /\ IsFiniteSet(my_clients)
  /\ phase \in [Displays -> {"idle", "login", "joined", "stream", "failed"}]
  /\ queue \in [Displays -> Seq(MessageObject)]
  /\ backlog \in [Displays -> Seq(MessageObject)]

(* A display that has no snapshot yet has none of its messages either. *)
NoEarlyBacklog ==
  \A d \in Displays : phase[d] \in {"idle", "login", "joined"} => backlog[d] = << >>

HeapOK ==
  /\ IsFiniteSet(DOMAIN heap)
  /\ DOMAIN heap = AndItems(heap, OrderObjects)
  /\ Whole(heap, OrderObjects)

(* An order in the map goes by the id it is under. *)
KeptUnderId ==
  \A id \in OrderIds : my_orders[id] # NoOrder => heap[my_orders[id]].id = id

(* An order in a request is as its updater submitted it. *)
Submitted ==
  \A u \in Updaters : request[u] # NoOrder => OrderAt(heap, request[u]) \in NewOrders

(* The inductive invariant.  Apart from types: the orders are whole, and   *)
(* those in the map are nowhere else.                                      *)
ObjectsInv ==
  /\ PointersOK
  /\ NoEarlyBacklog
  /\ HeapOK
  /\ InMap \cap (InRequests \cup InMessages) = {}
  /\ KeptUnderId
  /\ Submitted

-------------------------------------------------------------------------------
(* New objects *)

LEMMA ListIsSeq ==
  ASSUME NEW S, NEW n \in Nat, NEW f \in [1 .. n -> S]
  PROVE  f \in Seq(S)
BY SeqDef

(* A set fits into a set that is not smaller. *)
LEMMA Fits ==
  ASSUME NEW A, NEW B, IsFiniteSet(A), IsFiniteSet(B),
         Cardinality(A) <= Cardinality(B)
  PROVE  \E new \in [A -> B] : IsInjective(new)
<1> DEFINE n == Cardinality(A)
           m == Cardinality(B)
<1>1. n \in Nat /\ m \in Nat
  BY FS_CardinalityType
<1>2. PICK f : f \in Bijection(1 .. m, B)
  BY FS_CardinalityType DEF ExistsBijection
<1>3. PICK g : g \in Bijection(A, 1 .. n)
  BY FS_CardinalityType, Fun_ExistsBijSymmetric DEF ExistsBijection
<1>4. /\ f \in [1 .. m -> B]
      /\ \A i, j \in 1 .. m : f[i] = f[j] => i = j
  BY <1>2, Fun_BijectionProperties
<1>5. /\ g \in [A -> 1 .. n]
      /\ \A a, b \in A : g[a] = g[b] => a = b
  BY <1>3, Fun_BijectionProperties
<1> HIDE DEF n, m
<1>6. n <= m
  BY DEF n, m
<1>7. \A a \in A : g[a] \in 1 .. m
  BY <1>1, <1>5, <1>6
<1>8. [a \in A |-> f[g[a]]] \in [A -> B]
  BY <1>4, <1>7
<1>9. IsInjective([a \in A |-> f[g[a]]])
  BY <1>4, <1>5, <1>7 DEF IsInjective
<1>10. QED
  BY <1>8, <1>9

LEMMA RoomLeft ==
  ASSUME NEW A, NEW B, IsFiniteSet(A), IsFiniteSet(B)
  PROVE  /\ IsFiniteSet(A \ B)
         /\ Cardinality(A) - Cardinality(B) <= Cardinality(A \ B)
<1>1. /\ IsFiniteSet(A \ B)
      /\ Cardinality(A \ B) = Cardinality(A) - Cardinality(A \cap B)
  BY FS_Difference
<1>2. IsFiniteSet(A \cap B) /\ Cardinality(A \cap B) <= Cardinality(B)
  BY FS_Intersection
<1>3. Cardinality(A) \in Nat /\ Cardinality(B) \in Nat /\ Cardinality(A \cap B) \in Nat
  BY <1>2, FS_CardinalityType
<1>4. QED
  BY <1>1, <1>2, <1>3

(* There are always as many free addresses as new objects. *)
LEMMA FreshAddresses ==
  ASSUME NEW h, IsFiniteSet(DOMAIN h), NEW slots, IsFiniteSet(slots)
  PROVE  /\ Fresh(h, slots) \in [slots -> Nat \ DOMAIN h]
         /\ \A s, t \in slots : Fresh(h, slots)[s] = Fresh(h, slots)[t] => s = t
<1> DEFINE n == Cardinality(slots)
           m == Cardinality(DOMAIN h)
           space == 1 .. n + m
<1>1. n \in Nat /\ m \in Nat
  BY FS_CardinalityType
<1>2. IsFiniteSet(space) /\ Cardinality(space) = n + m
  <2>1. 1 \in Int /\ n + m \in Int /\ (1 > n + m => n + m = 0)
    BY <1>1
  <2>2. QED
    BY <1>1, <2>1, FS_Interval
<1>3. \A a \in space : a \in Nat
  BY <1>1
<1>4. n <= Cardinality(space \ DOMAIN h) /\ IsFiniteSet(space \ DOMAIN h)
  <2> HIDE DEF space
  <2>1. /\ IsFiniteSet(space \ DOMAIN h)
        /\ Cardinality(space) - m <= Cardinality(space \ DOMAIN h)
    BY <1>2, RoomLeft
  <2>2. Cardinality(space \ DOMAIN h) \in Nat
    BY <2>1, FS_CardinalityType
  <2> HIDE DEF n, m
  <2>3. n <= Cardinality(space \ DOMAIN h)
    BY <1>1, <1>2, <2>1, <2>2
  <2>4. QED
    BY <2>1, <2>3
<1>5. \E new \in [slots -> space \ DOMAIN h] : IsInjective(new)
  BY <1>4, Fits
<1>6. /\ Fresh(h, slots) \in [slots -> space \ DOMAIN h]
      /\ IsInjective(Fresh(h, slots))
  BY <1>5 DEF Fresh
<1> HIDE DEF space
<1>7. \A a \in space \ DOMAIN h : a \in Nat \ DOMAIN h
  BY <1>3
<1>8. QED
  BY <1>6, <1>7 DEF IsInjective

(* New objects are added, and those that were there are left alone. *)
LEMMA Extension ==
  ASSUME NEW h, NEW slots, NEW new \in [slots -> Nat \ DOMAIN h], NEW object,
         \A s, t \in slots : new[s] = new[t] => s = t,
         IsFiniteSet(DOMAIN h), IsFiniteSet(slots),
         NEW e, e = Extended(h, new, object)
  PROVE  /\ DOMAIN e = DOMAIN h \cup {new[s] : s \in slots}
         /\ \A a \in DOMAIN h : e[a] = h[a]
         /\ \A s \in slots : e[new[s]] = object[s]
         /\ IsFiniteSet(DOMAIN e)
<1>1. DOMAIN e = DOMAIN h \cup {new[s] : s \in slots}
  BY DEF Extended, Range
<1>2. \A a \in DOMAIN h : e[a] = h[a]
  BY DEF Extended
<1>3. ASSUME NEW s \in slots PROVE e[new[s]] = object[s]
  <2>1. (CHOOSE t \in DOMAIN new : new[t] = new[s]) = s
    OBVIOUS
  <2>2. new[s] \notin DOMAIN h /\ new[s] \in Range(new)
    BY DEF Range
  <2>3. QED
    BY <2>1, <2>2 DEF Extended
<1>4. IsFiniteSet(DOMAIN e)
  <2>1. new \in Surjection(slots, {new[s] : s \in slots})
    BY DEF Surjection
  <2>2. IsFiniteSet({new[s] : s \in slots})
    BY <2>1, FS_Surjection
  <2>3. IsFiniteSet(DOMAIN h \cup {new[s] : s \in slots})
    BY <2>2, FS_Union
  <2>4. QED
    BY <1>1, <2>3
<1>5. QED
  BY <1>1, <1>2, <1>3, <1>4
-------------------------------------------------------------------------------
(* What can be reached from an order *)

LEMMA AndItemsMembers ==
  ASSUME NEW h, NEW orders, NEW x
  PROVE  x \in AndItems(h, orders) <=>
           \/ x \in orders
           \/ \E a \in orders : \E p \in DOMAIN h[a].items : x = h[a].items[p]
BY DEF AndItems

(* An order reads the same in two heaps, at whatever addresses, if it has  *)
(* the same status and items that read the same.                           *)
LEMMA ReadsSame ==
  ASSUME NEW h, NEW g, NEW a, NEW b,
         g[b].status = h[a].status,
         DOMAIN g[b].items = DOMAIN h[a].items,
         \A p \in DOMAIN h[a].items :
           /\ g[g[b].items[p]].id = h[h[a].items[p]].id
           /\ g[g[b].items[p]].status = h[h[a].items[p]].status
  PROVE  OrderAt(g, b) = OrderAt(h, a)
BY DEF OrderAt

(* The orders of a heap that is the same as far as they reach. *)
LEMMA WholeStays ==
  ASSUME NEW h, NEW orders, Whole(h, orders), NEW kept \in SUBSET orders, NEW g,
         AndItems(h, kept) \subseteq DOMAIN g,
         \A x \in AndItems(h, kept) : g[x] = h[x]
  PROVE  /\ Whole(g, kept)
         /\ AndItems(g, kept) = AndItems(h, kept)
         /\ \A a \in kept : g[a].id = h[a].id /\ OrderAt(g, a) = OrderAt(h, a)
<1>1. \A a \in kept :
        /\ g[a] = h[a]
        /\ \A p \in DOMAIN h[a].items : g[h[a].items[p]] = h[h[a].items[p]]
  BY AndItemsMembers
<1>2. AndItems(g, kept) = AndItems(h, kept)
  <2>1. \A x : x \in AndItems(g, kept) <=> x \in AndItems(h, kept)
    BY <1>1, AndItemsMembers
  <2>2. QED
    BY <2>1
<1>3. Whole(g, kept)
  BY <1>1, <1>2 DEF Whole
<1>4. \A a \in kept : g[a].id = h[a].id /\ OrderAt(g, a) = OrderAt(h, a)
  BY <1>1, ReadsSame
<1>5. QED
  BY <1>2, <1>3, <1>4

(* No order is an item. *)
LEMMA OrdersAreNoItems == OrderObject \cap ItemObject = {}
<1> SUFFICES ASSUME NEW x, x \in OrderObject, x \in ItemObject PROVE FALSE
  OBVIOUS
<1>1. DOMAIN x = {"id", "status", "items"}
  BY DEF OrderObject
<1>2. DOMAIN x = {"id", "order_id", "status"}
  BY DEF ItemObject
<1>3. QED
  BY <1>1, <1>2

(* From different orders different objects are reached. *)
LEMMA WholeApart ==
  ASSUME NEW h, NEW orders, Whole(h, orders),
         NEW A \in SUBSET orders, NEW B \in SUBSET orders, A \cap B = {}
  PROVE  AndItems(h, A) \cap AndItems(h, B) = {}
<1> SUFFICES ASSUME NEW x, x \in AndItems(h, A), x \in AndItems(h, B) PROVE FALSE
  OBVIOUS
<1>1. CASE x \in A /\ x \in B
  BY <1>1
<1>2. ASSUME NEW a \in orders, NEW p \in DOMAIN h[a].items, h[a].items[p] \in orders
      PROVE  FALSE
  BY <1>2, OrdersAreNoItems DEF Whole
<1>3. ASSUME NEW a \in A, NEW p \in DOMAIN h[a].items,
             NEW b \in B, NEW q \in DOMAIN h[b].items,
             h[a].items[p] = h[b].items[q]
      PROVE  FALSE
  <2>1. a \in orders /\ b \in orders /\ a # b
    OBVIOUS
  <2>2. QED
    BY <1>3, <2>1 DEF Whole
<1>4. QED
  BY <1>1, <1>2, <1>3, AndItemsMembers

(* Orders that are whole and do not meet are whole together. *)
LEMMA WholeTogether ==
  ASSUME NEW h, NEW A, NEW B, Whole(h, A), Whole(h, B),
         AndItems(h, A) \cap AndItems(h, B) = {}
  PROVE  Whole(h, A \cup B)
<1>1. AndItems(h, A \cup B) \subseteq DOMAIN h
  BY AndItemsMembers DEF Whole
<1>2. ASSUME NEW a \in A \cup B
      PROVE  /\ h[a] \in OrderObject
             /\ \A p \in DOMAIN h[a].items :
                  /\ h[h[a].items[p]] \in ItemObject
                  /\ h[h[a].items[p]].order_id = h[a].id
  BY DEF Whole
<1>3. ASSUME NEW a \in A \cup B, NEW p \in DOMAIN h[a].items,
             NEW b \in A \cup B, NEW q \in DOMAIN h[b].items,
             h[a].items[p] = h[b].items[q]
      PROVE  a = b /\ p = q
  <2>1. CASE a \in A /\ b \in A
    BY <1>3, <2>1 DEF Whole
  <2>2. CASE a \in B /\ b \in B
    BY <1>3, <2>2 DEF Whole
  <2>3. CASE a \in A /\ b \in B
    BY <1>3, <2>3, AndItemsMembers, Zenon
  <2>4. CASE a \in B /\ b \in A
    BY <1>3, <2>4, AndItemsMembers
  <2>5. QED
    BY <2>1, <2>2, <2>3, <2>4
<1>4. QED
  BY <1>1, <1>2, <1>3 DEF Whole
-------------------------------------------------------------------------------
(* Copies *)

LEMMA SlotsMembers ==
  ASSUME NEW h, NEW from, NEW s
  PROVE  s \in Slots(h, from) <=>
           \E k \in DOMAIN from : \E p \in 0 .. Len(h[from[k]].items) : s = <<k, p>>
BY DEF Slots

LEMMA SlotsFinite ==
  ASSUME NEW h, NEW orders, Whole(h, orders),
         NEW K, IsFiniteSet(K), NEW from \in [K -> orders]
  PROVE  IsFiniteSet(Slots(h, from))
<1> DEFINE of == [k \in K |-> {k} \X (0 .. Len(h[from[k]].items))]
           all == {of[k] : k \in K}
<1>1. ASSUME NEW k \in K PROVE IsFiniteSet(of[k])
  <2>1. from[k] \in orders
    OBVIOUS
  <2>2. h[from[k]] \in OrderObject
    BY <2>1 DEF Whole
  <2>3. Len(h[from[k]].items) \in Int
    BY <2>2 DEF OrderObject
  <2>4. IsFiniteSet({k}) /\ IsFiniteSet(0 .. Len(h[from[k]].items))
    <3>1. 0 \in Int
      OBVIOUS
    <3>2. IsFiniteSet(0 .. Len(h[from[k]].items))
      BY <2>3, <3>1, FS_Interval
    <3>3. QED
      BY <3>2, FS_Singleton
  <2>5. IsFiniteSet({k} \X (0 .. Len(h[from[k]].items)))
    BY <2>4, FS_Product
  <2>6. QED
    BY <2>5
<1>2. Slots(h, from) = UNION all
  BY DEF Slots
<1> HIDE DEF of
<1>3. of \in Surjection(K, all)
  <2>1. DOMAIN of = K /\ of = [k \in K |-> of[k]]
    BY DEF of
  <2>2. of \in [K -> all]
    BY <2>1
  <2>3. QED
    BY <2>2 DEF Surjection
<1>4. IsFiniteSet(all)
  BY <1>3, FS_Surjection
<1>5. QED
  BY <1>1, <1>2, <1>4, FS_UNION

(* What a duplicate of orders is: each has a copy of its own, at addresses *)
(* that were free, and the copy reads like the original, which is left     *)
(* alone.                                                                  *)
Copied(h, orders, K, from, c) ==
  LET copies == {c.copy[k] : k \in K}
  IN  /\ IsFiniteSet(DOMAIN c.heap)
      /\ \A x \in DOMAIN h : x \in DOMAIN c.heap /\ c.heap[x] = h[x]
      /\ DOMAIN c.heap = DOMAIN h \cup AndItems(c.heap, copies)
      /\ c.copy \in [K -> Nat \ DOMAIN h]
      /\ Whole(c.heap, orders \cup copies)
      /\ \A k \in K : /\ c.heap[c.copy[k]].id = h[from[k]].id
                      /\ OrderAt(c.heap, c.copy[k]) = OrderAt(h, from[k])
      /\ \A a \in orders : /\ c.heap[a].id = h[a].id
                           /\ OrderAt(c.heap, a) = OrderAt(h, a)

(* The order in slot <<k, 0>> is made of the same id and status and of the *)
(* new addresses in the slots of its items, in which the items are put.    *)
LEMMA Copying ==
  ASSUME NEW h, IsFiniteSet(DOMAIN h), NEW orders, Whole(h, orders),
         NEW K, IsFiniteSet(K), NEW from \in [K -> orders]
  PROVE  Copied(h, orders, K, from, duplicate(h, from))
<1> DEFINE slots == Slots(h, from)
           new == Fresh(h, slots)
           object == [s \in DOMAIN new |->
             IF s[2] = 0
             THEN [id |-> h[from[s[1]]].id, status |-> h[from[s[1]]].status,
                   items |-> [p \in DOMAIN h[from[s[1]]].items |-> new[<<s[1], p>>]]]
             ELSE h[h[from[s[1]]].items[s[2]]]]
           e == Extended(h, new, object)
           c == duplicate(h, from)
           copies == {c.copy[k] : k \in K}
           o(k) == h[from[k]]
           size(k) == Len(o(k).items)
           n(k) == e[new[<<k, 0>>]]
<1>1. /\ new \in [slots -> Nat \ DOMAIN h]
      /\ \A s, t \in slots : new[s] = new[t] => s = t
  BY SlotsFinite, FreshAddresses
<1>2. c.heap = e /\ c.copy = [k \in K |-> new[<<k, 0>>]]
  BY DEF duplicate
<1>3. e = Extended(h, new, object) /\ IsFiniteSet(slots)
  BY SlotsFinite
<1>4. ASSUME NEW s \in slots
      PROVE  /\ s[2] = 0 => object[s] = [id |-> o(s[1]).id, status |-> o(s[1]).status,
                            items |-> [p \in DOMAIN o(s[1]).items |-> new[<<s[1], p>>]]]
             /\ s[2] # 0 => object[s] = h[o(s[1]).items[s[2]]]
  BY <1>1
<1>5. \A s : s \in slots <=> \E k \in K : \E p \in 0 .. size(k) : s = <<k, p>>
  BY SlotsMembers
<1> HIDE DEF c, new, slots, e, object
<1>6. /\ DOMAIN e = DOMAIN h \cup {new[s] : s \in slots}
      /\ \A x \in DOMAIN h : e[x] = h[x]
      /\ \A s \in slots : e[new[s]] = object[s]
      /\ IsFiniteSet(DOMAIN e)
  BY <1>1, <1>3, Extension, Z3T(30)
<1>7. \A k \in K :
        /\ from[k] \in orders /\ o(k) \in OrderObject
        /\ size(k) \in Nat /\ DOMAIN o(k).items = 1 .. size(k)
        /\ <<k, 0>> \in slots
        /\ \A p \in 1 .. size(k) : <<k, p>> \in slots /\ p \in Nat /\ p # 0
  <2> SUFFICES ASSUME NEW k \in K
               PROVE  /\ from[k] \in orders /\ o(k) \in OrderObject
                      /\ size(k) \in Nat /\ DOMAIN o(k).items = 1 .. size(k)
                      /\ <<k, 0>> \in slots
                      /\ \A p \in 1 .. size(k) : <<k, p>> \in slots /\ p \in Nat /\ p # 0
    OBVIOUS
  <2>1. from[k] \in orders
    OBVIOUS
  <2>2. o(k) \in OrderObject
    BY <2>1 DEF Whole
  <2>3. size(k) \in Nat /\ DOMAIN o(k).items = 1 .. size(k)
    BY <2>2 DEF OrderObject
  <2> HIDE DEF size
  <2>4. 0 \in 0 .. size(k) /\ \A p \in 1 .. size(k) : p \in 0 .. size(k) /\ p # 0 /\ p \in Nat
    BY <2>3
  <2>5. QED
    BY <1>5, <2>1, <2>2, <2>3, <2>4
<1>8. ASSUME NEW k \in K
      PROVE  /\ n(k) = [id |-> o(k).id, status |-> o(k).status,
                        items |-> [p \in 1 .. size(k) |-> new[<<k, p>>]]]
             /\ \A p \in 1 .. size(k) : e[new[<<k, p>>]] = h[o(k).items[p]]
  <2> HIDE DEF o, size
  <2>1. n(k) = object[<<k, 0>>]
    BY <1>6, <1>7
  <2>2. object[<<k, 0>>] = [id |-> o(k).id, status |-> o(k).status,
                            items |-> [p \in DOMAIN o(k).items |-> new[<<k, p>>]]]
    BY <1>4, <1>7
  <2>3. \A p \in 1 .. size(k) : e[new[<<k, p>>]] = object[<<k, p>>]
    BY <1>6, <1>7
  <2>4. ASSUME NEW p \in 1 .. size(k)
        PROVE  object[<<k, p>>] = h[o(k).items[p]]
    BY <1>4, <1>7
  <2>5. QED
    BY <1>7, <2>1, <2>2, <2>3, <2>4
<1>9. \A k \in K :
        /\ n(k).id = o(k).id /\ n(k).status = o(k).status
        /\ DOMAIN n(k).items = 1 .. size(k)
        /\ \A p \in 1 .. size(k) : n(k).items[p] = new[<<k, p>>]
        /\ n(k) \in OrderObject
  <2> SUFFICES ASSUME NEW k \in K
               PROVE  /\ n(k).id = o(k).id /\ n(k).status = o(k).status
                      /\ DOMAIN n(k).items = 1 .. size(k)
                      /\ \A p \in 1 .. size(k) : n(k).items[p] = new[<<k, p>>]
                      /\ n(k) \in OrderObject
    OBVIOUS
  <2>1. o(k).id \in OrderIds \cup {1} /\ o(k).status \in OrderStatus
    BY <1>7 DEF OrderObject
  <2> HIDE DEF o, size, n
  <2> DEFINE items == [p \in 1 .. size(k) |-> new[<<k, p>>]]
  <2>2. items \in [1 .. size(k) -> Nat]
    BY <1>1, <1>7
  <2>3. /\ DOMAIN items = 1 .. size(k)
        /\ \A p \in 1 .. size(k) : items[p] = new[<<k, p>>]
    OBVIOUS
  <2>4. n(k) = [id |-> o(k).id, status |-> o(k).status, items |-> items]
    BY <1>8
  <2> HIDE DEF items
  <2>5. items \in Seq(Nat)
    BY <1>7, <2>2, ListIsSeq
  <2>6. QED
    BY <2>1, <2>3, <2>4, <2>5 DEF OrderObject
<1>10. \A k \in K : c.copy[k] = new[<<k, 0>>] /\ e[c.copy[k]] = n(k)
  BY <1>2
<1>11. c.copy \in [K -> Nat \ DOMAIN h]
  BY <1>1, <1>2, <1>7
<1>20. \A k \in K : \A p \in 1 .. size(k) : e[n(k).items[p]] = h[o(k).items[p]]
  <2> HIDE DEF n, o, size
  <2>1. QED
    BY <1>8, <1>9
<1> HIDE DEF n, o, size
<1>12. ASSUME NEW x
       PROVE  x \in AndItems(e, copies) <=> \E s \in slots : x = new[s]
  <2>1. ASSUME NEW s \in slots PROVE new[s] \in AndItems(e, copies)
    <3>1. PICK k \in K : \E p \in 0 .. size(k) : s = <<k, p>>
      BY <1>5
    <3>2. PICK p \in 0 .. size(k) : s = <<k, p>>
      BY <3>1
    <3>3. c.copy[k] \in copies
      OBVIOUS
    <3>4. CASE p = 0
      BY <1>10, <3>2, <3>3, <3>4, AndItemsMembers
    <3>5. CASE p # 0
      <4>1. p \in 1 .. size(k)
        BY <1>7, <3>5
      <4>2. n(k).items[p] = new[s] /\ p \in DOMAIN n(k).items
        BY <1>9, <3>2, <4>1
      <4>3. QED
        BY <1>10, <3>3, <4>2, AndItemsMembers
    <3>6. QED
      BY <3>4, <3>5
  <2>2. ASSUME NEW k \in K, NEW p \in DOMAIN n(k).items
        PROVE  \E s \in slots : n(k).items[p] = new[s]
    <3>1. p \in 1 .. size(k)
      BY <1>9
    <3>2. <<k, p>> \in slots /\ n(k).items[p] = new[<<k, p>>]
      BY <1>7, <1>9, <3>1
    <3>3. QED
      BY <3>2
  <2>3. ASSUME NEW k \in K PROVE \E s \in slots : c.copy[k] = new[s]
    BY <1>7, <1>10
  <2>4. ASSUME x \in AndItems(e, copies) PROVE \E s \in slots : x = new[s]
    <3>1. CASE x \in copies
      BY <2>3, <3>1
    <3>2. ASSUME NEW a \in copies, NEW p \in DOMAIN e[a].items, x = e[a].items[p]
          PROVE  \E s \in slots : x = new[s]
      <4>1. PICK k \in K : a = c.copy[k]
        OBVIOUS
      <4>2. e[a] = n(k)
        BY <1>10, <4>1
      <4>3. QED
        BY <2>2, <3>2, <4>2
    <3>3. QED
      BY <2>4, <3>1, <3>2, AndItemsMembers
  <2>5. QED
    BY <2>1, <2>4
<1>13. DOMAIN e = DOMAIN h \cup AndItems(e, copies)
  BY <1>6, <1>12
<1>14. Whole(e, copies)
  <2>1. AndItems(e, copies) \subseteq DOMAIN e
    BY <1>13
  <2>2. ASSUME NEW k \in K
        PROVE  /\ n(k) \in OrderObject
               /\ \A p \in DOMAIN n(k).items :
                    /\ e[n(k).items[p]] \in ItemObject
                    /\ e[n(k).items[p]].order_id = n(k).id
    <3>1. ASSUME NEW p \in 1 .. size(k)
          PROVE  /\ h[o(k).items[p]] \in ItemObject
                 /\ h[o(k).items[p]].order_id = o(k).id
      BY <1>7 DEF Whole, o
    <3>2. \A p \in 1 .. size(k) : e[n(k).items[p]] = h[o(k).items[p]]
      BY <1>20
    <3>3. QED
      BY <1>9, <3>1, <3>2
  <2>3. ASSUME NEW k \in K, NEW l \in K,
               NEW p \in DOMAIN n(k).items, NEW q \in DOMAIN n(l).items,
               n(k).items[p] = n(l).items[q]
        PROVE  k = l /\ p = q
    <3>1. p \in 1 .. size(k) /\ q \in 1 .. size(l)
      BY <1>9
    <3>2. new[<<k, p>>] = new[<<l, q>>]
      BY <1>9, <2>3, <3>1
    <3>3. <<k, p>> \in slots /\ <<l, q>> \in slots
      BY <1>7, <3>1
    <3>4. <<k, p>> = <<l, q>>
      BY <1>1, <3>2, <3>3
    <3>5. QED
      BY <3>4
  <2>4. \A a \in copies : \E k \in K : a = c.copy[k] /\ e[a] = n(k)
    BY <1>10
  <2>5. \A a \in copies :
          /\ e[a] \in OrderObject
          /\ \A p \in DOMAIN e[a].items :
               /\ e[e[a].items[p]] \in ItemObject
               /\ e[e[a].items[p]].order_id = e[a].id
    BY <2>2, <2>4
  <2>6. ASSUME NEW a \in copies, NEW b \in copies,
               NEW p \in DOMAIN e[a].items, NEW q \in DOMAIN e[b].items,
               e[a].items[p] = e[b].items[q]
        PROVE  a = b /\ p = q
    <3>1. PICK k \in K : a = c.copy[k] /\ e[a] = n(k)
      BY <2>4
    <3>2. PICK l \in K : b = c.copy[l] /\ e[b] = n(l)
      BY <2>4
    <3>3. k = l /\ p = q
      BY <2>3, <2>6, <3>1, <3>2
    <3>4. QED
      BY <3>1, <3>2, <3>3
  <2>7. QED
    BY <2>1, <2>5, <2>6 DEF Whole
<1>15. /\ Whole(e, orders) /\ AndItems(e, orders) \subseteq DOMAIN h
       /\ \A a \in orders : e[a].id = h[a].id /\ OrderAt(e, a) = OrderAt(h, a)
  <2>1. AndItems(h, orders) \subseteq DOMAIN h
    BY DEF Whole
  <2>2. AndItems(h, orders) \subseteq DOMAIN e
    BY <1>6, <2>1
  <2>3. \A x \in AndItems(h, orders) : e[x] = h[x]
    BY <1>6, <2>1
  <2>4. orders \in SUBSET orders
    OBVIOUS
  <2>5. QED
    BY <2>1, <2>2, <2>3, <2>4, WholeStays
<1>16. Whole(e, orders \cup copies)
  <2>1. AndItems(e, orders) \cap AndItems(e, copies) = {}
    BY <1>1, <1>12, <1>15
  <2>2. QED
    BY <1>14, <1>15, <2>1, WholeTogether
<1>17. ASSUME NEW k \in K
       PROVE  /\ e[c.copy[k]].id = h[from[k]].id
              /\ OrderAt(e, c.copy[k]) = OrderAt(h, from[k])
  <2>1. /\ n(k).id = o(k).id /\ n(k).status = o(k).status
        /\ DOMAIN n(k).items = DOMAIN o(k).items
        /\ \A p \in DOMAIN o(k).items : e[n(k).items[p]] = h[o(k).items[p]]
    BY <1>7, <1>9, <1>20
  <2>2. e[c.copy[k]] = n(k)
    BY <1>10
  <2>3. h[from[k]] = o(k)
    BY DEF o
  <2>4. OrderAt(e, c.copy[k]) = OrderAt(h, from[k])
    BY <2>1, <2>2, <2>3, ReadsSame
  <2>5. QED
    BY <2>1, <2>2, <2>3, <2>4
<1>18. \A x \in DOMAIN h : x \in DOMAIN e /\ e[x] = h[x]
  BY <1>6
<1>19. QED
  BY <1>2, <1>6, <1>11, <1>13, <1>15, <1>16, <1>17, <1>18 DEF Copied, c

-------------------------------------------------------------------------------
(* Changes in place *)

(* Orders whose items stay the same objects. *)
LEMMA WholeInPlace ==
  ASSUME NEW h, NEW orders, Whole(h, orders), NEW g, DOMAIN g = DOMAIN h,
         \A a \in orders :
           /\ g[a] \in OrderObject
           /\ g[a].items = h[a].items
           /\ \A p \in DOMAIN h[a].items :
                /\ g[h[a].items[p]] \in ItemObject
                /\ g[h[a].items[p]].order_id = g[a].id
  PROVE  /\ Whole(g, orders)
         /\ \A S \in SUBSET orders : AndItems(g, S) = AndItems(h, S)
<1>1. ASSUME NEW S \in SUBSET orders PROVE AndItems(g, S) = AndItems(h, S)
  <2>1. \A x : x \in AndItems(g, S) <=> x \in AndItems(h, S)
    BY AndItemsMembers
  <2>2. QED
    BY <2>1
<1>2. AndItems(g, orders) \subseteq DOMAIN g
  BY <1>1 DEF Whole
<1>3. Whole(g, orders)
  BY <1>2 DEF Whole
<1>4. QED
  BY <1>1, <1>3

(* What a whole order reads as. *)
LEMMA OrderAtType ==
  ASSUME NEW h, NEW orders, Whole(h, orders), NEW a \in orders
  PROVE  /\ OrderAt(h, a) \in Order
         /\ OrderAt(h, a).status = h[a].status
         /\ DOMAIN OrderAt(h, a).items = DOMAIN h[a].items
         /\ \A p \in DOMAIN h[a].items :
              OrderAt(h, a).items[p] =
                [id |-> h[h[a].items[p]].id, status |-> h[h[a].items[p]].status]
<1> DEFINE items == [p \in DOMAIN h[a].items |->
             [id |-> h[h[a].items[p]].id, status |-> h[h[a].items[p]].status]]
<1>1. h[a] \in OrderObject
  BY DEF Whole
<1>2. /\ Len(h[a].items) \in Nat /\ DOMAIN h[a].items = 1 .. Len(h[a].items)
      /\ h[a].status \in OrderStatus
  BY <1>1 DEF OrderObject
<1>3. ASSUME NEW p \in DOMAIN h[a].items
      PROVE  /\ h[h[a].items[p]].id \in ItemIds
             /\ h[h[a].items[p]].status \in ItemStatus
  <2>1. h[h[a].items[p]] \in ItemObject
    BY DEF Whole
  <2>2. QED
    BY <2>1 DEF ItemObject
<1>4. items \in [1 .. Len(h[a].items) -> Item]
  BY <1>2, <1>3 DEF Item
<1>5. OrderAt(h, a) = [status |-> h[a].status, items |-> items]
  BY DEF OrderAt
<1>6. /\ DOMAIN items = DOMAIN h[a].items
      /\ \A p \in DOMAIN h[a].items :
           items[p] = [id |-> h[h[a].items[p]].id, status |-> h[h[a].items[p]].status]
  OBVIOUS
<1> HIDE DEF items
<1>7. items \in Seq(Item)
  BY <1>2, <1>4, ListIsSeq
<1>8. QED
  BY <1>2, <1>5, <1>6, <1>7 DEF Order

(* set_id: an order and its items get an id, which no order reads as. *)
LEMMA Numbering ==
  ASSUME NEW h, NEW orders, Whole(h, orders), NEW a \in orders,
         NEW id \in OrderIds, NEW g, g = Numbered(h, a, id)
  PROVE  /\ DOMAIN g = DOMAIN h
         /\ Whole(g, orders)
         /\ \A S \in SUBSET orders : AndItems(g, S) = AndItems(h, S)
         /\ \A b \in orders : /\ g[b].id = IF b = a THEN id ELSE h[b].id
                              /\ OrderAt(g, b) = OrderAt(h, b)
<1>1. DOMAIN g = DOMAIN h
  BY DEF Numbered
<1>2. \A b \in orders : b \in DOMAIN h /\ h[b] \in OrderObject /\ h[b] \notin ItemObject
  BY OrdersAreNoItems, AndItemsMembers DEF Whole
<1>3. ASSUME NEW b \in orders, NEW p \in DOMAIN h[b].items
      PROVE  /\ h[b].items[p] \in DOMAIN h
             /\ h[b].items[p] \notin orders
             /\ h[h[b].items[p]] \in ItemObject
             /\ h[h[b].items[p]].order_id = h[b].id
             /\ h[b].items[p] \in AndItems(h, {a}) <=> a = b
  <2>1. h[h[b].items[p]] \in ItemObject
    BY DEF Whole
  <2>2. h[b].items[p] \notin orders
    BY <1>2, <2>1
  <2>3. h[b].items[p] \in DOMAIN h
    BY AndItemsMembers DEF Whole
  <2>4. ASSUME h[b].items[p] \in AndItems(h, {a}) PROVE a = b
    <3>1. PICK q \in DOMAIN h[a].items : h[b].items[p] = h[a].items[q]
      BY <2>2, <2>4, AndItemsMembers
    <3>2. QED
      BY <3>1 DEF Whole
  <2>5. a = b => h[b].items[p] \in AndItems(h, {a})
    BY AndItemsMembers
  <2>6. QED
    BY <2>1, <2>2, <2>3, <2>4, <2>5 DEF Whole
<1>4. ASSUME NEW b \in orders
      PROVE  /\ g[b] \in OrderObject
             /\ g[b].items = h[b].items /\ g[b].status = h[b].status
             /\ g[b].id = IF b = a THEN id ELSE h[b].id
  <2>1. CASE b = a
    <3>1. g[b] = [h[b] EXCEPT !.id = id]
      BY <1>2, <2>1 DEF Numbered
    <3>2. QED
      BY <1>2, <2>1, <3>1 DEF OrderObject
  <2>2. CASE b # a
    <3>1. b \notin AndItems(h, {a})
      <4>1. \A p \in DOMAIN h[a].items : h[a].items[p] # b
        BY <1>3
      <4>2. QED
        BY <2>2, <4>1, AndItemsMembers
    <3>2. g[b] = h[b]
      BY <1>2, <2>2, <3>1 DEF Numbered
    <3>3. QED
      BY <1>2, <2>2, <3>2
  <2>3. QED
    BY <2>1, <2>2
<1>5. ASSUME NEW b \in orders, NEW p \in DOMAIN h[b].items
      PROVE  LET x == h[b].items[p]
             IN  /\ g[x] \in ItemObject
                 /\ g[x].order_id = g[b].id
                 /\ g[x].id = h[x].id /\ g[x].status = h[x].status
  <2> DEFINE x == h[b].items[p]
  <2>1. x \in DOMAIN h /\ x # a /\ h[x] \in ItemObject /\ h[x].order_id = h[b].id
    BY <1>3
  <2>2. CASE b = a
    <3>1. x \in AndItems(h, {a})
      BY <1>3, <2>2
    <3> HIDE DEF x
    <3>2. g[x] = [h[x] EXCEPT !.order_id = id]
      BY <2>1, <3>1 DEF Numbered
    <3>3. QED
      BY <1>4, <2>1, <2>2, <3>2 DEF ItemObject, x
  <2>3. CASE b # a
    <3>1. x \notin AndItems(h, {a})
      BY <1>3, <2>3
    <3> HIDE DEF x
    <3>2. g[x] = h[x]
      BY <2>1, <3>1 DEF Numbered
    <3>3. QED
      BY <1>4, <2>1, <2>3, <3>2 DEF x
  <2>4. QED
    BY <2>2, <2>3
<1>6. /\ Whole(g, orders)
      /\ \A S \in SUBSET orders : AndItems(g, S) = AndItems(h, S)
  BY <1>1, <1>4, <1>5, WholeInPlace
<1>7. ASSUME NEW b \in orders PROVE OrderAt(g, b) = OrderAt(h, b)
  BY <1>4, <1>5, ReadsSame
<1>8. QED
  BY <1>1, <1>4, <1>6, <1>7

(* The heap g is h but for the order at a, which reads as new: the same    *)
(* objects, and every other order as it was.                               *)
ChangedInPlace(h, orders, a, new, g) ==
  /\ DOMAIN g = DOMAIN h
  /\ Whole(g, orders)
  /\ AndItems(g, orders) = AndItems(h, orders)
  /\ \A b \in orders : /\ g[b].id = h[b].id
                       /\ b # a => OrderAt(g, b) = OrderAt(h, b)
  /\ OrderAt(g, a) = new

(* set_status of an item. *)
LEMMA ItemChange ==
  ASSUME NEW h, NEW orders, Whole(h, orders), NEW a \in orders,
         NEW p \in DOMAIN h[a].items, NEW s \in ItemStatus,
         NEW x, x = h[a].items[p], NEW g, DOMAIN g = DOMAIN h,
         \A y \in DOMAIN h : y # x => g[y] = h[y],
         g[x] = [h[x] EXCEPT !.status = s]
  PROVE  ChangedInPlace(h, orders, a, [OrderAt(h, a) EXCEPT !.items[p].status = s], g)
<1>1. x \in DOMAIN h /\ h[x] \in ItemObject
  BY AndItemsMembers DEF Whole
<1>2. x \notin orders
  BY <1>1, OrdersAreNoItems DEF Whole
<1>3. /\ g[x] \in ItemObject /\ g[x].id = h[x].id /\ g[x].status = s
      /\ g[x].order_id = h[x].order_id
  BY <1>1 DEF ItemObject
<1>4. \A b \in orders : b \in DOMAIN h /\ h[b] \in OrderObject
  BY AndItemsMembers DEF Whole
<1>5. \A b \in orders : g[b] = h[b]
  BY <1>2, <1>4
<1>6. \A b \in orders : \A q \in DOMAIN h[b].items :
        /\ h[b].items[q] \in DOMAIN h
        /\ h[h[b].items[q]] \in ItemObject
        /\ h[h[b].items[q]].order_id = h[b].id
        /\ h[b].items[q] = x => b = a /\ q = p
  BY AndItemsMembers DEF Whole
<1>7. \A b \in orders : \A q \in DOMAIN h[b].items :
        /\ g[h[b].items[q]] \in ItemObject
        /\ g[h[b].items[q]].order_id = g[b].id
  <2> SUFFICES ASSUME NEW b \in orders, NEW q \in DOMAIN h[b].items
               PROVE  /\ g[h[b].items[q]] \in ItemObject
                      /\ g[h[b].items[q]].order_id = h[b].id
    BY <1>5
  <2>1. CASE h[b].items[q] = x
    BY <1>3, <1>6, <2>1, ZenonT(30)
  <2>2. CASE h[b].items[q] # x
    <3>1. g[h[b].items[q]] = h[h[b].items[q]]
      BY <1>6, <2>2
    <3>2. QED
      BY <1>6, <3>1
  <2>3. QED
    BY <2>1, <2>2
<1>8. /\ Whole(g, orders)
       /\ \A S \in SUBSET orders : AndItems(g, S) = AndItems(h, S)
  BY <1>4, <1>5, <1>7, WholeInPlace
<1>9. ASSUME NEW b \in orders, b # a PROVE OrderAt(g, b) = OrderAt(h, b)
  <2>1. \A q \in DOMAIN h[b].items : g[h[b].items[q]] = h[h[b].items[q]]
    BY <1>6, <1>9
  <2>2. QED
    BY <1>5, <2>1, ReadsSame
<1>10. OrderAt(g, a) = [OrderAt(h, a) EXCEPT !.items[p].status = s]
  <2> DEFINE o == OrderAt(h, a)
             i == OrderAt(g, a).items
             j == [o.items EXCEPT ![p] = [o.items[p] EXCEPT !.status = s]]
  <2>1. /\ o \in Order /\ o.status = h[a].status
        /\ DOMAIN o.items = DOMAIN h[a].items
        /\ \A q \in DOMAIN h[a].items :
             o.items[q] = [id |-> h[h[a].items[q]].id, status |-> h[h[a].items[q]].status]
    BY OrderAtType
  <2>2. a \in orders /\ Whole(g, orders)
    BY <1>8
  <2>3. /\ OrderAt(g, a).status = g[a].status /\ OrderAt(g, a) \in Order
        /\ DOMAIN i = DOMAIN g[a].items
        /\ \A q \in DOMAIN g[a].items :
             i[q] = [id |-> g[g[a].items[q]].id, status |-> g[g[a].items[q]].status]
    BY <2>2, OrderAtType
  <2> HIDE DEF o, i
  <2>4. /\ o.items \in Seq(Item) /\ i \in Seq(Item)
        /\ DOMAIN i = DOMAIN h[a].items
    BY <1>5, <2>1, <2>3 DEF Order, i
  <2>5. /\ DOMAIN j = DOMAIN h[a].items
        /\ j[p] = [o.items[p] EXCEPT !.status = s]
        /\ \A q \in DOMAIN h[a].items : q # p => j[q] = o.items[q]
    BY <2>1
  <2> HIDE DEF j
  <2>6. i[p] = j[p]
    <3>1. o.items[p] = [id |-> h[x].id, status |-> h[x].status]
      BY <2>1
    <3>2. i[p] = [id |-> g[x].id, status |-> g[x].status]
      BY <1>5, <2>3
    <3>3. QED
      BY <1>3, <2>5, <3>1, <3>2
  <2>7. ASSUME NEW q \in DOMAIN h[a].items, q # p PROVE i[q] = j[q]
    <3>1. g[h[a].items[q]] = h[h[a].items[q]]
      BY <1>6, <2>7
    <3>2. i[q] = [id |-> g[h[a].items[q]].id, status |-> g[h[a].items[q]].status]
      BY <1>5, <2>3
    <3>3. QED
      BY <2>1, <2>7, <2>5, <3>1, <3>2
  <2>8. i = j
    <3>1. j = [q \in DOMAIN j |-> j[q]]
      BY DEF j
    <3>2. i = [q \in DOMAIN i |-> i[q]]
      BY <2>4
    <3>3. \A q \in DOMAIN h[a].items : i[q] = j[q]
      BY <2>6, <2>7
    <3>4. QED
      BY <2>4, <2>5, <3>1, <3>2, <3>3
  <2>9. [o EXCEPT !.items[p].status = s] = [o EXCEPT !.items = j]
    BY <2>1 DEF Order, j
  <2>10. OrderAt(g, a) = [o EXCEPT !.items = j]
    BY <1>5, <2>1, <2>3, <2>8 DEF Order, i
  <2>11. QED
    BY <2>9, <2>10 DEF o
<1>11. QED
  BY <1>1, <1>5, <1>8, <1>9, <1>10 DEF ChangedInPlace

(* set_status of an order. *)
LEMMA OrderChange ==
  ASSUME NEW h, NEW orders, Whole(h, orders), NEW a \in orders,
         NEW s \in OrderStatus, NEW g, DOMAIN g = DOMAIN h,
         \A y \in DOMAIN h : y # a => g[y] = h[y],
         g[a] = [h[a] EXCEPT !.status = s]
  PROVE  ChangedInPlace(h, orders, a, [OrderAt(h, a) EXCEPT !.status = s], g)
<1>1. \A b \in orders : b \in DOMAIN h /\ h[b] \in OrderObject
  BY AndItemsMembers DEF Whole
<1>2. /\ g[a] \in OrderObject /\ g[a].id = h[a].id
      /\ g[a].items = h[a].items /\ g[a].status = s
  BY <1>1, <1>2 DEF OrderObject
<1>3. \A b \in orders : \A p \in DOMAIN h[b].items :
        /\ g[h[b].items[p]] = h[h[b].items[p]]
        /\ g[h[b].items[p]] \in ItemObject
        /\ g[h[b].items[p]].order_id = h[b].id
  BY <1>1, AndItemsMembers, OrdersAreNoItems DEF Whole
<1>4. \A b \in orders : /\ g[b] \in OrderObject /\ g[b].id = h[b].id
                        /\ g[b].items = h[b].items
  BY <1>1, <1>2
<1>5. /\ Whole(g, orders)
      /\ \A S \in SUBSET orders : AndItems(g, S) = AndItems(h, S)
  BY <1>3, <1>4, WholeInPlace
<1>6. ASSUME NEW b \in orders, b # a PROVE OrderAt(g, b) = OrderAt(h, b)
  BY <1>1, <1>3, <1>6, ReadsSame
<1>7. OrderAt(g, a) = [OrderAt(h, a) EXCEPT !.status = s]
  <2>1. OrderAt(g, a).items = OrderAt(h, a).items
    BY <1>2, <1>3 DEF OrderAt
  <2>2. OrderAt(g, a).status = s
    BY <1>2 DEF OrderAt
  <2>3. OrderAt(g, a) \in Order /\ OrderAt(h, a) \in Order
    BY <1>5, OrderAtType
  <2>4. QED
    BY <2>1, <2>2, <2>3 DEF Order
<1>8. QED
  BY <1>4, <1>5, <1>6, <1>7 DEF ChangedInPlace

(* The same, as the steps write it. *)
StatusSet(h, x, s) == [h EXCEPT ![x].status = s]

LEMMA SetItem ==
  ASSUME NEW h, NEW orders, Whole(h, orders), NEW a \in orders,
         NEW p \in DOMAIN h[a].items, NEW s \in ItemStatus
  PROVE  ChangedInPlace(h, orders, a, [OrderAt(h, a) EXCEPT !.items[p].status = s],
                        StatusSet(h, h[a].items[p], s))
<1> DEFINE x == h[a].items[p]
           g == StatusSet(h, x, s)
<1>1. x \in DOMAIN h /\ x = h[a].items[p]
  BY AndItemsMembers DEF Whole
<1> HIDE DEF x
<1>2. /\ DOMAIN g = DOMAIN h
      /\ \A y \in DOMAIN h : y # x => g[y] = h[y]
      /\ g[x] = [h[x] EXCEPT !.status = s]
  BY <1>1 DEF StatusSet
<1> HIDE DEF g
<1>3. ChangedInPlace(h, orders, a, [OrderAt(h, a) EXCEPT !.items[p].status = s], g)
  BY <1>1, <1>2, ItemChange
<1>4. QED
  BY <1>3 DEF x, g

LEMMA SetOrder ==
  ASSUME NEW h, NEW orders, Whole(h, orders), NEW a \in orders, NEW s \in OrderStatus
  PROVE  ChangedInPlace(h, orders, a, [OrderAt(h, a) EXCEPT !.status = s],
                        StatusSet(h, a, s))
<1> DEFINE g == StatusSet(h, a, s)
<1>1. a \in DOMAIN h
  BY AndItemsMembers DEF Whole
<1>2. /\ DOMAIN g = DOMAIN h
      /\ \A y \in DOMAIN h : y # a => g[y] = h[y]
      /\ g[a] = [h[a] EXCEPT !.status = s]
  BY <1>1 DEF StatusSet
<1> HIDE DEF g
<1>3. ChangedInPlace(h, orders, a, [OrderAt(h, a) EXCEPT !.status = s], g)
  BY <1>2, OrderChange
<1>4. QED
  BY <1>3 DEF g

(* What update_item does to an order. *)
LEMMA SetItemAndOrder ==
  ASSUME NEW h, NEW orders, Whole(h, orders), NEW a \in orders,
         NEW i, NEW s \in ItemStatus, HasItem(OrderAt(h, a), i), NEW st \in OrderStatus
  PROVE  LET n == set_item_status(OrderAt(h, a), i, s)
             c == StatusSet(h, h[a].items[find_item(OrderAt(h, a), i)], s)
         IN  /\ OrderAt(c, a) = n
             /\ ChangedInPlace(h, orders, a, [n EXCEPT !.status = st],
                               StatusSet(c, a, st))
<1> DEFINE o == OrderAt(h, a)
           p == find_item(o, i)
           n == set_item_status(o, i, s)
           c == StatusSet(h, h[a].items[p], s)
           g == StatusSet(c, a, st)
<1>1. p \in DOMAIN o.items /\ DOMAIN o.items = DOMAIN h[a].items
  BY FindItemNames, OrderAtType DEF Names
<1>2. n = [o EXCEPT !.items[p].status = s]
  BY DEF set_item_status
<1> HIDE DEF p, n
<1>3. ChangedInPlace(h, orders, a, n, c)
  BY <1>1, <1>2, SetItem
<1> HIDE DEF c, o
<1>4. /\ DOMAIN c = DOMAIN h /\ Whole(c, orders)
      /\ AndItems(c, orders) = AndItems(h, orders)
      /\ \A b \in orders : /\ c[b].id = h[b].id
                           /\ b # a => OrderAt(c, b) = OrderAt(h, b)
      /\ OrderAt(c, a) = n
  BY <1>3 DEF ChangedInPlace
<1>5. ChangedInPlace(c, orders, a, [OrderAt(c, a) EXCEPT !.status = st], g)
  BY <1>4, SetOrder
<1> HIDE DEF g
<1>6. ChangedInPlace(h, orders, a, [n EXCEPT !.status = st], g)
  BY <1>4, <1>5 DEF ChangedInPlace
<1>7. QED
  BY <1>4, <1>6 DEF o, p, n, c, g

-------------------------------------------------------------------------------
(* Messages that point to orders *)

LEMMA UpdatesHaveNoOrder ==
  /\ \A id, i, s : DispItemUpdate(id, i, s).type # "DISP_ORDER"
  /\ \A id, s : DispOrderUpdate(id, s).type # "DISP_ORDER"
  /\ \A a : OrderPointer(a).type = "DISP_ORDER" /\ OrderPointer(a).order = a
BY DEF DispItemUpdate, DispOrderUpdate, OrderPointer

(* The messages of a sequence are encoded one by one. *)
LEMMA EncodedSeq ==
  ASSUME NEW h, NEW msgs \in Seq(MessageObject)
  PROVE  /\ EncodedAll(h, msgs) \in Seq({Encoded(h, m) : m \in MessageObject})
         /\ Len(EncodedAll(h, msgs)) = Len(msgs)
         /\ \A k \in 1 .. Len(msgs) : EncodedAll(h, msgs)[k] = Encoded(h, msgs[k])
<1> DEFINE all == EncodedAll(h, msgs)
           encodings == {Encoded(h, m) : m \in MessageObject}
<1>1. Len(msgs) \in Nat /\ DOMAIN msgs = 1 .. Len(msgs)
  OBVIOUS
<1>2. \A k \in 1 .. Len(msgs) : msgs[k] \in MessageObject
  OBVIOUS
<1>3. all = [k \in 1 .. Len(msgs) |-> Encoded(h, msgs[k])]
  BY <1>1 DEF EncodedAll
<1>4. all \in [1 .. Len(msgs) -> encodings]
  BY <1>2, <1>3
<1> HIDE DEF all, encodings
<1>5. all \in Seq(encodings)
  BY <1>1, <1>4, ListIsSeq
<1>6. DOMAIN all = 1 .. Len(msgs)
  BY <1>4
<1>7. Len(all) = Len(msgs)
  BY <1>1, <1>5, <1>6
<1>8. QED
  BY <1>3, <1>5, <1>7 DEF all, encodings

LEMMA EncodedConcat ==
  ASSUME NEW h, NEW msgs \in Seq(MessageObject), NEW more \in Seq(MessageObject)
  PROVE  EncodedAll(h, msgs \o more) = EncodedAll(h, msgs) \o EncodedAll(h, more)
<1> DEFINE S == {Encoded(h, m) : m \in MessageObject}
           both == msgs \o more
           a == EncodedAll(h, msgs)
           b == EncodedAll(h, more)
           c == EncodedAll(h, both)
<1>1. /\ both \in Seq(MessageObject)
      /\ Len(both) = Len(msgs) + Len(more)
      /\ \A k \in 1 .. Len(msgs) + Len(more) :
           both[k] = IF k <= Len(msgs) THEN msgs[k] ELSE more[k - Len(msgs)]
  BY ConcatProperties
<1>2. /\ a \in Seq(S) /\ Len(a) = Len(msgs)
      /\ \A k \in 1 .. Len(msgs) : a[k] = Encoded(h, msgs[k])
  BY EncodedSeq
<1>3. /\ b \in Seq(S) /\ Len(b) = Len(more)
      /\ \A k \in 1 .. Len(more) : b[k] = Encoded(h, more[k])
  BY EncodedSeq
<1> HIDE DEF both
<1>4. /\ c \in Seq(S) /\ Len(c) = Len(both)
      /\ \A k \in 1 .. Len(both) : c[k] = Encoded(h, both[k])
  BY <1>1, EncodedSeq
<1> HIDE DEF S, a, b, c
<1>5. /\ a \o b \in Seq(S)
      /\ Len(a \o b) = Len(a) + Len(b)
      /\ \A k \in 1 .. Len(a) + Len(b) :
           (a \o b)[k] = IF k <= Len(a) THEN a[k] ELSE b[k - Len(a)]
  <2>1. a \in Seq(S) /\ b \in Seq(S)
    BY <1>2, <1>3
  <2>2. QED
    BY <2>1, ConcatProperties
<1>6. Len(msgs) \in Nat /\ Len(more) \in Nat
  OBVIOUS
<1>7. ASSUME NEW k \in 1 .. Len(c) PROVE c[k] = (a \o b)[k]
  <2>1. k \in 1 .. Len(msgs) + Len(more) /\ c[k] = Encoded(h, both[k])
    BY <1>1, <1>4
  <2>2. CASE k <= Len(msgs)
    <3>1. k \in 1 .. Len(msgs)
      BY <1>6, <2>1, <2>2
    <3>2. both[k] = msgs[k] /\ (a \o b)[k] = a[k]
      BY <1>1, <1>2, <1>3, <1>5, <2>1, <2>2
    <3>3. QED
      BY <1>2, <2>1, <3>1, <3>2
  <2>3. CASE ~ (k <= Len(msgs))
    <3>1. k - Len(msgs) \in 1 .. Len(more)
      BY <1>6, <2>1, <2>3
    <3>2. both[k] = more[k - Len(msgs)] /\ (a \o b)[k] = b[k - Len(msgs)]
      BY <1>1, <1>2, <1>3, <1>5, <2>1, <2>3
    <3>3. QED
      BY <1>3, <2>1, <3>1, <3>2
  <2>4. QED
    BY <2>2, <2>3
<1>8. Len(c) = Len(a \o b)
  BY <1>1, <1>2, <1>3, <1>4, <1>5
<1>9. c = a \o b
  BY <1>4, <1>5, <1>7, <1>8, SeqEqual
<1>10. QED
  BY <1>9 DEF a, b, c, both

LEMMA EncodedTail ==
  ASSUME NEW h, NEW msgs \in Seq(MessageObject), msgs # << >>
  PROVE  /\ EncodedAll(h, msgs) # << >>
         /\ Head(EncodedAll(h, msgs)) = Encoded(h, Head(msgs))
         /\ EncodedAll(h, Tail(msgs)) = Tail(EncodedAll(h, msgs))
<1> DEFINE S == {Encoded(h, m) : m \in MessageObject}
           t == Tail(msgs)
           a == EncodedAll(h, msgs)
           b == EncodedAll(h, t)
<1>1. /\ t \in Seq(MessageObject) /\ Len(t) = Len(msgs) - 1
      /\ \A k \in 1 .. Len(t) : t[k] = msgs[k + 1]
      /\ Len(msgs) \in Nat /\ Len(msgs) # 0 /\ Head(msgs) = msgs[1]
  BY HeadTailProperties
<1>2. /\ a \in Seq(S) /\ Len(a) = Len(msgs)
      /\ \A k \in 1 .. Len(msgs) : a[k] = Encoded(h, msgs[k])
  BY EncodedSeq
<1> HIDE DEF t
<1>3. /\ b \in Seq(S) /\ Len(b) = Len(t)
      /\ \A k \in 1 .. Len(t) : b[k] = Encoded(h, t[k])
  BY <1>1, EncodedSeq
<1> HIDE DEF S, a, b
<1>4. a # << >> /\ Head(a) = Encoded(h, Head(msgs))
  BY <1>1, <1>2
<1>5. /\ Tail(a) \in Seq(S) /\ Len(Tail(a)) = Len(a) - 1
      /\ \A k \in 1 .. Len(Tail(a)) : Tail(a)[k] = a[k + 1]
  BY <1>2, <1>4, HeadTailProperties
<1>6. ASSUME NEW k \in 1 .. Len(b) PROVE b[k] = Tail(a)[k]
  <2>1. k \in 1 .. Len(t) /\ k \in 1 .. Len(Tail(a)) /\ k + 1 \in 1 .. Len(msgs)
    BY <1>1, <1>2, <1>3, <1>5
  <2>2. QED
    BY <1>1, <1>2, <1>3, <1>5, <2>1
<1>7. Len(b) = Len(Tail(a))
  BY <1>1, <1>2, <1>3, <1>5
<1>8. b = Tail(a)
  BY <1>3, <1>5, <1>6, <1>7, SeqEqual
<1>9. QED
  BY <1>4, <1>8 DEF a, b, t

LEMMA EncodedEmpty == \A h : EncodedAll(h, << >>) = << >>
BY DEF EncodedAll

(* Messages of which none has an order are their own encoding. *)
LEMMA EncodedUpdates ==
  ASSUME NEW h, NEW msgs \in Seq(MessageObject),
         \A k \in DOMAIN msgs : msgs[k].type # "DISP_ORDER"
  PROVE  EncodedAll(h, msgs) = msgs
<1>1. EncodedAll(h, msgs) = [k \in DOMAIN msgs |-> msgs[k]]
  BY DEF EncodedAll, Encoded
<1>2. QED
  BY <1>1

(* Messages are read the same when their orders read the same. *)
LEMMA EncodedStays ==
  ASSUME NEW h, NEW g, NEW msgs,
         \A a \in OrdersOf(msgs) : g[a].id = h[a].id /\ OrderAt(g, a) = OrderAt(h, a)
  PROVE  EncodedAll(g, msgs) = EncodedAll(h, msgs)
<1>1. \A k \in DOMAIN msgs :
        msgs[k].type = "DISP_ORDER" => msgs[k].order \in OrdersOf(msgs)
  BY DEF OrdersOf
<1>2. \A k \in DOMAIN msgs : Encoded(g, msgs[k]) = Encoded(h, msgs[k])
  BY <1>1 DEF Encoded
<1>3. QED
  BY <1>2 DEF EncodedAll

LEMMA OrdersOfTail ==
  ASSUME NEW msgs \in Seq(MessageObject), msgs # << >>
  PROVE  OrdersOf(Tail(msgs)) \subseteq OrdersOf(msgs)
<1>1. /\ Tail(msgs) \in Seq(MessageObject) /\ Len(Tail(msgs)) = Len(msgs) - 1
      /\ \A k \in 1 .. Len(Tail(msgs)) : Tail(msgs)[k] = msgs[k + 1]
      /\ Len(msgs) \in Nat
  BY HeadTailProperties
<1>2. \A k \in DOMAIN Tail(msgs) : k + 1 \in DOMAIN msgs /\ Tail(msgs)[k] = msgs[k + 1]
  BY <1>1
<1>3. QED
  BY <1>2 DEF OrdersOf

LEMMA OrdersOfConcat ==
  ASSUME NEW msgs \in Seq(MessageObject), NEW more \in Seq(MessageObject)
  PROVE  OrdersOf(msgs \o more) = OrdersOf(msgs) \cup OrdersOf(more)
<1> DEFINE both == msgs \o more
<1>1. /\ both \in Seq(MessageObject)
      /\ Len(both) = Len(msgs) + Len(more)
      /\ \A k \in 1 .. Len(msgs) + Len(more) :
           both[k] = IF k <= Len(msgs) THEN msgs[k] ELSE more[k - Len(msgs)]
      /\ Len(msgs) \in Nat /\ Len(more) \in Nat
  BY ConcatProperties
<1> HIDE DEF both
<1>2. \A k \in DOMAIN both : \/ k \in DOMAIN msgs /\ both[k] = msgs[k]
                             \/ /\ k - Len(msgs) \in DOMAIN more
                                /\ both[k] = more[k - Len(msgs)]
  BY <1>1
<1>3. \A k \in DOMAIN msgs : k \in DOMAIN both /\ both[k] = msgs[k]
  BY <1>1
<1>4. \A k \in DOMAIN more :
        k + Len(msgs) \in DOMAIN both /\ both[k + Len(msgs)] = more[k]
  BY <1>1
<1>5. \A a : a \in OrdersOf(both) <=> a \in OrdersOf(msgs) \cup OrdersOf(more)
  BY <1>2, <1>3, <1>4 DEF OrdersOf
<1>6. QED
  BY <1>5 DEF both

-------------------------------------------------------------------------------
(* What the steps have in common *)

(* The orders that somebody points to. *)
LEMMA Pointed ==
  /\ \A id \in OrderIds : my_orders[id] # NoOrder => my_orders[id] \in InMap
  /\ \A u \in Updaters : request[u] # NoOrder => request[u] \in InRequests
  /\ \A d \in Displays : /\ OrdersOf(queue[d]) \subseteq InMessages
                         /\ OrdersOf(backlog[d]) \subseteq InMessages
  /\ InMap \subseteq OrderObjects
  /\ InRequests \subseteq OrderObjects
  /\ InMessages \subseteq OrderObjects
BY DEF InMap, InRequests, InMessages, OrderObjects

(* What a step leaves when the objects without a pointer are gone. *)
LEMMA Collected ==
  ASSUME NEW h, NEW orders, IsFiniteSet(DOMAIN h), Whole(h, orders),
         OrderObjects' \subseteq orders, Collect(h)
  PROVE  /\ HeapOK'
         /\ \A a \in OrderObjects' : /\ heap'[a].id = h[a].id
                                     /\ OrderAt(heap', a) = OrderAt(h, a)
<1>1. PICK kept : kept = OrderObjects'
  OBVIOUS
<1>2. PICK g : g = heap'
  OBVIOUS
<1>3. kept \in SUBSET orders
  BY <1>1
<1>4. g = [a \in AndItems(h, kept) |-> h[a]]
  BY <1>1, <1>2 DEF Collect, OrderObjects
<1>5. AndItems(h, kept) \subseteq DOMAIN h
  BY <1>3, AndItemsMembers DEF Whole
<1>6. DOMAIN g = AndItems(h, kept) /\ \A x \in AndItems(h, kept) : g[x] = h[x]
  BY <1>4
<1>7. /\ Whole(g, kept)
      /\ AndItems(g, kept) = AndItems(h, kept)
      /\ \A a \in kept : g[a].id = h[a].id /\ OrderAt(g, a) = OrderAt(h, a)
  BY <1>3, <1>6, WholeStays
<1>8. IsFiniteSet(DOMAIN g)
  BY <1>5, <1>6, FS_Subset
<1>9. IsFiniteSet(DOMAIN g) /\ DOMAIN g = AndItems(g, kept) /\ Whole(g, kept)
  BY <1>6, <1>7, <1>8
<1>10. HeapOK'
  BY <1>1, <1>2, <1>9 DEF HeapOK
<1>11. QED
  BY <1>1, <1>2, <1>7, <1>10

(* Messages that are there after a step read as in the heap h, when the    *)
(* orders in them do.                                                      *)
LEMMA MessagesRead ==
  ASSUME NEW h,
         \A a \in InMessages' : /\ heap'[a].id = h[a].id
                                /\ OrderAt(heap', a) = OrderAt(h, a)
  PROVE  \A d \in Displays :
           /\ EncodedAll(heap', queue'[d]) = EncodedAll(h, queue'[d])
           /\ EncodedAll(heap', backlog'[d]) = EncodedAll(h, backlog'[d])
<1>1. PICK g : g = heap'
  OBVIOUS
<1> SUFFICES ASSUME NEW d \in Displays
             PROVE  /\ EncodedAll(g, queue'[d]) = EncodedAll(h, queue'[d])
                    /\ EncodedAll(g, backlog'[d]) = EncodedAll(h, backlog'[d])
  BY <1>1
<1>2. PICK q, b : q = queue'[d] /\ b = backlog'[d]
  OBVIOUS
<1>3. \A a \in OrdersOf(q) \cup OrdersOf(b) : a \in InMessages'
  BY <1>2 DEF InMessages
<1>4. \A a \in OrdersOf(q) \cup OrdersOf(b) :
        g[a].id = h[a].id /\ OrderAt(g, a) = OrderAt(h, a)
  BY <1>1, <1>3
<1>5. EncodedAll(g, q) = EncodedAll(h, q) /\ EncodedAll(g, b) = EncodedAll(h, b)
  BY <1>4, EncodedStays
<1>6. QED
  BY <1>2, <1>5

(* ... and those that were there before. *)
LEMMA MessagesStay ==
  ASSUME \A a \in InMessages : /\ heap'[a].id = heap[a].id
                               /\ OrderAt(heap', a) = OrderAt(heap, a)
  PROVE  \A d \in Displays :
           /\ EncodedAll(heap', queue[d]) = EncodedAll(heap, queue[d])
           /\ EncodedAll(heap', backlog[d]) = EncodedAll(heap, backlog[d])
<1>1. PICK h, g : h = heap /\ g = heap'
  OBVIOUS
<1> SUFFICES ASSUME NEW d \in Displays
             PROVE  /\ EncodedAll(g, queue[d]) = EncodedAll(h, queue[d])
                    /\ EncodedAll(g, backlog[d]) = EncodedAll(h, backlog[d])
  BY <1>1
<1>2. PICK q, b : q = queue[d] /\ b = backlog[d]
  OBVIOUS
<1>3. \A a \in OrdersOf(q) \cup OrdersOf(b) :
        g[a].id = h[a].id /\ OrderAt(g, a) = OrderAt(h, a)
  BY <1>1, <1>2, Pointed
<1>4. EncodedAll(g, q) = EncodedAll(h, q) /\ EncodedAll(g, b) = EncodedAll(h, b)
  BY <1>3, EncodedStays
<1>5. QED
  BY <1>2, <1>4

(* The map holds the same values when its orders read the same. *)
LEMMA OrdersStay ==
  ASSUME my_orders' = my_orders,
         \A a \in InMap : OrderAt(heap', a) = OrderAt(heap, a)
  PROVE  OrderValues' = OrderValues
<1>1. \A id \in OrderIds : my_orders[id] # NoOrder =>
        OrderAt(heap', my_orders[id]) = OrderAt(heap, my_orders[id])
  BY Pointed
<1>2. QED
  BY <1>1 DEF OrderValues

(* A step after which the same pointers lead to orders that read the same. *)
LEMMA ValuesStay ==
  ASSUME \A a \in InMap \cup InMessages : /\ heap'[a].id = heap[a].id
                                          /\ OrderAt(heap', a) = OrderAt(heap, a)
  PROVE  /\ my_orders' = my_orders => OrderValues' = OrderValues
         /\ queue' = queue => QueueValues' = QueueValues
         /\ backlog' = backlog => BacklogValues' = BacklogValues
<1>1. ASSUME my_orders' = my_orders PROVE OrderValues' = OrderValues
  BY <1>1, OrdersStay
<1>2. \A d \in Displays :
        /\ EncodedAll(heap', queue[d]) = EncodedAll(heap, queue[d])
        /\ EncodedAll(heap', backlog[d]) = EncodedAll(heap, backlog[d])
  BY MessagesStay
<1>3. queue' = queue => QueueValues' = QueueValues
  BY <1>2 DEF QueueValues
<1>4. backlog' = backlog => BacklogValues' = BacklogValues
  BY <1>2 DEF BacklogValues
<1>5. QED
  BY <1>1, <1>3, <1>4

(* Where the server sees values, it sees orders. *)
LEMMA ValuesOfOrders ==
  ASSUME ObjectsInv, NEW id \in OrderIds, my_orders[id] # NoOrder
  PROVE  /\ my_orders[id] \in InMap /\ my_orders[id] \in OrderObjects
         /\ OrderValues[id] = OrderAt(heap, my_orders[id])
         /\ OrderValues[id] \in Order /\ OrderValues[id] # NoOrder
         /\ heap[my_orders[id]].id = id
<1>1. my_orders[id] \in InMap /\ my_orders[id] \in OrderObjects
  BY Pointed
<1>2. OrderValues[id] = OrderAt(heap, my_orders[id])
  BY DEF OrderValues
<1>3. PICK h, orders, a : h = heap /\ orders = OrderObjects /\ a = my_orders[id]
  OBVIOUS
<1>4. Whole(h, orders) /\ a \in orders
  BY <1>1, <1>3 DEF ObjectsInv, HeapOK
<1>5. OrderAt(h, a) \in Order
  BY <1>4, OrderAtType
<1>6. heap[my_orders[id]].id = id
  BY DEF ObjectsInv, KeptUnderId
<1>7. QED
  BY <1>1, <1>2, <1>3, <1>5, <1>6, NoOrderAssumption

(* The instance's operators are Server's. *)
LEMMA SameOperators ==
  /\ ByValue!OrderIds = OrderIds
  /\ ByValue!OrderStatus = OrderStatus /\ ByValue!ItemStatus = ItemStatus
  /\ \A id, o : ByValue!DispOrder(id, o) = DispOrder(id, o)
  /\ \A id, i, s : ByValue!DispItemUpdate(id, i, s) = DispItemUpdate(id, i, s)
  /\ \A id, s : ByValue!DispOrderUpdate(id, s) = DispOrderUpdate(id, s)
  /\ \A o, i : ByValue!HasItem(o, i) <=> HasItem(o, i)
  /\ \A o, i : ByValue!find_item(o, i) = find_item(o, i)
  /\ \A a, b : ByValue!ItemStep(a, b) <=> ItemStep(a, b)
  /\ \A o, s : ByValue!StatusAfter(o, s) = StatusAfter(o, s)
  /\ \A o, i, s : ByValue!set_item_status(o, i, s) = set_item_status(o, i, s)
<1>1. ByValue!OrderIds = OrderIds
  BY DEF ByValue!OrderIds, ByValue!FirstOrderId, OrderIds, FirstOrderId
<1>2. ByValue!OrderStatus = OrderStatus /\ ByValue!ItemStatus = ItemStatus
  BY DEF ByValue!OrderStatus, OrderStatus, ByValue!ItemStatus, ItemStatus
<1>3. /\ \A id, o : ByValue!DispOrder(id, o) = DispOrder(id, o)
      /\ \A id, i, s : ByValue!DispItemUpdate(id, i, s) = DispItemUpdate(id, i, s)
      /\ \A id, s : ByValue!DispOrderUpdate(id, s) = DispOrderUpdate(id, s)
  BY DEF ByValue!DispOrder, DispOrder, ByValue!DispItemUpdate, DispItemUpdate,
         ByValue!DispOrderUpdate, DispOrderUpdate
<1>4. \A o, p, i : ByValue!Names(o, p, i) <=> Names(o, p, i)
  BY DEF ByValue!Names, Names
<1>5. \A o, i : ByValue!HasItem(o, i) <=> HasItem(o, i)
  BY <1>4 DEF ByValue!HasItem, HasItem
<1>6. \A o, i : ByValue!find_item(o, i) = find_item(o, i)
  BY <1>4 DEF ByValue!find_item, find_item
<1>7. \A a, b : ByValue!ItemStep(a, b) <=> ItemStep(a, b)
  BY DEF ByValue!ItemStep, ItemStep
<1>8. \A o, s : ByValue!StatusAfter(o, s) = StatusAfter(o, s)
  BY DEF ByValue!StatusAfter, StatusAfter, ByValue!AllDone, AllDone
<1>9. \A o, i, s : ByValue!set_item_status(o, i, s) = set_item_status(o, i, s)
  BY <1>6 DEF ByValue!set_item_status, set_item_status
<1>10. QED
  BY <1>1, <1>2, <1>3, <1>5, <1>6, <1>7, <1>8, <1>9

-------------------------------------------------------------------------------
(* Steps that touch no object *)

(* The pointers stay, and a display without a snapshot gets none. *)
LEMMA QuietStep ==
  ASSUME ObjectsInv,
         UNCHANGED <<my_orders, heap, request, served, queue, backlog>>,
         my_clients' \subseteq Displays, IsFiniteSet(my_clients'),
         phase' \in [Displays -> {"idle", "login", "joined", "stream", "failed"}],
         NoEarlyBacklog'
  PROVE  /\ ObjectsInv'
         /\ UNCHANGED <<OrderValues, QueueValues, BacklogValues>>
<1>1. /\ InMap' = InMap /\ InRequests' = InRequests /\ InMessages' = InMessages
      /\ OrderObjects' = OrderObjects
  BY DEF InMap, InRequests, InMessages, OrderObjects
<1>2. PointersOK'
  BY DEF ObjectsInv, PointersOK
<1>3. HeapOK'
  BY <1>1 DEF ObjectsInv, HeapOK
<1>4. KeptUnderId' /\ Submitted'
  BY DEF ObjectsInv, KeptUnderId, Submitted
<1>5. ObjectsInv'
  BY <1>1, <1>2, <1>3, <1>4 DEF ObjectsInv
<1>6. UNCHANGED <<OrderValues, QueueValues, BacklogValues>>
  BY DEF OrderValues, QueueValues, BacklogValues
<1>7. QED
  BY <1>5, <1>6

LEMMA DisplaySteps ==
  ASSUME ObjectsInv, UNCHANGED sharedVars, NEW d \in Displays,
         \/ Connect(d) \/ add_client(d) \/ SendHeartbeat(d) \/ SendFails(d)
         \/ receive(d) \/ PeerCloses(d)
  PROVE  ObjectsInv' /\ ByValue!Next
<1> USE DEF ObjectsInv, PointersOK, NoEarlyBacklog
<1>1. UNCHANGED <<my_orders, heap, request, served, queue, backlog>>
  BY DEF sharedVars, serverVars, Connect, add_client, SendHeartbeat, SendFails,
         receive, PeerCloses
<1>2. my_clients' \subseteq Displays /\ IsFiniteSet(my_clients')
  <2>1. IsFiniteSet(my_clients \cup {d})
    BY FS_AddElement
  <2>2. QED
    BY <2>1 DEF Connect, add_client, SendHeartbeat, SendFails, receive, PeerCloses
<1>3. phase' \in [Displays -> {"idle", "login", "joined", "stream", "failed"}]
  BY DEF Connect, add_client, SendHeartbeat, SendFails, receive, PeerCloses
<1>4. NoEarlyBacklog'
  BY DEF Connect, add_client, SendHeartbeat, SendFails, receive, PeerCloses
<1>5. ObjectsInv' /\ UNCHANGED <<OrderValues, QueueValues, BacklogValues>>
  <2> HIDE DEF ObjectsInv, PointersOK, NoEarlyBacklog
  <2>1. QED
    BY <1>1, <1>2, <1>3, <1>4, QuietStep
<1> HIDE DEF ObjectsInv, PointersOK, NoEarlyBacklog
<1>6. CASE Connect(d)
  <2>1. ByValue!Connect(d)
    BY <1>5, <1>6 DEF Connect, ByValue!Connect, serverVars, ByValue!serverVars
  <2>2. QED
    BY <1>5, <2>1 DEF ByValue!Next
<1>7. CASE add_client(d)
  <2>1. ByValue!add_client(d)
    BY <1>5, <1>7 DEF add_client, ByValue!add_client, serverVars, ByValue!serverVars
  <2>2. QED
    BY <1>5, <2>1 DEF ByValue!Next, ByValue!Serve
<1>8. CASE SendHeartbeat(d)
  <2>1. BacklogValues[d] = << >>
    BY <1>8, EncodedEmpty DEF BacklogValues, SendHeartbeat
  <2>2. ByValue!send_msg(d, ByValue!DispHeartbeat)
    BY <1>8 DEF SendHeartbeat, send_msg, ByValue!send_msg, DispHeartbeat,
                ByValue!DispHeartbeat
  <2>3. ByValue!SendHeartbeat(d)
    BY <1>5, <1>8, <2>1, <2>2
       DEF SendHeartbeat, ByValue!SendHeartbeat, serverVars, ByValue!serverVars
  <2>4. QED
    BY <1>5, <2>3 DEF ByValue!Next, ByValue!Serve
<1>9. CASE SendFails(d)
  <2>1. ByValue!SendFails(d)
    BY <1>5, <1>9 DEF SendFails, ByValue!SendFails, serverVars, ByValue!serverVars
  <2>2. QED
    BY <1>5, <2>1 DEF ByValue!Next, ByValue!Serve
<1>10. CASE receive(d)
  <2>1. \A scr, m : ByValue!Show(scr, m) = Show(scr, m)
    BY SameOperators DEF ByValue!Show, Show
  <2>2. ByValue!receive(d)
    BY <1>5, <1>10, <2>1 DEF receive, ByValue!receive, serverVars, ByValue!serverVars
  <2>3. QED
    BY <1>5, <2>2 DEF ByValue!Next
<1>11. CASE PeerCloses(d)
  <2>1. ByValue!EmptyScreen = EmptyScreen
    BY SameOperators DEF ByValue!EmptyScreen, EmptyScreen
  <2>2. ByValue!PeerCloses(d)
    BY <1>5, <1>11, <2>1
       DEF PeerCloses, ByValue!PeerCloses, serverVars, ByValue!serverVars
  <2>3. QED
    BY <1>5, <2>2 DEF ByValue!Next
<1>12. QED
  BY <1>5, <1>6, <1>7, <1>8, <1>9, <1>10, <1>11

(* The end of a request takes an order away that nothing else points to. *)
LEMMA EndRequestStep ==
  ASSUME ObjectsInv, NEW u \in Updaters, EndRequest(u)
  PROVE  ObjectsInv' /\ UNCHANGED ByValue!vars
<1>1. /\ UNCHANGED vars /\ Collect(heap)
      /\ request' = [request EXCEPT ![u] = NoOrder] /\ served' = served \ {u}
  BY DEF EndRequest
<1>2. UNCHANGED <<my_orders, my_clients, phase, queue, backlog>>
  BY <1>1 DEF vars
<1>3. InMap' = InMap /\ InMessages' = InMessages
  BY <1>2 DEF InMap, InMessages
<1>4. request \in [Updaters -> Nat \cup {NoOrder}]
  BY DEF ObjectsInv, PointersOK
<1>5. InRequests' \subseteq InRequests
  BY <1>1, <1>4 DEF InRequests
<1>6. OrderObjects' \subseteq OrderObjects
  BY <1>3, <1>5 DEF OrderObjects
<1>7. /\ HeapOK'
      /\ \A a \in OrderObjects' : /\ heap'[a].id = heap[a].id
                                  /\ OrderAt(heap', a) = OrderAt(heap, a)
  <2>1. PICK h, orders : h = heap /\ orders = OrderObjects
    OBVIOUS
  <2>2. IsFiniteSet(DOMAIN h) /\ Whole(h, orders)
    BY <2>1 DEF ObjectsInv, HeapOK
  <2>3. OrderObjects' \subseteq orders /\ Collect(h)
    BY <1>1, <1>6, <2>1
  <2>4. QED
    BY <2>1, <2>2, <2>3, Collected
<1>8. \A a \in InMap \cup InMessages : /\ heap'[a].id = heap[a].id
                                       /\ OrderAt(heap', a) = OrderAt(heap, a)
  <2>1. InMap \cup InMessages \subseteq OrderObjects'
    BY <1>3 DEF OrderObjects
  <2>2. QED
    BY <1>7, <2>1
<1>9. PointersOK'
  BY <1>1, <1>2 DEF ObjectsInv, PointersOK
<1>10. NoEarlyBacklog'
  BY <1>2 DEF ObjectsInv, NoEarlyBacklog
<1>11. KeptUnderId'
  BY <1>2, <1>8, Pointed DEF ObjectsInv, KeptUnderId
<1>12. Submitted'
  <2> SUFFICES ASSUME NEW v \in Updaters, request'[v] # NoOrder
               PROVE  OrderAt(heap', request'[v]) \in NewOrders
    BY DEF Submitted
  <2>1. v # u /\ request'[v] = request[v]
    BY <1>1, <1>4
  <2>2. request[v] \in OrderObjects'
    BY <2>1 DEF OrderObjects, InRequests
  <2>3. QED
    BY <1>7, <2>1, <2>2 DEF ObjectsInv, Submitted
<1>13. ObjectsInv'
  BY <1>3, <1>5, <1>7, <1>9, <1>10, <1>11, <1>12 DEF ObjectsInv
<1>14. UNCHANGED <<OrderValues, QueueValues, BacklogValues>>
  BY <1>2, <1>8, ValuesStay DEF ObjectsInv
<1>15. QED
  BY <1>1, <1>13, <1>14 DEF vars, ByValue!vars

(* Both at once: new objects at free addresses. *)
LEMMA NewObjects ==
  ASSUME NEW h, IsFiniteSet(DOMAIN h), NEW slots, IsFiniteSet(slots), NEW object
  PROVE  LET new == Fresh(h, slots)
             e   == Extended(h, new, object)
         IN  /\ DOMAIN e = DOMAIN h \cup {new[s] : s \in slots}
             /\ \A a \in DOMAIN h : e[a] = h[a]
             /\ \A s \in slots : e[new[s]] = object[s]
             /\ IsFiniteSet(DOMAIN e)
<1> DEFINE new == Fresh(h, slots)
           e   == Extended(h, new, object)
<1>1. /\ new \in [slots -> Nat \ DOMAIN h]
      /\ \A s, t \in slots : new[s] = new[t] => s = t
  BY FreshAddresses
<1>2. e = Extended(h, new, object)
  OBVIOUS
<1> HIDE DEF new, e
<1>3. /\ DOMAIN e = DOMAIN h \cup {new[s] : s \in slots}
      /\ \A a \in DOMAIN h : e[a] = h[a]
      /\ \A s \in slots : e[new[s]] = object[s]
      /\ IsFiniteSet(DOMAIN e)
  BY <1>1, <1>2, Extension, Z3
<1>4. QED
  BY <1>3 DEF new, e

(* The heap g is h with the objects of a decoded order, at new. *)
Decoded(h, o, new, g) ==
  /\ new = Fresh(h, 0 .. Len(o.items))
  /\ \E object :
       /\ object[0] = [id |-> 1, status |-> o.status,
                       items |-> [k \in DOMAIN o.items |-> new[k]]]
       /\ \A p \in DOMAIN o.items :
            object[p] = [id |-> o.items[p].id, order_id |-> 1,
                         status |-> o.items[p].status]
       /\ g = Extended(h, new, object)

(* They read as the order, and are apart from those that were there. *)
Added(h, orders, o, a, g) ==
  /\ IsFiniteSet(DOMAIN g)
  /\ \A x \in DOMAIN h : x \in DOMAIN g /\ g[x] = h[x]
  /\ a \in Nat
  /\ DOMAIN g = DOMAIN h \cup AndItems(g, {a})
  /\ Whole(g, orders \cup {a})
  /\ a \notin orders
  /\ OrderAt(g, a) = o
  /\ \A b \in orders : g[b].id = h[b].id /\ OrderAt(g, b) = OrderAt(h, b)

LEMMA Decoding ==
  ASSUME NEW h, IsFiniteSet(DOMAIN h), NEW orders, Whole(h, orders),
         NEW o \in Order, NEW new, NEW g, Decoded(h, o, new, g)
  PROVE  Added(h, orders, o, new[0], g)
<1> DEFINE n == Len(o.items)
           a == new[0]
           slots == 0 .. n
           items == [k \in 1 .. n |-> new[k]]
<1>1. /\ n \in Nat /\ DOMAIN o.items = 1 .. n /\ o.status \in OrderStatus
      /\ o = [status |-> o.status, items |-> o.items]
      /\ \A p \in 1 .. n : o.items[p] \in Item
      /\ o.items = [p \in 1 .. n |-> o.items[p]]
  <2>1. o.items \in Seq(Item) /\ o.status \in OrderStatus
        /\ o = [status |-> o.status, items |-> o.items]
    BY DEF Order
  <2>2. QED
    BY <2>1
<1> HIDE DEF n
<1>2. new = Fresh(h, slots)
  BY DEF n, Decoded
<1>3. IsFiniteSet(slots)
  <2>1. 0 \in Int /\ n \in Int
    BY <1>1
  <2>2. QED
    BY <2>1, FS_Interval
<1>4. /\ 0 \in slots
      /\ \A p \in 1 .. n : p \in slots /\ p # 0
      /\ \A p \in slots : p = 0 \/ p \in 1 .. n
  BY <1>1
<1> HIDE DEF slots, a
<1>5. /\ new \in [slots -> Nat \ DOMAIN h]
      /\ \A s, t \in slots : new[s] = new[t] => s = t
  BY <1>2, <1>3, FreshAddresses
<1>25. PICK object :
         /\ object[0] = [id |-> 1, status |-> o.status, items |-> items]
         /\ \A p \in 1 .. n :
              object[p] = [id |-> o.items[p].id, order_id |-> 1,
                           status |-> o.items[p].status]
         /\ g = Extended(h, new, object)
  BY <1>1 DEF Decoded
<1>6. /\ DOMAIN g = DOMAIN h \cup {new[s] : s \in slots}
      /\ \A x \in DOMAIN h : g[x] = h[x]
      /\ \A s \in slots : g[new[s]] = object[s]
      /\ IsFiniteSet(DOMAIN g)
  <2>1. IsFiniteSet(DOMAIN h)
    OBVIOUS
  <2>2. g = Extended(h, new, object)
    BY <1>25
  <2> HIDE DEF items
  <2>3. QED
    BY <1>2, <1>3, <2>1, <2>2, NewObjects, Z3T(30)
<1>7. /\ g[a] = [id |-> 1, status |-> o.status, items |-> items]
      /\ \A p \in 1 .. n :
           g[new[p]] = [id |-> o.items[p].id, order_id |-> 1,
                        status |-> o.items[p].status]
  <2>1. /\ object[0] = [id |-> 1, status |-> o.status, items |-> items]
        /\ \A p \in 1 .. n :
             object[p] = [id |-> o.items[p].id, order_id |-> 1,
                          status |-> o.items[p].status]
    BY <1>25
  <2>2. g[new[0]] = object[0] /\ \A p \in 1 .. n : g[new[p]] = object[p]
    BY <1>4, <1>6
  <2> HIDE DEF items
  <2>3. QED
    BY <2>1, <2>2 DEF a
<1>8. \A p \in 1 .. n : items[p] = new[p] /\ new[p] \in Nat
  BY <1>4, <1>5
<1>9. DOMAIN items = 1 .. n
  OBVIOUS
<1>10. items \in Seq(Nat)
  <2>1. items \in [1 .. n -> Nat]
    BY <1>8
  <2> HIDE DEF items
  <2>2. QED
    BY <1>1, <2>1, ListIsSeq
<1> HIDE DEF items
<1>11. /\ g[a] \in OrderObject /\ g[a].id = 1 /\ g[a].status = o.status
       /\ g[a].items = items
  BY <1>1, <1>7, <1>10 DEF OrderObject
<1>12. \A p \in 1 .. n :
         /\ g[items[p]] \in ItemObject /\ g[items[p]].order_id = 1
         /\ g[items[p]].id = o.items[p].id
         /\ g[items[p]].status = o.items[p].status
  <2> SUFFICES ASSUME NEW p \in 1 .. n
               PROVE  /\ g[items[p]] \in ItemObject /\ g[items[p]].order_id = 1
                      /\ g[items[p]].id = o.items[p].id
                      /\ g[items[p]].status = o.items[p].status
    OBVIOUS
  <2>1. g[items[p]] = [id |-> o.items[p].id, order_id |-> 1,
                       status |-> o.items[p].status]
    BY <1>7, <1>8
  <2>2. o.items[p].id \in ItemIds /\ o.items[p].status \in ItemStatus
    BY <1>1 DEF Item
  <2>3. QED
    BY <2>1, <2>2 DEF ItemObject
<1> DEFINE own == {a}
<1>23. \A b : b \in own <=> b = a
  OBVIOUS
<1> HIDE DEF own
<1>13. \A x : x \in AndItems(g, own) <=> \E s \in slots : x = new[s]
  <2> SUFFICES ASSUME NEW x
               PROVE  x \in AndItems(g, own) <=> \E s \in slots : x = new[s]
    OBVIOUS
  <2>1. x \in AndItems(g, own) <=> x = a \/ \E p \in 1 .. n : x = items[p]
    <3>1. x \in AndItems(g, own) <=>
            x = a \/ \E p \in DOMAIN g[a].items : x = g[a].items[p]
      BY <1>23, AndItemsMembers
    <3>2. QED
      BY <1>9, <1>11, <3>1
  <2>2. QED
    BY <1>4, <1>8, <2>1 DEF a
<1>14. DOMAIN g = DOMAIN h \cup AndItems(g, own)
  <2>1. {new[s] : s \in slots} = AndItems(g, own)
    BY <1>13
  <2>2. QED
    BY <1>6, <2>1
<1>15. Whole(g, own)
  <2>1. AndItems(g, own) \subseteq DOMAIN g
    BY <1>14
  <2>2. \A p, q \in 1 .. n : items[p] = items[q] => p = q
    BY <1>4, <1>5, <1>8
  <2>3. QED
    <3>1. \A b \in own : /\ b = a /\ g[b] \in OrderObject /\ g[b].id = 1
                          /\ g[b].items = items
      BY <1>11, <1>23
    <3>2. \A b \in own : \A p \in DOMAIN g[b].items :
            /\ g[g[b].items[p]] \in ItemObject
            /\ g[g[b].items[p]].order_id = g[b].id
      BY <1>9, <1>12, <3>1
    <3>3. \A b, c \in own : \A p \in DOMAIN g[b].items : \A q \in DOMAIN g[c].items :
            g[b].items[p] = g[c].items[q] => b = c /\ p = q
      BY <1>9, <2>2, <3>1
    <3>4. QED
      BY <2>1, <3>1, <3>2, <3>3 DEF Whole
<1>16. AndItems(h, orders) \subseteq DOMAIN h
  BY DEF Whole
<1>17. /\ Whole(g, orders) /\ AndItems(g, orders) = AndItems(h, orders)
       /\ \A b \in orders : g[b].id = h[b].id /\ OrderAt(g, b) = OrderAt(h, b)
  <2>1. orders \in SUBSET orders /\ AndItems(h, orders) \subseteq DOMAIN g
    BY <1>6, <1>16
  <2>2. \A x \in AndItems(h, orders) : g[x] = h[x]
    BY <1>6, <1>16
  <2>3. QED
    BY <2>1, <2>2, WholeStays
<1>18. \A x \in AndItems(g, own) : x \in Nat \ DOMAIN h
  BY <1>5, <1>13
<1>19. Whole(g, orders \cup own)
  <2>1. AndItems(g, orders) \cap AndItems(g, own) = {}
    BY <1>16, <1>17, <1>18
  <2>2. QED
    BY <1>15, <1>17, <2>1, WholeTogether
<1>20. OrderAt(g, a) = o
  <2>1. OrderAt(g, a) = [status |-> o.status,
                         items |-> [p \in 1 .. n |-> [id |-> g[items[p]].id,
                                                      status |-> g[items[p]].status]]]
    BY <1>9, <1>11 DEF OrderAt
  <2>2. \A p \in 1 .. n :
          [id |-> g[items[p]].id, status |-> g[items[p]].status] = o.items[p]
    BY <1>1, <1>12 DEF Item
  <2>3. QED
    BY <1>1, <2>1, <2>2
<1>21. a \in Nat /\ a \notin orders
  <2>1. a \in Nat \ DOMAIN h
    BY <1>4, <1>5 DEF a
  <2>2. \A b \in orders : b \in DOMAIN h
    BY <1>16, AndItemsMembers
  <2>3. QED
    BY <2>1, <2>2
<1>22. \A x \in DOMAIN h : x \in DOMAIN g /\ g[x] = h[x]
  BY <1>6
<1>24. QED
  BY <1>6, <1>14, <1>17, <1>19, <1>20, <1>21, <1>22 DEF a, own, Added

(* A heap of orders that has grown by orders. *)
LEMMA HeapGrown ==
  ASSUME NEW h, NEW orders, Whole(h, orders), DOMAIN h = AndItems(h, orders),
         NEW g, \A x \in DOMAIN h : x \in DOMAIN g /\ g[x] = h[x],
         NEW added, DOMAIN g = DOMAIN h \cup AndItems(g, added)
  PROVE  DOMAIN g = AndItems(g, orders \cup added)
<1>1. AndItems(g, orders) = AndItems(h, orders)
  <2>1. orders \in SUBSET orders /\ AndItems(h, orders) \subseteq DOMAIN g
    OBVIOUS
  <2>2. QED
    BY <2>1, WholeStays
<1>2. \A x : x \in AndItems(g, orders \cup added) <=>
             x \in AndItems(g, orders) \cup AndItems(g, added)
  BY AndItemsMembers
<1>3. QED
  BY <1>1, <1>2

(* A request brings an order of its own. *)
LEMMA ReadRequestStep ==
  ASSUME ObjectsInv, NEW u \in Updaters, ReadRequest(u)
  PROVE  ObjectsInv' /\ UNCHANGED ByValue!vars
<1>1. UNCHANGED <<vars, served>> /\ request[u] = NoOrder
  BY DEF ReadRequest
<1>2. UNCHANGED <<my_orders, my_clients, phase, queue, backlog>>
  BY <1>1 DEF vars
<1>3. PICK o, new : /\ o \in NewOrders
                    /\ Decoded(heap, o, new, heap')
                    /\ request' = [request EXCEPT ![u] = new[0]]
  <2>1. PICK o \in NewOrders :
          LET new == Fresh(heap, 0 .. Len(o.items))
              object == [p \in 0 .. Len(o.items) |->
                IF p = 0 THEN [id |-> 1, status |-> o.status,
                               items |-> [k \in DOMAIN o.items |-> new[k]]]
                ELSE [id |-> o.items[p].id, order_id |-> 1,
                      status |-> o.items[p].status]]
          IN  /\ request' = [request EXCEPT ![u] = new[0]]
              /\ heap' = Extended(heap, new, object)
    BY DEF ReadRequest
  <2> DEFINE new == Fresh(heap, 0 .. Len(o.items))
             first == [id |-> 1, status |-> o.status,
                       items |-> [k \in DOMAIN o.items |-> new[k]]]
             object == [p \in 0 .. Len(o.items) |->
               IF p = 0 THEN first
               ELSE [id |-> o.items[p].id, order_id |-> 1,
                     status |-> o.items[p].status]]
  <2>2. request' = [request EXCEPT ![u] = new[0]]
        /\ heap' = Extended(heap, new, object)
    BY <2>1
  <2>3. o.items \in Seq(Item)
    BY NewOrdersAssumption DEF Order
  <2>4. Len(o.items) \in Nat /\ DOMAIN o.items = 1 .. Len(o.items)
    BY <2>3
  <2>5. 0 \in 0 .. Len(o.items)
        /\ \A p \in DOMAIN o.items : p \in 0 .. Len(o.items) /\ p # 0
    BY <2>4
  <2>6. /\ object[0] = first
        /\ \A p \in DOMAIN o.items :
             object[p] = [id |-> o.items[p].id, order_id |-> 1,
                          status |-> o.items[p].status]
    <3> HIDE DEF first
    <3>1. QED
      BY <2>5
  <2> HIDE DEF object, new
  <2>7. Decoded(heap, o, new, heap')
    BY <2>2, <2>6 DEF Decoded, new
  <2>8. QED
    BY <2>2, <2>7
<1>4. PICK h, orders, g, a :
        h = heap /\ orders = OrderObjects /\ g = heap' /\ a = new[0]
  OBVIOUS
<1>5. /\ IsFiniteSet(DOMAIN h) /\ DOMAIN h = AndItems(h, orders)
      /\ Whole(h, orders) /\ o \in Order /\ Decoded(h, o, new, g)
  BY <1>3, <1>4, NewOrdersAssumption DEF ObjectsInv, HeapOK
<1>6. /\ IsFiniteSet(DOMAIN g)
      /\ \A x \in DOMAIN h : x \in DOMAIN g /\ g[x] = h[x]
      /\ a \in Nat
      /\ DOMAIN g = DOMAIN h \cup AndItems(g, {a})
      /\ Whole(g, orders \cup {a})
      /\ a \notin orders
      /\ OrderAt(g, a) = o
      /\ \A b \in orders : g[b].id = h[b].id /\ OrderAt(g, b) = OrderAt(h, b)
  <2>1. Added(h, orders, o, new[0], g)
    BY <1>5, Decoding
  <2>2. QED
    BY <1>4, <2>1 DEF Added
<1>7. DOMAIN g = AndItems(g, orders \cup {a})
  <2>1. PICK own : own = {a}
    OBVIOUS
  <2>2. DOMAIN g = DOMAIN h \cup AndItems(g, own)
    BY <1>6, <2>1
  <2>3. DOMAIN g = AndItems(g, orders \cup own)
    <3>1. /\ Whole(h, orders) /\ DOMAIN h = AndItems(h, orders)
          /\ \A x \in DOMAIN h : x \in DOMAIN g /\ g[x] = h[x]
      BY <1>5, <1>6
    <3>2. QED
      BY <2>2, <3>1, HeapGrown
  <2>4. QED
    BY <2>1, <2>3
<1>8. request' = [request EXCEPT ![u] = a] /\ request \in [Updaters -> Nat \cup {NoOrder}]
  BY <1>3, <1>4 DEF ObjectsInv, PointersOK
<1>9. InMap' = InMap /\ InMessages' = InMessages
  BY <1>2 DEF InMap, InMessages
<1>10. InRequests' = InRequests \cup {a}
  <2>1. a # NoOrder
    BY <1>6, NullAssumption
  <2>2. request'[u] = a /\ \A v \in Updaters : v # u => request'[v] = request[v]
    BY <1>8
  <2>3. \A b : b \in InRequests <=> \E v \in Updaters : b = request[v] /\ b # NoOrder
    BY DEF InRequests
  <2>4. \A b : b \in InRequests' <=> \E v \in Updaters : b = request'[v] /\ b # NoOrder
    BY DEF InRequests
  <2>5. \A b : b \in InRequests' <=> b \in InRequests \/ b = a
    BY <1>1, <2>1, <2>2, <2>3, <2>4
  <2>6. QED
    BY <2>5
<1>11. OrderObjects' = orders \cup {a}
  BY <1>4, <1>9, <1>10 DEF OrderObjects
<1>12. HeapOK'
  BY <1>4, <1>6, <1>7, <1>11 DEF HeapOK
<1>13. PointersOK'
  <2>1. request' \in [Updaters -> Nat \cup {NoOrder}]
    BY <1>6, <1>8
  <2>2. served' \subseteq {v \in Updaters : request'[v] # NoOrder}
    BY <1>1, <1>8 DEF ObjectsInv, PointersOK
  <2>3. QED
    BY <1>2, <2>1, <2>2 DEF ObjectsInv, PointersOK
<1>14. \A b \in OrderObjects :
         heap'[b].id = heap[b].id /\ OrderAt(heap', b) = OrderAt(heap, b)
  BY <1>4, <1>6
<1>15. KeptUnderId'
  BY <1>2, <1>14, Pointed DEF ObjectsInv, KeptUnderId
<1>16. Submitted'
  <2> SUFFICES ASSUME NEW v \in Updaters, request'[v] # NoOrder
               PROVE  OrderAt(heap', request'[v]) \in NewOrders
    BY DEF Submitted
  <2>1. CASE v = u
    <3>1. request'[v] = a
      BY <1>8, <2>1
    <3>2. QED
      BY <1>3, <1>4, <1>6, <3>1
  <2>2. CASE v # u
    <3>1. request'[v] = request[v]
      BY <1>8, <2>2
    <3>2. request[v] \in OrderObjects
      BY <3>1, Pointed
    <3>3. QED
      BY <1>14, <3>1, <3>2 DEF ObjectsInv, Submitted
  <2>3. QED
    BY <2>1, <2>2
<1>17. InMap' \cap (InRequests' \cup InMessages') = {}
  <2>1. a \notin InMap
    BY <1>4, <1>6 DEF OrderObjects
  <2>2. QED
    BY <1>9, <1>10, <2>1 DEF ObjectsInv
<1>18. NoEarlyBacklog'
  BY <1>2 DEF ObjectsInv, NoEarlyBacklog
<1>19. ObjectsInv'
  BY <1>12, <1>13, <1>15, <1>16, <1>17, <1>18 DEF ObjectsInv
<1>20. UNCHANGED <<OrderValues, QueueValues, BacklogValues>>
  <2>1. \A b \in InMap \cup InMessages :
          heap'[b].id = heap[b].id /\ OrderAt(heap', b) = OrderAt(heap, b)
    BY <1>14 DEF OrderObjects
  <2>2. PointersOK
    BY DEF ObjectsInv
  <2>3. QED
    BY <1>2, <2>1, <2>2, ValuesStay
<1>21. QED
  BY <1>1, <1>19, <1>20 DEF vars, ByValue!vars

-------------------------------------------------------------------------------
(* The thread of a display connection *)

LEMMA SameLiveIds ==
  ASSUME ObjectsInv
  PROVE  /\ ByValue!LiveIds = LiveIds
         /\ IsFiniteSet(LiveIds)
         /\ \A id \in LiveIds : id \in OrderIds /\ my_orders[id] # NoOrder
<1>1. \A id \in OrderIds : OrderValues[id] # NoOrder <=> my_orders[id] # NoOrder
  BY ValuesOfOrders DEF OrderValues
<1>2. ByValue!LiveIds = LiveIds
  BY <1>1, SameOperators DEF ByValue!LiveIds, LiveIds
<1>3. IsFiniteSet(OrderIds)
  <2>1. FirstOrderId \in Int /\ FirstOrderId + MaxOrders - 1 \in Int
    BY MaxOrdersAssumption DEF FirstOrderId
  <2>2. QED
    BY <2>1, FS_Interval DEF OrderIds
<1>4. IsFiniteSet(LiveIds)
  BY <1>3, FS_Subset DEF LiveIds
<1>5. QED
  BY <1>2, <1>4 DEF LiveIds

(* A listing of the orders leads to orders in the map. *)
LEMMA ListingOfOrders ==
  ASSUME ObjectsInv, NEW ids \in Listings(LiveIds), NEW n, n = Cardinality(LiveIds)
  PROVE  /\ n \in Nat /\ DOMAIN ids = 1 .. n
         /\ \A k \in 1 .. n :
              /\ ids[k] \in OrderIds /\ my_orders[ids[k]] # NoOrder
              /\ my_orders[ids[k]] \in OrderObjects
<1>1. n \in Nat
  BY SameLiveIds, FS_CardinalityType
<1>2. ids \in [1 .. n -> LiveIds]
  BY DEF Listings
<1>3. \A k \in 1 .. n : ids[k] \in OrderIds /\ my_orders[ids[k]] # NoOrder
  BY <1>2, SameLiveIds
<1>4. QED
  BY <1>1, <1>2, <1>3, Pointed

(* Messages with copies of orders read as the orders. *)
ReadAsCopied(h, n, from, c, msgs) ==
  /\ msgs \in Seq(MessageObject)
  /\ OrdersOf(msgs) = {c.copy[k] : k \in 1 .. n}
  /\ EncodedAll(c.heap, msgs) =
       [k \in 1 .. n |-> DispOrder(h[from[k]].id, OrderAt(h, from[k]))]

LEMMA MessagesOfCopies ==
  ASSUME NEW h, NEW orders, NEW n \in Nat, NEW from, NEW c,
         Copied(h, orders, 1 .. n, from, c),
         NEW msgs, msgs = [k \in 1 .. n |-> OrderPointer(c.copy[k])]
  PROVE  ReadAsCopied(h, n, from, c, msgs)
<1>1. \A k \in 1 .. n : c.copy[k] \in Nat
  BY DEF Copied
<1>2. DOMAIN msgs = 1 .. n /\ \A k \in 1 .. n : msgs[k] = OrderPointer(c.copy[k])
  OBVIOUS
<1>3. msgs \in [1 .. n -> MessageObject]
  BY <1>1 DEF MessageObject
<1>4. msgs \in Seq(MessageObject)
  BY <1>3, ListIsSeq
<1>5. OrdersOf(msgs) = {c.copy[k] : k \in 1 .. n}
  <2>1. \A k \in 1 .. n : msgs[k].type = "DISP_ORDER" /\ msgs[k].order = c.copy[k]
    BY <1>2, UpdatesHaveNoOrder
  <2>2. QED
    BY <1>2, <2>1 DEF OrdersOf
<1>6. \A k \in 1 .. n :
        Encoded(c.heap, msgs[k]) = DispOrder(h[from[k]].id, OrderAt(h, from[k]))
  <2>1. \A k \in 1 .. n : /\ c.heap[c.copy[k]].id = h[from[k]].id
                          /\ OrderAt(c.heap, c.copy[k]) = OrderAt(h, from[k])
    BY DEF Copied
  <2>2. \A k \in 1 .. n : msgs[k].type = "DISP_ORDER" /\ msgs[k].order = c.copy[k]
    BY <1>2, UpdatesHaveNoOrder
  <2>3. QED
    BY <2>1, <2>2 DEF Encoded
<1>7. EncodedAll(c.heap, msgs) =
        [k \in 1 .. n |-> DispOrder(h[from[k]].id, OrderAt(h, from[k]))]
  BY <1>2, <1>6 DEF EncodedAll
<1>8. QED
  BY <1>4, <1>5, <1>7 DEF ReadAsCopied

(* The orders that displays get to see are copies of those in the map. *)
LEMMA SnapshotStep ==
  ASSUME ObjectsInv, NEW d \in Displays, SnapshotOrders(d)
  PROVE  ObjectsInv' /\ ByValue!snapshot_orders(d)
<1>1. /\ phase[d] = "joined" /\ phase' = [phase EXCEPT ![d] = "stream"]
      /\ UNCHANGED <<serverVars, my_clients, queue, sock, peer, screen, request,
                     served>>
  BY DEF SnapshotOrders
<1>2. UNCHANGED <<next_order_id, my_orders, my_clients, queue, request, served>>
  BY <1>1 DEF serverVars
<1>3. PICK ids \in Listings(LiveIds) :
        LET made == duplicate(heap, [k \in DOMAIN ids |-> my_orders[ids[k]]])
        IN  /\ backlog' = [backlog EXCEPT ![d] =
                 [k \in DOMAIN ids |-> OrderPointer(made.copy[k])]]
            /\ heap' = made.heap
  BY DEF SnapshotOrders
<1>4. PICK n : n = Cardinality(LiveIds)
  OBVIOUS
<1>5. /\ n \in Nat /\ DOMAIN ids = 1 .. n
      /\ \A k \in 1 .. n :
           /\ ids[k] \in OrderIds /\ my_orders[ids[k]] # NoOrder
           /\ my_orders[ids[k]] \in OrderObjects
  BY <1>4, ListingOfOrders
<1>6. PICK h, orders : h = heap /\ orders = OrderObjects
  OBVIOUS
<1>7. PICK from : from = [k \in 1 .. n |-> my_orders[ids[k]]]
  OBVIOUS
<1>8. PICK c : c = duplicate(h, from)
  OBVIOUS
<1>9. PICK msgs : msgs = [k \in 1 .. n |-> OrderPointer(c.copy[k])]
  OBVIOUS
<1>10. backlog' = [backlog EXCEPT ![d] = msgs] /\ heap' = c.heap
  <2>1. duplicate(heap, [k \in DOMAIN ids |-> my_orders[ids[k]]]) = c
    BY <1>5, <1>6, <1>7, <1>8
  <2>2. QED
    BY <1>3, <1>5, <1>9, <2>1
<1>11. /\ IsFiniteSet(DOMAIN h) /\ DOMAIN h = AndItems(h, orders)
       /\ Whole(h, orders)
  BY <1>6 DEF ObjectsInv, HeapOK
<1>12. Copied(h, orders, 1 .. n, from, c)
  <2>1. from \in [1 .. n -> orders]
    BY <1>5, <1>6, <1>7
  <2>2. 1 \in Int /\ n \in Int
    BY <1>5
  <2>3. IsFiniteSet(1 .. n)
    BY <2>2, FS_Interval
  <2>4. QED
    BY <1>8, <1>11, <2>1, <2>3, Copying
<1>13. PICK copies, g : copies = {c.copy[k] : k \in 1 .. n} /\ g = c.heap
  OBVIOUS
<1>14. /\ IsFiniteSet(DOMAIN g)
       /\ \A x \in DOMAIN h : x \in DOMAIN g /\ g[x] = h[x]
       /\ DOMAIN g = DOMAIN h \cup AndItems(g, copies)
       /\ \A a \in copies : a \in Nat \ DOMAIN h
       /\ Whole(g, orders \cup copies)
       /\ \A a \in orders : g[a].id = h[a].id /\ OrderAt(g, a) = OrderAt(h, a)
  <2>1. /\ IsFiniteSet(DOMAIN g)
        /\ \A x \in DOMAIN h : x \in DOMAIN g /\ g[x] = h[x]
        /\ DOMAIN g = DOMAIN h \cup AndItems(g, copies)
        /\ c.copy \in [1 .. n -> Nat \ DOMAIN h]
        /\ Whole(g, orders \cup copies)
        /\ \A a \in orders : g[a].id = h[a].id /\ OrderAt(g, a) = OrderAt(h, a)
    BY <1>12, <1>13, Zenon DEF Copied
  <2>2. \A k \in 1 .. n : c.copy[k] \in Nat \ DOMAIN h
    BY <2>1
  <2>3. \A a \in copies : a \in Nat \ DOMAIN h
    BY <1>13, <2>2
  <2>4. QED
    BY <2>1, <2>3
<1>15. /\ msgs \in Seq(MessageObject) /\ OrdersOf(msgs) = copies
       /\ EncodedAll(g, msgs) =
            [k \in 1 .. n |-> DispOrder(h[from[k]].id, OrderAt(h, from[k]))]
  <2>1. n \in Nat
    BY <1>5
  <2>2. ReadAsCopied(h, n, from, c, msgs)
    BY <1>9, <1>12, <2>1, MessagesOfCopies
  <2>3. QED
    BY <1>13, <2>2 DEF ReadAsCopied
<1>16. DOMAIN g = AndItems(g, orders \cup copies)
  <2>1. /\ Whole(h, orders) /\ DOMAIN h = AndItems(h, orders)
        /\ \A x \in DOMAIN h : x \in DOMAIN g /\ g[x] = h[x]
    BY <1>11, <1>14
  <2>2. DOMAIN g = DOMAIN h \cup AndItems(g, copies)
    BY <1>14
  <2>3. QED
    BY <2>1, <2>2, HeapGrown
<1>17. backlog \in [Displays -> Seq(MessageObject)] /\ backlog[d] = << >>
  BY <1>1 DEF ObjectsInv, PointersOK, NoEarlyBacklog
<1>18. /\ backlog'[d] = msgs
       /\ \A e \in Displays : e # d => backlog'[e] = backlog[e]
  BY <1>10, <1>17
<1>19. InMap' = InMap /\ InRequests' = InRequests
  BY <1>2 DEF InMap, InRequests
<1>20. InMessages' = InMessages \cup copies
  <2>1. OrdersOf(<< >>) = {}
    BY DEF OrdersOf
  <2>2. \A e \in Displays : e # d => OrdersOf(backlog'[e]) = OrdersOf(backlog[e])
    BY <1>18
  <2>3. OrdersOf(backlog'[d]) = copies /\ OrdersOf(backlog[d]) = {}
    BY <1>15, <1>17, <1>18, <2>1
  <2>4. \A a : a \in InMessages <=>
          \E e \in Displays : a \in OrdersOf(queue[e]) \/ a \in OrdersOf(backlog[e])
    BY DEF InMessages
  <2>5. \A a : a \in InMessages' <=>
          \E e \in Displays : a \in OrdersOf(queue[e]) \/ a \in OrdersOf(backlog'[e])
    BY <1>2 DEF InMessages
  <2>6. \A a : a \in InMessages' <=> a \in InMessages \/ a \in copies
    BY <2>2, <2>3, <2>4, <2>5
  <2>7. QED
    BY <2>6
<1>21. OrderObjects' = orders \cup copies
  BY <1>6, <1>19, <1>20 DEF OrderObjects
<1>22. HeapOK'
  BY <1>10, <1>13, <1>14, <1>16, <1>21 DEF HeapOK
<1>23. PointersOK'
  <2>1. backlog' \in [Displays -> Seq(MessageObject)]
    BY <1>10, <1>15, <1>17
  <2>2. phase' \in [Displays -> {"idle", "login", "joined", "stream", "failed"}]
    BY <1>1 DEF ObjectsInv, PointersOK
  <2>3. QED
    BY <1>2, <2>1, <2>2 DEF ObjectsInv, PointersOK
<1>24. NoEarlyBacklog'
  <2>1. \A e \in Displays : e # d => phase'[e] = phase[e]
    BY <1>1 DEF ObjectsInv, PointersOK
  <2>2. phase'[d] = "stream"
    BY <1>1 DEF ObjectsInv, PointersOK
  <2>3. QED
    BY <1>18, <2>1, <2>2 DEF ObjectsInv, NoEarlyBacklog
<1>25. \A a \in OrderObjects : /\ heap'[a].id = heap[a].id
                               /\ OrderAt(heap', a) = OrderAt(heap, a)
  BY <1>6, <1>10, <1>13, <1>14
<1>26. KeptUnderId' /\ Submitted'
  BY <1>2, <1>25, Pointed DEF ObjectsInv, KeptUnderId, Submitted
<1>27. InMap' \cap (InRequests' \cup InMessages') = {}
  <2>1. \A a \in InMap : a \in DOMAIN h
    BY <1>6, <1>11, Pointed, AndItemsMembers
  <2>2. QED
    BY <1>14, <1>19, <1>20, <2>1 DEF ObjectsInv
<1>28. ObjectsInv'
  BY <1>22, <1>23, <1>24, <1>26, <1>27 DEF ObjectsInv
<1>29. OrderValues' = OrderValues /\ QueueValues' = QueueValues
  <2>1. \A a \in InMap \cup InMessages : /\ heap'[a].id = heap[a].id
                                         /\ OrderAt(heap', a) = OrderAt(heap, a)
    BY <1>25, Pointed
  <2>2. QED
    BY <1>2, <2>1, ValuesStay
<1>30. BacklogValues' = [BacklogValues EXCEPT ![d] = ByValue!Copies(ids)]
  <2>1. \A e \in Displays : e # d =>
          EncodedAll(heap', backlog'[e]) = EncodedAll(heap, backlog[e])
    <3>1. \A a \in InMessages : /\ heap'[a].id = heap[a].id
                                /\ OrderAt(heap', a) = OrderAt(heap, a)
      BY <1>25, Pointed
    <3>2. QED
      BY <1>18, <3>1, MessagesStay
  <2>2. EncodedAll(heap', backlog'[d]) = ByValue!Copies(ids)
    <3>1. \A k \in 1 .. n :
            DispOrder(h[from[k]].id, OrderAt(h, from[k]))
              = ByValue!DispOrder(ids[k], OrderValues[ids[k]])
      <4> SUFFICES ASSUME NEW k \in 1 .. n
                   PROVE  DispOrder(h[from[k]].id, OrderAt(h, from[k]))
                            = ByValue!DispOrder(ids[k], OrderValues[ids[k]])
        OBVIOUS
      <4>1. ids[k] \in OrderIds /\ my_orders[ids[k]] # NoOrder
            /\ from[k] = my_orders[ids[k]]
        BY <1>5, <1>7
      <4>2. /\ OrderValues[ids[k]] = OrderAt(heap, my_orders[ids[k]])
            /\ heap[my_orders[ids[k]]].id = ids[k]
        BY <4>1, ValuesOfOrders
      <4>3. QED
        BY <1>6, <4>1, <4>2, SameOperators
    <3>2. ByValue!Copies(ids) =
            [k \in 1 .. n |-> ByValue!DispOrder(ids[k], OrderValues[ids[k]])]
      BY <1>5 DEF ByValue!Copies
    <3>3. EncodedAll(heap', backlog'[d]) =
            [k \in 1 .. n |-> DispOrder(h[from[k]].id, OrderAt(h, from[k]))]
      BY <1>10, <1>13, <1>15, <1>18
    <3>4. QED
      BY <3>1, <3>2, <3>3
  <2>3. BacklogValues' = [e \in Displays |-> EncodedAll(heap', backlog'[e])]
        /\ BacklogValues = [e \in Displays |-> EncodedAll(heap, backlog[e])]
    BY DEF BacklogValues
  <2>4. QED
    BY <2>1, <2>2, <2>3
<1>31. ByValue!snapshot_orders(d)
  <2>1. ids \in ByValue!Listings(ByValue!LiveIds)
    <3>1. ByValue!Cardinality(LiveIds) = Cardinality(LiveIds)
      BY DEF ByValue!Cardinality, Cardinality
    <3>2. QED
      BY <3>1, SameLiveIds DEF Listings, ByValue!Listings
  <2>2. UNCHANGED <<ByValue!serverVars, my_clients, QueueValues, sock, peer, screen>>
    BY <1>1, <1>2, <1>29 DEF ByValue!serverVars
  <2>3. QED
    BY <1>1, <1>30, <2>1, <2>2 DEF ByValue!snapshot_orders
<1>32. QED
  BY <1>28, <1>31

(* A step that only takes messages away, and the orders in them. *)
LEMMA MessagesGo ==
  ASSUME ObjectsInv, UNCHANGED <<my_orders, request, served>>, Collect(heap),
         my_clients' \in SUBSET my_clients,
         phase' \in [Displays -> {"idle", "login", "joined", "stream", "failed"}],
         queue' \in [Displays -> Seq(MessageObject)],
         backlog' \in [Displays -> Seq(MessageObject)],
         \A d \in Displays : /\ OrdersOf(queue'[d]) \subseteq OrdersOf(queue[d])
                             /\ OrdersOf(backlog'[d]) \subseteq OrdersOf(backlog[d]),
         NoEarlyBacklog'
  PROVE  /\ ObjectsInv'
         /\ OrderValues' = OrderValues
         /\ \A d \in Displays :
              /\ EncodedAll(heap', queue'[d]) = EncodedAll(heap, queue'[d])
              /\ EncodedAll(heap', backlog'[d]) = EncodedAll(heap, backlog'[d])
<1>1. InMap' = InMap /\ InRequests' = InRequests
  BY DEF InMap, InRequests
<1>2. InMessages' \subseteq InMessages
  BY DEF InMessages
<1>3. OrderObjects' \subseteq OrderObjects
  BY <1>1, <1>2 DEF OrderObjects
<1>4. /\ HeapOK'
      /\ \A a \in OrderObjects' : /\ heap'[a].id = heap[a].id
                                  /\ OrderAt(heap', a) = OrderAt(heap, a)
  <2>1. PICK h, orders : h = heap /\ orders = OrderObjects
    OBVIOUS
  <2>2. IsFiniteSet(DOMAIN h) /\ Whole(h, orders)
    BY <2>1 DEF ObjectsInv, HeapOK
  <2>3. OrderObjects' \subseteq orders /\ Collect(h)
    BY <1>3, <2>1
  <2>4. QED
    BY <2>1, <2>2, <2>3, Collected
<1>5. InMap \subseteq OrderObjects' /\ InRequests \subseteq OrderObjects'
      /\ InMessages' \subseteq OrderObjects'
  BY <1>1 DEF OrderObjects
<1>6. PointersOK'
  <2>1. my_clients' \subseteq Displays /\ IsFiniteSet(my_clients')
    BY FS_Subset DEF ObjectsInv, PointersOK
  <2>2. QED
    BY <2>1 DEF ObjectsInv, PointersOK
<1>7. KeptUnderId'
  BY <1>4, <1>5, Pointed DEF ObjectsInv, KeptUnderId
<1>8. Submitted'
  BY <1>4, <1>5, Pointed DEF ObjectsInv, Submitted
<1>9. ObjectsInv'
  BY <1>1, <1>2, <1>4, <1>6, <1>7, <1>8 DEF ObjectsInv
<1>10. OrderValues' = OrderValues
  BY <1>4, <1>5, OrdersStay
<1>11. \A d \in Displays :
         /\ EncodedAll(heap', queue'[d]) = EncodedAll(heap, queue'[d])
         /\ EncodedAll(heap', backlog'[d]) = EncodedAll(heap, backlog'[d])
  <2>1. PICK h : h = heap
    OBVIOUS
  <2>2. \A a \in InMessages' : /\ heap'[a].id = h[a].id
                               /\ OrderAt(heap', a) = OrderAt(h, a)
    BY <1>4, <1>5, <2>1
  <2>3. QED
    BY <2>1, <2>2, MessagesRead
<1>12. QED
  BY <1>9, <1>10, <1>11

(* What the instance sends is the message's encoding. *)
LEMMA SameSend ==
  ASSUME NEW d \in Displays, NEW m, send_msg(d, m)
  PROVE  ByValue!send_msg(d, m)
BY DEF send_msg, ByValue!send_msg

(* A message of the snapshot goes out and its order goes. *)
LEMMA SendOrderStep ==
  ASSUME ObjectsInv, NEW d \in Displays, SendOrderOfSnapshot(d)
  PROVE  ObjectsInv' /\ ByValue!SendSnapshot(d)
<1>1. /\ phase[d] = "stream" /\ backlog[d] # << >>
      /\ send_msg(d, Encoded(heap, Head(backlog[d])))
      /\ backlog' = [backlog EXCEPT ![d] = Tail(@)]
      /\ UNCHANGED <<serverVars, my_clients, phase, queue, screen, request, served>>
      /\ Collect(heap)
  BY DEF SendOrderOfSnapshot
<1>2. UNCHANGED <<my_orders, request, served, queue, phase, my_clients>>
  BY <1>1 DEF serverVars
<1>3. PICK b, h : b = backlog[d] /\ h = heap
  OBVIOUS
<1>4. /\ phase \in [Displays -> {"idle", "login", "joined", "stream", "failed"}]
      /\ queue \in [Displays -> Seq(MessageObject)]
      /\ backlog \in [Displays -> Seq(MessageObject)]
  BY DEF ObjectsInv, PointersOK
<1>5. b \in Seq(MessageObject) /\ b # << >>
  BY <1>1, <1>3, <1>4
<1>6. Tail(b) \in Seq(MessageObject)
  BY <1>5
<1>7. /\ backlog'[d] = Tail(b)
      /\ \A e \in Displays : e # d => backlog'[e] = backlog[e]
      /\ backlog' \in [Displays -> Seq(MessageObject)]
  BY <1>1, <1>3, <1>4, <1>6
<1>8. NoEarlyBacklog'
  BY <1>1, <1>2, <1>7 DEF ObjectsInv, NoEarlyBacklog
<1>9. \A e \in Displays : /\ OrdersOf(queue'[e]) \subseteq OrdersOf(queue[e])
                          /\ OrdersOf(backlog'[e]) \subseteq OrdersOf(backlog[e])
  <2>1. OrdersOf(Tail(b)) \subseteq OrdersOf(b)
    BY <1>5, OrdersOfTail
  <2>2. QED
    BY <1>2, <1>3, <1>7, <2>1
<1>10. /\ ObjectsInv'
       /\ OrderValues' = OrderValues
       /\ \A e \in Displays :
            /\ EncodedAll(heap', queue'[e]) = EncodedAll(heap, queue'[e])
            /\ EncodedAll(heap', backlog'[e]) = EncodedAll(heap, backlog'[e])
  <2>1. my_clients' \in SUBSET my_clients
    BY <1>2
  <2>2. QED
    BY <1>1, <1>2, <1>4, <1>7, <1>8, <1>9, <2>1, MessagesGo
<1>11. /\ EncodedAll(h, b) # << >>
       /\ Head(EncodedAll(h, b)) = Encoded(h, Head(b))
       /\ EncodedAll(h, Tail(b)) = Tail(EncodedAll(h, b))
  BY <1>5, EncodedTail
<1>12. BacklogValues[d] = EncodedAll(h, b)
  BY <1>3 DEF BacklogValues
<1>13. QueueValues' = QueueValues
  BY <1>2, <1>10 DEF QueueValues
<1>14. BacklogValues' = [BacklogValues EXCEPT ![d] = Tail(@)]
  <2>1. BacklogValues' = [e \in Displays |-> EncodedAll(heap', backlog'[e])]
        /\ BacklogValues = [e \in Displays |-> EncodedAll(heap, backlog[e])]
    BY DEF BacklogValues
  <2>2. EncodedAll(heap', backlog'[d]) = Tail(EncodedAll(heap, backlog[d]))
    BY <1>3, <1>7, <1>10, <1>11
  <2>3. \A e \in Displays : e # d =>
          EncodedAll(heap', backlog'[e]) = EncodedAll(heap, backlog[e])
    BY <1>7, <1>10
  <2>4. QED
    BY <2>1, <2>2, <2>3
<1>15. ByValue!send_msg(d, Head(BacklogValues[d]))
  BY <1>1, <1>3, <1>11, <1>12, SameSend
<1>16. ByValue!SendSnapshot(d)
  <2>1. UNCHANGED <<ByValue!serverVars, my_clients, phase, QueueValues, screen>>
    BY <1>1, <1>10, <1>13 DEF serverVars, ByValue!serverVars
  <2>2. BacklogValues[d] # << >>
    BY <1>11, <1>12
  <2>3. QED
    BY <1>1, <1>14, <1>15, <2>1, <2>2 DEF ByValue!SendSnapshot
<1>17. QED
  BY <1>10, <1>16

(* So does a message of the queue. *)
LEMMA SendMessageStep ==
  ASSUME ObjectsInv, NEW d \in Displays, SendMessageOfQueue(d)
  PROVE  ObjectsInv' /\ ByValue!SendQueued(d)
<1>1. /\ phase[d] = "stream" /\ backlog[d] = << >> /\ queue[d] # << >>
      /\ send_msg(d, Encoded(heap, Head(queue[d])))
      /\ queue' = [queue EXCEPT ![d] = Tail(@)]
      /\ UNCHANGED <<serverVars, my_clients, phase, backlog, screen, request, served>>
      /\ Collect(heap)
  BY DEF SendMessageOfQueue
<1>2. UNCHANGED <<my_orders, request, served, backlog, phase, my_clients>>
  BY <1>1 DEF serverVars
<1>3. PICK q, h : q = queue[d] /\ h = heap
  OBVIOUS
<1>4. /\ phase \in [Displays -> {"idle", "login", "joined", "stream", "failed"}]
      /\ queue \in [Displays -> Seq(MessageObject)]
      /\ backlog \in [Displays -> Seq(MessageObject)]
  BY DEF ObjectsInv, PointersOK
<1>5. q \in Seq(MessageObject) /\ q # << >>
  BY <1>1, <1>3, <1>4
<1>6. Tail(q) \in Seq(MessageObject)
  BY <1>5
<1>7. /\ queue'[d] = Tail(q)
      /\ \A e \in Displays : e # d => queue'[e] = queue[e]
      /\ queue' \in [Displays -> Seq(MessageObject)]
  BY <1>1, <1>3, <1>4, <1>6
<1>8. NoEarlyBacklog'
  BY <1>2 DEF ObjectsInv, NoEarlyBacklog
<1>9. \A e \in Displays : /\ OrdersOf(queue'[e]) \subseteq OrdersOf(queue[e])
                          /\ OrdersOf(backlog'[e]) \subseteq OrdersOf(backlog[e])
  <2>1. OrdersOf(Tail(q)) \subseteq OrdersOf(q)
    BY <1>5, OrdersOfTail
  <2>2. QED
    BY <1>2, <1>3, <1>7, <2>1
<1>10. /\ ObjectsInv'
       /\ OrderValues' = OrderValues
       /\ \A e \in Displays :
            /\ EncodedAll(heap', queue'[e]) = EncodedAll(heap, queue'[e])
            /\ EncodedAll(heap', backlog'[e]) = EncodedAll(heap, backlog'[e])
  <2>1. my_clients' \in SUBSET my_clients
    BY <1>2
  <2>2. QED
    BY <1>1, <1>2, <1>4, <1>7, <1>8, <1>9, <2>1, MessagesGo
<1>11. /\ EncodedAll(h, q) # << >>
       /\ Head(EncodedAll(h, q)) = Encoded(h, Head(q))
       /\ EncodedAll(h, Tail(q)) = Tail(EncodedAll(h, q))
  BY <1>5, EncodedTail
<1>12. QueueValues[d] = EncodedAll(h, q)
  BY <1>3 DEF QueueValues
<1>13. BacklogValues' = BacklogValues
  BY <1>2, <1>10 DEF BacklogValues
<1>14. QueueValues' = [QueueValues EXCEPT ![d] = Tail(@)]
  <2>1. QueueValues' = [e \in Displays |-> EncodedAll(heap', queue'[e])]
        /\ QueueValues = [e \in Displays |-> EncodedAll(heap, queue[e])]
    BY DEF QueueValues
  <2>2. EncodedAll(heap', queue'[d]) = Tail(EncodedAll(heap, queue[d]))
    BY <1>3, <1>7, <1>10, <1>11
  <2>3. \A e \in Displays : e # d =>
          EncodedAll(heap', queue'[e]) = EncodedAll(heap, queue[e])
    BY <1>7, <1>10
  <2>4. QED
    BY <2>1, <2>2, <2>3
<1>15. ByValue!send_msg(d, Head(QueueValues[d]))
  BY <1>1, <1>3, <1>11, <1>12, SameSend
<1>16. ByValue!SendQueued(d)
  <2>1. UNCHANGED <<ByValue!serverVars, my_clients, phase, BacklogValues, screen>>
    BY <1>1, <1>10, <1>13 DEF serverVars, ByValue!serverVars
  <2>2. QueueValues[d] # << >> /\ BacklogValues[d] = << >>
    BY <1>1, <1>11, <1>12, EncodedEmpty DEF BacklogValues
  <2>3. QED
    BY <1>1, <1>14, <1>15, <2>1, <2>2 DEF ByValue!SendQueued
<1>17. QED
  BY <1>10, <1>16

(* With a Client go all the messages it still had, and their orders. *)
LEMMA DestroyStep ==
  ASSUME ObjectsInv, NEW d \in Displays, DestroyClient(d)
  PROVE  ObjectsInv' /\ ByValue!remove_client(d)
<1>1. /\ phase[d] = "failed" /\ my_clients' = my_clients \ {d}
      /\ phase'   = [phase   EXCEPT ![d] = "idle"]
      /\ queue'   = [queue   EXCEPT ![d] = << >>]
      /\ backlog' = [backlog EXCEPT ![d] = << >>]
      /\ peer'    = [peer    EXCEPT ![d] = "closed"]
      /\ UNCHANGED <<serverVars, sock, screen, request, served>>
      /\ Collect(heap)
  BY DEF DestroyClient, remove_client
<1>2. UNCHANGED <<my_orders, request, served>>
  BY <1>1 DEF serverVars
<1>3. /\ phase \in [Displays -> {"idle", "login", "joined", "stream", "failed"}]
      /\ queue \in [Displays -> Seq(MessageObject)]
      /\ backlog \in [Displays -> Seq(MessageObject)]
  BY DEF ObjectsInv, PointersOK
<1>4. /\ queue'[d] = << >> /\ backlog'[d] = << >>
      /\ \A e \in Displays : e # d => /\ queue'[e] = queue[e]
                                      /\ backlog'[e] = backlog[e]
                                      /\ phase'[e] = phase[e]
  BY <1>1, <1>3
<1>5. /\ phase' \in [Displays -> {"idle", "login", "joined", "stream", "failed"}]
      /\ queue' \in [Displays -> Seq(MessageObject)]
      /\ backlog' \in [Displays -> Seq(MessageObject)]
  <2>1. << >> \in Seq(MessageObject)
    OBVIOUS
  <2>2. QED
    BY <1>1, <1>3, <2>1
<1>6. NoEarlyBacklog'
  BY <1>4 DEF ObjectsInv, NoEarlyBacklog
<1>7. \A e \in Displays : /\ OrdersOf(queue'[e]) \subseteq OrdersOf(queue[e])
                          /\ OrdersOf(backlog'[e]) \subseteq OrdersOf(backlog[e])
  <2>1. OrdersOf(<< >>) = {}
    BY DEF OrdersOf
  <2>2. QED
    BY <1>4, <2>1
<1>8. /\ ObjectsInv'
      /\ OrderValues' = OrderValues
      /\ \A e \in Displays :
           /\ EncodedAll(heap', queue'[e]) = EncodedAll(heap, queue'[e])
           /\ EncodedAll(heap', backlog'[e]) = EncodedAll(heap, backlog'[e])
  <2>1. my_clients' \in SUBSET my_clients
    BY <1>1
  <2>2. QED
    BY <1>1, <1>2, <1>5, <1>6, <1>7, <2>1, MessagesGo
<1>9. /\ EncodedAll(heap', queue'[d]) = << >>
      /\ EncodedAll(heap', backlog'[d]) = << >>
  BY <1>4, EncodedEmpty
<1>10. \A e \in Displays : e # d =>
         /\ EncodedAll(heap', queue'[e]) = EncodedAll(heap, queue[e])
         /\ EncodedAll(heap', backlog'[e]) = EncodedAll(heap, backlog[e])
  BY <1>4, <1>8
<1>11. QueueValues' = [QueueValues EXCEPT ![d] = << >>]
  BY <1>9, <1>10 DEF QueueValues
<1>12. BacklogValues' = [BacklogValues EXCEPT ![d] = << >>]
  BY <1>9, <1>10 DEF BacklogValues
<1>13. ByValue!remove_client(d)
  BY <1>1, <1>8, <1>11, <1>12
     DEF ByValue!remove_client, serverVars, ByValue!serverVars
<1>14. QED
  BY <1>8, <1>13

-------------------------------------------------------------------------------
(* Updates *)

(* A message about an update has no order, and so no pointer. *)
LEMMA UpdateMessages ==
  /\ \A id \in OrderIds, i \in ItemIds, s \in ItemStatus :
       <<DispItemUpdate(id, i, s)>> \in Seq(MessageObject)
  /\ \A id \in OrderIds, s \in OrderStatus :
       <<DispOrderUpdate(id, s)>> \in Seq(MessageObject)
  /\ \A id \in OrderIds, i \in ItemIds, s \in ItemStatus, st \in OrderStatus :
       <<DispItemUpdate(id, i, s), DispOrderUpdate(id, st)>> \in Seq(MessageObject)
<1>1. \A id \in OrderIds, i \in ItemIds, s \in ItemStatus :
        DispItemUpdate(id, i, s) \in MessageObject
  BY DEF MessageObject
<1>2. \A id \in OrderIds, s \in OrderStatus : DispOrderUpdate(id, s) \in MessageObject
  BY DEF MessageObject
<1>3. \A m, n \in MessageObject : /\ <<m>> \in Seq(MessageObject)
                                  /\ <<m, n>> \in Seq(MessageObject)
  OBVIOUS
<1>4. QED
  BY <1>1, <1>2, <1>3

(* broadcast of an update adds no pointer to an order. *)
LEMMA UpdatePointers ==
  ASSUME ObjectsInv, NEW msgs \in Seq(MessageObject),
         \A k \in DOMAIN msgs : msgs[k].type # "DISP_ORDER",
         broadcast(msgs)
  PROVE  /\ queue' \in [Displays -> Seq(MessageObject)]
         /\ \A d \in Displays : OrdersOf(queue'[d]) = OrdersOf(queue[d])
<1>1. queue \in [Displays -> Seq(MessageObject)]
  BY DEF ObjectsInv, PointersOK
<1>2. queue' = [d \in Displays |-> IF d \in my_clients THEN queue[d] \o msgs
                                   ELSE queue[d]]
  BY DEF broadcast
<1>3. \A d \in Displays : queue[d] \o msgs \in Seq(MessageObject)
  BY <1>1
<1>4. queue' \in [Displays -> Seq(MessageObject)]
  BY <1>1, <1>2, <1>3
<1>5. OrdersOf(msgs) = {}
  BY DEF OrdersOf
<1>6. \A d \in Displays : OrdersOf(queue[d] \o msgs) = OrdersOf(queue[d])
  <2> SUFFICES ASSUME NEW d \in Displays
               PROVE  OrdersOf(queue[d] \o msgs) = OrdersOf(queue[d])
    OBVIOUS
  <2>1. PICK q : q = queue[d]
    OBVIOUS
  <2>2. q \in Seq(MessageObject)
    BY <1>1, <2>1
  <2>3. OrdersOf(q \o msgs) = OrdersOf(q) \cup OrdersOf(msgs)
    BY <2>2, OrdersOfConcat
  <2>4. QED
    BY <1>5, <2>1, <2>3
<1>7. \A d \in Displays : OrdersOf(queue'[d]) = OrdersOf(queue[d])
  BY <1>2, <1>6
<1>8. QED
  BY <1>4, <1>7

(* In a step that leaves the orders in messages as they read, the instance *)
(* broadcasts the same.                                                    *)
LEMMA UpdateBroadcast ==
  ASSUME ObjectsInv, NEW msgs \in Seq(MessageObject),
         \A k \in DOMAIN msgs : msgs[k].type # "DISP_ORDER",
         broadcast(msgs),
         \A a \in InMessages : /\ heap'[a].id = heap[a].id
                               /\ OrderAt(heap', a) = OrderAt(heap, a)
  PROVE  ByValue!broadcast(msgs)
<1>1. queue \in [Displays -> Seq(MessageObject)]
  BY DEF ObjectsInv, PointersOK
<1>2. queue' = [d \in Displays |-> IF d \in my_clients THEN queue[d] \o msgs
                                   ELSE queue[d]]
  BY DEF broadcast
<1>3. PICK g : g = heap'
  OBVIOUS
<1>4. \A d \in Displays : EncodedAll(g, queue[d] \o msgs) =
                            EncodedAll(heap, queue[d]) \o msgs
  <2> SUFFICES ASSUME NEW d \in Displays
               PROVE  EncodedAll(g, queue[d] \o msgs) =
                        EncodedAll(heap, queue[d]) \o msgs
    OBVIOUS
  <2>1. EncodedAll(g, queue[d]) = EncodedAll(heap, queue[d])
    BY <1>3, MessagesStay
  <2>2. PICK q : q = queue[d]
    OBVIOUS
  <2>3. q \in Seq(MessageObject)
    BY <1>1, <2>2
  <2>4. EncodedAll(g, q \o msgs) = EncodedAll(g, q) \o EncodedAll(g, msgs)
    BY <2>3, EncodedConcat
  <2>5. EncodedAll(g, msgs) = msgs
    BY EncodedUpdates
  <2>6. QED
    BY <2>1, <2>2, <2>4, <2>5
<1>5. \A d \in Displays : EncodedAll(g, queue[d]) = EncodedAll(heap, queue[d])
  BY <1>3, MessagesStay
<1>6. QueueValues' = [d \in Displays |-> EncodedAll(g, queue'[d])]
       /\ QueueValues = [d \in Displays |-> EncodedAll(heap, queue[d])]
  BY <1>3 DEF QueueValues
<1>7. QED
  BY <1>2, <1>4, <1>5, <1>6 DEF ByValue!broadcast

(* Where an order is in the map, nobody else has a pointer to it. *)
LEMMA OnlyInMap ==
  ASSUME ObjectsInv, NEW id \in OrderIds, my_orders[id] # NoOrder
  PROVE  /\ my_orders[id] \notin InMessages
         /\ my_orders[id] \notin InRequests
         /\ \A k \in OrderIds : my_orders[k] = my_orders[id] => k = id
<1>1. my_orders[id] \in InMap
  BY ValuesOfOrders
<1>2. \A k \in OrderIds : my_orders[k] = my_orders[id] => k = id
  BY DEF ObjectsInv, KeptUnderId
<1>3. QED
  BY <1>1, <1>2 DEF ObjectsInv

(* What a change of an order in the map leaves alone: every order that     *)
(* somebody else has, or that is in the map under another id.              *)
LEMMA InPlaceStep ==
  ASSUME ObjectsInv, NEW id \in OrderIds, my_orders[id] # NoOrder, NEW new,
         ChangedInPlace(heap, OrderObjects, my_orders[id], new, heap'),
         UNCHANGED <<my_orders, my_clients, phase, backlog, request, served>>,
         NEW msgs \in Seq(MessageObject),
         \A k \in DOMAIN msgs : msgs[k].type # "DISP_ORDER",
         broadcast(msgs)
  PROVE  /\ ObjectsInv'
         /\ OrderValues' = [OrderValues EXCEPT ![id] = new]
         /\ BacklogValues' = BacklogValues
         /\ ByValue!broadcast(msgs)
<1>1. PICK a : a = my_orders[id]
  OBVIOUS
<1>2. /\ a \in InMap /\ a \in OrderObjects
      /\ a \notin InMessages /\ a \notin InRequests
      /\ \A k \in OrderIds : my_orders[k] = a => k = id
  BY <1>1, OnlyInMap, ValuesOfOrders
<1>3. /\ DOMAIN heap' = DOMAIN heap /\ Whole(heap', OrderObjects)
      /\ AndItems(heap', OrderObjects) = AndItems(heap, OrderObjects)
      /\ \A b \in OrderObjects : /\ heap'[b].id = heap[b].id
                                 /\ b # a => OrderAt(heap', b) = OrderAt(heap, b)
      /\ OrderAt(heap', a) = new
  BY <1>1 DEF ChangedInPlace
<1>4. \A b \in InMessages \cup InRequests : /\ heap'[b].id = heap[b].id
                                            /\ OrderAt(heap', b) = OrderAt(heap, b)
  BY <1>2, <1>3, Pointed
<1>5. /\ queue' \in [Displays -> Seq(MessageObject)]
      /\ \A d \in Displays : OrdersOf(queue'[d]) = OrdersOf(queue[d])
      /\ ByValue!broadcast(msgs)
  BY <1>4, UpdatePointers, UpdateBroadcast
<1>6. InMap' = InMap /\ InRequests' = InRequests
  BY DEF InMap, InRequests
<1>7. InMessages' = InMessages
  BY <1>5 DEF InMessages
<1>8. OrderObjects' = OrderObjects
  BY <1>6, <1>7 DEF OrderObjects
<1>9. HeapOK'
  BY <1>3, <1>8 DEF ObjectsInv, HeapOK
<1>10. PointersOK'
  BY <1>5 DEF ObjectsInv, PointersOK
<1>11. NoEarlyBacklog'
  BY DEF ObjectsInv, NoEarlyBacklog
<1>12. KeptUnderId'
  BY <1>3, Pointed DEF ObjectsInv, KeptUnderId
<1>13. Submitted'
  BY <1>4, Pointed DEF ObjectsInv, Submitted
<1>14. ObjectsInv'
  BY <1>6, <1>7, <1>9, <1>10, <1>11, <1>12, <1>13 DEF ObjectsInv
<1>15. OrderValues' = [OrderValues EXCEPT ![id] = new]
  <2>1. OrderValues' = [k \in OrderIds |-> IF my_orders[k] = NoOrder THEN NoOrder
                                           ELSE OrderAt(heap', my_orders[k])]
        /\ OrderValues = [k \in OrderIds |-> IF my_orders[k] = NoOrder THEN NoOrder
                                             ELSE OrderAt(heap, my_orders[k])]
    BY DEF OrderValues
  <2>2. \A k \in OrderIds : my_orders[k] # NoOrder /\ k # id =>
          OrderAt(heap', my_orders[k]) = OrderAt(heap, my_orders[k])
    BY <1>2, <1>3, Pointed
  <2>3. OrderAt(heap', my_orders[id]) = new
    BY <1>1, <1>3
  <2>4. QED
    BY <2>1, <2>2, <2>3
<1>16. BacklogValues' = BacklogValues
  <2>1. \A d \in Displays : EncodedAll(heap', backlog[d]) = EncodedAll(heap, backlog[d])
    BY <1>4, MessagesStay
  <2>2. QED
    BY <2>1 DEF BacklogValues
<1>17. QED
  BY <1>5, <1>14, <1>15, <1>16

(* update_item changes an item and its order under my_lock, where they are. *)
LEMMA UpdateItemStep ==
  ASSUME ObjectsInv, NEW id \in OrderIds, NEW i \in ItemIds, NEW s \in ItemStatus,
         UpdateItem(id, i, s)
  PROVE  ObjectsInv' /\ ByValue!update_item(id, i, s)
<1>1. PICK a, h, orders : a = my_orders[id] /\ h = heap /\ orders = OrderObjects
  OBVIOUS
<1>2. PICK o : o = OrderAt(h, a)
  OBVIOUS
<1>3. ByValue!ItemUpdateAccepted(id, i, s)
  BY DEF UpdateItem
<1>4. OrderValues[id] # NoOrder /\ HasItem(OrderValues[id], i)
  BY <1>3, SameOperators DEF ByValue!ItemUpdateAccepted
<1>5. my_orders[id] # NoOrder
  BY <1>4 DEF OrderValues
<1>6. a \in orders /\ OrderValues[id] = o /\ o \in Order
  BY <1>1, <1>2, <1>5, ValuesOfOrders
<1>7. HasItem(OrderAt(h, a), i) /\ Whole(h, orders)
  BY <1>1, <1>2, <1>4, <1>6 DEF ObjectsInv, HeapOK
<1>8. PICK c : c = StatusSet(h, h[a].items[find_item(OrderAt(h, a), i)], s)
  OBVIOUS
<1>9. PICK n : n = set_item_status(o, i, s)
  OBVIOUS
<1>10. n \in Order /\ n.status = o.status
  <2>1. HasItem(o, i)
    BY <1>2, <1>7
  <2>2. QED
    BY <1>6, <1>9, <2>1, SetItemStatus
<1>11. PICK st : st = StatusAfter(n, s)
  OBVIOUS
<1>12. st \in OrderStatus
  BY <1>10, <1>11, StatusAfterType
<1>13. OrderAt(c, a) = n
       /\ ChangedInPlace(h, orders, a, [n EXCEPT !.status = st], StatusSet(c, a, st))
  BY <1>2, <1>6, <1>7, <1>8, <1>9, <1>12, SetItemAndOrder
<1>14. PICK msgs : msgs = IF st # o.status
                          THEN <<DispItemUpdate(id, i, s), DispOrderUpdate(id, st)>>
                          ELSE <<DispItemUpdate(id, i, s)>>
  OBVIOUS
<1>15. h[a].status = o.status
  BY <1>2, <1>6, <1>7, OrderAtType
<1>16. heap' = StatusSet(c, a, st) /\ broadcast(msgs)
  <2>1. c = [heap EXCEPT ![heap[a].items[find_item(OrderAt(heap, a), i)]].status = s]
    BY <1>1, <1>8 DEF StatusSet
  <2>2. heap' = [c EXCEPT ![a].status = StatusAfter(OrderAt(c, a), s)]
        /\ broadcast(IF StatusAfter(OrderAt(c, a), s) # heap[a].status
                     THEN <<DispItemUpdate(id, i, s),
                            DispOrderUpdate(id, StatusAfter(OrderAt(c, a), s))>>
                     ELSE <<DispItemUpdate(id, i, s)>>)
    BY <1>1, <2>1 DEF UpdateItem
  <2>3. StatusAfter(OrderAt(c, a), s) = st /\ heap[a].status = o.status
    BY <1>1, <1>11, <1>13, <1>15
  <2>4. QED
    BY <1>14, <2>2, <2>3 DEF StatusSet
<1>17. /\ UNCHANGED <<my_orders, my_clients, phase, backlog, request, served>>
       /\ UNCHANGED <<next_order_id, sessionVars>>
  BY DEF UpdateItem, sessionVars
<1>18. msgs \in Seq(MessageObject)
  BY <1>12, <1>14, UpdateMessages
<1>19. \A k \in DOMAIN msgs : msgs[k].type # "DISP_ORDER"
  BY <1>14, UpdatesHaveNoOrder
<1>20. /\ ObjectsInv'
       /\ OrderValues' = [OrderValues EXCEPT ![id] = [n EXCEPT !.status = st]]
       /\ BacklogValues' = BacklogValues
       /\ ByValue!broadcast(msgs)
  <2>1. ChangedInPlace(heap, OrderObjects, my_orders[id],
                       [n EXCEPT !.status = st], heap')
    BY <1>1, <1>13, <1>16
  <2>2. QED
    BY <1>5, <1>16, <1>17, <1>18, <1>19, <2>1, InPlaceStep
<1>21. ByValue!update_item(id, i, s)
  <2>1. /\ ByValue!set_item_status(OrderValues[id], i, s) = n
        /\ ByValue!StatusAfter(n, s) = st
    BY <1>6, <1>9, <1>11, SameOperators
  <2>2. UNCHANGED <<next_order_id, ByValue!sessionVars>>
    BY <1>17, <1>20 DEF sessionVars, ByValue!sessionVars
  <2>3. ByValue!broadcast(IF st # n.status
          THEN <<ByValue!DispItemUpdate(id, i, s), ByValue!DispOrderUpdate(id, st)>>
          ELSE <<ByValue!DispItemUpdate(id, i, s)>>)
    BY <1>10, <1>14, <1>20, SameOperators
  <2>4. QED
    BY <1>3, <1>20, <2>1, <2>2, <2>3 DEF ByValue!update_item
<1>22. QED
  BY <1>20, <1>21

(* update_order sets the status of an order that then leaves the map, and  *)
(* is gone.                                                                *)
LEMMA UpdateOrderStep ==
  ASSUME ObjectsInv, NEW id \in OrderIds, NEW s \in OrderStatus, UpdateOrder(id, s)
  PROVE  ObjectsInv' /\ ByValue!update_order(id, s)
<1>1. PICK a, h, orders : a = my_orders[id] /\ h = heap /\ orders = OrderObjects
  OBVIOUS
<1>2. /\ ByValue!OrderUpdateAccepted(id, s)
      /\ broadcast(<<DispOrderUpdate(id, s)>>)
      /\ my_orders' = [my_orders EXCEPT ![id] = NoOrder]
      /\ UNCHANGED <<next_order_id, sessionVars, request, served>>
      /\ Collect(StatusSet(h, a, s))
  BY <1>1 DEF UpdateOrder, StatusSet
<1>3. UNCHANGED <<my_clients, phase, backlog, request, served>>
  BY <1>2 DEF sessionVars
<1>4. my_orders[id] # NoOrder
  BY <1>2 DEF ByValue!OrderUpdateAccepted, OrderValues
<1>5. /\ a \in orders /\ a \in InMap
      /\ a \notin InMessages /\ a \notin InRequests
      /\ \A k \in OrderIds : my_orders[k] = a => k = id
  BY <1>1, <1>4, OnlyInMap, ValuesOfOrders
<1>6. IsFiniteSet(DOMAIN h) /\ Whole(h, orders)
  BY <1>1 DEF ObjectsInv, HeapOK
<1>7. PICK c : c = StatusSet(h, a, s)
  OBVIOUS
<1>8. ChangedInPlace(h, orders, a, [OrderAt(h, a) EXCEPT !.status = s], c)
  BY <1>5, <1>6, <1>7, SetOrder
<1>9. /\ DOMAIN c = DOMAIN h /\ Whole(c, orders)
      /\ \A b \in orders : /\ c[b].id = h[b].id
                           /\ b # a => OrderAt(c, b) = OrderAt(h, b)
  BY <1>8 DEF ChangedInPlace
<1>10. PICK msgs : msgs = <<DispOrderUpdate(id, s)>>
  OBVIOUS
<1>11. /\ msgs \in Seq(MessageObject) /\ broadcast(msgs)
       /\ \A k \in DOMAIN msgs : msgs[k].type # "DISP_ORDER"
  BY <1>2, <1>10, UpdateMessages, UpdatesHaveNoOrder
<1>12. /\ queue' \in [Displays -> Seq(MessageObject)]
       /\ \A d \in Displays : OrdersOf(queue'[d]) = OrdersOf(queue[d])
  BY <1>11, UpdatePointers
<1>13. my_orders \in [OrderIds -> Nat \cup {NoOrder}]
  BY DEF ObjectsInv, PointersOK
<1>14. /\ my_orders'[id] = NoOrder
       /\ \A k \in OrderIds : k # id => my_orders'[k] = my_orders[k]
  BY <1>2, <1>13
<1>15. InRequests' = InRequests /\ InMessages' = InMessages
  BY <1>3, <1>12 DEF InRequests, InMessages
<1>16. InMap' \subseteq InMap /\ a \notin InMap'
  BY <1>1, <1>4, <1>5, <1>14 DEF InMap
<1>17. OrderObjects' \subseteq orders /\ a \notin OrderObjects'
  BY <1>1, <1>5, <1>15, <1>16 DEF OrderObjects
<1>18. /\ HeapOK'
       /\ \A b \in OrderObjects' : /\ heap'[b].id = c[b].id
                                   /\ OrderAt(heap', b) = OrderAt(c, b)
  <2>1. IsFiniteSet(DOMAIN c) /\ Whole(c, orders)
    BY <1>6, <1>9
  <2>2. OrderObjects' \subseteq orders /\ Collect(c)
    BY <1>2, <1>7, <1>17
  <2>3. QED
    BY <2>1, <2>2, Collected
<1>19. \A b \in OrderObjects' : /\ heap'[b].id = heap[b].id
                                /\ OrderAt(heap', b) = OrderAt(heap, b)
  BY <1>1, <1>9, <1>17, <1>18
<1>20. /\ InMap' \subseteq OrderObjects' /\ InRequests \subseteq OrderObjects'
       /\ InMessages \subseteq OrderObjects'
  BY <1>15 DEF OrderObjects
<1>21. PointersOK'
  <2>1. my_orders' \in [OrderIds -> Nat \cup {NoOrder}]
    BY <1>2, <1>13
  <2>2. QED
    BY <1>3, <1>12, <2>1 DEF ObjectsInv, PointersOK
<1>22. NoEarlyBacklog'
  BY <1>3 DEF ObjectsInv, NoEarlyBacklog
<1>23. \A k \in OrderIds : my_orders'[k] # NoOrder =>
         /\ k # id /\ my_orders'[k] = my_orders[k]
         /\ my_orders[k] \in OrderObjects'
  BY <1>14, <1>20 DEF InMap
<1>24. KeptUnderId'
  BY <1>19, <1>23 DEF ObjectsInv, KeptUnderId
<1>25. Submitted'
  BY <1>3, <1>19, <1>20, Pointed DEF ObjectsInv, Submitted
<1>26. ObjectsInv'
  BY <1>15, <1>16, <1>18, <1>21, <1>22, <1>24, <1>25 DEF ObjectsInv
<1>27. OrderValues' = [OrderValues EXCEPT ![id] = NoOrder]
  <2>1. OrderValues' = [k \in OrderIds |-> IF my_orders'[k] = NoOrder THEN NoOrder
                                           ELSE OrderAt(heap', my_orders'[k])]
        /\ OrderValues = [k \in OrderIds |-> IF my_orders[k] = NoOrder THEN NoOrder
                                             ELSE OrderAt(heap, my_orders[k])]
    BY DEF OrderValues
  <2>2. \A k \in OrderIds : my_orders'[k] # NoOrder =>
          OrderAt(heap', my_orders'[k]) = OrderAt(heap, my_orders[k])
    BY <1>19, <1>23
  <2>3. QED
    BY <1>14, <2>1, <2>2
<1>28. \A b \in InMessages : /\ heap'[b].id = heap[b].id
                             /\ OrderAt(heap', b) = OrderAt(heap, b)
  BY <1>19, <1>20
<1>29. ByValue!broadcast(msgs)
  BY <1>11, <1>28, UpdateBroadcast
<1>30. BacklogValues' = BacklogValues
  <2>1. \A d \in Displays : EncodedAll(heap', backlog[d]) = EncodedAll(heap, backlog[d])
    BY <1>28, MessagesStay
  <2>2. QED
    BY <1>3, <2>1 DEF BacklogValues
<1>31. ByValue!update_order(id, s)
  <2>1. UNCHANGED <<next_order_id, ByValue!sessionVars>>
    BY <1>2, <1>30 DEF sessionVars, ByValue!sessionVars
  <2>2. ByValue!broadcast(<<ByValue!DispOrderUpdate(id, s)>>)
    BY <1>10, <1>29, SameOperators
  <2>3. QED
    BY <1>2, <1>27, <2>1, <2>2 DEF ByValue!update_order
<1>32. QED
  BY <1>26, <1>31

-------------------------------------------------------------------------------
(* A new order *)

(* A single copy, at a. *)
CopiedOnce(h, orders, r, a, g) ==
  /\ IsFiniteSet(DOMAIN g)
  /\ \A x \in DOMAIN h : x \in DOMAIN g
  /\ a \in Nat \ DOMAIN h /\ a \in DOMAIN g
  /\ Whole(g, orders \cup {a})
  /\ g[a].id = h[r].id /\ OrderAt(g, a) = OrderAt(h, r)
  /\ \A b \in orders : g[b].id = h[b].id /\ OrderAt(g, b) = OrderAt(h, b)

LEMMA CopyingOnce ==
  ASSUME NEW h, IsFiniteSet(DOMAIN h), NEW orders, Whole(h, orders), NEW r \in orders
  PROVE  CopiedOnce(h, orders, r, duplicate(h, <<r>>).copy[1], duplicate(h, <<r>>).heap)
<1> DEFINE c == duplicate(h, <<r>>)
           a == c.copy[1]
           g == c.heap
<1>1. PICK from : from = <<r>>
  OBVIOUS
<1>2. from \in [{1} -> orders] /\ from[1] = r
  BY <1>1
<1>3. IsFiniteSet({1})
  BY FS_Singleton
<1>4. c = duplicate(h, from)
  BY <1>1
<1> HIDE DEF c
<1>5. Copied(h, orders, {1}, from, c)
  BY <1>2, <1>3, <1>4, Copying
<1>6. PICK copies : copies = {c.copy[k] : k \in {1}}
  OBVIOUS
<1>7. copies = {a}
  BY <1>6
<1>8. /\ IsFiniteSet(DOMAIN g)
      /\ \A x \in DOMAIN h : x \in DOMAIN g
      /\ DOMAIN g = DOMAIN h \cup AndItems(g, copies)
      /\ c.copy \in [{1} -> Nat \ DOMAIN h]
      /\ Whole(g, orders \cup copies)
      /\ \A k \in {1} : /\ g[c.copy[k]].id = h[from[k]].id
                        /\ OrderAt(g, c.copy[k]) = OrderAt(h, from[k])
      /\ \A b \in orders : g[b].id = h[b].id /\ OrderAt(g, b) = OrderAt(h, b)
  BY <1>5, <1>6, Zenon DEF Copied
<1>9. a \in Nat \ DOMAIN h
  BY <1>8
<1>10. g[a].id = h[r].id /\ OrderAt(g, a) = OrderAt(h, r)
  BY <1>2, <1>8
<1>11. a \in DOMAIN g
  BY <1>7, <1>8, AndItemsMembers
<1>12. Whole(g, orders \cup {a})
  BY <1>7, <1>8
<1> HIDE DEF a, g
<1>13. CopiedOnce(h, orders, r, a, g)
  BY <1>8, <1>9, <1>10, <1>11, <1>12 DEF CopiedOnce
<1>14. QED
  BY <1>13 DEF a, g, c

(* What update_chat, create_order and broadcast leave: the order that is   *)
(* kept and a copy of it for each of the displays D, all with the new id   *)
(* and reading as the request r.                                           *)
Created(h, orders, r, id, D, kept, copy, g) ==
  /\ IsFiniteSet(DOMAIN g)
  /\ kept \in Nat /\ kept \notin orders
  /\ \A d \in D : copy[d] \in Nat /\ copy[d] \notin orders \cup {kept}
  /\ \E all : /\ Whole(g, all) /\ orders \cup {kept} \subseteq all
              /\ \A d \in D : copy[d] \in all
  /\ g[kept].id = id /\ OrderAt(g, kept) = OrderAt(h, r)
  /\ \A d \in D : g[copy[d]].id = id /\ OrderAt(g, copy[d]) = OrderAt(h, r)
  /\ \A b \in orders : g[b].id = h[b].id /\ OrderAt(g, b) = OrderAt(h, b)

CopiesFor(h, r, id, D, kept, out) ==
  LET mine == duplicate(h, <<r>>)
      sent == duplicate(Numbered(mine.heap, kept, id), <<kept>>)
  IN  /\ kept = mine.copy[1]
      /\ out = duplicate(sent.heap, [d \in D |-> sent.copy[1]])

LEMMA Creating ==
  ASSUME NEW h, IsFiniteSet(DOMAIN h), NEW orders, Whole(h, orders), NEW r \in orders,
         NEW id \in OrderIds, NEW D, IsFiniteSet(D),
         NEW own, NEW made, CopiesFor(h, r, id, D, own, made)
  PROVE  Created(h, orders, r, id, D, own, made.copy, made.heap)
<1> DEFINE mine == duplicate(h, <<r>>)
           kept == mine.copy[1]
           h1 == mine.heap
           h2 == Numbered(h1, kept, id)
           sent == duplicate(h2, <<kept>>)
           s == sent.copy[1]
           h3 == sent.heap
           from == [d \in D |-> s]
           out == duplicate(h3, from)
           g == out.heap
           orders1 == orders \cup {kept}
           orders2 == orders1 \cup {s}
<1>1. CopiedOnce(h, orders, r, kept, h1)
  BY CopyingOnce
<1>2. \A b \in orders : b \in DOMAIN h
  BY AndItemsMembers DEF Whole
<1>3. h2 = Numbered(h1, kept, id) /\ kept \in orders1
  OBVIOUS
<1> HIDE DEF mine, kept, h1, h2
<1>4. /\ IsFiniteSet(DOMAIN h1)
      /\ kept \in Nat /\ kept \notin orders
      /\ Whole(h1, orders1)
      /\ OrderAt(h1, kept) = OrderAt(h, r)
      /\ \A b \in orders : h1[b].id = h[b].id /\ OrderAt(h1, b) = OrderAt(h, b)
  BY <1>1, <1>2 DEF CopiedOnce
<1> HIDE DEF orders1
<1>5. /\ DOMAIN h2 = DOMAIN h1
      /\ Whole(h2, orders1)
      /\ \A b \in orders1 : /\ h2[b].id = IF b = kept THEN id ELSE h1[b].id
                            /\ OrderAt(h2, b) = OrderAt(h1, b)
  BY <1>3, <1>4, Numbering
<1>6. CopiedOnce(h2, orders1, kept, s, h3)
  <2>1. IsFiniteSet(DOMAIN h2)
    BY <1>4, <1>5
  <2>2. QED
    BY <1>3, <1>5, <2>1, CopyingOnce
<1> HIDE DEF sent, s, h3
<1>7. \A b \in orders1 : b \in DOMAIN h2
  BY <1>5, AndItemsMembers DEF Whole
<1>8. /\ IsFiniteSet(DOMAIN h3)
      /\ Whole(h3, orders2)
      /\ \A b \in orders1 : b \in DOMAIN h3
      /\ h3[s].id = h2[kept].id /\ OrderAt(h3, s) = OrderAt(h2, kept)
      /\ \A b \in orders1 : h3[b].id = h2[b].id /\ OrderAt(h3, b) = OrderAt(h2, b)
  BY <1>6, <1>7 DEF CopiedOnce
<1>9. from \in [D -> orders2] /\ \A d \in D : from[d] = s
  OBVIOUS
<1> HIDE DEF orders2, from
<1>10. Copied(h3, orders2, D, from, out)
  BY <1>8, <1>9, Copying
<1> HIDE DEF out
<1>11. PICK copies : copies = {out.copy[d] : d \in D}
  OBVIOUS
<1>12. /\ IsFiniteSet(DOMAIN g)
       /\ out.copy \in [D -> Nat \ DOMAIN h3]
       /\ Whole(g, orders2 \cup copies)
       /\ \A d \in D : /\ g[out.copy[d]].id = h3[from[d]].id
                       /\ OrderAt(g, out.copy[d]) = OrderAt(h3, from[d])
       /\ \A b \in orders2 : g[b].id = h3[b].id /\ OrderAt(g, b) = OrderAt(h3, b)
  BY <1>10, <1>11, Zenon DEF Copied
<1> HIDE DEF g
<1>13. /\ orders \cup {kept} \subseteq orders1 /\ orders1 \subseteq orders2
       /\ \A b \in orders : b \in orders1 /\ b # kept
  BY <1>4 DEF orders1, orders2
<1>14. \A d \in D : out.copy[d] \in Nat /\ out.copy[d] \notin orders \cup {kept}
  BY <1>8, <1>12, <1>13
<1>15. h2[kept].id = id /\ OrderAt(h2, kept) = OrderAt(h, r)
  BY <1>3, <1>4, <1>5
<1>16. g[kept].id = id /\ OrderAt(g, kept) = OrderAt(h, r)
  BY <1>3, <1>8, <1>12, <1>13, <1>15
<1>17. \A d \in D : g[out.copy[d]].id = id /\ OrderAt(g, out.copy[d]) = OrderAt(h, r)
  BY <1>8, <1>9, <1>12, <1>15
<1>18. \A b \in orders : g[b].id = h[b].id /\ OrderAt(g, b) = OrderAt(h, b)
  BY <1>4, <1>5, <1>8, <1>12, <1>13
<1>19. \E all : /\ Whole(g, all) /\ orders \cup {kept} \subseteq all
                /\ \A d \in D : out.copy[d] \in all
  <2>1. /\ orders \cup {kept} \subseteq orders2 \cup copies
        /\ \A d \in D : out.copy[d] \in orders2 \cup copies
    BY <1>11, <1>13
  <2>2. QED
    BY <1>12, <2>1
<1>20. Created(h, orders, r, id, D, kept, out.copy, g)
  BY <1>4, <1>12, <1>14, <1>16, <1>17, <1>18, <1>19 DEF Created
<1>21. own = kept
  BY DEF CopiesFor, mine, kept
<1>22. made = out
  BY <1>21 DEF CopiesFor, mine, h1, h2, sent, s, h3, from, out
<1>23. QED
  BY <1>20, <1>21, <1>22 DEF g

(* A queue to which a message with an order is appended. *)
Appended(h, g, msgs, a, more) ==
  /\ more \in Seq(MessageObject)
  /\ OrdersOf(more) = OrdersOf(msgs) \cup {a}
  /\ EncodedAll(g, more) = EncodedAll(h, msgs) \o <<DispOrder(g[a].id, OrderAt(g, a))>>

LEMMA EncodedAppend ==
  ASSUME NEW h, NEW g, NEW msgs \in Seq(MessageObject), NEW a \in Nat,
         \A b \in OrdersOf(msgs) : g[b].id = h[b].id /\ OrderAt(g, b) = OrderAt(h, b)
  PROVE  Appended(h, g, msgs, a, Append(msgs, OrderPointer(a)))
<1> DEFINE m == OrderPointer(a)
           one == <<m>>
<1>1. m \in MessageObject /\ m.type = "DISP_ORDER" /\ m.order = a
  BY UpdatesHaveNoOrder DEF MessageObject
<1> HIDE DEF m
<1>2. one \in Seq(MessageObject) /\ DOMAIN one = {1} /\ one[1] = m
  BY <1>1
<1>3. OrdersOf(one) = {a}
  BY <1>1, <1>2 DEF OrdersOf
<1>4. EncodedAll(g, one) = <<DispOrder(g[a].id, OrderAt(g, a))>>
  <2>1. EncodedAll(g, one) = [k \in {1} |-> Encoded(g, m)]
    BY <1>2 DEF EncodedAll
  <2>2. Encoded(g, m) = DispOrder(g[a].id, OrderAt(g, a))
    BY <1>1 DEF Encoded
  <2>3. \A v : [k \in {1} |-> v] = <<v>>
    OBVIOUS
  <2>4. QED
    BY <2>1, <2>2, <2>3
<1>5. Append(msgs, m) = msgs \o one
  BY <1>1, AppendIsConcat
<1> HIDE DEF one
<1>6. msgs \o one \in Seq(MessageObject)
  BY <1>2
<1>7. OrdersOf(msgs \o one) = OrdersOf(msgs) \cup {a}
  BY <1>2, <1>3, OrdersOfConcat
<1>8. EncodedAll(g, msgs \o one) = EncodedAll(g, msgs) \o EncodedAll(g, one)
  BY <1>2, EncodedConcat
<1>9. EncodedAll(g, msgs) = EncodedAll(h, msgs)
  BY EncodedStays
<1>10. QED
  BY <1>4, <1>5, <1>6, <1>7, <1>8, <1>9 DEF m, Appended

(* create_order: the order that it keeps is not the updater's, and those   *)
(* in the messages are not the order that it keeps.                        *)
LEMMA CreateOrderStep ==
  ASSUME ObjectsInv, NEW u \in Updaters, CreateOrder(u)
  PROVE  ObjectsInv' /\ ByValue!create_order(OrderAt(heap, request[u]))
<1>1. PICK h, orders, r, id : /\ h = heap /\ orders = OrderObjects
                              /\ r = request[u] /\ id = next_order_id
  OBVIOUS
<1>2. PICK mine : mine = duplicate(h, <<r>>)
  OBVIOUS
<1>3. PICK kept : kept = mine.copy[1]
  OBVIOUS
<1>4. PICK sent : sent = duplicate(Numbered(mine.heap, kept, id), <<kept>>)
  OBVIOUS
<1>5. PICK D, out : D = my_clients /\ out = duplicate(sent.heap, [d \in D |-> sent.copy[1]])
  OBVIOUS
<1>6. PICK copy, g : copy = out.copy /\ g = out.heap
  OBVIOUS
<1>7. PICK o : o = OrderAt(h, r)
  OBVIOUS
<1>8. /\ r # NoOrder /\ u \notin served /\ id \in OrderIds
      /\ next_order_id' = id + 1
      /\ served' = served \cup {u}
      /\ UNCHANGED <<sessionVars, request>>
      /\ my_orders' = [my_orders EXCEPT ![id] = kept]
      /\ queue' = Enqueued(copy)
      /\ Collect(g)
  BY <1>1, <1>2, <1>3, <1>4, <1>5, <1>6 DEF CreateOrder, duplicate_message
<1>9. UNCHANGED <<my_clients, phase, backlog, request>>
  BY <1>8 DEF sessionVars
<1>10. /\ my_orders \in [OrderIds -> Nat \cup {NoOrder}]
       /\ queue \in [Displays -> Seq(MessageObject)]
       /\ D \subseteq Displays /\ IsFiniteSet(D)
       /\ IsFiniteSet(DOMAIN h) /\ Whole(h, orders)
  BY <1>1, <1>5 DEF ObjectsInv, PointersOK, HeapOK
<1>11. r \in orders /\ r \in InRequests /\ o \in NewOrders
  BY <1>1, <1>7, <1>8, Pointed DEF ObjectsInv, Submitted
<1>12. Created(h, orders, r, id, D, kept, copy, g)
  <2>1. CopiesFor(h, r, id, D, kept, out)
    BY <1>2, <1>3, <1>4, <1>5 DEF CopiesFor
  <2>2. IsFiniteSet(DOMAIN h) /\ Whole(h, orders) /\ r \in orders /\ id \in OrderIds
        /\ IsFiniteSet(D)
    BY <1>8, <1>10, <1>11
  <2>3. Created(h, orders, r, id, D, kept, out.copy, out.heap)
    BY <2>1, <2>2, Creating
  <2>4. QED
    BY <1>6, <2>3
<1>13. /\ IsFiniteSet(DOMAIN g)
       /\ kept \in Nat /\ kept \notin orders
       /\ \A d \in D : copy[d] \in Nat /\ copy[d] \notin orders \cup {kept}
       /\ g[kept].id = id /\ OrderAt(g, kept) = o
       /\ \A d \in D : g[copy[d]].id = id /\ OrderAt(g, copy[d]) = o
       /\ \A b \in orders : g[b].id = h[b].id /\ OrderAt(g, b) = OrderAt(h, b)
  BY <1>7, <1>12 DEF Created
<1>14. PICK all : /\ Whole(g, all) /\ orders \cup {kept} \subseteq all
                  /\ \A d \in D : copy[d] \in all
  BY <1>12 DEF Created
<1>15. \A d \in Displays :
         /\ d \in D => /\ queue'[d] = Append(queue[d], OrderPointer(copy[d]))
                       /\ queue'[d] \in Seq(MessageObject)
                       /\ OrdersOf(queue'[d]) = OrdersOf(queue[d]) \cup {copy[d]}
                       /\ EncodedAll(g, queue'[d]) =
                            EncodedAll(h, queue[d]) \o <<DispOrder(id, o)>>
         /\ d \notin D => /\ queue'[d] = queue[d]
                          /\ EncodedAll(g, queue'[d]) = EncodedAll(h, queue[d])
  <2> SUFFICES ASSUME NEW d \in Displays
               PROVE  /\ d \in D => /\ queue'[d] = Append(queue[d], OrderPointer(copy[d]))
                                    /\ queue'[d] \in Seq(MessageObject)
                                    /\ OrdersOf(queue'[d]) = OrdersOf(queue[d]) \cup {copy[d]}
                                    /\ EncodedAll(g, queue'[d]) =
                                         EncodedAll(h, queue[d]) \o <<DispOrder(id, o)>>
                      /\ d \notin D => /\ queue'[d] = queue[d]
                                       /\ EncodedAll(g, queue'[d]) = EncodedAll(h, queue[d])
    OBVIOUS
  <2>1. PICK q : q = queue[d]
    OBVIOUS
  <2>2. q \in Seq(MessageObject)
    BY <1>10, <2>1
  <2>3. \A b \in OrdersOf(q) : g[b].id = h[b].id /\ OrderAt(g, b) = OrderAt(h, b)
    BY <1>1, <1>13, <2>1, Pointed
  <2>4. CASE d \in D
    <3>1. PICK a : a = copy[d]
      OBVIOUS
    <3>2. a \in Nat /\ g[a].id = id /\ OrderAt(g, a) = o
      BY <1>13, <2>4, <3>1
    <3>3. queue'[d] = Append(q, OrderPointer(a))
      BY <1>5, <1>8, <2>1, <2>4, <3>1 DEF Enqueued
    <3>4. Appended(h, g, q, a, Append(q, OrderPointer(a)))
      <4>1. a \in Nat
        BY <3>2
      <4>2. QED
        BY <2>2, <2>3, <4>1, EncodedAppend
    <3>5. /\ queue'[d] \in Seq(MessageObject)
          /\ OrdersOf(queue'[d]) = OrdersOf(q) \cup {a}
          /\ EncodedAll(g, queue'[d]) = EncodedAll(h, q) \o <<DispOrder(id, o)>>
      BY <3>2, <3>3, <3>4 DEF Appended
    <3>6. QED
      BY <2>1, <2>4, <3>1, <3>3, <3>5
  <2>5. CASE d \notin D
    <3>1. queue'[d] = q
      BY <1>5, <1>8, <2>1, <2>5 DEF Enqueued
    <3>2. EncodedAll(g, q) = EncodedAll(h, q)
      BY <2>3, EncodedStays
    <3>3. QED
      BY <2>1, <2>5, <3>1, <3>2
  <2>6. QED
    BY <2>4, <2>5
<1>16. queue' \in [Displays -> Seq(MessageObject)]
  <2>1. \A d \in Displays : queue'[d] \in Seq(MessageObject)
    BY <1>10, <1>15
  <2>2. queue' = [d \in Displays |-> queue'[d]]
    BY <1>8 DEF Enqueued
  <2>3. QED
    BY <2>1, <2>2
<1>17. /\ my_orders'[id] = kept
       /\ \A k \in OrderIds : k # id => my_orders'[k] = my_orders[k]
       /\ my_orders' \in [OrderIds -> Nat \cup {NoOrder}]
  BY <1>8, <1>10, <1>13
<1>18. InRequests' = InRequests
  BY <1>9 DEF InRequests
<1>19. \A b \in InMap' : b \in InMap \/ b = kept
  BY <1>17 DEF InMap
<1>20. \A b \in InMessages' : b \in InMessages \/ \E d \in D : b = copy[d]
  <2>1. \A d \in Displays : \A b \in OrdersOf(queue'[d]) :
          b \in OrdersOf(queue[d]) \/ \E e \in D : b = copy[e]
    BY <1>15
  <2>2. QED
    BY <1>9, <2>1 DEF InMessages
<1>21. OrderObjects' \subseteq all
  BY <1>1, <1>14, <1>18, <1>19, <1>20 DEF OrderObjects
<1>22. /\ HeapOK'
       /\ \A b \in OrderObjects' : /\ heap'[b].id = g[b].id
                                   /\ OrderAt(heap', b) = OrderAt(g, b)
  BY <1>8, <1>13, <1>14, <1>21, Collected
<1>23. /\ InMap' \subseteq OrderObjects' /\ InRequests' \subseteq OrderObjects'
       /\ InMessages' \subseteq OrderObjects'
  BY DEF OrderObjects
<1>24. PointersOK'
  <2>1. served' \subseteq {v \in Updaters : request'[v] # NoOrder}
    BY <1>1, <1>8, <1>9 DEF ObjectsInv, PointersOK
  <2>2. QED
    BY <1>9, <1>16, <1>17, <2>1 DEF ObjectsInv, PointersOK
<1>25. NoEarlyBacklog'
  BY <1>9 DEF ObjectsInv, NoEarlyBacklog
<1>26. \A k \in OrderIds : my_orders'[k] # NoOrder => my_orders'[k] \in OrderObjects'
  BY <1>23 DEF InMap
<1>27. KeptUnderId'
  <2> SUFFICES ASSUME NEW k \in OrderIds, my_orders'[k] # NoOrder
               PROVE  heap'[my_orders'[k]].id = k
    BY DEF KeptUnderId
  <2>1. heap'[my_orders'[k]].id = g[my_orders'[k]].id
    BY <1>22, <1>26
  <2>2. CASE k = id
    BY <1>13, <1>17, <2>1, <2>2
  <2>3. CASE k # id
    <3>1. my_orders'[k] = my_orders[k] /\ my_orders[k] \in orders
      BY <1>1, <1>17, <2>3, Pointed
    <3>2. heap[my_orders[k]].id = k
      BY <3>1 DEF ObjectsInv, KeptUnderId
    <3>3. QED
      BY <1>1, <1>13, <2>1, <3>1, <3>2
  <2>4. QED
    BY <2>2, <2>3
<1>28. Submitted'
  <2> SUFFICES ASSUME NEW v \in Updaters, request'[v] # NoOrder
               PROVE  OrderAt(heap', request'[v]) \in NewOrders
    BY DEF Submitted
  <2>1. PICK b : b = request[v]
    OBVIOUS
  <2>2. request'[v] = b /\ b \in InRequests /\ b \in orders /\ b \in OrderObjects'
    BY <1>1, <1>9, <1>18, <1>23, <2>1, Pointed
  <2>3. OrderAt(heap', b) = OrderAt(h, b)
    BY <1>13, <1>22, <2>2
  <2>4. OrderAt(h, b) \in NewOrders
    BY <1>1, <1>9, <2>1 DEF ObjectsInv, Submitted
  <2>5. QED
    BY <2>2, <2>3, <2>4
<1>29. InMap' \cap (InRequests' \cup InMessages') = {}
  <2>1. \A b \in InMap : b \in orders /\ b \notin InRequests /\ b \notin InMessages
    BY <1>1, Pointed DEF ObjectsInv
  <2>2. \A b \in InRequests' : b \in orders /\ b \in InRequests
    BY <1>1, <1>18, Pointed
  <2>3. \A b \in InMessages : b \in orders
    BY <1>1, Pointed
  <2>4. QED
    BY <1>13, <1>19, <1>20, <2>1, <2>2, <2>3
<1>30. ObjectsInv'
  BY <1>22, <1>24, <1>25, <1>27, <1>28, <1>29 DEF ObjectsInv
<1>31. OrderValues' = [OrderValues EXCEPT ![id] = o]
  <2>1. OrderValues' = [k \in OrderIds |-> IF my_orders'[k] = NoOrder THEN NoOrder
                                           ELSE OrderAt(heap', my_orders'[k])]
        /\ OrderValues = [k \in OrderIds |-> IF my_orders[k] = NoOrder THEN NoOrder
                                             ELSE OrderAt(heap, my_orders[k])]
    BY DEF OrderValues
  <2>2. kept # NoOrder /\ OrderAt(heap', kept) = o
    <3>1. kept # NoOrder
      BY <1>13, NullAssumption
    <3>2. kept \in OrderObjects'
      BY <1>8, <1>17, <1>26, <3>1
    <3>3. QED
      BY <1>13, <1>22, <3>1, <3>2
  <2>3. \A k \in OrderIds : k # id /\ my_orders[k] # NoOrder =>
          OrderAt(heap', my_orders[k]) = OrderAt(heap, my_orders[k])
    <3> SUFFICES ASSUME NEW k \in OrderIds, k # id, my_orders[k] # NoOrder
                 PROVE  OrderAt(heap', my_orders[k]) = OrderAt(heap, my_orders[k])
      OBVIOUS
    <3>1. PICK b : b = my_orders[k]
      OBVIOUS
    <3>2. b \in orders /\ b \in OrderObjects'
      BY <1>1, <1>17, <1>26, <3>1, Pointed
    <3>3. QED
      BY <1>1, <1>13, <1>22, <3>1, <3>2
  <2>4. QED
    BY <1>17, <2>1, <2>2, <2>3
<1>32. \A d \in Displays :
         /\ EncodedAll(heap', queue'[d]) = EncodedAll(g, queue'[d])
         /\ EncodedAll(heap', backlog'[d]) = EncodedAll(g, backlog'[d])
  <2>1. \A b \in InMessages' : /\ heap'[b].id = g[b].id
                               /\ OrderAt(heap', b) = OrderAt(g, b)
    BY <1>22, <1>23
  <2>2. QED
    BY <2>1, MessagesRead
<1>33. ByValue!broadcast(<<DispOrder(id, o)>>)
  <2>1. QueueValues' = [d \in Displays |-> EncodedAll(heap', queue'[d])]
        /\ QueueValues = [d \in Displays |-> EncodedAll(h, queue[d])]
    BY <1>1 DEF QueueValues
  <2>2. \A d \in Displays : EncodedAll(heap', queue'[d]) =
          IF d \in my_clients THEN QueueValues[d] \o <<DispOrder(id, o)>>
          ELSE QueueValues[d]
    BY <1>5, <1>15, <1>32, <2>1
  <2>3. QED
    BY <2>1, <2>2 DEF ByValue!broadcast
<1>34. BacklogValues' = BacklogValues
  <2>1. \A d \in Displays : EncodedAll(g, backlog[d]) = EncodedAll(h, backlog[d])
    <3> SUFFICES ASSUME NEW d \in Displays
                 PROVE  EncodedAll(g, backlog[d]) = EncodedAll(h, backlog[d])
      OBVIOUS
    <3>1. PICK b : b = backlog[d]
      OBVIOUS
    <3>2. \A a \in OrdersOf(b) : g[a].id = h[a].id /\ OrderAt(g, a) = OrderAt(h, a)
      BY <1>1, <1>13, <3>1, Pointed
    <3>3. QED
      BY <3>1, <3>2, EncodedStays
  <2>2. \A d \in Displays : EncodedAll(heap', backlog'[d]) = EncodedAll(h, backlog[d])
    BY <1>9, <1>32, <2>1
  <2>3. QED
    BY <1>1, <2>2 DEF BacklogValues
<1>35. ByValue!create_order(o)
  <2>1. id \in ByValue!OrderIds
    BY <1>8, SameOperators
  <2>2. ByValue!broadcast(<<ByValue!DispOrder(id, o)>>)
    BY <1>33, SameOperators
  <2>3. UNCHANGED ByValue!sessionVars
    BY <1>8, <1>34 DEF sessionVars, ByValue!sessionVars
  <2>4. QED
    BY <1>1, <1>8, <1>31, <2>1, <2>2, <2>3 DEF ByValue!create_order
<1>36. QED
  BY <1>1, <1>7, <1>30, <1>35

-------------------------------------------------------------------------------
(* The theorems *)

LEMMA ObjectsInitial ==
  ASSUME ObjectsInit
  PROVE  ObjectsInv /\ ByValue!Init
<1> USE DEF ObjectsInit, Init, EmptyScreen
<1>1. OrdersOf(<< >>) = {}
  BY DEF OrdersOf
<1>2. InMap = {} /\ InRequests = {} /\ InMessages = {}
  BY <1>1 DEF InMap, InRequests, InMessages
<1>3. OrderObjects = {} /\ AndItems(heap, OrderObjects) = {} /\ DOMAIN heap = {}
  BY <1>2 DEF OrderObjects, AndItems
<1>4. HeapOK
  BY <1>3, FS_EmptySet DEF HeapOK, Whole
<1>5. PointersOK /\ NoEarlyBacklog /\ KeptUnderId /\ Submitted
  BY FS_EmptySet DEF PointersOK, NoEarlyBacklog, KeptUnderId, Submitted
<1>6. ObjectsInv
  BY <1>2, <1>4, <1>5 DEF ObjectsInv
<1>7. /\ OrderValues   = [id \in OrderIds |-> NoOrder]
      /\ QueueValues   = [d \in Displays |-> << >>]
      /\ BacklogValues = [d \in Displays |-> << >>]
  BY EncodedEmpty DEF OrderValues, QueueValues, BacklogValues
<1>8. ByValue!EmptyScreen = [id \in OrderIds |-> NoOrder]
      /\ ByValue!FirstOrderId = FirstOrderId
  BY SameOperators DEF ByValue!EmptyScreen, ByValue!FirstOrderId, FirstOrderId
<1>9. ByValue!Init
  BY <1>7, <1>8 DEF ByValue!Init
<1>10. QED
  BY <1>6, <1>9

LEMMA ObjectsStutter ==
  ASSUME ObjectsInv, UNCHANGED objectVars
  PROVE  ObjectsInv' /\ UNCHANGED ByValue!vars
<1>1. /\ UNCHANGED vars
      /\ UNCHANGED <<next_order_id, my_orders, my_clients, phase, queue, backlog,
                     sock, peer, screen, heap, request, served>>
  BY DEF objectVars, vars, sharedVars
<1>2. my_clients' \subseteq Displays /\ IsFiniteSet(my_clients')
      /\ phase' \in [Displays -> {"idle", "login", "joined", "stream", "failed"}]
      /\ NoEarlyBacklog'
  BY <1>1 DEF ObjectsInv, PointersOK, NoEarlyBacklog
<1>3. ObjectsInv' /\ UNCHANGED <<OrderValues, QueueValues, BacklogValues>>
  BY <1>1, <1>2, QuietStep
<1>4. QED
  BY <1>1, <1>3 DEF ByValue!vars

(* Every step preserves the invariant, and is a step of Server or none. *)
LEMMA ObjectsStep ==
  ASSUME ObjectsInv, [ObjectsNext]_objectVars
  PROVE  ObjectsInv' /\ [ByValue!Next]_(ByValue!vars)
<1>1. ASSUME NEW u \in Updaters, ReadRequest(u) \/ EndRequest(u)
      PROVE  ObjectsInv' /\ UNCHANGED ByValue!vars
  BY <1>1, ReadRequestStep, EndRequestStep
<1>2. ASSUME NEW u \in Updaters, CreateOrder(u)
      PROVE  ObjectsInv' /\ ByValue!Next
  <2>1. ObjectsInv' /\ ByValue!create_order(OrderAt(heap, request[u]))
    BY <1>2, CreateOrderStep
  <2>2. OrderAt(heap, request[u]) \in NewOrders
    BY <1>2 DEF CreateOrder, ObjectsInv, Submitted
  <2>3. QED
    BY <2>1, <2>2 DEF ByValue!Next, ByValue!Update
<1>3. ASSUME NEW id \in OrderIds, NEW i \in ItemIds, NEW s \in ItemStatus,
             UpdateItem(id, i, s)
      PROVE  ObjectsInv' /\ ByValue!Next
  <2>1. ObjectsInv' /\ ByValue!update_item(id, i, s)
    BY <1>3, UpdateItemStep
  <2>2. QED
    BY <2>1, SameOperators DEF ByValue!Next, ByValue!Update
<1>4. ASSUME NEW id \in OrderIds, NEW s \in OrderStatus, UpdateOrder(id, s)
      PROVE  ObjectsInv' /\ ByValue!Next
  <2>1. ObjectsInv' /\ ByValue!update_order(id, s)
    BY <1>4, UpdateOrderStep
  <2>2. QED
    BY <2>1, SameOperators DEF ByValue!Next, ByValue!Update
<1>5. ASSUME NEW d \in Displays,
             \/ SnapshotOrders(d) \/ SendOrderOfSnapshot(d) \/ SendMessageOfQueue(d)
             \/ DestroyClient(d)
      PROVE  ObjectsInv' /\ ByValue!Next
  <2>1. /\ ObjectsInv'
        /\ \/ ByValue!snapshot_orders(d) \/ ByValue!SendSnapshot(d)
           \/ ByValue!SendQueued(d) \/ ByValue!remove_client(d)
    BY <1>5, SnapshotStep, SendOrderStep, SendMessageStep, DestroyStep
  <2>2. QED
    BY <2>1 DEF ByValue!Next, ByValue!Serve
<1>6. ASSUME NEW d \in Displays, UNCHANGED sharedVars,
             \/ Connect(d) \/ add_client(d) \/ SendHeartbeat(d) \/ SendFails(d)
             \/ receive(d) \/ PeerCloses(d)
      PROVE  ObjectsInv' /\ ByValue!Next
  BY <1>6, DisplaySteps
<1>7. CASE UNCHANGED objectVars
  BY <1>7, ObjectsStutter
<1>8. CASE ObjectsNext
  BY <1>1, <1>2, <1>3, <1>4, <1>5, <1>6, <1>8 DEF ObjectsNext
<1>9. QED
  BY <1>7, <1>8

(* What create_order, the updates, the snapshot and the sends keep true of *)
(* the objects and the pointers to them.                                   *)
THEOREM ObjectsInvariant == ObjectsSpec => []ObjectsInv
<1>1. ObjectsInit => ObjectsInv
  BY ObjectsInitial
<1>2. ObjectsInv /\ [ObjectsNext]_objectVars => ObjectsInv'
  BY ObjectsStep
<1>3. QED
  BY <1>1, <1>2, PTL DEF ObjectsSpec

(* Memory: the process holds exactly the objects that a pointer leads to,  *)
(* and no two orders share an item, whatever was copied and freed.         *)
THEOREM ObjectsTypeCorrect == ObjectsSpec => []ObjectsTypeOK
<1>1. ASSUME ObjectsInv PROVE ObjectsTypeOK
  <2>1. DOMAIN heap = AndItems(heap, OrderObjects) /\ Whole(heap, OrderObjects)
    BY <1>1 DEF ObjectsInv, HeapOK
  <2>2. ASSUME NEW a \in OrderObjects
        PROVE  /\ heap[a].id \in OrderIds \cup {1}
               /\ OrderAt(heap, a) \in Order
               /\ IsInjective(heap[a].items)
    <3>1. heap[a] \in OrderObject
      BY <2>1 DEF Whole
    <3>2. \A p, q \in DOMAIN heap[a].items : heap[a].items[p] = heap[a].items[q] => p = q
      BY <2>1 DEF Whole
    <3>3. OrderAt(heap, a) \in Order
      BY <2>1, OrderAtType
    <3>4. QED
      BY <3>1, <3>2, <3>3 DEF OrderObject, IsInjective
  <2>3. ASSUME NEW a \in OrderObjects, NEW b \in OrderObjects \ {a}
        PROVE  Range(heap[a].items) \cap Range(heap[b].items) = {}
    BY <2>1 DEF Whole, Range
  <2>4. served \subseteq {u \in Updaters : request[u] # NoOrder}
    BY <1>1 DEF ObjectsInv, PointersOK
  <2>5. QED
    BY <2>1, <2>2, <2>3, <2>4 DEF ObjectsTypeOK
<1>2. QED
  BY <1>1, ObjectsInvariant, PTL

(* README.txt on my_lock, "makes race conditions impossible": no object    *)
(* that update_item and update_order change in place can be reached from a *)
(* message or a request, which other threads read without the lock.        *)
THEOREM OwnershipCorrect == ObjectsSpec => []ServerOwnsItsOrders
<1>1. ASSUME ObjectsInv PROVE ServerOwnsItsOrders
  <2>1. /\ Whole(heap, OrderObjects)
        /\ InMap \cap (InRequests \cup InMessages) = {}
    BY <1>1 DEF ObjectsInv, HeapOK
  <2>2. InMap \in SUBSET OrderObjects /\ InRequests \cup InMessages \in SUBSET OrderObjects
    BY DEF OrderObjects
  <2>3. AndItems(heap, InMap) \cap AndItems(heap, InRequests \cup InMessages) = {}
    BY <2>1, <2>2, WholeApart
  <2>4. QED
    BY <2>3 DEF ServerOwnsItsOrders
<1>2. QED
  BY <1>1, ObjectsInvariant, PTL

(* create_order numbers the items before it copies the order, so that      *)
(* every order that goes out to a display carries its id in every item.    *)
THEOREM ItemIdsCorrect == ObjectsSpec => []ItemsKnowTheirOrder
<1>1. ASSUME ObjectsInv PROVE ItemsKnowTheirOrder
  BY <1>1 DEF ObjectsInv, HeapOK, Whole, ItemsKnowTheirOrder
<1>2. QED
  BY <1>1, ObjectsInvariant, PTL

(* The objects implement the orders that are values: create_order,         *)
(* update_item, update_order, the snapshot and the sends, with all their   *)
(* copying and changing in place, are Server's steps on what the pointers  *)
(* lead to.                                                                *)
THEOREM ObjectsImplementServer == ObjectsSpec => IsByValue
<1>1. ObjectsInit => ByValue!Init
  BY ObjectsInitial
<1>2. ObjectsInv /\ [ObjectsNext]_objectVars => [ByValue!Next]_(ByValue!vars)
  BY ObjectsStep
<1>3. QED
  BY <1>1, <1>2, ObjectsInvariant, PTL DEF ObjectsSpec, IsByValue, ByValue!Spec
===============================================================================
