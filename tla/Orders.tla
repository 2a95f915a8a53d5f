-------------------------------- MODULE Orders --------------------------------
(***************************************************************************)
(* The data of the order tracker: items, orders and the display messages   *)
(* (include/model.h, src/model.cpp, include/message.h, src/message.cpp),   *)
(* the status rules of Server::update_item and Server::update_order, and   *)
(* what a display program does with a message (src/display_main.cpp).      *)
(*                                                                         *)
(* Every handover in the code is a deep copy (Order::duplicate,            *)
(* Message::duplicate), so orders and messages are plain values here.      *)
(* Descriptions and quantities are never read by the logic and are left    *)
(* out; so is an item's own order id, which create_order makes equal to    *)
(* the id of its order.  The INVALID statuses never get past Wire::decode. *)
(*                                                                         *)
(* An operator whose comment begins with "Mutant" is a deliberately wrong  *)
(* variant of the definition it precedes; no specification uses it.  It    *)
(* serves to check that a property notices such a mistake.                 *)
(***************************************************************************)
EXTENDS Integers, Sequences

CONSTANTS
  ItemIds,   \* the item ids an updater may type in
  NoOrder    \* "there is no such order": a map without an entry

ItemStatus  == {"NEW", "IN_PROGRESS", "DONE"}
OrderStatus == {"NEW", "IN_PROGRESS", "DONE", "DELIVERED"}

Item  == [id : ItemIds, status : ItemStatus]
Order == [status : OrderStatus, items : Seq(Item)]

ASSUME NoOrderAssumption == NoOrder \notin Order

MaybeOrder == Order \cup {NoOrder}

-------------------------------------------------------------------------------
(* Order::find_item returns the first item with the given id; a second     *)
(* item that carries the same id is out of reach.                          *)

Names(o, p, i) ==
  /\ p \in DOMAIN o.items
  /\ o.items[p].id = i
  /\ \A q \in 1 .. p - 1 : o.items[q].id # i

HasItem(o, i) == \E p \in DOMAIN o.items : Names(o, p, i)

find_item(o, i) == CHOOSE p \in DOMAIN o.items : Names(o, p, i)

(* Mutant: every item with the id is set, not only the first one. *)
set_item_status_Every(o, i, s) ==
  [o EXCEPT !.items = [p \in DOMAIN @ |->
    IF @[p].id = i THEN [@[p] EXCEPT !.status = s] ELSE @[p]]]

set_item_status(o, i, s) == [o EXCEPT !.items[find_item(o, i)].status = s]

AllDone(o) == \A p \in DOMAIN o.items : o.items[p].status = "DONE"

-------------------------------------------------------------------------------
(* Mutant: only setting the status an item already has is refused. *)
ItemStep_AnyChange(from, to) == from # to

(* Mutant: an update to the status that an item already has is accepted. *)
ItemStep_Repeats(from, to) ==
  \/ from = "NEW"                   /\ to = "IN_PROGRESS"
  \/ from \in {"IN_PROGRESS", "DONE"} /\ to = "DONE"

(* The transition an item may make: anything else is a SemanticError. *)
ItemStep(from, to) ==
  \/ from = "NEW"         /\ to = "IN_PROGRESS"
  \/ from = "IN_PROGRESS" /\ to = "DONE"

(* Mutant: the first DONE item completes its order. *)
StatusAfter_FirstDone(o, s) ==
  IF o.status = "NEW" /\ s = "IN_PROGRESS" THEN "IN_PROGRESS"
  ELSE IF o.status = "IN_PROGRESS" /\ s = "DONE" THEN "DONE"
  ELSE o.status

(* The status an order gets when one of its items has just become s: o is  *)
(* the order with that item already set.  Note the ELSE: an order that is  *)
(* NEW is only looked at for completion when s is not IN_PROGRESS.         *)
StatusAfter(o, s) ==
  IF o.status = "NEW" /\ s = "IN_PROGRESS" THEN "IN_PROGRESS"
  ELSE IF o.status \in {"NEW", "IN_PROGRESS"} /\ AllDone(o) THEN "DONE"
  ELSE o.status

-------------------------------------------------------------------------------
(* The messages a display receives.  The constructor Message() fills the   *)
(* fields a message does not use; a heartbeat's order id stays -1.         *)

DispOrder(id, o)        == [type |-> "DISP_ORDER", id |-> id, order |-> o]
DispItemUpdate(id, i, s) ==
  [type |-> "DISP_ITEM_UPDATE", id |-> id, item |-> i, status |-> s]
DispOrderUpdate(id, s)  ==
  [type |-> "DISP_ORDER_UPDATE", id |-> id, status |-> s]
DispHeartbeat           == [type |-> "DISP_HEARTBEAT", id |-> -1]

(* One turn of the display program's loop: the screen (its map of orders)  *)
(* after message m.  An update of an order or of an item that the display  *)
(* does not know is dropped.                                               *)
Show(screen, m) ==
  CASE m.type = "DISP_ORDER" -> [screen EXCEPT ![m.id] = m.order]
    [] /\ m.type = "DISP_ITEM_UPDATE"
       /\ screen[m.id] # NoOrder
       /\ HasItem(screen[m.id], m.item)
       -> [screen EXCEPT ![m.id] = set_item_status(@, m.item, m.status)]
    [] m.type = "DISP_ORDER_UPDATE" /\ screen[m.id] # NoOrder
       -> [screen EXCEPT ![m.id] = IF m.status = "DELIVERED" THEN NoOrder
                                   ELSE [@ EXCEPT !.status = m.status]]
    [] OTHER -> screen
===============================================================================
