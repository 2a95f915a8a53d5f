-------------------------------- MODULE MCWire ---------------------------------
(* Small instances of WireTexts for TLC. *)
EXTENDS WireTexts, TLC

MCWords ==
  ClientModes \cup ItemStatuses \cup OrderStatuses \cup MessageTypes
    \cup {"alice/foobar", "alice/", "quit", "no such order", "soup", "small"}

MCWordSize == [w \in MCWords |-> Len(w)]

Text(w) == << Word(w) >>

MCItem(id, desc, qty) ==
  [order_id |-> 1, id |-> id, status |-> "NEW", desc |-> desc, qty |-> qty]

MCOrder(type, items) ==
  [type |-> type, order |-> [id |-> 1, status |-> "NEW", items |-> items]]

(* One message of each kind, and orders whose description has a comma in it or *)
(* is empty.                                                                   *)
MCSound ==
  {[type |-> "LOGIN", client_mode |-> "UPDATER", str |-> Text("alice/foobar")],
   [type |-> "QUIT", str |-> Text("quit")],
   [type |-> "OK", str |-> << >>],
   [type |-> "ERROR", str |-> Text("no such order")],
   [type |-> "DISP_HEARTBEAT"],
   [type |-> "ITEM_UPDATE", order_id |-> 1, item_id |-> 2, item_status |-> "DONE"],
   [type |-> "DISP_ITEM_UPDATE", order_id |-> 2, item_id |-> 1, item_status |-> "NEW"],
   [type |-> "ORDER_UPDATE", order_id |-> 1, order_status |-> "DELIVERED"],
   [type |-> "DISP_ORDER_UPDATE", order_id |-> 1, order_status |-> "DONE"],
   MCOrder("ORDER_NEW", <<MCItem(1, Text("soup"), 2)>>),
   MCOrder("ORDER_NEW", <<MCItem(1, <<Word("soup"), Comma>>, 1)>>),
   MCOrder("DISP_ORDER", <<MCItem(1, << >>, 1), MCItem(2, Text("soup"), 1)>>)}

(* Messages the programs can be made to send and that have to be refused. *)
MCUnsound ==
  {[type |-> "LOGIN", client_mode |-> "DISPLAY", str |-> <<Word("alice/"), Bar>>],
   [type |-> "ITEM_UPDATE", order_id |-> 0, item_id |-> 1, item_status |-> "NEW"],
   [type |-> "ITEM_UPDATE", order_id |-> 1, item_id |-> 1, item_status |-> "INVALID"],
   [type |-> "ORDER_UPDATE", order_id |-> -1, order_status |-> "DELIVERED"],
   [type |-> "ORDER_UPDATE", order_id |-> 1, order_status |-> "INVALID"],
   MCOrder("ORDER_NEW", << >>),
   MCOrder("ORDER_NEW", <<MCItem(1, Text("soup"), 0)>>),
   MCOrder("ORDER_NEW", <<MCItem(-1, Text("soup"), 1)>>),
   MCOrder("ORDER_NEW", <<MCItem(1, <<Word("soup"), Semi>>, 1)>>),
   MCOrder("ORDER_NEW", <<MCItem(1, <<Word("soup"), Colon, Word("small")>>, 1)>>),
   MCOrder("ORDER_NEW",
     <<MCItem(1, Text("soup") \o <<Colon, Numeral(1, 0), Semi, Numeral(1, 0), Colon,
                   Numeral(2, 0), Colon, Word("NEW"), Colon, Word("soup")>>, 1)>>),
   MCOrder("ORDER_NEW", <<MCItem(1, <<Word("soup"), Bar, Word("soup")>>, 1)>>)}

MCMessages == MCSound \cup MCUnsound

(* Numbers on both sides of both bounds and one with a zero in front. *)
MCTokens ==
  {Bar, Comma, Semi, Colon, Word("NEW"), Word("DELIVERED"), Word("soup"),
   Word("ORDER_NEW"), Numeral(0, 0), Numeral(1, 1), Numeral(2, 0), Numeral(3, 0)}
===============================================================================
