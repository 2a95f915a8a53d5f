------------------------------- MODULE WireTexts -------------------------------
(***************************************************************************)
(* The texts Wire::decode is checked on: the encoding of a message and     *)
(* whatever a few edits make of it.  The repository's own programs send    *)
(* encodings only; the server must cope with what others send, and the     *)
(* unit tests (message_tests.cpp:282-345) try some forty texts of this     *)
(* kind.                                                                   *)
(***************************************************************************)
EXTENDS Wire

CONSTANTS
  Messages,   \* the messages that are encoded
  Tokens,     \* what an edit may put in
  MaxEdits,   \* bound on the number of edits
  NewId       \* the id create_order gives

ASSUME WireTextsAssumption ==
  Messages \subseteq Message /\ Tokens \subseteq Token /\ NewId \in 1 .. INT_MAX

VARIABLES
  message,    \* the message encoded at first
  text,
  edits       \* how often it has been edited

vars == <<message, text, edits>>

Init ==
  /\ message \in {m \in Messages : Encodable(m)}
  /\ text = encode(message)
  /\ edits = 0

(* Two tokens that are not separated would be one word. *)
Readable(s) ==
  \A i \in 1 .. Len(s) - 1 :
    "separator" \in DOMAIN s[i] \/ "separator" \in DOMAIN s[i + 1]

Edit(s) ==
  /\ edits < MaxEdits
  /\ Readable(s)
  /\ text' = s
  /\ edits' = edits + 1
  /\ UNCHANGED message

InsertToken  == \E i \in 1 .. Len(text) + 1, t \in Tokens : Edit(InsertAt(text, i, t))
ReplaceToken == \E i \in DOMAIN text, t \in Tokens : Edit(ReplaceAt(text, i, t))
RemoveToken  == \E i \in DOMAIN text : Edit(RemoveAt(text, i))

Next == InsertToken \/ ReplaceToken \/ RemoveToken

Spec == Init /\ [][Next]_vars

-------------------------------------------------------------------------------
(* Properties *)

Occurs(token, s) == \E i \in DOMAIN s : s[i] = token

(* Text that can be told from the separators around it. *)
Plain(s, separators) == \A sep \in separators : ~Occurs(sep, s)

Ids == 1 .. INT_MAX

ItemSound(item) ==
  /\ item.order_id \in Ids /\ item.id \in Ids /\ item.qty \in Ids
  /\ item.status \in ItemStatuses \ {"INVALID"}
  /\ Plain(item.desc, {Bar, Semi, Colon})

Sound(msg) ==
  \/ msg.type = "DISP_HEARTBEAT"
  \/ /\ msg.type = "LOGIN" /\ Plain(msg.str, {Bar})
     /\ msg.client_mode \in ClientModes \ {"INVALID"}
  \/ msg.type \in TextTypes /\ Plain(msg.str, {Bar})
  \/ /\ msg.type \in OrderTypes
     /\ msg.order.id \in Ids /\ msg.order.status \in OrderStatuses \ {"INVALID"}
     /\ msg.order.items # << >>
     /\ \A i \in DOMAIN msg.order.items : ItemSound(msg.order.items[i])
  \/ /\ msg.type \in ItemUpdateTypes
     /\ msg.order_id \in Ids /\ msg.item_id \in Ids
     /\ msg.item_status \in ItemStatuses \ {"INVALID"}
  \/ /\ msg.type \in OrderUpdateTypes
     /\ msg.order_id \in Ids /\ msg.order_status \in OrderStatuses \ {"INVALID"}

(* Whatever is sent, decode refuses it or returns a message all of whose   *)
(* numbers are positive ints, whose statuses and modes exist and whose     *)
(* order has items (wire.cpp:105-185, 275-374).                            *)
DecodedIsSound == decode(text) = Invalid \/ Sound(decode(text))

SemiFree(msg) ==
  msg.type \in OrderTypes =>
    \A i \in DOMAIN msg.order.items : Plain(msg.order.items[i].desc, {Semi})

(* A message arrives as it was sent when it is sound and only then         *)
(* (wire.cpp:231-374).  One that is not - a negative quantity, the status  *)
(* INVALID that str_to_item_status makes of a typing error, a separator in *)
(* a description or a password - is refused by the receiver, and never     *)
(* taken for another unless a description has a semicolon in it: encode    *)
(* escapes nothing, and what follows the semicolon is an item to decode.   *)
RoundTrip ==
  text = encode(message) =>
    /\ Sound(message) <=> decode(text) = message
    /\ SemiFree(message) => decode(text) \in {message, Invalid}

(* e is s without the zeros at the front of some of its numbers. *)
Trimmed(e, s) ==
  /\ Len(e) = Len(s)
  /\ \A i \in DOMAIN s :
       \/ e[i] = s[i]
       \/ IsNumeral(s[i]) /\ e[i] = Numeral(s[i].number, 0)

(* decode ignores nothing but the zeros at the front of a number: a text   *)
(* that it accepts is the encoding of what it returns (wire.cpp:275-374).  *)
(* No two messages are behind one text, and no field is dropped.           *)
AcceptedIsEncoding ==
  decode(text) # Invalid => Trimmed(encode(decode(text)), text)

(* What a display decodes of the broadcast of an accepted order is what    *)
(* create_order announced: whatever the order's description, putting other *)
(* ids before it does not make it read as something else, or not at all    *)
(* (server.cpp:71-91, wire.cpp:82-185).  Whether the broadcast gets to the *)
(* display is a matter of its length.                                      *)
RelayedIntact ==
  decode(text).type = "ORDER_NEW" =>
    LET announced == Announced(decode(text), NewId)
    IN  decode(encode(announced)) = announced

(* How much longer than the request a broadcast can be: the new id is      *)
(* written once for the order and once for each item.                      *)
Growth(msg) ==
  WordSize["DISP_ORDER"] - WordSize["ORDER_NEW"]
    + (1 + Len(msg.order.items)) * (Digits(NewId) - 1)

(* The broadcast of an accepted order is longer than the request by no     *)
(* more than that (server.cpp:79-87).  So an order that leaves as much     *)
(* room in a frame of four digits is sent to the displays in a frame that  *)
(* they can read.  The code does not ask for the room: an order with less  *)
(* of it is accepted, and its broadcast has a length that receive does not *)
(* take (io.cpp:45-49; the run framing_length).                            *)
AnnouncedLength ==
  decode(text).type = "ORDER_NEW" =>
    Size(encode(Announced(decode(text), NewId))) <= Size(text) + Growth(decode(text))
===============================================================================
