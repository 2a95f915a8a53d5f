--------------------------------- MODULE Wire ---------------------------------
(***************************************************************************)
(* The text form of messages: Wire::encode, Wire::decode, Util::split.     *)
(*                                                                         *)
(* A text is a sequence of tokens: separators, words, and numerals with    *)
(* their value and leading zeros.  A separator stands between any two of   *)
(* the others.  Where decode throws InvalidMessage, the result is Invalid. *)
(***************************************************************************)
EXTENDS Integers, FiniteSets, SequencesExt

CONSTANTS
  INT_MAX,    \* the greatest int
  Words,      \* what texts are made of besides separators and numerals
  WordSize,   \* how many bytes a word has
  Base        \* numbers are written in this base: ten

Separator(c) == [separator |-> c]
Word(w)      == [word |-> w]
Numeral(n, zeros) == [number |-> n, zeros |-> zeros]

Bar   == Separator("|")
Comma == Separator(",")
Semi  == Separator(";")
Colon == Separator(":")

Separators == {Bar, Comma, Semi, Colon}
Token == Separators \cup [word : Words] \cup [number : Int, zeros : Nat]

IsNumeral(token) == "number" \in DOMAIN token

(* std::to_string *)
to_string(n) == << Numeral(n, 0) >>

(* The length of what std::to_string writes, a minus sign included. *)
Digits(n) ==
  LET m == IF n < 0 THEN -n ELSE n
  IN  (IF n < 0 THEN 2 ELSE 1) + Cardinality({k \in 1 .. m : Base ^ k <= m})

TokenSize(token) ==
  IF IsNumeral(token) THEN token.zeros + Digits(token.number)
  ELSE IF "word" \in DOMAIN token THEN WordSize[token.word] ELSE 1

(* The length of a text in bytes, which IO::send puts in front of it. *)
Size(s) ==
  LET size[n \in 0 .. Len(s)] ==
        IF n = 0 THEN 0 ELSE size[n - 1] + TokenSize(s[n])
  IN  size[Len(s)]

-------------------------------------------------------------------------------
(* The tables.  INVALID has a name of its own, too. *)

ClientModes   == {"INVALID", "UPDATER", "DISPLAY"}
ItemStatuses  == {"INVALID", "NEW", "IN_PROGRESS", "DONE"}
OrderStatuses == {"INVALID", "NEW", "IN_PROGRESS", "DONE", "DELIVERED"}
MessageTypes  ==
  {"INVALID", "LOGIN", "QUIT", "ORDER_NEW", "ITEM_UPDATE", "ORDER_UPDATE", "OK",
   "ERROR", "DISP_ORDER", "DISP_ITEM_UPDATE", "DISP_ORDER_UPDATE", "DISP_HEARTBEAT"}

ASSUME WireAssumption ==
  /\ INT_MAX \in Nat \ {0}
  /\ ClientModes \cup ItemStatuses \cup OrderStatuses \cup MessageTypes \subseteq Words
  /\ WordSize \in [Words -> Nat]
  /\ Base \in Nat \ {0, 1}

OrderTypes       == {"ORDER_NEW", "DISP_ORDER"}
ItemUpdateTypes  == {"ITEM_UPDATE", "DISP_ITEM_UPDATE"}
OrderUpdateTypes == {"ORDER_UPDATE", "DISP_ORDER_UPDATE"}
TextTypes        == {"QUIT", "OK", "ERROR"}

(* Messages as the programs build them, before anything has been checked.  *)
Item    == [order_id : Int, id : Int, status : ItemStatuses, desc : Seq(Token),
            qty : Int]
Order   == [id : Int, status : OrderStatuses, items : Seq(Item)]
Message ==
  [type : {"DISP_HEARTBEAT"}]
  \cup [type : {"LOGIN"}, client_mode : ClientModes, str : Seq(Token)]
  \cup [type : TextTypes, str : Seq(Token)]
  \cup [type : OrderTypes, order : Order]
  \cup [type : ItemUpdateTypes, order_id : Int, item_id : Int,
        item_status : ItemStatuses]
  \cup [type : OrderUpdateTypes, order_id : Int, order_status : OrderStatuses]

ToStr(value) == << Word(value) >>

FromStr(table, text) ==
  IF \E v \in table : text = ToStr(v)
  THEN CHOOSE v \in table : text = ToStr(v)
  ELSE "INVALID"

-------------------------------------------------------------------------------
(* Util *)

(* Mutant: nothing comes after a separator at the very end. *)
split_NoEmptyEnd(s, sep) ==
  LET parts[n \in 0 .. Len(s)] ==
        IF n = 0 THEN << << >> >>
        ELSE LET v == parts[n - 1]
             IN  IF s[n] # sep THEN Append(Front(v), Append(Last(v), s[n]))
                 ELSE IF n < Len(s) THEN Append(v, << >>) ELSE v
  IN  parts[Len(s)]

(* Between separators there may be nothing, at the end as elsewhere; what  *)
(* the first n tokens make is parts[n].                                    *)
split(s, sep) ==
  LET parts[n \in 0 .. Len(s)] ==
        IF n = 0 THEN << << >> >>
        ELSE LET v == parts[n - 1]
             IN  IF s[n] = sep THEN Append(v, << >>)
                 ELSE Append(Front(v), Append(Last(v), s[n]))
  IN  parts[Len(s)]

Joined(parts, sep) ==
  LET text[n \in 1 .. Len(parts)] ==
        IF n = 1 THEN parts[1] ELSE text[n - 1] \o <<sep>> \o parts[n]
  IN  text[Len(parts)]

-------------------------------------------------------------------------------
(* encode *)

(* Mutant: an empty description is left out. *)
EncodedItem_SkipsEmpty(item) ==
  Joined(<<to_string(item.order_id), to_string(item.id), ToStr(item.status)>>
           \o (IF item.desc = << >> THEN << >> ELSE <<item.desc>>)
           \o <<to_string(item.qty)>>, Colon)

EncodedItem(item) ==
  Joined(<<to_string(item.order_id), to_string(item.id), ToStr(item.status),
           item.desc, to_string(item.qty)>>, Colon)

(* Mutant: a semicolon follows the last item, too. *)
encode_order_SemiAtEnd(order) ==
  to_string(order.id) \o <<Comma>> \o ToStr(order.status) \o <<Comma>>
    \o Joined([i \in DOMAIN order.items |-> EncodedItem(order.items[i])], Semi)
    \o <<Semi>>

encode_order(order) ==
  to_string(order.id) \o <<Comma>> \o ToStr(order.status) \o <<Comma>>
    \o Joined([i \in DOMAIN order.items |-> EncodedItem(order.items[i])], Semi)

(* encode refuses orders without items. *)
Encodable(msg) == msg.type \in OrderTypes => msg.order.items # << >>

Fields(msg) ==
  CASE msg.type = "DISP_HEARTBEAT" -> << >>
    [] msg.type = "LOGIN" -> <<ToStr(msg.client_mode), msg.str>>
    [] msg.type \in TextTypes -> <<msg.str>>
    [] msg.type \in OrderTypes -> <<encode_order(msg.order)>>
    [] msg.type \in ItemUpdateTypes ->
         <<to_string(msg.order_id), to_string(msg.item_id), ToStr(msg.item_status)>>
    [] msg.type \in OrderUpdateTypes ->
         <<to_string(msg.order_id), ToStr(msg.order_status)>>

encode(msg) == Joined(<<ToStr(msg.type)>> \o Fields(msg), Bar)

-------------------------------------------------------------------------------
(* decode *)

Invalid == [type |-> "INVALID"]

(* Mutant: a number that does not fit an int goes through. *)
validate_id_message_AnySize(text, min) ==
  Len(text) = 1 /\ IsNumeral(text[1]) /\ text[1].number >= min

(* Whether validate_id_message returns; a sign is no digit, but a number   *)
(* with a minus sign is also below every min.                              *)
validate_id_message(text, min) ==
  Len(text) = 1 /\ IsNumeral(text[1]) /\ text[1].number \in min .. INT_MAX

NumberIn(text) == text[1].number

(* Mutant: an item may have further fields. *)
ItemAccepted_Longer(f) ==
  /\ Len(f) >= 5
  /\ validate_id_message(f[1], 1)
  /\ validate_id_message(f[2], 1)
  /\ FromStr(ItemStatuses, f[3]) # "INVALID"
  /\ validate_id_message(f[5], 1)

ItemAccepted(f) ==
  /\ Len(f) = 5
  /\ validate_id_message(f[1], 1)
  /\ validate_id_message(f[2], 1)
  /\ FromStr(ItemStatuses, f[3]) # "INVALID"
  /\ validate_id_message(f[5], 1)

DecodedItem(f) ==
  [order_id |-> NumberIn(f[1]), id |-> NumberIn(f[2]),
   status |-> FromStr(ItemStatuses, f[3]), desc |-> f[4], qty |-> NumberIn(f[5])]

(* The first two commas end the id and the status; descriptions may have more. *)
OrderParts(s) ==
  LET parts == split(s, Comma)
  IN  IF Len(parts) < 3 THEN parts
      ELSE <<parts[1], parts[2], Joined(SubSeq(parts, 3, Len(parts)), Comma)>>

ItemTexts(s) ==
  LET items == split(s, Semi) IN [i \in DOMAIN items |-> split(items[i], Colon)]

OrderAccepted(parts) ==
  /\ Len(parts) = 3
  /\ validate_id_message(parts[1], 1)
  /\ FromStr(OrderStatuses, parts[2]) # "INVALID"
  /\ LET items == ItemTexts(parts[3])
     IN  \A i \in DOMAIN items : ItemAccepted(items[i])

decode_order(parts) ==
  [id |-> NumberIn(parts[1]), status |-> FromStr(OrderStatuses, parts[2]),
   items |-> LET items == ItemTexts(parts[3])
             IN  [i \in DOMAIN items |-> DecodedItem(items[i])]]

Accepted(type, f) ==
  \/ type = "DISP_HEARTBEAT" /\ Len(f) = 1
  \/ type = "LOGIN" /\ Len(f) = 3 /\ FromStr(ClientModes, f[2]) # "INVALID"
  \/ type \in TextTypes /\ Len(f) = 2
  \/ type \in OrderTypes /\ Len(f) = 2 /\ OrderAccepted(OrderParts(f[2]))
  \/ /\ type \in ItemUpdateTypes /\ Len(f) = 4
     /\ validate_id_message(f[2], 1) /\ validate_id_message(f[3], 1)
     /\ FromStr(ItemStatuses, f[4]) # "INVALID"
  \/ /\ type \in OrderUpdateTypes /\ Len(f) = 3
     /\ validate_id_message(f[2], 1)
     /\ FromStr(OrderStatuses, f[3]) # "INVALID"

Decoded(type, f) ==
  CASE type = "DISP_HEARTBEAT" -> [type |-> type]
    [] type = "LOGIN" ->
         [type |-> type, client_mode |-> FromStr(ClientModes, f[2]), str |-> f[3]]
    [] type \in TextTypes -> [type |-> type, str |-> f[2]]
    [] type \in OrderTypes -> [type |-> type, order |-> decode_order(OrderParts(f[2]))]
    [] type \in ItemUpdateTypes ->
         [type |-> type, order_id |-> NumberIn(f[2]), item_id |-> NumberIn(f[3]),
          item_status |-> FromStr(ItemStatuses, f[4])]
    [] type \in OrderUpdateTypes ->
         [type |-> type, order_id |-> NumberIn(f[2]),
          order_status |-> FromStr(OrderStatuses, f[3])]

decode(s) ==
  LET f    == split(s, Bar)
      type == FromStr(MessageTypes, f[1])
  IN  IF Accepted(type, f) THEN Decoded(type, f) ELSE Invalid

-------------------------------------------------------------------------------
(* What becomes of an ORDER_NEW: Server::create_order gives the order and its *)
(* items the new id, and broadcasts a copy.                                   *)
Announced(msg, n) ==
  [type |-> "DISP_ORDER",
   order |-> [msg.order EXCEPT
                !.id = n,
                !.items = [i \in DOMAIN @ |-> [@[i] EXCEPT !.order_id = n]]]]
===============================================================================
