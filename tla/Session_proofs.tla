--------------------------- MODULE Session_proofs -----------------------------
(***************************************************************************)
(* Theorems about Session, for any number of updaters and displays, any    *)
(* orders the updaters submit and any number of them.                      *)
(***************************************************************************)
EXTENDS Session, Server_proofs

(* The fields of an updater's message. *)
LEMMA RequestFields ==
  ASSUME NEW m \in UpdaterMessage
  PROVE  /\ m.type = "ORDER_NEW" => m.order \in NewOrders
         /\ m.type = "ITEM_UPDATE" =>
              m.id \in OrderIds /\ m.item \in ItemIds /\ m.status \in ItemStatus
         /\ m.type = "ORDER_UPDATE" => m.id \in OrderIds /\ m.status \in OrderStatus
BY DEF UpdaterMessage, Requests, OrderNew, ItemUpdate, OrderUpdate, Login,
       QuitMessage, Unreadable

LEMMA RequestTypes ==
  ASSUME NEW m \in Requests
  PROVE  m.type \in {"ORDER_NEW", "ITEM_UPDATE", "ORDER_UPDATE", "INVALID"}
BY DEF Requests, OrderNew, ItemUpdate, OrderUpdate, Unreadable

LEMMA MessageTypes ==
  /\ Requests \subseteq UpdaterMessage
  /\ QuitMessage \in UpdaterMessage
  /\ Login(TRUE) \in UpdaterMessage
  /\ Login(FALSE) \in UpdaterMessage
  /\ Unreadable \in UpdaterMessage
<1>1. Unreadable \in Requests
  BY DEF Requests
<1>2. QED
  BY <1>1 DEF UpdaterMessage

(* To the server a session is an updater as module Server has it: each of  *)
(* its steps is one of Update or changes nothing there.                    *)
LEMMA ServerStep == SessionTypeOK /\ [SessionNext]_allVars => [Next]_vars
<1> SUFFICES ASSUME SessionTypeOK, SessionNext, ~ UNCHANGED vars
             PROVE  Update
  BY DEF allVars, Next
<1>1. PICK u \in Updaters : update_chat(u)
  BY DEF SessionNext, ProgramWaits, ThreadRuns, connectLogin, request, quit,
         ProgramEnds, result, ProgramSeesEnd, login, send_answer,
         ThreadSeesEnd, close
<1> DEFINE m == Head(toServer[u])
<1>2. m \in UpdaterMessage
  BY <1>1 DEF update_chat, SessionTypeOK
<1>3. Served(u, m)
  BY <1>1 DEF update_chat
<1> HIDE DEF m
<1>4. QED
  BY <1>2, <1>3, RequestFields DEF Served, Update

LEMMA SessionTypeInit == SessionInit => SessionTypeOK
BY TypeInit DEF SessionInit, SessionTypeOK, NoAnswer, Answers

LEMMA AnswerType ==
  ASSUME SessionTypeOK, NEW u \in Updaters, NEW m \in Answers,
         NEW then \in {"serving", "leaving"}, Answer(u, m, then)
  PROVE  /\ thread' \in [Updaters -> {"none", "login", "serving", "answering", "leaving"}]
         /\ answer' \in [Updaters -> [msg : Answers, then : {"serving", "leaving"}]]
BY DEF Answer, SessionTypeOK

LEMMA LeaveType ==
  ASSUME SessionTypeOK, NEW u \in Updaters, Leave(u)
  PROVE  /\ thread' \in [Updaters -> {"none", "login", "serving", "answering", "leaving"}]
         /\ answer' \in [Updaters -> [msg : Answers, then : {"serving", "leaving"}]]
BY DEF Leave, SessionTypeOK

LEMMA SessionTypeStep ==
  SessionTypeOK /\ [SessionNext]_allVars => SessionTypeOK'
<1> SUFFICES ASSUME SessionTypeOK, [SessionNext]_allVars PROVE SessionTypeOK'
  OBVIOUS
<1>0. TypeOK'
  BY ServerStep, TypeStep DEF SessionTypeOK
<1>1. /\ Ok \in Answers
      /\ Error \in Answers
      /\ \A id \in OrderIds : Created(id) \in Answers
      /\ NoAnswer \in [msg : Answers, then : {"serving", "leaving"}]
  BY DEF Answers, NoAnswer
<1>2. /\ Requests \subseteq UpdaterMessage
      /\ QuitMessage \in UpdaterMessage
      /\ Login(TRUE) \in UpdaterMessage
      /\ Login(FALSE) \in UpdaterMessage
      /\ Unreadable \in UpdaterMessage
  BY MessageTypes
<1> USE DEF SessionTypeOK
<1>3. ASSUME NEW u \in Updaters, connectLogin(u) PROVE SessionTypeOK'
  <2>1. ASSUME NEW m \in UpdaterMessage,
               toServer' = [toServer EXCEPT ![u] = <<m>>]
        PROVE  toServer' \in [Updaters -> Seq(UpdaterMessage)]
    BY <2>1
  <2>2. toServer' \in [Updaters -> Seq(UpdaterMessage)]
    BY <1>2, <1>3, <2>1 DEF connectLogin
  <2>3. QED
    BY <1>0, <1>3, <2>2 DEF connectLogin
<1>4. ASSUME NEW u \in Updaters, request(u) PROVE SessionTypeOK'
  <2>1. \A m \in Requests : Append(toServer[u], m) \in Seq(UpdaterMessage)
    BY <1>2, AppendProperties
  <2>2. QED
    BY <1>0, <1>4, <2>1 DEF request
<1>5. ASSUME NEW u \in Updaters, quit(u) PROVE SessionTypeOK'
  <2>1. Append(toServer[u], QuitMessage) \in Seq(UpdaterMessage)
    BY <1>2, AppendProperties
  <2>2. QED
    BY <1>0, <1>5, <2>1 DEF quit
<1>6. ASSUME NEW u \in Updaters, result(u) PROVE SessionTypeOK'
  <2>1. Tail(toProgram[u]) \in Seq(Answers)
    BY <1>6 DEF result
  <2>2. QED
    BY <1>0, <1>6, <2>1 DEF result
<1>7. ASSUME NEW u \in Updaters, ProgramSeesEnd(u) PROVE SessionTypeOK'
  BY <1>0, <1>7 DEF ProgramSeesEnd
<1>8. ASSUME NEW u \in Updaters, ProgramEnds(u) PROVE SessionTypeOK'
  <2>1. << >> \in Seq(Answers)
    OBVIOUS
  <2>2. QED
    BY <1>0, <1>8, <2>1 DEF ProgramEnds
<1>9. ASSUME NEW u \in Updaters, login(u) PROVE SessionTypeOK'
  <2>1. Tail(toServer[u]) \in Seq(UpdaterMessage)
    BY <1>9 DEF login
  <2>2. \/ Answer(u, Ok, "serving")
        \/ Answer(u, Error, "leaving")
        \/ Leave(u)
    BY <1>9 DEF login
  <2>3. /\ thread' \in [Updaters -> {"none", "login", "serving", "answering", "leaving"}]
        /\ answer' \in [Updaters -> [msg : Answers, then : {"serving", "leaving"}]]
    BY <1>1, <2>2, AnswerType, LeaveType
  <2>4. QED
    BY <1>0, <1>9, <2>1, <2>3 DEF login
<1>10. ASSUME NEW u \in Updaters, update_chat(u) PROVE SessionTypeOK'
  <2>1. Tail(toServer[u]) \in Seq(UpdaterMessage)
    BY <1>10 DEF update_chat
  <2>2. \/ next_order_id \in OrderIds /\ Answer(u, Created(next_order_id), "serving")
        \/ Answer(u, Ok, "serving")
        \/ Answer(u, Ok, "leaving")
        \/ Answer(u, Error, "serving")
        \/ Leave(u)
    BY <1>10 DEF update_chat, Served, create_order
  <2>3. /\ thread' \in [Updaters -> {"none", "login", "serving", "answering", "leaving"}]
        /\ answer' \in [Updaters -> [msg : Answers, then : {"serving", "leaving"}]]
    BY <1>1, <2>2, AnswerType, LeaveType
  <2>4. QED
    BY <1>0, <1>10, <2>1, <2>3 DEF update_chat
<1>11. ASSUME NEW u \in Updaters, send_answer(u) PROVE SessionTypeOK'
  <2>1. /\ Append(toProgram[u], answer[u].msg) \in Seq(Answers)
        /\ answer[u].then \in {"serving", "leaving"}
    BY AppendProperties
  <2>2. toProgram' \in [Updaters -> Seq(Answers)]
    BY <1>11, <2>1 DEF send_answer
  <2>3. thread' \in [Updaters -> {"none", "login", "serving", "answering", "leaving"}]
    BY <1>11, <2>1 DEF send_answer
  <2>4. QED
    BY <1>0, <1>1, <1>11, <2>2, <2>3 DEF send_answer
<1>12. ASSUME NEW u \in Updaters, ThreadSeesEnd(u) PROVE SessionTypeOK'
  BY <1>0, <1>12, LeaveType DEF ThreadSeesEnd
<1>13. ASSUME NEW u \in Updaters, close(u) PROVE SessionTypeOK'
  <2>1. << >> \in Seq(UpdaterMessage)
    OBVIOUS
  <2>2. QED
    BY <1>0, <1>13, <2>1 DEF close
<1>14. CASE UNCHANGED allVars
  BY <1>0, <1>14 DEF allVars, updaterVars
<1>15. QED
  BY <1>3, <1>4, <1>5, <1>6, <1>7, <1>8, <1>9, <1>10, <1>11, <1>12, <1>13,
     <1>14 DEF SessionNext, ProgramWaits, ThreadRuns

(* The type invariant, for any updaters, displays, orders and bounds. *)
THEOREM SessionTypeCorrect == SessionSpec => []SessionTypeOK
BY SessionTypeInit, SessionTypeStep, PTL DEF SessionSpec

(* Every execution of the sessions is one of the server as module Server   *)
(* has it, so its theorems hold in Session as well.                        *)
THEOREM SessionImplementsServer == SessionSpec => Spec
<1>1. SessionInit => Init
  BY DEF SessionInit
<1>2. SessionTypeOK /\ [SessionNext]_allVars => [Next]_vars
  BY ServerStep
<1>3. QED
  BY <1>1, <1>2, SessionTypeCorrect, PTL DEF SessionSpec, Spec

-------------------------------------------------------------------------------
(* Requests and answers take turns *)

(* m, after which the server's thread is in state t, can be the answer to  *)
(* what the program at u waits for.                                        *)
Fits(u, m, t) ==
  /\ program[u] = "login" /\ m.type = "OK" => t = "serving"
  /\ program[u] = "waiting" =>
       /\ t = "serving"
       /\ asked[u] \in Requests
       /\ m.type = "OK" => Holds(asked[u], m)

(* The stages of an exchange: the program has gone, is at its prompt, has  *)
(* sent something; the thread is about to answer, has answered, or ends.   *)
Gone(u) ==
  /\ program[u] = "off"
  /\ toProgram[u] = << >>
  /\ thread[u] = "none" => toServer[u] = << >>

Ready(u) ==
  /\ program[u] = "prompt"
  /\ thread[u] = "serving"
  /\ toServer[u] = << >>
  /\ toProgram[u] = << >>

Sent(u) ==
  /\ toProgram[u] = << >>
  /\ \E m \in UpdaterMessage :
       /\ toServer[u] = <<m>>
       /\ \/ program[u] = "login" /\ thread[u] = "login"
          \/ /\ program[u] = "waiting" /\ thread[u] = "serving"
             /\ m \in Requests /\ asked[u] = m
          \/ program[u] = "quitting" /\ thread[u] = "serving" /\ m = QuitMessage

AboutToAnswer(u) ==
  /\ Expecting(u)
  /\ thread[u] = "answering"
  /\ toServer[u] = << >>
  /\ toProgram[u] = << >>
  /\ Fits(u, answer[u].msg, answer[u].then)

Answered(u) ==
  /\ Expecting(u)
  /\ thread[u] \in {"serving", "leaving", "none"}
  /\ toServer[u] = << >>
  /\ \E m \in Answers : toProgram[u] = <<m>> /\ Fits(u, m, thread[u])

Ending(u) ==
  /\ Expecting(u)
  /\ program[u] = "waiting" => asked[u] \in Requests
  /\ thread[u] \in {"leaving", "none"}
  /\ toServer[u] = << >>
  /\ toProgram[u] = << >>

Turn(u) ==
  Gone(u) \/ Ready(u) \/ Sent(u) \/ AboutToAnswer(u) \/ Answered(u) \/ Ending(u)

(* The inductive invariant: every session is in one of the stages. *)
TakingTurns == \A u \in Updaters : Turn(u)

(* What an OK says stays true, whatever the server does next. *)
LEMMA HoldsForGood ==
  ASSUME TypeOK, [Next]_vars, NEW r \in Requests, NEW m \in Answers, Holds(r, m)
  PROVE  Holds(r, m)'
<1>0. TypeOK'
  BY TypeStep
<1>1. next_order_id \in Int /\ next_order_id' \in Int /\ FirstOrderId \in Int
  BY <1>0, MaxOrdersAssumption DEF TypeOK, FirstOrderId
<1>2. /\ \A id \in OrderIds : my_orders[id] # NoOrder => my_orders[id] \in Order
      /\ \A id \in OrderIds : my_orders'[id] # NoOrder => my_orders'[id] \in Order
  BY <1>0 DEF TypeOK, MaybeOrder
<1>3. CASE r.type = "ORDER_NEW"
  <2>1. PICK id \in FirstOrderId .. next_order_id - 1 : m = Created(id)
    BY <1>3 DEF Holds
  <2>2. m.id = id /\ id \in Int /\ id < next_order_id /\ id \in OrderIds
    BY <1>1, <2>1, MaxOrdersAssumption DEF Created, OrderIds, TypeOK, FirstOrderId
  <2>3. id < next_order_id'
    BY <1>1, <2>2, OrdersOnlyAdvance
  <2>4. m \in {Created(k) : k \in FirstOrderId .. next_order_id' - 1}
    BY <1>1, <2>1, <2>2, <2>3
  <2>5. ASSUME my_orders'[id] # NoOrder
        PROVE  ItemIdsOf(my_orders'[id]) = ItemIdsOf(r.order)
    <3>1. my_orders[id] # NoOrder /\ Advanced(my_orders[id], my_orders'[id])
      BY <2>2, <2>5, OrdersOnlyAdvance
    <3>2. ItemIdsOf(my_orders'[id]) = ItemIdsOf(my_orders[id])
      BY <3>1 DEF Advanced, ItemIdsOf
    <3>3. QED
      BY <1>3, <2>2, <3>1, <3>2 DEF Holds
  <2>6. QED
    BY <1>3, <2>2, <2>4, <2>5 DEF Holds
<1>4. CASE r.type = "ITEM_UPDATE"
  <2> DEFINE o == my_orders[r.id]
             n == my_orders'[r.id]
  <2>1. r.id \in OrderIds /\ r.id \in Int /\ r.id < next_order_id
    <3>1. r \in UpdaterMessage
      BY DEF UpdaterMessage
    <3>2. QED
      BY <1>4, <3>1, RequestFields, MaxOrdersAssumption DEF Holds, OrderIds, FirstOrderId
  <2>2. r.id < next_order_id'
    BY <1>1, <2>1, OrdersOnlyAdvance
  <2>3. ASSUME n # NoOrder
        PROVE  /\ HasItem(n, r.item)
               /\ Rank(r.status) <= Rank(n.items[find_item(n, r.item)].status)
    <3>1. o # NoOrder /\ Advanced(o, n) /\ o \in Order /\ n \in Order
      BY <1>2, <2>1, <2>3, OrdersOnlyAdvance
    <3>2. /\ HasItem(o, r.item)
          /\ Rank(r.status) <= Rank(o.items[find_item(o, r.item)].status)
      BY <1>4, <3>1 DEF Holds
    <3>3. HasItem(n, r.item) /\ find_item(n, r.item) = find_item(o, r.item)
      BY <3>1, <3>2, AdvancedNames
    <3>4. find_item(o, r.item) \in DOMAIN o.items
      BY <3>2, FindItemNames DEF Names
    <3>5. Rank(o.items[find_item(o, r.item)].status)
            <= Rank(n.items[find_item(o, r.item)].status)
      BY <3>1, <3>4 DEF Advanced
    <3>6. QED
      BY <3>2, <3>3, <3>5, RankType
  <2>4. QED
    BY <1>4, <2>2, <2>3 DEF Holds
<1>5. CASE r.type = "ORDER_UPDATE"
  <2>1. r.id \in OrderIds /\ r.id \in Int /\ r.id < next_order_id /\ my_orders[r.id] = NoOrder
    <3>1. r \in UpdaterMessage
      BY DEF UpdaterMessage
    <3>2. QED
      BY <1>5, <3>1, RequestFields, MaxOrdersAssumption DEF Holds, OrderIds, FirstOrderId
  <2>2. r.id < next_order_id' /\ my_orders'[r.id] = NoOrder
    BY <1>1, <2>1, OrdersOnlyAdvance
  <2>3. QED
    BY <1>5, <2>2 DEF Holds
<1>6. QED
  BY <1>3, <1>4, <1>5 DEF Holds

(* The answer to a request that is carried out tells the truth about it. *)
LEMMA HoldsWhenServed ==
  ASSUME SessionTypeOK, Allocated, NEW u \in Updaters, NEW r \in Requests, Served(u, r)
  PROVE  \E m \in Answers : Answer(u, m, "serving") /\ Holds(r, m)'
<1>0. /\ r.type = "ORDER_NEW" => r.order \in NewOrders
      /\ r.type = "ITEM_UPDATE" =>
           r.id \in OrderIds /\ r.item \in ItemIds /\ r.status \in ItemStatus
      /\ r.type = "ORDER_UPDATE" => r.id \in OrderIds /\ r.status \in OrderStatus
  BY RequestFields DEF UpdaterMessage
<1>1. TypeOK /\ Ok \in Answers /\ \A id \in OrderIds : Created(id) \in Answers
  BY DEF SessionTypeOK, Answers
<1>2. CASE r.type = "ORDER_NEW"
  <2>1. create_order(r.order) /\ Answer(u, Created(next_order_id), "serving")
    BY <1>2 DEF Served
  <2>2. /\ next_order_id \in OrderIds
        /\ next_order_id' = next_order_id + 1
        /\ my_orders'[next_order_id] = r.order
    BY <1>1, <2>1 DEF create_order, TypeOK
  <2>3. next_order_id \in FirstOrderId .. next_order_id' - 1
    BY <2>2, MaxOrdersAssumption DEF OrderIds, FirstOrderId
  <2>4. PICK id \in OrderIds : id = next_order_id
    BY <2>2
  <2>5. Created(id).id = id
    BY DEF Created
  <2>6. Holds(r, Created(id))'
    BY <1>2, <2>2, <2>3, <2>4, <2>5 DEF Holds
  <2>7. QED
    BY <1>1, <2>1, <2>4, <2>6
<1>3. CASE r.type = "ITEM_UPDATE"
  <2> DEFINE o == my_orders[r.id]
             n == set_item_status(o, r.item, r.status)
             q == [n EXCEPT !.status = StatusAfter(n, r.status)]
  <2>1. update_item(r.id, r.item, r.status) /\ Answer(u, Ok, "serving")
    BY <1>3 DEF Served
  <2>2. o \in Order /\ HasItem(o, r.item) /\ o # NoOrder /\ q \in Order
    BY <1>0, <1>1, <1>3, <2>1, UpdateItemOrders DEF update_item, ItemUpdateAccepted
  <2>3. /\ n \in Order
        /\ DOMAIN n.items = DOMAIN o.items
        /\ find_item(o, r.item) \in DOMAIN o.items
        /\ n.items[find_item(o, r.item)].status = r.status
    BY <1>0, <1>3, <2>2, SetItemStatus
  <2>4. my_orders'[r.id] = q /\ next_order_id' = next_order_id
    BY <1>0, <1>1, <1>3, <2>1 DEF update_item, TypeOK
  <2>5. r.id < next_order_id'
    BY <1>0, <1>3, <2>2, <2>4 DEF Allocated
  <2>6. Advanced(o, q)
    <3>1. [Next]_vars
      BY <1>0, <1>3, <2>1 DEF Next, Update
    <3>2. r.id < next_order_id /\ q # NoOrder
      BY <1>0, <1>3, <2>2, NoOrderAssumption DEF Allocated
    <3>3. QED
      BY <1>0, <1>1, <1>3, <2>4, <3>1, <3>2, OrdersOnlyAdvance
  <2> HIDE DEF n
  <2>7. q.items = n.items
    BY <2>3 DEF Order
  <2> HIDE DEF q
  <2>8. HasItem(q, r.item) /\ find_item(q, r.item) = find_item(o, r.item)
    BY <2>2, <2>6, AdvancedNames
  <2>9. Rank(r.status) <= Rank(q.items[find_item(q, r.item)].status)
    BY <2>3, <2>7, <2>8, RankType
  <2>10. Holds(r, Ok)'
    BY <1>3, <2>4, <2>5, <2>8, <2>9 DEF Holds
  <2>11. QED
    BY <1>1, <2>1, <2>10
<1>4. CASE r.type = "ORDER_UPDATE"
  <2>1. update_order(r.id, r.status) /\ Answer(u, Ok, "serving")
    BY <1>4 DEF Served
  <2>2. my_orders'[r.id] = NoOrder /\ next_order_id' = next_order_id
    BY <1>0, <1>1, <1>4, <2>1 DEF update_order, TypeOK
  <2>3. r.id < next_order_id'
    BY <1>0, <1>4, <2>1, <2>2 DEF update_order, OrderUpdateAccepted, Allocated
  <2>4. Holds(r, Ok)'
    BY <1>4, <2>2, <2>3 DEF Holds
  <2>5. QED
    BY <1>1, <2>1, <2>4
<1>5. QED
  BY <1>2, <1>3, <1>4 DEF Served

(* A step that does not touch the session of v, whatever it does to the    *)
(* server, leaves it in its stage: what v has been or is about to be told  *)
(* stays true.                                                             *)
LEMMA TurnUntouched ==
  ASSUME SessionTypeOK, [Next]_vars, NEW v \in Updaters, Turn(v),
         program'[v] = program[v], asked'[v] = asked[v],
         toServer'[v] = toServer[v], toProgram'[v] = toProgram[v],
         thread'[v] = thread[v], answer'[v] = answer[v]
  PROVE  Turn(v)'
<1>1. CASE Gone(v)
  BY <1>1 DEF Gone, Turn
<1>2. CASE Ready(v)
  BY <1>2 DEF Ready, Turn
<1>3. CASE Sent(v)
  BY <1>3 DEF Sent, Turn
<1>4. CASE AboutToAnswer(v)
  <2>1. answer[v].msg \in Answers
    BY DEF SessionTypeOK
  <2>2. Fits(v, answer[v].msg, answer[v].then)'
    BY <1>4, <2>1, HoldsForGood DEF AboutToAnswer, Fits, SessionTypeOK
  <2>3. QED
    BY <1>4, <2>2 DEF AboutToAnswer, Expecting, Turn
<1>5. CASE Answered(v)
  <2>1. PICK m \in Answers : toProgram[v] = <<m>> /\ Fits(v, m, thread[v])
    BY <1>5 DEF Answered
  <2>2. Fits(v, m, thread[v])'
    BY <2>1, HoldsForGood DEF Fits, SessionTypeOK
  <2>3. QED
    BY <1>5, <2>1, <2>2 DEF Answered, Expecting, Turn
<1>6. CASE Ending(v)
  BY <1>6 DEF Ending, Expecting, Turn
<1>7. QED
  BY <1>1, <1>2, <1>3, <1>4, <1>5, <1>6 DEF Turn

LEMMA TurnsStep ==
  SessionTypeOK /\ Allocated /\ TakingTurns /\ [SessionNext]_allVars => TakingTurns'
<1> SUFFICES ASSUME SessionTypeOK, Allocated, TakingTurns, [SessionNext]_allVars
             PROVE  TakingTurns'
  OBVIOUS
<1>0. [Next]_vars
  BY ServerStep
<1>1. CASE UNCHANGED updaterVars
  BY <1>0, <1>1, TurnUntouched DEF TakingTurns, updaterVars
<1> SUFFICES ASSUME NEW u \in Updaters,
                    \/ connectLogin(u) \/ request(u) \/ quit(u) \/ ProgramEnds(u)
                    \/ ProgramWaits(u)
                    \/ ThreadRuns(u)
             PROVE  TakingTurns'
  BY <1>1 DEF SessionNext, allVars
<1>2. ASSUME NEW v \in Updaters, v # u PROVE Turn(v)'
  <2>1. /\ program'[v] = program[v] /\ asked'[v] = asked[v]
        /\ toServer'[v] = toServer[v] /\ toProgram'[v] = toProgram[v]
        /\ thread'[v] = thread[v] /\ answer'[v] = answer[v]
    BY <1>2 DEF SessionTypeOK, ProgramWaits, ThreadRuns, connectLogin, request,
       quit, ProgramEnds, result, ProgramSeesEnd, login, update_chat, Served,
       send_answer, ThreadSeesEnd, close, Answer, Leave
  <2>2. QED
    BY <1>0, <1>2, <2>1, TurnUntouched DEF TakingTurns
<1>3. Turn(u)
  BY DEF TakingTurns
<1> USE DEF SessionTypeOK
<1>4. ASSUME connectLogin(u) PROVE Turn(u)'
  <2>1. Gone(u)
    BY <1>3, <1>4 DEF connectLogin, Turn, Ready, Sent, AboutToAnswer, Answered,
                      Ending, Expecting
  <2>2. CASE thread' = [thread EXCEPT ![u] = "login"]
    <3>1. PICK m \in {Login(TRUE), Login(FALSE), Unreadable} :
            toServer' = [toServer EXCEPT ![u] = <<m>>]
      BY <1>4, <2>2 DEF connectLogin
    <3>2. m \in UpdaterMessage
      BY MessageTypes
    <3>3. QED
      BY <1>4, <2>1, <2>2, <3>1, <3>2 DEF connectLogin, Gone, Sent, Turn
  <2>3. CASE UNCHANGED <<thread, toServer>>
    BY <1>4, <2>1, <2>3 DEF connectLogin, Gone, Ending, Expecting, Turn
  <2>4. QED
    BY <1>4, <2>2, <2>3 DEF connectLogin
<1>5. ASSUME request(u) PROVE Turn(u)'
  <2>1. Ready(u)
    BY <1>3, <1>5 DEF request, Turn, Gone, Sent, AboutToAnswer, Answered,
                      Ending, Expecting
  <2>2. PICK m \in Requests : /\ asked' = [asked EXCEPT ![u] = m]
                              /\ toServer' = [toServer EXCEPT ![u] = Append(@, m)]
    BY <1>5 DEF request
  <2>3. toServer'[u] = <<m>> /\ asked'[u] = m /\ m \in UpdaterMessage
    <3>1. Append(<< >>, m) = <<m>>
      OBVIOUS
    <3>2. QED
      BY <2>1, <2>2, <3>1, MessageTypes DEF Ready
  <2>4. QED
    BY <1>5, <2>1, <2>3 DEF request, Ready, Sent, Turn
<1>6. ASSUME quit(u) PROVE Turn(u)'
  <2>1. Ready(u)
    BY <1>3, <1>6 DEF quit, Turn, Gone, Sent, AboutToAnswer, Answered,
                      Ending, Expecting
  <2>2. toServer'[u] = <<QuitMessage>> /\ QuitMessage \in UpdaterMessage
    BY <1>6, <2>1, MessageTypes DEF quit, Ready
  <2>3. QED
    BY <1>6, <2>1, <2>2 DEF quit, Ready, Sent, Turn
<1>7. ASSUME result(u) PROVE Turn(u)'
  <2>1. Answered(u)
    BY <1>3, <1>7 DEF result, Turn, Gone, Ready, Sent, AboutToAnswer, Ending
  <2>2. PICK m \in Answers : toProgram[u] = <<m>> /\ Fits(u, m, thread[u])
    BY <2>1 DEF Answered
  <2>3. toProgram'[u] = << >> /\ Head(toProgram[u]) = m
    BY <1>7, <2>2 DEF result
  <2>4. toServer'[u] = << >> /\ thread'[u] = thread[u]
    BY <1>7, <2>1 DEF result, Answered
  <2>5. \/ program'[u] = "off"
        \/ program'[u] = "prompt" /\ thread[u] = "serving"
    BY <1>7, <2>2, <2>3 DEF result, Fits
  <2>6. QED
    BY <2>3, <2>4, <2>5 DEF Gone, Ready, Turn
<1>8. ASSUME ProgramSeesEnd(u) PROVE Turn(u)'
  BY <1>3, <1>8 DEF ProgramSeesEnd, Turn, Gone, Ready, Sent, AboutToAnswer,
                    Answered, Ending, Expecting
<1>9. ASSUME ProgramEnds(u) PROVE Turn(u)'
  <2>1. thread[u] = "none" => toServer[u] = << >>
    BY <1>3 DEF Turn, Gone, Ready, Sent, AboutToAnswer, Answered, Ending
  <2>2. QED
    BY <1>9, <2>1 DEF ProgramEnds, Gone, Turn
<1>10. ASSUME login(u) PROVE Turn(u)'
  <2>1. Gone(u) \/ (Sent(u) /\ program[u] = "login")
    BY <1>3, <1>10 DEF login, Turn, Ready, Sent, AboutToAnswer, Answered, Ending
  <2>2. \/ Answer(u, Ok, "serving")
        \/ Answer(u, Error, "leaving")
        \/ Leave(u)
    BY <1>10 DEF login
  <2>3. CASE Gone(u)
    BY <1>10, <2>2, <2>3 DEF login, Gone, Turn, Answer, Leave
  <2>4. CASE Sent(u) /\ program[u] = "login"
    <3>1. /\ toServer'[u] = << >> /\ toProgram'[u] = << >>
          /\ program'[u] = "login"
      BY <1>10, <2>4 DEF login, Sent
    <3>2. CASE Leave(u)
      BY <3>1, <3>2 DEF Leave, Ending, Expecting, Turn
    <3>3. CASE Answer(u, Ok, "serving") \/ Answer(u, Error, "leaving")
      BY <3>1, <3>3 DEF Answer, AboutToAnswer, Fits, Ok, Error, Expecting, Turn
    <3>4. QED
      BY <2>2, <3>2, <3>3
  <2>5. QED
    BY <2>1, <2>3, <2>4
<1>11. ASSUME update_chat(u) PROVE Turn(u)'
  <2> PICK r \in UpdaterMessage : r = Head(toServer[u])
    BY <1>11 DEF update_chat
  <2>1. \/ Gone(u)
        \/ Sent(u) /\ program[u] \in {"waiting", "quitting"}
    BY <1>3, <1>11 DEF update_chat, Turn, Ready, Sent, AboutToAnswer, Answered, Ending
  <2>2. CASE Gone(u)
    BY <1>11, <2>2 DEF update_chat, Served, Gone, Turn, Answer, Leave
  <2>3. CASE Sent(u) /\ program[u] \in {"waiting", "quitting"}
    <3>1. /\ toServer'[u] = << >> /\ toProgram'[u] = << >>
          /\ program'[u] = program[u] /\ asked'[u] = asked[u]
      BY <1>11, <2>3 DEF update_chat, Sent
    <3>2. /\ program[u] = "waiting" => r \in Requests /\ asked[u] = r
          /\ program[u] = "quitting" => r = QuitMessage
      BY <2>3 DEF Sent
    <3>3. CASE Leave(u)
      BY <2>3, <3>1, <3>2, <3>3 DEF Leave, Ending, Expecting, Turn
    <3>4. CASE Answer(u, Error, "serving")
      BY <2>3, <3>1, <3>2, <3>4 DEF Answer, AboutToAnswer, Fits, Error, Expecting, Turn
    <3>5. CASE r.type = "QUIT" /\ Answer(u, Ok, "leaving")
      <4>1. program[u] = "quitting"
        BY <2>3, <3>2, <3>5, RequestTypes
      <4>2. QED
        BY <3>1, <3>5, <4>1 DEF Answer, AboutToAnswer, Fits, Expecting, Turn
    <3>6. CASE Served(u, r)
      <4>1. program[u] = "waiting"
        BY <2>3, <3>2, <3>6 DEF Served, QuitMessage
      <4>2. PICK m \in Answers : Answer(u, m, "serving") /\ Holds(r, m)'
        BY <3>2, <3>6, <4>1, HoldsWhenServed
      <4>3. asked'[u] = r /\ r \in Requests
        BY <3>1, <3>2, <4>1
      <4>4. /\ thread'[u] = "answering"
            /\ answer'[u] = [msg |-> m, then |-> "serving"]
        BY <4>2 DEF Answer
      <4>5. Fits(u, answer[u].msg, answer[u].then)'
        BY <3>1, <4>1, <4>2, <4>3, <4>4 DEF Fits
      <4>6. QED
        BY <3>1, <4>1, <4>4, <4>5 DEF AboutToAnswer, Expecting, Turn
    <3>7. QED
      BY <1>11, <3>3, <3>4, <3>5, <3>6 DEF update_chat
  <2>4. QED
    BY <2>1, <2>2, <2>3
<1>12. ASSUME send_answer(u) PROVE Turn(u)'
  <2>1. Gone(u) \/ AboutToAnswer(u)
    BY <1>3, <1>12 DEF send_answer, Turn, Ready, Sent, Answered, Ending
  <2>2. CASE Gone(u)
    BY <1>12, <2>2 DEF send_answer, Gone, Turn
  <2>3. CASE AboutToAnswer(u)
    <3>0. PICK m \in Answers, t \in {"serving", "leaving"} :
            answer[u].msg = m /\ answer[u].then = t
      OBVIOUS
    <3>1. program[u] # "off"
      BY <2>3 DEF AboutToAnswer, Expecting
    <3>2. /\ toProgram'[u] = <<m>> /\ toServer'[u] = << >>
          /\ thread'[u] = t /\ program'[u] = program[u] /\ asked'[u] = asked[u]
      <4>1. Append(<< >>, m) = <<m>>
        OBVIOUS
      <4>2. QED
        BY <1>12, <2>3, <3>0, <3>1, <4>1 DEF send_answer, AboutToAnswer
    <3>3. Fits(u, m, t)
      BY <2>3, <3>0 DEF AboutToAnswer
    <3>4. Fits(u, m, thread[u])'
      BY <1>0, <3>2, <3>3, HoldsForGood DEF Fits
    <3>5. QED
      BY <2>3, <3>2, <3>4 DEF AboutToAnswer, Answered, Expecting, Turn
  <2>4. QED
    BY <2>1, <2>2, <2>3
<1>13. ASSUME ThreadSeesEnd(u) PROVE Turn(u)'
  BY <1>3, <1>13 DEF ThreadSeesEnd, Leave, Turn, Gone, Ready, Sent,
                     AboutToAnswer, Answered, Ending, Expecting
<1>14. ASSUME close(u) PROVE Turn(u)'
  <2>1. /\ toServer'[u] = << >> /\ thread'[u] = "none"
        /\ program'[u] = program[u] /\ toProgram'[u] = toProgram[u]
        /\ asked'[u] = asked[u] /\ thread[u] = "leaving"
    BY <1>14 DEF close
  <2>2. CASE Gone(u) \/ Ending(u)
    BY <2>1, <2>2 DEF Gone, Ending, Expecting, Turn
  <2>3. CASE Answered(u)
    <3>1. PICK m \in Answers : toProgram[u] = <<m>> /\ Fits(u, m, thread[u])
      BY <2>3 DEF Answered
    <3>2. Fits(u, m, thread[u])'
      BY <2>1, <3>1 DEF Fits
    <3>3. QED
      BY <2>1, <2>3, <3>1, <3>2 DEF Answered, Expecting, Turn
  <2>4. QED
    BY <1>3, <2>1, <2>2, <2>3 DEF Turn, Ready, Sent, AboutToAnswer
<1>15. Turn(u)'
  BY <1>4, <1>5, <1>6, <1>7, <1>8, <1>9, <1>10, <1>11, <1>12, <1>13, <1>14
     DEF ProgramWaits, ThreadRuns
<1>16. QED
  BY <1>2, <1>15 DEF TakingTurns

LEMMA TurnsCorrect == SessionSpec => [](SessionTypeOK /\ TakingTurns)
<1>1. SessionInit => TakingTurns /\ Allocated
  BY AllocatedInit DEF SessionInit, TakingTurns, Turn, Gone
<1>2. SessionTypeOK /\ Allocated /\ [SessionNext]_allVars => Allocated'
  BY ServerStep, AllocatedStep DEF SessionTypeOK
<1>3. QED
  BY <1>1, <1>2, TurnsStep, SessionTypeCorrect, PTL DEF SessionSpec

(* No answer is ever left over for a later request, with any number of     *)
(* updaters.                                                               *)
THEOREM ReadyMeansIdleCorrect == SessionSpec => []ReadyMeansIdle
<1>1. TakingTurns => ReadyMeansIdle
  BY DEF TakingTurns, ReadyMeansIdle, Turn, Gone, Ready, Sent, AboutToAnswer,
         Answered, Ending, Expecting
<1>2. QED
  BY <1>1, TurnsCorrect, PTL

LEMMA TruthOfTurns == SessionTypeOK /\ TakingTurns => AnswersAreTrue
<1> SUFFICES ASSUME SessionTypeOK, TakingTurns,
                    NEW u \in Updaters, program[u] = "waiting",
                    NEW m \in Acknowledged(u)
             PROVE  Holds(asked[u], m)
  BY DEF AnswersAreTrue
<1>1. m \in Answers /\ m.type = "OK"
  BY DEF Acknowledged
<1>2. AboutToAnswer(u) \/ Answered(u)
  BY DEF TakingTurns, Turn, Gone, Ready, Sent, Ending, Acknowledged
<1>3. CASE AboutToAnswer(u)
  BY <1>1, <1>3 DEF AboutToAnswer, Fits, Acknowledged
<1>4. CASE Answered(u)
  BY <1>1, <1>4 DEF Answered, Fits, Acknowledged
<1>5. QED
  BY <1>2, <1>3, <1>4

(* An OK is true when it is read, however many updaters were served since. *)
THEOREM AnswersAreTrueCorrect == SessionSpec => []AnswersAreTrue
BY TruthOfTurns, TurnsCorrect, PTL

-------------------------------------------------------------------------------
(* Only one of them is told *)

LEMMA AnswersDiffer ==
  ASSUME NEW id
  PROVE  Created(id) # Ok /\ Created(id).id = id
<1>1. DOMAIN Created(id) = {"type", "id"} /\ DOMAIN Ok = {"type"}
  BY DEF Created, Ok
<1>2. QED
  BY <1>1 DEF Created

(* A request that is carried out has not been carried out before: an OK    *)
(* that is already true of it, or an id already given out, is another's.   *)
LEMMA ServedIsNew ==
  ASSUME SessionTypeOK, NEW u \in Updaters, NEW q \in Requests, NEW r \in Requests,
         NEW m, Served(u, r), answer'[u].msg = m, Holds(q, m)
  PROVE  m = Ok /\ q # r
<1>1. /\ r.type = "ITEM_UPDATE" =>
           r.id \in OrderIds /\ r.item \in ItemIds /\ r.status \in ItemStatus
      /\ r.type = "ORDER_UPDATE" => r.id \in OrderIds
  BY RequestFields, MessageTypes
<1>2. ASSUME NEW n, NEW t, Answer(u, n, t) PROVE m = n
  BY <1>2 DEF Answer, SessionTypeOK
<1>3. CASE r.type = "ORDER_NEW"
  <2>1. m = Created(next_order_id)
    BY <1>2, <1>3 DEF Served
  <2>2. m # Ok /\ m.id = next_order_id
    BY <2>1, AnswersDiffer
  <2>3. PICK id \in FirstOrderId .. next_order_id - 1 : m = Created(id)
    BY <2>2 DEF Holds
  <2>4. id = next_order_id
    BY <2>2, <2>3, AnswersDiffer
  <2>5. next_order_id \in Int
    BY MaxOrdersAssumption DEF SessionTypeOK, TypeOK, FirstOrderId
  <2>6. QED
    BY <2>3, <2>4, <2>5 DEF FirstOrderId
<1>4. CASE r.type = "ITEM_UPDATE"
  <2> DEFINE o   == my_orders[r.id]
             cur == o.items[find_item(o, r.item)].status
  <2>1. m = Ok
    BY <1>2, <1>4 DEF Served
  <2>2. o # NoOrder /\ ItemStep(cur, r.status)
    BY <1>4 DEF Served, update_item, ItemUpdateAccepted
  <2>3. ~ (Rank(r.status) <= Rank(cur))
    BY <2>2 DEF ItemStep, Rank
  <2>4. q # r
    BY <1>4, <2>2, <2>3 DEF Holds
  <2>5. QED
    BY <2>1, <2>4
<1>5. CASE r.type = "ORDER_UPDATE"
  <2>1. m = Ok
    BY <1>2, <1>5 DEF Served
  <2>2. my_orders[r.id] # NoOrder
    BY <1>5 DEF Served, update_order, OrderUpdateAccepted
  <2>3. QED
    BY <1>5, <2>1, <2>2 DEF Holds
<1>6. QED
  BY <1>3, <1>4, <1>5 DEF Served

(* An OK that a program is waiting for was there before the step, unless   *)
(* the step is the one that carried out its request.                       *)
LEMMA AcknowledgedStep ==
  ASSUME SessionTypeOK, TakingTurns, [SessionNext]_allVars,
         NEW u \in Updaters, program'[u] = "waiting",
         NEW m, m \in Acknowledged(u)'
  PROVE  /\ program[u] = "waiting" /\ asked'[u] = asked[u] /\ asked[u] \in Requests
         /\ \/ m \in Acknowledged(u)
            \/ thread[u] = "serving" /\ Served(u, asked[u]) /\ answer'[u].msg = m
<1>1. /\ m \in Answers /\ m.type = "OK"
      /\ \/ thread'[u] = "answering" /\ answer'[u].msg = m
         \/ \E k \in DOMAIN toProgram'[u] : toProgram'[u][k] = m
  BY DEF Acknowledged
<1>2. PICK w \in Updaters :
        \/ UNCHANGED updaterVars
        \/ connectLogin(w) \/ request(w) \/ quit(w) \/ ProgramEnds(w)
        \/ ProgramWaits(w) \/ ThreadRuns(w)
  BY DEF SessionNext, allVars
<1>3. Turn(u)
  BY DEF TakingTurns
<1>4. ASSUME program[u] = "waiting" PROVE asked[u] \in Requests
  <2>1. Sent(u) \/ AboutToAnswer(u) \/ Answered(u) \/ Ending(u)
    BY <1>3, <1>4 DEF Turn, Gone, Ready
  <2>2. CASE Sent(u)
    BY <1>4, <2>2 DEF Sent
  <2>3. CASE AboutToAnswer(u)
    BY <1>4, <2>3 DEF AboutToAnswer, Fits
  <2>4. CASE Answered(u)
    BY <1>4, <2>4 DEF Answered, Fits
  <2>5. CASE Ending(u)
    BY <1>4, <2>5 DEF Ending
  <2>6. QED
    BY <2>1, <2>2, <2>3, <2>4, <2>5
<1> USE DEF SessionTypeOK
<1>5. CASE UNCHANGED updaterVars \/ w # u
  <2>1. /\ program'[u] = program[u] /\ asked'[u] = asked[u]
        /\ toProgram'[u] = toProgram[u]
        /\ thread'[u] = thread[u] /\ answer'[u] = answer[u]
    BY <1>2, <1>5 DEF updaterVars, ProgramWaits, ThreadRuns, connectLogin, request,
       quit, ProgramEnds, result, ProgramSeesEnd, login, update_chat, Served,
       send_answer, ThreadSeesEnd, close, Answer, Leave
  <2>2. QED
    BY <1>1, <1>4, <2>1 DEF Acknowledged
<1>6. ASSUME connectLogin(u) \/ quit(u) \/ ProgramEnds(u) \/ ProgramWaits(u)
      PROVE  FALSE
  BY <1>6 DEF connectLogin, quit, ProgramEnds, ProgramWaits, result, ProgramSeesEnd
<1>7. ASSUME request(u) PROVE FALSE
  BY <1>1, <1>3, <1>7 DEF request, Expecting, Turn, Gone, Ready, Sent, AboutToAnswer,
                          Answered, Ending
<1>8. ASSUME ThreadRuns(u), program[u] = "waiting"
      PROVE  \/ m \in Acknowledged(u)
             \/ thread[u] = "serving" /\ Served(u, asked[u]) /\ answer'[u].msg = m
  <2>1. ~ login(u) /\ ~ ThreadSeesEnd(u)
    BY <1>3, <1>8 DEF login, ThreadSeesEnd, Turn, Gone, Ready, Sent, AboutToAnswer,
                      Answered, Ending
  <2>2. ~ close(u)
    BY <1>1, <1>3, <1>8 DEF close, Turn, Gone, Ready, Sent, AboutToAnswer,
                      Answered, Ending, Fits
  <2>3. CASE update_chat(u)
    <3>1. Sent(u)
      BY <1>3, <1>8, <2>3 DEF update_chat, Turn, Gone, Ready, AboutToAnswer,
                              Answered, Ending
    <3>2. /\ Head(toServer[u]) = asked[u] /\ asked[u] \in Requests
          /\ toProgram'[u] = << >>
      BY <1>8, <2>3, <3>1 DEF Sent, update_chat
    <3>3. thread'[u] = "answering" /\ answer'[u].msg = m
      BY <1>1, <3>2
    <3>4. ~ Leave(u)
      BY <3>3 DEF Leave
    <3>5. ~ Answer(u, Error, "serving")
      BY <1>1, <3>3 DEF Answer, Error
    <3>6. asked[u].type # "QUIT"
      BY <3>2, RequestTypes
    <3>7. QED
      BY <2>3, <3>2, <3>3, <3>4, <3>5, <3>6 DEF update_chat
  <2>4. CASE send_answer(u)
    <3>1. AboutToAnswer(u)
      BY <1>3, <1>8, <2>4 DEF send_answer, Turn, Gone, Ready, Sent, Answered, Ending
    <3>2. PICK n \in Answers, t \in {"serving", "leaving"} :
            answer[u].msg = n /\ answer[u].then = t
      OBVIOUS
    <3>3. /\ toProgram'[u] = <<n>>
          /\ thread'[u] = t
      <4>1. Append(<< >>, n) = <<n>>
        OBVIOUS
      <4>2. QED
        BY <1>8, <2>4, <3>1, <3>2, <4>1 DEF send_answer, AboutToAnswer
    <3>4. m = n
      BY <1>1, <3>3
    <3>5. QED
      BY <1>1, <2>4, <3>2, <3>4 DEF send_answer, Acknowledged
  <2>5. QED
    BY <1>8, <2>1, <2>2, <2>3, <2>4 DEF ThreadRuns
<1>9. ThreadRuns(u) => program'[u] = program[u] /\ asked'[u] = asked[u]
  BY DEF ThreadRuns, login, update_chat, send_answer, ThreadSeesEnd, close
<1>10. QED
  BY <1>2, <1>4, <1>5, <1>6, <1>7, <1>8, <1>9

(* Of any number of updaters that ask for the same change one is told OK,  *)
(* and no order's id is told to two of them.                               *)
THEOREM OneWinnerCorrect == SessionSpec => []OneWinner
<1>1. SessionInit => OneWinner
  BY DEF SessionInit, OneWinner
<1>2. SessionTypeOK /\ TakingTurns /\ OneWinner /\ [SessionNext]_allVars => OneWinner'
  <2> SUFFICES ASSUME SessionTypeOK, TakingTurns, OneWinner, [SessionNext]_allVars,
                      NEW u \in Updaters, NEW v \in Updaters, u # v,
                      program'[u] = "waiting", program'[v] = "waiting",
                      NEW m, m \in Acknowledged(u)', m \in Acknowledged(v)'
               PROVE  m = Ok /\ asked'[u] # asked'[v]
    BY DEF OneWinner
  <2>1. \A w \in {u, v} :
          /\ program[w] = "waiting" /\ asked'[w] = asked[w] /\ asked[w] \in Requests
          /\ \/ m \in Acknowledged(w)
             \/ thread[w] = "serving" /\ Served(w, asked[w]) /\ answer'[w].msg = m
    BY AcknowledgedStep
  <2>2. CASE m \in Acknowledged(u) /\ m \in Acknowledged(v)
    BY <2>1, <2>2 DEF OneWinner
  <2>3. ASSUME NEW w \in {u, v}, NEW x \in {u, v}, w # x,
               Served(w, asked[w]), answer'[w].msg = m, m \in Acknowledged(x)
        PROVE  m = Ok /\ asked[x] # asked[w]
    <3>1. Holds(asked[x], m)
      BY <2>1, <2>3, TruthOfTurns DEF AnswersAreTrue
    <3>2. QED
      BY <2>1, <2>3, <3>1, ServedIsNew
  <2>4. ~ /\ Served(u, asked[u])
          /\ thread[v] = "serving" /\ Served(v, asked[v])
    BY DEF Served, Answer, SessionTypeOK
  <2>5. QED
    BY <2>1, <2>2, <2>3, <2>4
<1>3. QED
  BY <1>1, <1>2, TurnsCorrect, PTL DEF SessionSpec
===============================================================================
