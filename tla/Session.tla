------------------------------- MODULE Session --------------------------------
(***************************************************************************)
(* The sessions of updaters: the updater program (src/updater_main.cpp and *)
(* connectLogin of src/client_util.cpp), the two directions of its         *)
(* connection, and the server thread that serves it (create_thread,        *)
(* Client::login, Client::update_chat, Client::~Client).  The requests     *)
(* carry out the actions of module Server; displays are left to that       *)
(* module, and an instance of this one has none.                           *)
(*                                                                         *)
(* Reading a message and acting on it is one step of the server's thread,  *)
(* since between the two it touches nothing that it shares.  Sending the   *)
(* answer is another step: my_lock is free by then.                        *)
(*                                                                         *)
(*   program   off, login (LOGIN sent), prompt, waiting (for the answer to *)
(*             a request), quitting (QUIT sent)                            *)
(*   thread    none (no Client object), login, serving (waits for a        *)
(*             request), answering (has the answer to send), leaving (chat *)
(*             has returned or thrown, ~Client has not run yet)            *)
(***************************************************************************)
EXTENDS Server

CONSTANTS
  Updaters,   \* updater connections
  NoRequest   \* the program is not waiting for the answer to a request

(* The messages an updater sends.  The updater program gives every new     *)
(* order the id 1; another client might not.                               *)
Login(known)        == [type |-> "LOGIN", known |-> known]
OrderNew(id, o)     == [type |-> "ORDER_NEW", id |-> id, order |-> o]
ItemUpdate(id, i, s) ==
  [type |-> "ITEM_UPDATE", id |-> id, item |-> i, status |-> s]
OrderUpdate(id, s)  == [type |-> "ORDER_UPDATE", id |-> id, status |-> s]
QuitMessage         == [type |-> "QUIT"]

(* What Wire::decode throws InvalidMessage on: an item id or a quantity    *)
(* below 1, an unknown status, a separator inside a description or a user  *)
(* name.                                                                   *)
Unreadable == [type |-> "INVALID"]

Requests ==
  {OrderNew(id, o) : id \in {1, 2}, o \in NewOrders}
  \cup {ItemUpdate(id, i, s) : id \in OrderIds, i \in ItemIds, s \in ItemStatus}
  \cup {OrderUpdate(id, s) : id \in OrderIds, s \in OrderStatus}
  \cup {Unreadable}

ASSUME NoRequestAssumption == NoRequest \notin Requests

(* The server's answers.  "Created order id n" is the only text in which   *)
(* anything more than OK or ERROR is said.                                 *)
Ok          == [type |-> "OK"]
Created(id) == [type |-> "OK", id |-> id]
Error       == [type |-> "ERROR"]
Answers     == {Ok, Error} \cup {Created(id) : id \in OrderIds}

VARIABLES
  program,
  asked,      \* the request the program waits for the answer to
  toServer,   \* sent by the program, not yet read by the server
  toProgram,  \* sent by the server, not yet read by the program
  thread,
  answer      \* in answering: what to send, and where the thread goes then

updaterVars == <<program, asked, toServer, toProgram, thread, answer>>
allVars     == <<vars, updaterVars>>

NoAnswer == [msg |-> Error, then |-> "leaving"]

SessionInit ==
  /\ Init
  /\ program   = [u \in Updaters |-> "off"]
  /\ asked     = [u \in Updaters |-> NoRequest]
  /\ toServer  = [u \in Updaters |-> << >>]
  /\ toProgram = [u \in Updaters |-> << >>]
  /\ thread    = [u \in Updaters |-> "none"]
  /\ answer    = [u \in Updaters |-> NoAnswer]

-------------------------------------------------------------------------------
(* The updater program. *)

(* connectLogin: the connection is accepted, or pthread_create fails and   *)
(* server_loop deletes the Client, which closes it again.                  *)
connectLogin(u) ==
  /\ program[u] = "off"
  /\ thread[u] = "none"
  /\ program' = [program EXCEPT ![u] = "login"]
  /\ \/ /\ thread' = [thread EXCEPT ![u] = "login"]
        /\ \E m \in {Login(TRUE), Login(FALSE), Unreadable} :
             toServer' = [toServer EXCEPT ![u] = <<m>>]
     \/ UNCHANGED <<thread, toServer>>
  /\ UNCHANGED <<vars, asked, toProgram, answer>>

(* Bound: the orders created and those being asked for fit into OrderIds.  *)
NewOrdersSent ==
  {u \in Updaters : \E k \in DOMAIN toServer[u] : toServer[u][k].type = "ORDER_NEW"}
RoomForOrder == next_order_id + Cardinality(NewOrdersSent) \in OrderIds

(* orderNew, itemUpdate, orderUpdate. *)
request(u) ==
  /\ program[u] = "prompt"
  /\ \E m \in Requests :
       /\ m.type = "ORDER_NEW" => RoomForOrder
       /\ asked'    = [asked    EXCEPT ![u] = m]
       /\ toServer' = [toServer EXCEPT ![u] = Append(@, m)]
  /\ program' = [program EXCEPT ![u] = "waiting"]
  /\ UNCHANGED <<vars, toProgram, thread, answer>>

quit(u) ==
  /\ program[u] = "prompt"
  /\ toServer' = [toServer EXCEPT ![u] = Append(@, QuitMessage)]
  /\ program'  = [program  EXCEPT ![u] = "quitting"]
  /\ UNCHANGED <<vars, asked, toProgram, thread, answer>>

Expecting(u) == program[u] \in {"login", "waiting", "quitting"}

(* The second half of connectLogin, of sendReceive and of quit: an OK to   *)
(* LOGIN and any answer to a request lead back to the prompt; after the    *)
(* answer to QUIT, and after an ERROR to LOGIN, the program ends.          *)
result(u) ==
  /\ Expecting(u)
  /\ toProgram[u] # << >>
  /\ program' = [program EXCEPT ![u] =
       IF \/ @ = "waiting"
          \/ @ = "login" /\ Head(toProgram[u]).type = "OK"
       THEN "prompt" ELSE "off"]
  /\ toProgram' = [toProgram EXCEPT ![u] = Tail(@)]
  /\ asked'     = [asked     EXCEPT ![u] = NoRequest]
  /\ UNCHANGED <<vars, toServer, thread, answer>>

(* The server has closed the connection: IO::receive throws. *)
ProgramSeesEnd(u) ==
  /\ Expecting(u)
  /\ toProgram[u] = << >>
  /\ thread[u] = "none"
  /\ program' = [program EXCEPT ![u] = "off"]
  /\ asked'   = [asked   EXCEPT ![u] = NoRequest]
  /\ UNCHANGED <<vars, toServer, toProgram, thread, answer>>

(* The program ends without a QUIT: at the end of its input, on input that *)
(* is not a number, on an order without items, or because it is killed.    *)
ProgramEnds(u) ==
  /\ program[u] # "off"
  /\ program'   = [program   EXCEPT ![u] = "off"]
  /\ asked'     = [asked     EXCEPT ![u] = NoRequest]
  /\ toProgram' = [toProgram EXCEPT ![u] = << >>]
  /\ UNCHANGED <<vars, toServer, thread, answer>>

-------------------------------------------------------------------------------
(* The server's thread. *)

Answer(u, m, then) ==
  /\ thread' = [thread EXCEPT ![u] = "answering"]
  /\ answer' = [answer EXCEPT ![u] = [msg |-> m, then |-> then]]

Leave(u) == thread' = [thread EXCEPT ![u] = "leaving"] /\ UNCHANGED answer

login(u) ==
  /\ thread[u] = "login"
  /\ toServer[u] # << >>
  /\ LET m == Head(toServer[u])
     IN  \/ m.type = "LOGIN" /\ m.known   /\ Answer(u, Ok, "serving")
         \/ m.type = "LOGIN" /\ ~ m.known /\ Answer(u, Error, "leaving")
         \/ m.type # "LOGIN" /\ Leave(u)
  /\ toServer' = [toServer EXCEPT ![u] = Tail(@)]
  /\ UNCHANGED <<vars, program, asked, toProgram>>

(* A SemanticError, thrown before anything has changed. *)
Refused(m) ==
  \/ m.type = "ORDER_NEW"    /\ m.id # 1
  \/ m.type = "ITEM_UPDATE"  /\ ~ ItemUpdateAccepted(m.id, m.item, m.status)
  \/ m.type = "ORDER_UPDATE" /\ ~ OrderUpdateAccepted(m.id, m.status)

(* Mutant: create_order returns ++next_order_id. *)
Served_PreIncrement(u, m) ==
  /\ m.type = "ORDER_NEW" /\ m.id = 1
  /\ create_order(m.order)
  /\ Answer(u, [type |-> "OK", id |-> next_order_id + 1], "serving")

(* Carries out request m, with the answer that is due for it. *)
Served(u, m) ==
  \/ /\ m.type = "ORDER_NEW" /\ m.id = 1
     /\ create_order(m.order)
     /\ Answer(u, Created(next_order_id), "serving")
  \/ /\ m.type = "ITEM_UPDATE"
     /\ update_item(m.id, m.item, m.status)
     /\ Answer(u, Ok, "serving")
  \/ /\ m.type = "ORDER_UPDATE"
     /\ update_order(m.id, m.status)
     /\ Answer(u, Ok, "serving")

(* Mutant: the handler of SemanticError sends nothing. *)
update_chat_Silent(u) ==
  /\ thread[u] = "serving"
  /\ toServer[u] # << >>
  /\ LET m == Head(toServer[u])
     IN  \/ Served(u, m)
         \/ Refused(m) /\ UNCHANGED <<vars, thread, answer>>
         \/ m.type = "QUIT" /\ Answer(u, Ok, "leaving") /\ UNCHANGED vars
         \/ m.type = "INVALID" /\ Leave(u) /\ UNCHANGED vars
  /\ toServer' = [toServer EXCEPT ![u] = Tail(@)]
  /\ UNCHANGED <<program, asked, toProgram>>

(* One turn of the loop.  A message that cannot be decoded, which happens  *)
(* outside the try block, and a message of any other type end the session. *)
update_chat(u) ==
  /\ thread[u] = "serving"
  /\ toServer[u] # << >>
  /\ LET m == Head(toServer[u])
     IN  \/ Served(u, m)
         \/ Refused(m) /\ Answer(u, Error, "serving") /\ UNCHANGED vars
         \/ m.type = "QUIT" /\ Answer(u, Ok, "leaving") /\ UNCHANGED vars
         \/ /\ m.type \notin {"ORDER_NEW", "ITEM_UPDATE", "ORDER_UPDATE", "QUIT"}
            /\ Leave(u)
            /\ UNCHANGED vars
  /\ toServer' = [toServer EXCEPT ![u] = Tail(@)]
  /\ UNCHANGED <<program, asked, toProgram>>

(* Mutant: a switch case without its break: what should have been the one  *)
(* answer is followed by the next case's ERROR.                            *)
send_answer_FallsThrough(u) ==
  /\ thread[u] = "answering"
  /\ toProgram' = IF program[u] = "off" THEN toProgram
                  ELSE [toProgram EXCEPT ![u] = Append(@, answer[u].msg)]
  /\ IF answer[u].msg = Ok THEN Answer(u, Error, answer[u].then)
     ELSE /\ thread' = [thread EXCEPT ![u] = answer[u].then]
          /\ answer' = [answer EXCEPT ![u] = NoAnswer]
  /\ UNCHANGED <<vars, program, asked, toServer>>

(* Mutant: the id in the answer is read from the server again, after       *)
(* my_lock has been released.                                              *)
send_answer_ReadsId(u) ==
  /\ thread[u] = "answering"
  /\ toProgram' = IF program[u] = "off" THEN toProgram
                  ELSE [toProgram EXCEPT ![u] = Append(@,
                          IF answer[u].msg \in {Ok, Error} THEN answer[u].msg
                          ELSE Created(next_order_id - 1))]
  /\ thread' = [thread EXCEPT ![u] = answer[u].then]
  /\ answer' = [answer EXCEPT ![u] = NoAnswer]
  /\ UNCHANGED <<vars, program, asked, toServer>>

(* send_msg: the answer is lost, or sending it fails, when the program has *)
(* gone.                                                                   *)
send_answer(u) ==
  /\ thread[u] = "answering"
  /\ \/ /\ program[u] # "off"
        /\ toProgram' = [toProgram EXCEPT ![u] = Append(@, answer[u].msg)]
        /\ thread' = [thread EXCEPT ![u] = answer[u].then]
     \/ /\ program[u] = "off"
        /\ \E then \in {answer[u].then, "leaving"} :
             thread' = [thread EXCEPT ![u] = then]
        /\ UNCHANGED toProgram
  /\ answer' = [answer EXCEPT ![u] = NoAnswer]
  /\ UNCHANGED <<vars, program, asked, toServer>>

(* Mutant: IO::receive takes the end of the connection for "try again". *)
ThreadSeesEnd_Retries(u) ==
  /\ thread[u] \in {"login", "serving"}
  /\ toServer[u] = << >>
  /\ program[u] = "off"
  /\ UNCHANGED allVars

(* The program has closed the connection: IO::receive throws. *)
ThreadSeesEnd(u) ==
  /\ thread[u] \in {"login", "serving"}
  /\ toServer[u] = << >>
  /\ program[u] = "off"
  /\ Leave(u)
  /\ UNCHANGED <<vars, program, asked, toServer, toProgram>>

(* create_thread destroys the Client, which closes the connection. *)
close(u) ==
  /\ thread[u] = "leaving"
  /\ thread'   = [thread   EXCEPT ![u] = "none"]
  /\ toServer' = [toServer EXCEPT ![u] = << >>]
  /\ UNCHANGED <<vars, program, asked, toProgram, answer>>

-------------------------------------------------------------------------------
ProgramWaits(u) == result(u) \/ ProgramSeesEnd(u)

ThreadRuns(u) ==
  login(u) \/ update_chat(u) \/ send_answer(u) \/ ThreadSeesEnd(u) \/ close(u)

SessionNext ==
  \E u \in Updaters :
    \/ connectLogin(u) \/ request(u) \/ quit(u) \/ ProgramEnds(u)
    \/ ProgramWaits(u)
    \/ ThreadRuns(u)

SessionSpec == SessionInit /\ [][SessionNext]_allVars

(* Threads are scheduled, and a program that waits for an answer reads it. *)
(* Nothing obliges a user to start a program, to ask or to quit.           *)
FairSessionSpec ==
  /\ SessionSpec
  /\ \A u \in Updaters : WF_allVars(ProgramWaits(u)) /\ WF_allVars(ThreadRuns(u))

-------------------------------------------------------------------------------
(* Type invariant: what travels in each direction, and that the id in an   *)
(* answer is one the server gives out.                                     *)
UpdaterMessage == Requests \cup {Login(TRUE), Login(FALSE), QuitMessage}

SessionTypeOK ==
  /\ TypeOK
  /\ program   \in [Updaters -> {"off", "login", "prompt", "waiting", "quitting"}]
  /\ asked     \in [Updaters -> Requests \cup {NoRequest}]
  /\ toServer  \in [Updaters -> Seq(UpdaterMessage)]
  /\ toProgram \in [Updaters -> Seq(Answers)]
  /\ thread \in [Updaters -> {"none", "login", "serving", "answering", "leaving"}]
  /\ answer \in [Updaters -> [msg : Answers, then : {"serving", "leaving"}]]

-------------------------------------------------------------------------------
(* A program at its prompt has read the answers to all it has asked, and   *)
(* the server's thread waits for its next request: no answer is ever taken *)
(* for that of a later request.                                            *)
ReadyMeansIdle ==
  \A u \in Updaters : program[u] = "prompt" =>
    /\ thread[u] = "serving"
    /\ toServer[u] = << >>
    /\ toProgram[u] = << >>

(* The OK answers that the program waiting at u has still to read. *)
Acknowledged(u) ==
  {m \in Answers :
     /\ m.type = "OK"
     /\ \/ thread[u] = "answering" /\ answer[u].msg = m
        \/ \E k \in DOMAIN toProgram[u] : toProgram[u][k] = m}

ItemIdsOf(o) == [p \in DOMAIN o.items |-> o.items[p].id]

(* Request r has been carried out, and m tells what came of it, however    *)
(* much has happened since.                                                *)
Holds(r, m) ==
  CASE r.type = "ORDER_NEW" ->
         /\ m \in {Created(id) : id \in FirstOrderId .. next_order_id - 1}
         /\ my_orders[m.id] # NoOrder
              => ItemIdsOf(my_orders[m.id]) = ItemIdsOf(r.order)
    [] r.type = "ITEM_UPDATE" ->
         /\ m = Ok
         /\ r.id < next_order_id
         /\ my_orders[r.id] # NoOrder =>
              /\ HasItem(my_orders[r.id], r.item)
              /\ Rank(r.status) <= Rank(my_orders[r.id].items[
                                         find_item(my_orders[r.id], r.item)].status)
    [] r.type = "ORDER_UPDATE" ->
         /\ m = Ok
         /\ r.id < next_order_id
         /\ my_orders[r.id] = NoOrder
    [] OTHER -> FALSE

(* An OK is true when the program reads it, although my_lock was free and  *)
(* other updaters were served since the request was carried out: the order *)
(* of that id is the one the program submitted, the item has got at least  *)
(* as far as the update says, the order has been delivered.                *)
AnswersAreTrue ==
  \A u \in Updaters : program[u] = "waiting" =>
    \A m \in Acknowledged(u) : Holds(asked[u], m)

(* Of two updaters that ask for the same change only one is told OK, and   *)
(* no two are told that the same order is theirs.                          *)
OneWinner ==
  \A u, v \in Updaters :
    /\ u # v
    /\ program[u] = "waiting" /\ program[v] = "waiting"
    => \A m \in Acknowledged(u) \cap Acknowledged(v) :
         m = Ok /\ asked[u] # asked[v]

-------------------------------------------------------------------------------
(* Liveness, under FairSessionSpec. *)

(* Who asks is answered, or learns that the connection has ended: a        *)
(* refusal, a request that cannot be decoded, bad credentials and a thread *)
(* that could not be created all get the program out of its wait.          *)
WaitingEnds == \A u \in Updaters : Expecting(u) ~> ~ Expecting(u)

(* The server's thread and its Client do not outlive the program. *)
ThreadsEnd == \A u \in Updaters : program[u] = "off" ~> thread[u] = "none"
===============================================================================
