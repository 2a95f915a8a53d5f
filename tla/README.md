# A TLA+ model of the order tracker

The program under `csf_assign05/` is a restaurant's order tracker: one
multithreaded server, *updater* clients that create orders and change statuses,
and *display* clients that show all current orders and follow every change.
This directory models it in TLA+, checks the model with TLC and proves theorems
about it with TLAPS.

Paths below are relative to `csf_assign05/`.

## The system

| part | state | operations | talks to |
|---|---|---|---|
| Server (`src/server.cpp`) | `next_order_id`, `my_orders`, `my_clients`, all under `my_lock` | `create_order`, `update_item`, `update_order`, `add_client`, `remove_client`, `send_order_message`, `broadcast` | called from every session thread; enqueues into the queues of all registered displays |
| Display session (`Client::chat_display`, `Client::~Client` in `src/client.cpp`) | its socket, mode, `m_queue` | register, snapshot, send; then dequeue and send, or heartbeat | Server, its MessageQueue, the display program |
| Updater session (`Client::login`, `Client::update_chat`) | its socket and mode | login, one request and one reply at a time | Server, the updater program |
| MessageQueue (`src/message_queue.cpp`) | deque, mutex `m_lock`, semaphore `m_sem` | `enqueue`, `dequeue` with a timeout of one second | updater threads on one side, one display thread on the other |
| Display program (`src/display_main.cpp`) | a map of orders | login, then receive and apply | its session |
| Updater program (`src/updater_main.cpp`) | none between commands | `order_new`, `item_update`, `order_update`, `quit` | its session |
| Framing (`src/io.cpp`, `rio_writen` in `src/csapp.cpp`) | none | `send`, `receive` | sockets |
| Wire (`src/wire.cpp`, `Util::split`) | none | `encode`, `decode` | every program |
| Model and Message (`src/model.cpp`, `src/message.cpp`) | item, order, message values | copying, equality, `find_item` | every program |
| PasswordDB, `client_util`, `except`, `server_main` | none | login table, connection set-up, exception names, start-up | |

What makes it hard: every session has a thread of its own; a display registers
*before* it copies the orders, so that the broadcasts of that gap reach it twice,
once inside the snapshot and once from its queue; a session's `Client` is
destroyed by its own thread while updaters walk `my_clients`; the queue's
semaphore is posted after its mutex is released; a vanished display is only
noticed by a send that fails.

### Names

At this commit `client.cpp` calls Server methods under other names than
`server.cpp` defines, and the program does not link. The model pairs them by
what they are for:

| `client.cpp` | `server.cpp` | here |
|---|---|---|
| `register_display` | `add_client` | `add_client` |
| `unregister_display` | `remove_client` | `remove_client` |
| `add_order` | `create_order` | `create_order` |
| `snapshot_orders` | the copying half of `send_order_message` (lines 204-214) | `snapshot_orders` |
| `chat_updater` | `Client::update_chat` | `update_chat` in `Session`, `Update` in `Server` |

`server.cpp` also has a complete `send_order_message`, which does the sending
through the queue. Nothing calls it; module `SendOrderMessage` shows what a
display served by it would see.

## Modules

| module | models |
|---|---|
| `Orders` | items, orders, the status rules of `update_item`, the display messages, and `Show`, one turn of the display program |
| `Server` | the server's methods, the thread of each display connection, its socket, the display program; the properties of the feed |
| `MCServer` | constants of the small instances |
| `SendOrderMessage`, `MCSendOrderMessage` | `Server` with `send_order_message` in the place of the session's snapshot |
| `Session`, `MCSession` | the updater program, its connection and the thread that serves it, on top of `Server`; the properties of requests and answers |
| `Threads`, `MCThreads` | the server's methods and the display threads lock by lock, on top of `Server`, which they are shown to implement |
| `Objects`, `MCObjects` | orders and items as objects with pointers to them, on top of `Server`, which they are shown to implement |
| `MessageChannel` | the abstract queue: first in, first out, may give up |
| `MessageQueue` | the queue at the granularity of mutex, semaphore and non-atomic deque |
| `Pipe` | what `Server` and `Session` take a socket to be: a pipe of whole strings that may break |
| `Framing`, `MCFraming` | `IO::send`, `rio_writen`, `IO::receive`, byte by byte |
| `Wire`, `WireTexts`, `MCWire` | `encode`, `decode` and what they rest on, as operators; the texts they are checked on |
| `Server_proofs`, `Feed_proofs`, `Session_proofs`, `MessageQueue_proofs`, `Threads_proofs`, `Framing_proofs`, `Objects_proofs`, `Wire_proofs` | lemmas and theorems |

**Server.** A Server method holds `my_lock` from its first to its last statement
(through `Guard`), so each is one action: `create_order`, `update_item` and
`update_order` with the broadcasts they make, `add_client`, `remove_client`, and
the copying of the orders. A request the server refuses (SemanticError) changes
nothing and has no action; the guards of the actions are exactly the negated
conditions of the `throw`s. `update_item` computes the order's status with
`StatusAfter`, branch by branch as in the code. A display connection is a
program counter (`phase`), its queue, what is left of its snapshot (`backlog`),
its socket (`sock`, a bounded sequence of messages) and the display program's
end (`peer`, `screen`). `chat_display` becomes `add_client`,
`snapshot_orders`, `SendSnapshot`, `SendQueued`, `SendHeartbeat`; an IOException
becomes `SendFails`, `~Client` becomes `remove_client`, after which the
connection may be used again by another display. The OK that answers the LOGIN may
not get through either; `~Client` then unregisters a client that never registered.
The snapshot lists the orders
in any order, as the iteration of an `unordered_map` does. Orders and messages
are plain values, because every handover in the code is a deep copy, which is
what `Objects` shows. The queue of a display is a sequence here; `MessageQueue`
shows that this is what its two locks implement, `Threads` that a method is one
action.

**Threads.** `Server`'s state, and where each thread is. An updater's thread
constructs its `Guard` (`Guard`), makes the checks and the first change of a method
(`Method`, or `Refuse` when a check throws), and then walks `my_clients`: it picks
a client (`visit`), locks its queue, pushes and unlocks, and posts the semaphore
(`enqueue_lock`, `push_back`, `post`). When the loop is done, `update_item` may
change the order's status and broadcast again (`update_item_goes_on`); `Return`
ends the method, after `update_order` has erased the order. A display's thread
takes the semaphore or times out, locks its queue, pops, and sends what it has
in hand (`sem_wait`, `timeout`, `dequeue_lock`, `pop_front`, `Stream`). Its own calls of
the server hold `my_lock` without waiting for anything else, so each is one
step, possible while nobody else has the lock (`Join`, `Destroy`).

The refinement `IsAtomic` maps this to `Server` with two derived values.
`AtomicQueue` is a queue with what its thread has popped and not sent in front,
and what the method under way will still put there behind, the second broadcast
of `update_item` included. `AtomicOrders` has the status, or the removal, with which
the method will end. So a method takes effect right after its checks. That
nobody else can tell is what `my_lock` is for, and the mutant that gives it back
between the two broadcasts breaks it.

**Objects.** A heap of orders and items at addresses; `my_orders`, the message an
updater's session has read (`request`), and the DISP_ORDER messages of the queues
and of the snapshots hold addresses. `duplicate` is `Order`'s copy constructor, of
several orders at once where the code is in a loop: a new order with a new item for
each item, at addresses that nobody has (`Fresh`). `CreateOrder` makes every copy on the
way from the request to the queues: the session's, which becomes the server's
and gets the ids (`Numbered`), the broadcast's, and each client's (`Enqueued`).
`UpdateItem` and `UpdateOrder` write into the objects in the map. A message is read
when it is sent (`Encoded`). Objects without a pointer are dropped (`Collect`).

**Session.** One slot per updater connection, used by one program after the
other: where the program is (`program`, and in `asked` the request it waits
for), what is in flight in each direction (`toServer`, `toProgram`), where the
server's thread is (`thread`) and the answer it has in hand (`answer`).
`connectLogin` covers `accept`, the new `Client`, and `pthread_create` with its
failure. `login` and `update_chat` read a message and act on it in one step,
carrying out the very actions `create_order`, `update_item` and `update_order`
of `Server`; a refusal (`Refused`, the negation of their guards) leads to ERROR,
a message that `Wire::decode` rejects or that is of another type ends the thread
without an answer, because `update_chat` decodes outside its `try` and throws
ProtocolError past its `catch`. Sending the answer is a step of its own: between
the two my_lock is free and anything may happen, including the program's end,
after which the answer is lost or sending it fails. The program may end at any
moment (`ProgramEnds`): killed, at the end of its input, on input that is not a
number, on an order without items. An instance has no displays; they share
nothing with updaters but the server's operations, and `Server` has both.

**MessageQueue.** A `push_back` or `pop_front` reads the deque in one step and
writes it in the next, so that the model would lose messages if the mutex did
not protect them. `sem_timedwait` may give up at any moment at which it cannot
take the semaphore. The abstract `MessageChannel` allows `dequeue` to return
null only while there are no more messages in the queue than calls of `enqueue` in
progress, so never when no call is.

This is less than `message_queue.h:33-35` says, where null means that the queue
was empty and nothing arrived for a second. Tokens of the semaphore do not belong to
particular messages: if one producer has pushed and not posted, and another has
pushed, posted and returned, the consumer takes the second one's token and pops
the first one's message; its next call may time out although the message that is left
was enqueued by a call that has returned. Nothing is lost by it:
`chat_display` sends a heartbeat and calls again, and the first producer's post
hands the message out (`EveryMessageArrives`). The abstraction counts, because
counting is what the code guarantees.

**Framing.** One direction of a connection. `send` builds the frame, each call of
write(2) in `rio_writen` and of read(2) in `put_to_buffer` is a step that moves
any number of bytes; the length is checked, and the string returned, in steps
of their own. A side may go away at any point; then reads end, or are reset with
bytes still in the socket. The base and the width of the length are parameters,
so that lengths of five digits are within TLC's reach as lengths of three binary
ones. Interrupted calls are left out: no program installs a signal handler.
`Pipe` is the abstract connection, which the sockets in `Server` and `Session`
are instances of.

**Wire.** Texts are sequences of tokens: the four separators, words, numerals
with a value and leading zeros. A numeral is one token however many digits it has;
`Size` counts them, and the bytes of words, for the length that `IO::send` puts in
front of a text. The constants `WordSize` and `Base` are for this: the program writes
numbers in base ten, the instance in base two, so that ids of one digit and of two
are among the few numbers it has. `split` cuts at every separator, so that an empty
part is one, at the end, too. `decode` is the conjunction of the code's checks
(`Accepted`) and what is read off (`Decoded`); where the code throws
InvalidMessage it returns `Invalid`. `split` and `Joined` are recursive functions
over the text's length, so that they can be reasoned about. The constant `Words`
is what texts are made of besides separators and numerals; the names in the
tables are among them (`WireAssumption`). `Message` is what the constructors of
`message.h` can build, sound or not. `Announced` is what `create_order` does to
an order before the broadcast. `WireTexts` is a machine only so that TLC can
enumerate texts: it takes the encoding of a message and edits it.

## Properties and runs

| run | instance | properties |
|---|---|---|
| `server_feed` | 2 displays (symmetric), 1 order of two items with different ids or with one id twice, socket of 1 message | `TypeOK`, `NoDanglingClient`, `StatusAgrees`, `HiddenItemBlocksOrder`, `CaughtUp`, `ScreenNeverAhead`, `OnlyCompleteOrdersLeave` |
| `server_two_orders` | 1 display, 2 orders of one item, socket of 2 messages, fair | `CaughtUp`, `NeverReshown`, `DisplaysConverge`, `GoneDisplaysAreRemoved` |
| `threads` | 2 updaters, 1 display, 1 order of two items, socket of 1 message, fair | `ThreadsTypeOK`, `NoCircularWait`, `NoUseAfterDestroy`, `IsAtomic`, `LockIsGivenBack` |
| `objects` | 1 updater, 1 display, 1 order of two items, socket of 1 message | `ObjectsTypeOK`, `ServerOwnsItsOrders`, `ItemsKnowTheirOrder`, `IsByValue` |
| `message_queue` | 3 producers with 2 messages each, fair | `TypeOK`, `FrontExists`, `SemaphoreCounts`, `IsChannel`, `EveryMessageArrives` |
| `session` | 2 updaters (symmetric), 2 orders of one item each, told apart by the item's id | `SessionTypeOK`, `ReadyMeansIdle`, `AnswersAreTrue`, `OneWinner` |
| `session_live` | 2 updaters, 1 order of one item, fair | `WaitingEnds`, `ThreadsEnd` |
| `framing` | 2 strings out of nine, of 0 to 7 bytes, lengths of two binary digits, socket of 3 bytes, fair | `TypeOK`, `FailsForCause`, `IsPipe`, `EveryStringArrives` |
| `wire` | 23 messages, up to 2 edits, 12 tokens, `INT_MAX` = 2, numbers in base 2 | `DecodedIsSound`, `RoundTrip`, `AcceptedIsEncoding`, `RelayedIntact`, `AnnouncedLength` |
| `framing_length` | as `framing` | `FailsOnlyAtTheEnd`, violated |
| `server_screen_done` | 1 display, 1 order of two items | `ScreenDoneMeansComplete`, violated |
| `send_order_message` | 1 display, 1 order of one item | `CopiesAreNotStale`, violated |

- `CaughtUp`: a display that has read all that is on its way to it shows exactly
  the server's orders. This is the claim that registering first and replaying on
  top of a newer snapshot is harmless; it holds because every message sets a
  value absolutely and the newest message for each value comes last.
- `NeverReshown`: an order that a display has removed does not come back.
- `ScreenNeverAhead`: a display may lag behind, but never shows a status the
  server has not recorded.
- `StatusAgrees`, `OnlyCompleteOrdersLeave`: the status of an order follows its
  items, although the completion loop is skipped in one branch, and
  `update_order`, which looks at that status only, delivers complete orders only.
- `HiddenItemBlocksOrder`: an item behind another one with its id stays NEW,
  whatever the updaters ask, so its order is never DONE and never leaves.
  `model.h:25` calls the id "item unique id", but neither the updater, nor `decode`,
  nor `create_order` refuses an order with two items of one id.
- `NoDanglingClient`: broadcasts reach only `Client` objects that exist.
- `DisplaysConverge`, `GoneDisplaysAreRemoved`: the liveness of the feed and of
  the clean-up by heartbeat.
- `NoCircularWait`: in no set of threads does each wait for a lock that another of
  the set has. This is `README.txt:42-45`.
- `NoUseAfterDestroy`: no thread has a queue before it, or is inside one, whose
  `Client` may be gone. `enqueue` posts the semaphore after it has released
  `m_lock`, so the message may be sent and its receiver may want to end before the
  post is made; `remove_client` then has to wait for `my_lock`.
- `LockIsGivenBack`: whoever has `my_lock` gives it back, although no display
  program is obliged to read and no display thread to return from a send. Queues
  grow without a bound for a display that does not read; what the code gets for
  it is that updaters do not wait for displays.
- `IsAtomic`: the threads implement `Server`.
- `ServerOwnsItsOrders`: nothing that the updates change in place can be reached
  from a message. Display threads encode messages without a lock, so this is
  what makes the program free of data races on orders.
- `ObjectsTypeOK`: among other things, no item is in two orders.
- `ItemsKnowTheirOrder`: the order id that every item carries, and that
  `encode_order` writes out, is its order's, in every copy.
- `IsByValue`: the objects implement `Server`.
- `ReadyMeansIdle`: a program at its prompt has nothing in flight and a thread
  that waits for it, so an answer is never taken for a later request's.
- `AnswersAreTrue`: what an OK says is true when it is read, however many other
  requests came in between: the id in "Created order id n" is that of the order
  submitted, the item has got at least that far, the order has been delivered.
- `OneWinner`: of two updaters who ask for the same change one is told OK; no two
  are told the same order id.
- `WaitingEnds`, `ThreadsEnd`: no updater waits for ever, and no server thread
  outlives its updater. Refusals, undecodable requests, bad credentials, a thread
  that could not be created and a program that dies at any moment are included.
- `FrontExists`, `SemaphoreCounts`, `IsChannel`, `EveryMessageArrives`: the queue
  never pops an empty deque, loses no wake-up, is a first-in first-out channel,
  and every message is dequeued.

- `IsPipe`, `FailsForCause`, `EveryStringArrives`: however writes and reads cut the
  bytes up, strings are received whole, in order and once; a receive that throws
  has a reason; and a string that fits arrives if both sides stay.
- `RoundTrip`, `DecodedIsSound`: a message survives encoding and decoding exactly if
  it is sound, any other is refused, and nothing but sound messages comes out of
  `decode`. A description with a colon, as in "soup: small", is not sound: it ends
  the updater's session without an answer. With a semicolon in a description
  refusal is not certain, because `encode` escapes nothing and what follows the
  semicolon may have the form of an item (`SemiFree`); the instance has a description
  of this kind, of which `decode` makes two items.
- `AcceptedIsEncoding`, `RelayedIntact`: `decode` ignores nothing but zeros in front
  of a number, and what a display decodes of the broadcast of an order is what
  `create_order` announced. This says nothing of the broadcast's length.
- `AnnouncedLength`: the broadcast of an accepted order is longer than the request
  by at most `Growth`: one byte for the type, and what the new id has more than one
  digit, once for the order and once for each item. An order that leaves this much
  room in a frame gets to the displays. The code does not check that it does: with
  ids of four digits, an ORDER_NEW of one item that just fits a frame is accepted and
  its broadcast has a length of five digits, which ends every display (see
  `framing_length`).

Three runs show disagreements with what the repository says:

- `server_screen_done`. `model.h:74` says a DONE order has all items completed.
  On a screen this fails for a while: a display that registers, and copies the
  orders after the order was completed, then replays the item updates from
  before the copy, which take an item of the DONE order back to IN_PROGRESS.
- `send_order_message`. `README.txt:27-31` says the guard makes races
  impossible in this method too. It enqueues its copies after it has released
  `my_lock`; a broadcast in between precedes the older copy. If that broadcast
  was a delivery, the display shows the delivered order for ever.
- `framing_length`. `io.cpp:47` says that the length has four digits. `setw` does
  not cut: from 9999 bytes on it has five, and the receiver throws. The server
  itself can lengthen an order beyond that by the ids it writes into it; by how
  much, `AnnouncedLength` says.

Bounds. `MaxOrders` caps the orders ever created; statuses only move forward, so
a bounded number of orders makes the state space finite. One order with two
items has every relation the rules look at: an item that is done beside one that
is not, an item out of reach behind another with its id. Two orders are needed
for the order of the snapshot and for a delivery beside another order; a third
would repeat this. Two displays suffice for a broadcast to reach one and miss
another; displays share nothing else. `Threads` has one display, because a second
makes it too large to check; two updaters and one display have every lock, and
what one broadcast leaves undone for the one display stands for the others. In
`Objects` the updates may be any updater's; only the request in a session's hand is
one. A `SockCap` of 1 already makes every send
block until the display reads. `MaxSent` = 2 lets each producer come back while
others are in the queue.

In `Framing`, two strings show what follows a string; nine of them cover the
empty one, digits and newlines inside, the longest that fits, and one or two
digits too many; a socket of 3 bytes holds less than most frames. In `Wire`, one
edit reaches every single fault and two let one fault hide another; numerals lie
on both sides of both bounds; in base 2 the id that `create_order` gives has two
digits, where that of a request may have one.

In `Session`, `request` submits an order only while `RoomForOrder`, so that no
`create_order` lacks an id; two updaters show every race for one change, and two
orders every confusion of ids.

Fairness. The thread of a connection is weakly fair once the client has logged
in (the scheduler runs every runnable thread), and a running display program
keeps reading. `SendHeartbeat` is possible while there are messages in the queue,
because `sem_timedwait` may have timed out just before the message came; but once
a message is there its semaphore is up and `sem_timedwait` does not time out any
more, so `SendQueued` is strongly fair. `Threads` assumes that a thread that is
between taking `my_lock` and giving it back, or inside `dequeue` past the semaphore,
is scheduled, and nothing else. Nothing is assumed of updaters, of new connections, or of a
display staying. In `Session`, threads are scheduled and a program that waits in
`sendReceive` reads what arrives; nobody has to connect, ask or quit. In
`MessageQueue`, a call that has begun is carried on and `chat_display` calls
`dequeue` again and again. In `Framing`, `rio_writen` and `IO::receive` are
carried on when they can be; nobody has to send. A mutex is only assumed to be
granted eventually when it stays free; with a bounded number of messages this
suffices.

Every run but those of `Framing` and `Wire`, where both sides may have gone or the
edits are used up, has TLC look for deadlocks: where nothing else can happen, a
connected display always gets heartbeats, a closed one can be connected again, a
program can be started again.

Operators whose comment begins with "Mutant" are wrong variants of the next
definition. Each property has one that violates it.

## Proofs

All theorems hold for any constants that satisfy the assumptions `NoOrder \notin
Order`, `MaxOrders \in Nat`, `SockCap \in Nat \ {0}`, `NewOrders \subseteq Order`
(Server), a finite set of producers that contains neither `Consumer` nor
`Nobody` (MessageQueue), and disjoint sets of updater and display threads without
``Nobody` in them (Threads), and for `Framing` bytes that are digits, letters or the
one newline, a base of at least 2, a width of at least 1 and a socket of at least
one byte; and for `Wire` a positive `INT_MAX`, words that include the names in the
tables and have sizes, and a base of at least 2. Neither set of threads need be finite, and neither `Strings`, `Words`, nor the
set of displays.

- `TypeCorrect`: `TypeOK` is inductive. The steps that matter are `ShowType`
  (applying a message keeps a screen a map of orders), `UpdateItemOrders` (what
  `update_item` stores and announces) and `ListingType` (a snapshot is a
  sequence of messages).
- `RegistrationCorrect`: `NoDanglingClient` is not inductive, since it does not
  say who is in `my_clients`. `Registered` adds that `my_clients` is exactly the
  set of connections between `add_client` and `remove_client`.
- `StatusCorrect`, under the further assumption that updaters submit fresh
  orders (`FreshOrder`, what `updater_main.cpp` builds; the server itself does
  not check it). Lemma `UpdateItemSummary` shows why the skipped check does no
  harm: the branch that skips it has just put an item IN_PROGRESS.
- `DeliveryCorrect`: the action property follows from `StatusAgrees`.
- `HiddenItemsBlock`, again for fresh orders: the property itself, as `Blocked` of
  one order, is kept by each update (`UpdateItemBlocked`). `set_item_status` reaches
  only the first item of an id, so the hidden one stays NEW, `AllDone` stays
  false, and the order is not completed.
- `DisplaysCatchUp`, `DeliveredNeverReshown`, `ScreensNeverAhead`: from the invariant
  `FeedInv` (`FeedCorrect`), which speaks of everything that is on the way to a display,
  `Pipe`: its socket, what is left of its snapshot, its queue. None of the
  three properties is inductive, as they only speak of screens. `NoneAhead`: no
  message on the way says more than the server has recorded. `DeliveriesLast`: no
  DISP_ORDER comes after its order's delivery. `AllCorrected`: for each field of
  each order (its status, the status of each item, whether it is there at all),
  a screen that has it wrong has a message on its way that sets it right, and so
  has each message on the way that would set it wrong, behind it. `Stages` says
  what can be on the way at each stage of a connection. The steps are of two
  kinds. A step of a connection keeps, drops or applies the first message, appends
  a heartbeat, or puts a snapshot in front of the queue (`DisplayStep`); for the
  last, `FedSnapshot` shows that messages from before the snapshot do no harm. An
  update (`UpdateChanges`) creates an order, makes one advance or takes one out,
  and `BroadcastMoves` says what each registered display has got for it. No
  assumption about the orders that updaters submit is needed.
- `QueueTypeCorrect`, `FrontAlwaysExists`, `SemaphoreAlwaysCounts`: from the
  inductive invariant `IInv`, whose heart is `Count`: the length of the deque is
  the semaphore's value, plus the consumer's token, plus the producers that have
  pushed and not yet posted. `Exclusion` (who is between lock and unlock owns
  the mutex and has an up-to-date view) makes push and pop atomic.
- `QueueIsChannel`: initial states map to initial states and every step to a
  step or a stutter of `MessageChannel`; pushing is the moment a message enters,
  popping the moment it leaves. A timeout finds the semaphore at 0 and the
  consumer without a token, and then `Count` leaves no more messages than there are
  producers between push and post, which is what `GiveUp` asks for.
- `ThreadsTypeCorrect`, `NeverUsedAfterDestroy`, `NeverCircularWait`: from the
  inductive invariant `ThreadsInv`. `Holding` says that only the owner of `my_lock`
  is in a method and that what it has still to visit is registered: a Client
  leaves `my_clients` under the same lock. `Mutex` says who owns a queue's lock,
  `Serving` where a display's thread can be, and `Counting` that every token in or
  out of a semaphore stands for a message in the queue, which is why `pop_front`
  finds one. For `NeverCircularWait`: the owner of a queue's lock waits for nothing,
  so whoever waits for one waits for a thread that does not wait, and so does
  whoever waits for `my_lock`, or else for a thread that waits for a queue's.
- `MethodsAreAtomic`: `IsAtomic` for any number of threads. `QuietMapping` and
  `BusyMapping` say what the mapping shows when no method is under way and when
  one is. Then `Method` is the whole step of `Server` (`MethodIsAtomic`): the second
  broadcast and the new status of the order are determined when the checks have
  been made, since nobody else gets `my_lock` before `Return`. The rest of a method
  is a stutter (`WalkStutter`, `GoesOnStutter`, `ReturnStutter`). A display's
  step leaves alone what the method under way will still do (`RestStays`), takes
  from the front of a queue what is its front for `Server`, too (`StreamIsAtomic`),
  and meets no method under way if it needs `my_lock` (`JoinIsAtomic`,
  `DestroyIsAtomic`). With this, the theorems about `Server` hold of the orders and
  queues as the mapping shows them.

- `SessionTypeCorrect`, `SessionImplementsServer`: a step of a session is a step of
  `Server` or leaves it alone, so all the theorems about `Server` hold of the
  updaters' sessions, too.
- `ReadyMeansIdleCorrect`, `AnswersAreTrueCorrect`: neither property is inductive;
  the invariant is `TakingTurns`. Each session is in one of six stages (`Gone`,
  `Ready`, `Sent`, `AboutToAnswer`, `Answered`, `Ending`), and an OK that is in
  the thread's hand or on its way says something true (`Fits`). A step of another
  session keeps it true by `HoldsForGood`, which rests on `OrdersOnlyAdvance`:
  a created order stays, advances or leaves, and never comes back. `Allocated`
  (only created orders are in `my_orders`) is needed for what an OK says at first.
- `OneWinnerCorrect`: by `ServedIsNew`, a request that is carried out was not true
  before, so no OK for it can be about; and an id that is given out is new.

- `FramingTypeCorrect`, for any strings.
- `FailuresHaveCause`, `FramingIsPipe`: under the hypothesis `LongIsOneLine`, that a
  string too long for its length field has no newline in it. Without it they
  are false: the receiver would read four of five digits, and if the byte at
  which it expects the end happened to be a newline, it would take a piece of the
  string for all of it and then read the rest as frames. The programs send lines
  that were read with `getline`, so the code meets the hypothesis; TLC evaluates it
  for the strings of the runs. Strings that fit may contain anything. The
  invariant is `FramingInv` (`FramingCorrect`). `InOrder`: the buffer, the bytes in the
  socket, those that `rio_writen` has still to write and those that were lost when the
  sender went away are, one after the other, the rest of the frame that is being read
  and the frames of all strings sent and not yet received. `AtBoundary`: the
  receiver wants a length, or as many bytes as the first four of the frame say. All
  three definitions are only about bytes that move (`OnlyMoves`), but for the steps
  in which `send` adds a frame and `receive` comes to the end of a length or a
  string (`PrefixIsRead`, `RestIsRead`, `LongIsRefused`). Under this lies
  arithmetic: `StoiOfLength` says that the first k digits of a length stand for
  what is left of it when the others are cut off, so that four digits are read
  back as they were written, and of more, four stand for less than the frame has
  left. `Length` and `stoi` are recursive functions; `RecursiveFunction` shows that such
  functions exist, by `InductionOnNat`, which follows from the library's
  well-foundedness of the natural numbers.

- `ObjectsTypeCorrect`, `OwnershipCorrect`, `ItemIdsCorrect`, `ObjectsImplementServer`:
  from the inductive invariant `ObjectsInv` (`ObjectsInvariant`). Neither property is
  inductive: where a copy ends up depends on the heap's having room, on orders
  being whole, and on pointers being what they should be. `HeapOK` says that the heap has
  exactly what pointers lead to, and that its orders are `Whole`: each item is there, is
  the item of one order at one place, and has its order's id. Then an order that is not
  in both cannot share an item with one of the other side (`WholeApart`), so it is
  enough that the addresses in the map and in messages and requests differ.
  `KeptUnderId` and `Submitted` relate an order's own id to its place in the map, and a
  request to what its updater submitted. The steps rest on three lemmas. `Copying`:
  copies are whole, read as their originals and are new, and leave the rest alone;
  there is always room for them (`FreshAddresses`). `Numbering`: ids are changed, and
  nothing that `encode_order` reads of the other orders. `ItemChange` and
  `OrderChange`: a change in place is seen through the address it is made at, and through
  no other. `Collected` says that dropping objects without a pointer
  changes nothing that anybody reads. The refinement follows step by step:
  `CreateOrderStep` is `create_order` of `Server` on the order in the request,
  `UpdateItemStep` and `UpdateOrderStep` its updates, `SnapshotStep` the snapshot; a
  request that is read or ends is a stutter. Encoding each message when it is sent
  gives what it said when it was queued (`EncodedStays`). No assumption is needed but
  that the null pointer is no address (`NullAssumption`).

- `DecodedCorrect`, `RoundTripCorrect`, `AcceptedCorrect`, `RelayedCorrect`,
  `AnnouncedLengthCorrect`: for messages, orders and texts of any length and any number of edits. The invariant
  `TextsInv` says only that the message is one that `encode` takes and the text
  consists of tokens; the content is in two facts about all messages and texts, from
  which each property follows. `MessageBack`: what `decode` returns is a sound message,
  and its encoding is the text but for zeros that are left out (`Trimmed`). `MessageForth`: what `encode` has
  written, `decode` reads as the same message if it is sound, and as that or nothing
  if no description has a semicolon. Both go kind by kind. An order's items take
  three levels of `split` and `Joined`, for which there are three lemmas: `JoinedSplit`
  (joining what `split` returns gives the text), `SplitJoined` (splitting joined parts
  gives as many parts or more, and the parts if no more), and `SplitConcat` (a text
  behind a separator is split by itself), on which `SplitJoined` rests.
  `AnnouncedIsSound` says that the id which `create_order` writes into an order and its
  items leaves it sound. For `AnnouncedLengthCorrect`, `TrimmedIsNoLonger` says that
  the encoding of an accepted order is no longer than the request, and
  `AnnouncedGrows` how much longer the broadcast is than that encoding: `ItemGrows` for
  one item, `JoinedGrows` for all of them. Induction is over a set: what holds of the empty sequence and is
  kept by `Append` holds of all sequences (`InductionOnSeq`, and `InductionOnPartLists`
  for lists of parts), from `InductionOnNat`. That `split` and `Joined` satisfy their
  recursive definitions is `RecursionExists`. The proof found a statement that was too
  strong: that every message without a sound encoding is refused is false with a
  semicolon in a description, in texts longer than TLC had been given. `RoundTrip`
  says now what is true, and the instance has the case.

TLC checked `FeedInv`, `FramingInv` and `ObjectsInv` on the instance of the component's
run before they were proved.

Only model-checked: `EveryStringArrives`, `DisplaysConverge`,
`GoneDisplaysAreRemoved`, `LockIsGivenBack`, `EveryMessageArrives`, `WaitingEnds`,
`ThreadsEnd`, because temporal proofs with fairness are out of the prover's reach.
`TypeOK`, `FailsForCause` and `IsPipe` of `Framing` are proved for the width and base as
parameters, of which the program has 4 and 10.

## Not modelled yet, and the plan

Every safety property of the passing runs has a theorem. What could still be proved:
that the sockets of `Server` and `Session` are instances of `Pipe`, and a display's
queue in `Server` one of `MessageChannel`, so that the theorems of `Framing` and
`MessageQueue` and those about the feed meet in one statement; and what remains true of
a display that `send_order_message` serves.

Left out for good: drawing the screen, start-up and argument handling
(`server_main.cpp`, `main` functions), the exception hierarchy beyond where
exceptions are caught, the vendored `csapp` code apart from `rio_writen`, the unit
tests and their framework, and the equality operators of `Item`, `Order` and
`Message`, which only the unit tests call. Running out of memory, descriptors or order
ids (`int` from 1000 on) is not modelled.
