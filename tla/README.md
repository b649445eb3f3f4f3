# A TLA+ model of ChatApp

ChatApp is a chat server and its client for Linux, written in C++20: one
listener thread, a few worker threads that share the clients among them, and
lock-free queues with eventfds between the threads. This directory holds TLA+
modules that model the queue, the server process and the client program, TLC
configurations that check them, and TLAPS proofs. Source lines are given relative to the repository;
`STM` stands for `include/Server/ServerThreadManager.h`.

## 1. Inventory

| Part | State | Operations | Talks to |
|---|---|---|---|
| `AtomicQueue2` (`include/Atomic_queue/atomic_queue.h`) | two ticket counters, a state and an element per slot | `try_push`, `try_pop` | every thread |
| `Server`, `Client_Data` (`include/Server`) | array of optional clients, each with `init_state` and `send_queue`; stop source | accept, disconnect, look up, send, receive, stop, destroy | sockets; called by the manager's threads |
| `ServerThreadManager` | slots of (client count, eventfd, jthread), `nr_of_launched_threads`, `max_clients_per_thread`, two queues | `listener_loop`, `worker_loop` and what they call | `Server`, the queues, eventfds |
| `Client` (`src/Client`) | name, id, colour, handshake flags, stop source | send loop, receive loop | server socket, stdin |
| `Server_Message`, `MessageFrame` | eight text fields; a 512-byte buffer | concatenate, construct, clear | clients, workers, listener |
| `EpollManager` (`src/Polling`) | epoll descriptor, event array | add, wait, check | all loops |
| `Server_main.cpp`, `Client_main.cpp` | pid of `avahi-publish` | start, stop, SIGINT, look-up | everything |
| rest of the vendored queue library, `src/Server/Server.cpp` | | not used, not compiled | |

What is hard here:

* **Queue.** Threads hold tickets of the same slot a lap apart, counters wrap,
  tests are made on stale copies of counters, the element is a plain string.
* **Listener and workers.** A push and the eventfd write that announces it are
  two steps, and so are the read of the eventfd and the pop. One queue serves
  all workers. The listener's view of the workers (slots and counts) lags
  behind them, and it destroys jthreads, hence joins them, while it decides.
* **Failure.** Exceptions in a worker end the process; exceptions in the
  listener end its loop; queues fill up; peers hang up or reset; a stop may
  come at any moment.
* **Framing.** What one `recv` returns is taken for one message, on both sides,
  in a buffer that starts uninitialised and is not cleared after an error.
* **Client.** Two threads share the handshake flags, the id (a plain string) and
  the stop source; each waits without a timeout for something the other thread,
  the user or the server must do.
* **Process.** A child process, a signal handler, and a destructor that closes
  sockets under threads that are still running.

What makes the parts correct: a queue loses and duplicates nothing and never
lets two threads into a slot; every connected client is in the hands of exactly
one thread; slot indices stay inside the array; what a client is told arrives in
order, after its handshake and once; hang-ups are noticed and a stop stops; the
process takes its child with it and ends; a client shows what was said and
nothing else, and ends when its user or its server does.
`PROJECT.json` lists the hazards at their lines, with the properties that watch
them.

## 2. Modules

`BoundedPool` - what a message queue promises whoever uses it: a bounded set of
items, each put once and taken once, in no promised order.

`AtomicQueue` - `try_push` and `try_pop` of `AtomicQueue2` with `SPSC = false`,
one action per atomic access: the load of the own counter (`PushBegin`,
`PopBegin`), the test against the other counter (`PushRefuse`/`PushRoom`,
`PopRefuse`/`PopSome`), the compare-and-swap that claims a ticket, with its
failure, which may be spurious (`PushClaim`/`PushRetry`), the compare-and-swap
on the slot, the access to the string, the final store. Tickets are taken modulo
`Modulus` (2^32 in the code) and compared through the signed cast
(`SignedDiff`). Spinning is the absence of a step. The slot index is
`ticket % size_`: for 128 slots `GetIndexShuffleBits` gives 0.

The theorems of section 4 are in eight modules, each built on the one before it:
`AtomicQueueProofs` and `TicketProofs` for the queue; `ServerThreadManagerProofs`,
`CustodyProofs`, `StoryProofs` and `ServerProcessProofs` for the server;
`ChatClientProofs` and `ClientStreamProofs` for the client.

`Clients` - the clients and their TCP connections as the server meets them:
`Connect`, `RequestInit`, `FinalizeInit`, `TypeLine`, `TypeQuit`, `HangUp`. A
message is a record of its action, the id in it and, for a line, its number. The
socket (`net`, `inbox`, `out`) is external and modelled from its use: several
messages may wait in `inbox` and one `recv` returns them all; the peer may have
closed (`fin`), have closed and answered our data with a reset (`finrst`:
`recv` still returns 0, `send` raises SIGPIPE), or have reset (`rst`).
`TypeLine` may send a line without id: `send_msg_from_stdin` copies `id` while
the other thread may be about to set it. A line may also be a `MISFIT`: it has a
back quote in it or does not fit a `MessageFrame`; so may the INIT_REQ, because of
the name in it (`INIT_MISFIT`). That the program really is such a client, and no
worse one, is proved of `ChatClient`.

`Server` - the client table, `init_state`, the `send_queue`s, the stop flag, and
the operations the threads call on them. A connection's number stands for its
`personal_id`: both only grow. `accept_client_fails` is `accept4` or `fcntl`
failing. A client that has stopped reading may have a full send buffer
(`MayBeFull`): epoll does not report it writable, and a socket that is writable may
take one message more and refuse the second (`SendMayFail`).

`ServerThreadManager` - the listener and the workers. `listener.pc` and
`worker[w].pc` say where a thread stands:

| pc of a worker | code | actions |
|---|---|---|
| `start` | the first client's socket is put into the epoll set, STM 354 | `WorkerStart`; throws when `~Server` has closed it |
| `wait` | `epoll_wait` (STM 360) | `WorkerWake` takes the snapshot of ready descriptors and reads its eventfd |
| `pop` | STM 251 | `WorkerPop` |
| `clients` | the loop over the clients, STM 371-401 | `WorkerRecv`, `WorkerRecvEnd`, `WorkerRecvThrows`, `WorkerSend`, `WorkerSendThrows` |
| `signal`, `reapSignal` | the eventfd write of `worker_push`, STM 139 | `WorkerSignal` |
| `clients` (done), `tail` | `remove_if`, the new client, the loop head, STM 403-438, 359 | `WorkerReap`, `WorkerReapThrows`, `WorkerRoundOver` |
| `exited` | the thread can be joined | |

| pc of the listener | code | actions |
|---|---|---|
| `wait` | `epoll_wait` (STM 457) | `ListenerWake` takes the snapshot and reads the eventfd |
| `pop` | STM 196 | `ListenerPopNothing`, `ListenerRelay`, `ListenerDisconnect` |
| `reset` | the join inside `reset()`, STM 157 | `ListenerReset` |
| `dispatch` | the other events of the snapshot | `ListenerStdin`, `ListenerAccept`, `ListenerAcceptFails` |
| `assign` | the eventfd write, STM 79 | `ListenerSignal` |
| `launch` | the join inside `emplace()` on a slot in use, STM 86 | `ListenerLaunch` |
| `dead` | the loop has ended; `main` destroys the server | `Destroy` |

`crashed` means the process is gone: an exception left a worker
(`std::terminate`) or a send raised SIGPIPE. `Terminate` is that step.

`ServerProcess` - `Server_main.cpp` around `ServerThreadManager`. `main` goes
through `start` (arguments), `fork` and `forked` (the child runs and its pid is
not recorded yet), `build` (constructor and `listen`, whose exceptions nobody
catches), `serving` (the join of the temporary jthread that
`launch_server_loop` returns), `kill`, `destroy` (`~Server`, the action `Destroy`
of `ServerThreadManager`) and `joining` (its member `worker_threads`, hence the
workers). `Interrupt` is `handle_sigint` at any moment; Ctrl+C on a terminal
reaches the child as well, a signal sent to the server alone does not. The child
ends by itself when avahi cannot be run (`PublisherEnds`). `Running` lets the
threads move only while the server object exists.

`Framing` - the message on the wire: `get_concatenated_msg`,
`construct_from_string` with its count of separators, the buffer of a
`MessageFrame`, what `recv` puts there (`Chunk`, `Received`) and what is read of
it (`CString`). Characters are strings of length one, the separator is `|`, and
the numbers of fields and of bytes are constants.

`ChatClient` - one client program. `main` checks its argument, looks the server
up, connects and starts the threads; then

| pc of the sender | code (`Client.cpp`) | actions |
|---|---|---|
| `head` | the tests of the loop, 212-214 | `SendHead`; without a name the loop spins here |
| `init`, `flag` | 215-218, 219 | `SendInitReq`, `SetInitReq` |
| `wait` | `epoll_wait`, 223 | `SendWoken` (eventfd), `ReadLine` and `ReadQuit` (stdin) |
| `line`, `quit` | 100 and 92, with the catch | `SendTyped` |

| pc of the receiver | code | actions |
|---|---|---|
| `head` | 239 | `ReceiveHead` |
| `wait` | `epoll_wait` and `recv`, 240, 132 | `ReceiveBytes`, `ReceiveEnd`, `ReceiveError` |
| `got` | 141-157 | `Dispatch` |
| `signal` | the eventfd write, 136 | `WakeSender` |
| `id`, `done`, `answer` | `finalize_init`, 121, 122, 125 | `SetId`, `SetInitDone`, `SendInitDone` |

The server is its environment: it reads, replies once to an INIT_REQ it has
read, sends texts after an INIT_DONE, and may close at any moment; closing with
data unread resets the connection. `send` is taken, fails once after a reset and
is caught or not depending on the place, or raises SIGPIPE (`SendKills`). The
texts are chosen in `MCChatClient` so that a full buffer, two messages in one
`recv`, a message cut in two, and a short message after a long one all occur.

`ImplementsClients` states the composition: with the connection's contents and
the program's progress as a client of `Clients` (`absInbox`, `absStage`, ...),
every step of the program is a step of `Clients` or none, and every other step
is one the server may take. So what the server runs let clients do includes, up
to their bounds, all that the program does, and the theorems about the server,
which hold for any set of `Habits` and any bounds, hold with this program as its
client.

Abstractions, and why nothing is lost by them:

* The wake-up and the read of the eventfd are one step. A write between the two
  only adds to a counter that the read resets, and leaves its message to be
  found by the pop that follows, as does a write before the wake-up.
* The test at a loop's head belongs to the step that ends the round; a new
  worker comes there from `start`, so it may find a stop before its first round.
* Rounds in which a worker has nothing to do, and clients for which a round does
  nothing, are left out: `epoll_wait` does not block a worker that has an open
  socket whose send buffer is not full. How much a buffer holds is left open: from
  its first message on, that of a client with the habit `stall` may be full or not
  whenever epoll looks at it.
* The queues between the threads are sequences: `AtomicQueue` shows what lies
  behind that. Order across several producers is the order of the claims, which
  the library promises only as long as no producer is lapped in its slot
  (128 messages).
* Draining a `send_queue` and a broadcast over the table are one step each: what
  the listener appends during a drain may be taken by the next round.
* The SV_DISCONNECTED that `#quit` pushes is popped by no one: the loop ends in
  the same round, so the branch of STM 224 is unreachable and has no action.
* A count raised through an empty optional (STM 90 when the index is 0 and slot
  0 is empty) is undefined; the build defines no `_GLIBCXX_ASSERTIONS`, so it
  writes into storage the next `emplace` initialises, and has no effect.
* Memory is sequentially consistent. The relaxed counters of the queue are only
  used to pick slots; each slot's state is acquired and released.
* The client table is read by workers while the listener changes other elements
  of it: formally a race on the optionals' flags, without effect on the element
  looked for (`SoleCustody` says a worker's client is not being removed).

* In `ChatClient` a message of at most `MAX_LEN` bytes reaches the socket whole:
  one `send` of so few bytes is one segment. Several may have arrived when
  `recv` is called, and it returns all of them or what fits.
* The race on the client's `id` yields the old or the new string: libstdc++
  writes the characters of a short string before its length.
* Typing an empty line, and the rest of the line the name was typed on, send
  nothing and have no action. Standard input is a terminal; at its end the send
  loop would spin.

`MCAtomicQueue`, `MCServerThreadManager`, `MCServerProcess`, `MCChatClient` - the
instances TLC checks.

## 3. Runs

Server runs use `MAX_NR_OF_THREADS` = 2 as the code does, 1 or 2 clients per
thread (3 in the code) and queues of 2 or 3 messages (128 in the code), so that
full tables, full queues and the raising of the limit happen with few
connections. `Habits` names what the environment does in a run, `MaxConns` and
`MaxLines` how often (`stall`: clients that stop reading; `fault`: `accept4` and
`fcntl` fail), and the clients in `Staid` do no more than ask for an id
and send lines. Deadlock is not an error in the server and client runs: a server
nobody talks to is idle, a client nobody types at waits, and a program may end.
In the queue runs a consumer can always call `try_pop`, and deadlock is checked.

| Run | Shows |
|---|---|
| `queue_many` | 2 producers, 2 consumers, 2 slots, tickets modulo 16 starting at 14, so that the counters wrap and threads lap each other: `TypeOK`, `SlotExclusion`, `TicketWindow`, `NothingLost`, `NothingTwice`, `SlotContents`, `RefusalsAreHonest`, `ImplementsPool` (refinement of `BoundedPool`), and `FirstInFirstOut` in every behaviour in which one thread pushes and one pops, the use made of a `send_queue`. Threads are symmetric. |
| `queue_live` | all threads fair: `CallsReturn` |
| `server_slots` | 5 connections on 2 threads of 2 clients, so that the table is full once and slots are freed and reused in any order: `TypeOK`, `LaunchIndexInBounds`, `JoinsAreSound`, `SoleCustody` |
| `server_chat` | 2 clients, 2 lines each, queues of 2. One client only chats; the other also types before it has its id, stops reading, quits, hangs up, is reset: `StoryInOrder`, `HandshakeFirst` |
| `process` | `ServerProcess` with 3 connections that hang up, accepts that fail, `#quit` on the console, SIGINT and the child, all threads and `main` fair: `PublisherStops`, `HangUpIsReported`, `StopEndsListener`, `LoopEndEndsProcess` |
| `client` | `ChatClient` with 2 lines, a greeting and two notices, a buffer of 8 bytes and messages of 6, 8 and 5, 3 possible contents of the uninitialised buffer: `TypeOK`, `ShownIsReal`, `AloneIsShown`, `ImplementsClients`, `LoopsEnd` |

Fairness. In the queue, a thread inside a call goes on (weak fairness), and a
weak compare-and-swap that is possible again and again succeeds in the end
(strong fairness of the claim); a thread outside a call need not call. In the
server, the listener and each worker go on when they can: epoll is
level-triggered, so what wakes them stays; in `process` so does `main`. Nothing is
assumed of the console, of the child or of signals, and of the clients of `process`
only that none has stopped reading for ever: a worker all of whose clients have,
with full send buffers, stays in `epoll_wait`, a stop notwithstanding. In the client,
each thread and `main` go on when they can; the user need not type and the
server need not send, but a server that was sent CL_DISCONNECTED closes the
connection in the end. The last one is an assumption about a healthy server:
after `#quit` the receiving thread ends only when the server closes, and a client
that the server has dropped (`server_misroute`) stays until it is killed.

What the passing runs leave open, as their properties say: a process whose
listener loop has ended may hang if `~Server` closes the sockets of a worker that
is about to wait (`Stranded`, reachable in `process`, which `LoopEndEndsProcess`
allows); a SIGINT between the fork and the record of the pid, also reachable there,
or a crash, leaves avahi-publish running; after a `recv` that returned two messages
a client drops them, and, since it does not clear its buffer then, may go on
dropping messages that are shorter.

These runs find what the documentation says and the code does not do
(`findings` in `PROJECT.json` quote both):

| Run | Property | What happens |
|---|---|---|
| `server_join` | `ListenerResponsive` | slot 0 is freed, slot 1 is in use and the count is 1, so the next worker goes over slot 1: the listener joins a worker that still serves a client |
| `server_signal` | `QueuedIsSignalled` | two pushes, one read of the eventfd, one pop: a message waits unannounced |
| `server_misroute` | `NoClientDropped` | a worker has reported its last client and ended, the listener has not popped the report and assigns it a new client: nobody pops the ACCEPT. Or, in longer behaviours, an ACCEPT is popped by the wrong worker and dropped |
| `server_full` | `ThreadCapacityRespected` | the limit stays raised after the server was full, and a thread is assigned the {-1, -1} of a refused connection, on which it then throws |
| `server_coalesce` | `ServerSurvives` | the first INIT_REQ in the uninitialised buffer, two messages in one `recv`, or a name or a line that makes no message end the process. Longer behaviours end it by a report on the full queue of the listener, or end the listener's loop by a broadcast to a client that never completed its handshake and whose `send_queue` is full; 2 stands for the code's 128, which fill while the listener is in a join or after shared announcements |
| `client_handshake` | `ConfirmationAnswered` | the reply is received before `init_req` is set and dropped; the client waits for an id for ever |

Every property of a passing run has a mutant of the code in the modules (named
`Mutant of ...` in a comment) under which TLC finds it violated.

## 4. Proofs

`AtomicQueueProofs` proves for any sets of threads, any ring size and any bound:

* `TypeCorrect`: `Spec => []TypeOK`;
* `SlotsAreExclusive`, `SlotsHoldWhatWasPut`, `NoMessageLost`, `NoMessageTwice`:
  the safety invariants;
* `Refinement`: `Spec => ImplementsPool`.

They rest on `Invariance`, `Spec => []Inv`, where `Inv` conjoins `TypeOK`,
`SlotExclusion`, `SlotContents`, `NothingLost` and `NothingTwice`. `SlotContents`
is the strengthening: a thread inside a slot has it in state STORING or LOADING,
which is why another thread's compare-and-swap fails; what the slot holds in
each state ties `states_` to `elements_`, and the number of an item to the
number of pushes. It is itself an invariant of `queue_many`. The argument uses
no property of the counters: exclusion comes from the slot's state alone, so a
wrapped or a stale ticket costs order and progress, never safety.

Assumed: `SizeAssumption` and `ThreadAssumption` of `AtomicQueue` (positive
size, a modulus the size divides, disjoint threads), which TLC evaluates.

`ServerThreadManagerProofs` proves for any number of threads, clients per thread,
connections and lines, any queue size and any set of `Habits`:

* `ServerTypeCorrect`: `Spec => []TypeOK`;
* `LaunchIndexStaysInBounds`: `Spec => []LaunchIndexInBounds`;
* `ListenerJoinsAreSound`: `Spec => []JoinsAreSound`.

They rest on `IndexInvariant`, `Spec => []IndexInv`, with `IndexInv` the
conjunction of the three: none is inductive alone. The count of a slot stays a
natural number, and the reset lowers `nr_of_launched_threads` together with the
number of occupied slots, only because the slot being reset still holds a worker
and its index came from a worker (`JoinsAreSound`); the index of a launch is in
the array because the count covers the occupied slots (`LaunchIndexInBounds`);
and both need the types. There is one lemma per action; `NewClientPlaced` is
what the branches of `process_new_client` have in common. That the minimum and
the maximum of the counts exist is derived from the well-founded order of Nat.
Each conjunct is an invariant of `server_slots`.

Assumed: `ClientAssumption` and `ServerAssumption` (positive bounds, `None` no
number), which TLC evaluates.

`ServerProcessProofs` proves `ProcessRunsServer`, `PSpec => Spec`: every step of
the process is a step of `ServerThreadManager` or leaves its variables alone. The
only step `main` has in common with the threads is `Destroy`, which is enabled
when the listener's loop has ended and which nobody but `main` takes. With it the
invariants above hold of the process (`ProcessJoinsAreSound`). `PublisherAlwaysStops`,
`PSpec => []PublisherStops`, needs as strengthening that from `destroy` on a
recorded child no longer runs.

`TicketProofs` is about the counters of the queue:

* `WindowUntilLap`, `Spec => [](Pushes < Modulus => TicketWindow)`, where `Pushes`
  is the number of claims on `head_`; for a bounded load, `TicketsStayInWindow`;
* `HonestUntilHalfLap` and `RefusalsStayHonest`: `RefusalsAreHonest` while fewer
  than half as many tickets are claimed as a counter has values;
* `OneLineIsFIFO`: `Spec => []FirstInFirstOut`, without any bound.

`WindowInv` counts the claims and says that each counter stands that many tickets
from where it started, and that a thread about to claim holds a value that was
current some claims ago; if it still is, what the thread has tested still holds.
The bound is necessary: a thread that stalls between its load and its
compare-and-swap while the counter runs through all its values takes an old value
for a current one, and with 7 pushes on tickets modulo 6 TLC finds `TicketWindow`
violated. In the code the counters have 2^32 values. `queue_many` satisfies the
hypotheses of both theorems (6 messages, 16 tickets). Order among one producer and
one consumer does not depend on it: `OrderInv` says that between them lie the
messages not read yet, one slot each in the order of their tickets, so a wrong
ticket could only be another thread's, and there is none.

`CustodyProofs` proves `CustodyIsSole`, `Spec => []SoleCustody`, and the action
property `ClientsNeverReturn`. `SoleCustody` counts the hands a client is in, and a
count is not inductive; `CustodyInv` says which hands exclude which, that whoever
is in any hand is in the array of clients, and that the connection accepted next is
in none. The queue to the workers carries nothing but ACCEPTs, which is why a
worker may take whatever it pops for one.

`StoryProofs` proves `HandshakeComesFirst`, `Spec => []HandshakeFirst`, and
`StoryStaysInOrder`, `Spec => []StoryInOrder`. `HandshakeInv` ties what was sent to
a client to its `init_state`, but only while its connection is up: afterwards the
state still moves on and nothing is sent. It also says that a `send_queue` never
holds a part of the handshake. `StoryInv` follows the news of a client along its
way (the client's unread lines, the queue to the listener, every `send_queue`, what
was sent): each stretch is in order, each stretch is earlier than the one before
it on the way, and a message on its way says nothing the state contradicts. That a
CL_DISCONNECTED is the last news of a client needs `CustodyInv`: nobody serves a
client that was reported. `ProcessKeepsStory` carries all three to the process.

`ChatClientProofs` proves `ProgramIsAClient`, `Spec => ImplementsClients`: the
refinement, for any number of lines and any texts. `ClientInv` has three parts:
what has travelled (`ConnInv`), that the receiver confirms once and only what it has
received (`RecvInv`), and that the sender asks first, leaves last and has at most
one line without the id under way when the confirmation is sent (`SendInv`). Each
action of a thread is then shown to be the action of `Clients` it stands for, or
to change nothing the server could notice.

`ClientStreamProofs` proves for any texts, any size of the buffer and any of the
first contents of `Garbage`:

* `ClientTypes`: `Spec => []TypeOK`, hence that `recv` stays inside the buffer;
* `AloneStaysShown`: `Spec => []AloneIsShown`;
* `ShownStaysReal`: `Spec => []ShownIsReal` if `"U"` is in no text.

`StreamInv` says of some k that what is under way are the messages after the k-th,
the first of them perhaps without its beginning (`Laid` gives the place of every
message in `wire`); that a buffer that was not cleared ends with just that
beginning (`Kept`); that as long as every `recv` returned one message the first k-1
texts have been displayed (`Taken`); and that what was displayed came with the
first k messages (`Real`). The hard step is `ReceiveBytes`: `NextShown` proves that
what can then be read out of the buffer as a message to display has just arrived as
a whole, and `NoSeam` that the end of one message in front of older remains never
makes a new one. The hypothesis is necessary: `"U"` stands for the word
UNICAST_REPEATED, and with a buffer of 6 and the texts `a`, `U`, `UUU`, `aaUa` TLC
finds an empty text displayed that nobody has sent. The instance of the run
`client` satisfies it.

Assumed of the client: `FrameAssumption` and `ClientConstants` (the texts contain
neither the separator nor NUL; three fields), which TLC evaluates. The server keeps
the first: a line with a back quote is a `MISFIT` and relayed to nobody.

TLC, too, finds each inductive invariant to hold: `WindowInv` and
`OrderInv` on the instance of `queue_many`, `CustodyInv`, `HandshakeInv` and
`StoryInv` on those of `server_slots` and `server_chat`, `ClientInv` and `StreamInv`
on that of `client` and on other texts and buffers.

Only model-checked: the liveness properties `CallsReturn`, `HangUpIsReported`,
`StopEndsListener`, `LoopEndEndsProcess` and `LoopsEnd`, as fairness is out of the
prover's reach. Every safety invariant and every refinement of a passing run is a
theorem.

## 5. Not modelled

* Colours and the layout of what is displayed; socket set-up beyond its failure;
  failing `read` and `write` calls on eventfds, and a failure to create an eventfd,
  an epoll descriptor or a thread; a signal during `epoll_wait`.
* EAGAIN from `accept4`: only the listener accepts, so what epoll has announced is
  still there.
* EAGAIN in the client's `recv`, which `receive_msg` turns into 0 and so into the
  end of the connection: a socket that epoll reported readable has data.
* How an address is found (`get_local_ipv4`, avahi): only that it may fail. The
  string_view and the port string that `main` keeps of temporaries are such a
  failure.
* `waitpid` in `kill_DNS_service`, which stands after a `return`; what `exit` does
  to the other threads when the signal handler calls it.
* The other queues, `push`, `pop`, the retry decorator, the spin locks and the
  barrier of the vendored library, and its compile-time index arithmetic: the
  program uses `try_push` and `try_pop` of one instance, for which the index is
  `ticket % 128`.
* `src/Server/Server.cpp`, which is not compiled.

## 6. Plan

1. Done: `AtomicQueue` with its abstract pool and proofs; `Clients`, `Server`,
   `ServerThreadManager`, their runs, and the proofs about the listener's
   indexes and joins; `ServerProcess` with its proofs; `Framing` and
   `ChatClient`, shown to implement `Clients`.
   Theorems for every safety property of the passing runs.
2. An abstract chat service (who is present, what each has been told) that
   `ServerThreadManager` is shown to implement while it does not crash.
