------------------------- MODULE ServerThreadManager -------------------------
(***************************************************************************)
(* The listener thread and the worker threads of the chat server           *)
(* (include/Server/ServerThreadManager.h), with every step at which they   *)
(* can be interleaved: a push on a shared queue and the write to the       *)
(* eventfd that announces it are two steps, as are the read of an eventfd  *)
(* and the pop that follows, and epoll_wait yields a snapshot of the       *)
(* descriptors that is used while the world moves on.                      *)
(*                                                                         *)
(* A worker is named after the connection it was launched for.  Its vector *)
(* of clients is a set here: clients enter it in the order of their ids,   *)
(* and the loop takes them in that order.                                  *)
(***************************************************************************)
EXTENDS Server

ThreadIdx == 0 .. MAX_NR_OF_THREADS - 1
Ghost == -1      \* the {-1, -1} of accept_client: no socket, no id

VARIABLES worker_threads,            \* the worker in each slot, or None
          allocated,                 \* std::get<0> of each slot: its client count
          nr_of_launched_threads,
          max_clients_per_thread,
          q_worker_to_listener, q_listener_to_worker,
          evfd,                      \* the listener's eventfd is not zero
          worker_evfd,               \* each worker's eventfd is not zero
          quit_typed,                \* #quit waits on the server's stdin
          listener,                  \* [pc, events, and what a join or a signal is for]
          worker                     \* [pc, idx, own, todo, ready, new, raw]

slotVars == <<worker_threads, allocated, nr_of_launched_threads, max_clients_per_thread>>
queueVars == <<q_worker_to_listener, q_listener_to_worker, evfd, worker_evfd>>
vars == <<clientVars, serverVars, slotVars, queueVars, quit_typed, listener, worker>>

\* a worker that was never launched
NoWorker == [pc |-> "none", idx |-> 0, own |-> {}, todo |-> {}, ready |-> {},
             new |-> None, raw |-> TRUE]

\* the listener at epoll_wait
AtWait == [pc |-> "wait", events |-> {}, at |-> 0, for |-> None]

Init ==
    /\ ClientsInit
    /\ ServerInit
    /\ worker_threads = [i \in ThreadIdx |-> None]
    /\ allocated = [i \in ThreadIdx |-> 0]
    /\ nr_of_launched_threads = 0
    /\ max_clients_per_thread = 1
    /\ q_worker_to_listener = <<>>
    /\ q_listener_to_worker = <<>>
    /\ evfd = FALSE
    /\ worker_evfd = [w \in Conn |-> FALSE]
    /\ quit_typed = FALSE
    /\ listener = AtWait
    /\ worker = [w \in Conn |-> NoWorker]

\* An exception leaves a worker's thread: std::terminate ends the process.
Terminate ==
    /\ crashed' = TRUE
    /\ UNCHANGED <<clientVars, clients, accepted, init_state, send_queue, done, closed,
                   slotVars, queueVars, quit_typed, listener, worker>>

------------------------------------------------------------------------------
(* worker_loop *)

At(w, pc) == worker[w].pc = pc

\* the client the loop over `clients` is at
Current(w) == Min(worker[w].todo)

\* EPOLLOUT finds something to send
HasOutput(c) == \/ init_state[c] = REQUESTED_INIT
                \/ init_state[c] = INIT_DONE /\ send_queue[c] # <<>>

\* add_monitored_fd throws: the socket is -1, or ~Server has closed it
CannotMonitor(id) == id = Ghost \/ closed

\* a new worker puts the socket of its first client into its epoll set
WorkerStart(w) ==
    /\ At(w, "start")
    /\ IF CannotMonitor(w)
       THEN Terminate
       ELSE /\ worker' = [worker EXCEPT ![w].pc = "tail"]
            /\ UNCHANGED <<clientVars, serverVars, slotVars, queueVars, quit_typed, listener>>

\* epoll_wait, and the read of the eventfd if that is ready, which resets it.
\* epoll_wait returns at once unless the send buffers of all clients are full;
\* the rounds in which there is nothing to do and no stop to notice are left out,
\* and so are the clients for which a round does nothing.
WorkerWake(w) ==
    LET open == {c \in worker[w].own : net[c] # "closed"}
        ready == {c \in open : Readable(c)}
    IN  /\ At(w, "wait")
        /\ \E full \in SUBSET {c \in open : MayBeFull(c)} :
             LET todo == {c \in open : Readable(c) \/ (HasOutput(c) /\ c \notin full)}
             IN  /\ worker_evfd[w] \/ todo # {} \/ (done /\ open # full)
                 /\ worker' = [worker EXCEPT ![w].pc = IF worker_evfd[w] THEN "pop" ELSE "clients",
                                             ![w].todo = todo,
                                             ![w].ready = ready]
        /\ worker_evfd' = [worker_evfd EXCEPT ![w] = FALSE]
        /\ UNCHANGED <<clientVars, serverVars, slotVars, q_worker_to_listener,
                       q_listener_to_worker, evfd, quit_typed, listener>>

\* worker_process_listener_to_worker_q pops one message: an ACCEPT for another
\* thread is dropped, one for this thread puts its socket into the worker's
\* epoll set.  The listener pushes nothing but ACCEPTs.
WorkerPop(w) ==
    /\ At(w, "pop")
    /\ IF q_listener_to_worker = <<>>
       THEN /\ worker' = [worker EXCEPT ![w].pc = "clients"]
            /\ UNCHANGED <<clientVars, serverVars, slotVars, queueVars, quit_typed, listener>>
       ELSE LET m == Head(q_listener_to_worker)
                mine == m.n = worker[w].idx
            IN  IF mine /\ CannotMonitor(m.id)
                THEN Terminate
                ELSE /\ q_listener_to_worker' = Tail(q_listener_to_worker)
                     /\ worker' = [worker EXCEPT ![w].pc = "clients",
                                                 ![w].new = IF mine THEN m.id ELSE None]
                     /\ UNCHANGED <<clientVars, serverVars, slotVars, q_worker_to_listener,
                                    evfd, worker_evfd, quit_typed, listener>>

\* try_push of worker_push; the eventfd is written by the step that follows
PushToListener(m) ==
    /\ Len(q_worker_to_listener) < QUEUE_SIZE
    /\ q_worker_to_listener' = Append(q_worker_to_listener, m)
    /\ UNCHANGED <<q_listener_to_worker, evfd, worker_evfd>>

\* Mutant of WorkerRecvEnd: the client is skipped and not marked.
RecvEndUnmarked(w) ==
    /\ At(w, "clients") /\ worker[w].todo # {}
    /\ Current(w) \in worker[w].ready
    /\ AtEnd(Current(w))
    /\ worker' = [worker EXCEPT ![w].todo = @ \ {Current(w)}]
    /\ UNCHANGED <<clientVars, serverVars, slotVars, queueVars, quit_typed, listener>>

\* EPOLLIN on a client, recv returns 0: it is marked, and skipped for this round
WorkerRecvEnd(w) ==
    /\ At(w, "clients") /\ worker[w].todo # {}
    /\ Current(w) \in worker[w].ready
    /\ AtEnd(Current(w))
    /\ init_state' = [init_state EXCEPT ![Current(w)] = DISCONNECT_STATE]
    /\ worker' = [worker EXCEPT ![w].todo = @ \ {Current(w)}]
    /\ UNCHANGED <<clientVars, clients, accepted, send_queue, done, closed, crashed,
                   slotVars, queueVars, quit_typed, listener>>

\* construct_from_string counts the separators.  It rejects several messages that
\* one recv returned and a line that is no single message, and may reject the
\* worker's first one, which is followed by whatever the buffer held that
\* worker_loop does not clear at its start.
WellFormed(c) == Len(inbox[c]) = 1 /\ inbox[c][1].action \notin {"MISFIT", "INIT_MISFIT"}
Rejected(w, c) == inbox[c] # <<>> /\ (~WellFormed(c) \/ worker[w].raw)

\* recv fails, or the message is rejected, or the listener's queue is full, or the
\* greeting cannot be sent.  All of these throw, and nothing in worker_loop
\* catches.
WorkerRecvThrows(w) ==
    /\ At(w, "clients") /\ worker[w].todo # {}
    /\ LET c == Current(w)
       IN  /\ c \in worker[w].ready
           /\ \/ RecvFails(c)
              \/ Rejected(w, c)
              \/ /\ inbox[c] # <<>>
                 /\ Len(q_worker_to_listener) >= QUEUE_SIZE
                 /\ \/ init_state[c] = SENT_INIT_CONFIRMATION /\ inbox[c][1].action = "INIT_DONE"
                    \/ init_state[c] = INIT_DONE /\ inbox[c][1].action = "UNICAST_REPEATED"
              \/ /\ inbox[c] # <<>> /\ inbox[c][1].action = "INIT_DONE"
                 /\ init_state[c] = SENT_INIT_CONFIRMATION
                 /\ SendMayFail(c, <<Msg("HELLO", c, 0)>>)
    /\ Terminate

\* The message of client c is dealt with, and the worker goes on at pc.  Unless its
\* send buffer is full EPOLLOUT was reported with EPOLLIN, and is dealt with next.
Turn(w, c, pc) ==
    \E full \in SUBSET {d \in {c} : MayBeFull(d)} :
        worker' = [worker EXCEPT ![w].pc = pc, ![w].raw = FALSE,
                                 ![w].ready = @ \ {c}, ![w].todo = @ \ full]

\* EPOLLIN on a client, one message m, process_client_state(true, ...)
WorkerRecv(w) ==
    /\ At(w, "clients") /\ worker[w].todo # {}
    /\ Current(w) \in worker[w].ready
    /\ ~RecvFails(Current(w))
    /\ WellFormed(Current(w))
    /\ LET c == Current(w)
           m == inbox[c][1]
           Stay == Turn(w, c, "clients")
           Push(msg) == PushToListener(msg) /\ Turn(w, c, "signal")
           State(s) == init_state' = [init_state EXCEPT ![c] = s]
       IN  /\ inbox' = [inbox EXCEPT ![c] = <<>>]
           /\ \/ /\ m.action = "CL_DISCONNECTED"
                 /\ State(DISCONNECT_STATE) /\ Stay
                 /\ UNCHANGED <<net, out, queueVars>>
              \/ /\ m.action = "INIT_REQ" /\ init_state[c] = INITIAL_STATE
                 /\ State(REQUESTED_INIT) /\ Stay
                 /\ UNCHANGED <<net, out, queueVars>>
              \/ /\ m.action = "INIT_DONE" /\ init_state[c] = SENT_INIT_CONFIRMATION
                 /\ State(INIT_DONE)
                 /\ SendSucceeds(c, <<Msg("HELLO", c, 0)>>)
                 /\ Push(Msg("INIT_DONE", c, 0))
              \/ /\ m.action = "UNICAST_REPEATED" /\ init_state[c] = INIT_DONE
                 /\ Push(m)
                 /\ UNCHANGED <<net, out, init_state>>
              \/ /\ m.action # "CL_DISCONNECTED"
                 /\ <<m.action, init_state[c]>> \notin
                        {<<"INIT_REQ", INITIAL_STATE>>, <<"INIT_DONE", SENT_INIT_CONFIRMATION>>,
                         <<"UNICAST_REPEATED", INIT_DONE>>}
                 /\ Stay
                 /\ UNCHANGED <<net, out, init_state, queueVars>>
    /\ UNCHANGED <<stage, said, clients, accepted, send_queue, done, closed, crashed,
                   slotVars, quit_typed, listener>>

\* Mutant of Output: the queue is drained before the client's INIT_DONE arrived.
OutputEarly(c) == IF init_state[c] = REQUESTED_INIT THEN <<Msg("INIT_REQ", c, 0)>>
                  ELSE IF init_state[c] >= SENT_INIT_CONFIRMATION THEN send_queue[c] ELSE <<>>

\* EPOLLOUT on a client, process_client_state(false, ...): the reply to
\* INIT_REQ, or everything on the client's queue
Output(c) == IF init_state[c] = REQUESTED_INIT THEN <<Msg("INIT_REQ", c, 0)>>
             ELSE IF init_state[c] = INIT_DONE THEN send_queue[c] ELSE <<>>

WorkerSend(w) ==
    /\ At(w, "clients") /\ worker[w].todo # {}
    /\ Current(w) \notin worker[w].ready
    /\ LET c == Current(w)
       IN  /\ SendSucceeds(c, Output(c))
           /\ init_state' = [init_state EXCEPT ![c] =
                                IF @ = REQUESTED_INIT THEN SENT_INIT_CONFIRMATION ELSE @]
           /\ send_queue' = [send_queue EXCEPT ![c] = IF init_state[c] = INIT_DONE THEN <<>> ELSE @]
           /\ worker' = [worker EXCEPT ![w].todo = @ \ {c}]
    /\ UNCHANGED <<inbox, stage, said, clients, accepted, done, closed, crashed,
                   slotVars, queueVars, quit_typed, listener>>

WorkerSendThrows(w) ==
    /\ At(w, "clients") /\ worker[w].todo # {}
    /\ Current(w) \notin worker[w].ready
    /\ SendMayFail(Current(w), Output(Current(w)))
    /\ Terminate

\* worker_push: the write to the listener's eventfd
WorkerSignal(w) ==
    /\ worker[w].pc \in {"signal", "reapSignal"}
    /\ evfd' = TRUE
    /\ worker' = [worker EXCEPT ![w].pc = IF @ = "signal" THEN "clients" ELSE "tail"]
    /\ UNCHANGED <<clientVars, serverVars, slotVars, q_worker_to_listener,
                   q_listener_to_worker, worker_evfd, quit_typed, listener>>

\* clients.erase(remove_if(...)): each client marked DISCONNECT_STATE is
\* reported to the listener and forgotten
Leaving(w) == {c \in worker[w].own : init_state[c] = DISCONNECT_STATE}

\* Mutant of WorkerReap: the message carries the client's id for the thread's index.
ReapSwapsIds(w) ==
    /\ At(w, "clients") \/ At(w, "tail")
    /\ worker[w].todo = {}
    /\ Leaving(w) # {}
    /\ LET c == Min(Leaving(w))
       IN  /\ PushToListener(Msg("CL_DISCONNECTED", c, c))
           /\ worker' = [worker EXCEPT ![w].pc = "reapSignal", ![w].own = @ \ {c}]
    /\ UNCHANGED <<clientVars, serverVars, slotVars, quit_typed, listener>>

WorkerReap(w) ==
    /\ At(w, "clients") \/ At(w, "tail")
    /\ worker[w].todo = {}
    /\ Leaving(w) # {}
    /\ LET c == Min(Leaving(w))
       IN  /\ PushToListener(Msg("CL_DISCONNECTED", c, worker[w].idx))
           /\ worker' = [worker EXCEPT ![w].pc = "reapSignal", ![w].own = @ \ {c}]
    /\ UNCHANGED <<clientVars, serverVars, slotVars, quit_typed, listener>>

WorkerReapThrows(w) ==
    /\ At(w, "clients") \/ At(w, "tail")
    /\ worker[w].todo = {}
    /\ Leaving(w) # {}
    /\ Len(q_worker_to_listener) >= QUEUE_SIZE
    /\ Terminate

\* Mutant of WorkerRoundOver: the ACCEPT of this round is kept for the next one.
RoundOverKeepsNew(w) ==
    /\ At(w, "clients") \/ At(w, "tail")
    /\ worker[w].todo = {}
    /\ Leaving(w) = {}
    /\ LET own == worker[w].own \cup ({worker[w].new} \ {None})
       IN  worker' = [worker EXCEPT ![w].pc = IF own = {} \/ done THEN "exited" ELSE "wait",
                                    ![w].own = own, ![w].ready = {}]
    /\ UNCHANGED <<clientVars, serverVars, slotVars, queueVars, quit_typed, listener>>

\* the end of a round: the client of an ACCEPT joins the worker's clients; and
\* the head of the while loop, where a new worker starts
WorkerRoundOver(w) ==
    /\ At(w, "clients") \/ At(w, "tail")
    /\ worker[w].todo = {}
    /\ Leaving(w) = {}
    /\ LET own == worker[w].own \cup ({worker[w].new} \ {None})
       IN  worker' = [worker EXCEPT ![w].pc = IF own = {} \/ done THEN "exited" ELSE "wait",
                                    ![w].new = None, ![w].own = own, ![w].ready = {}]
    /\ UNCHANGED <<clientVars, serverVars, slotVars, queueVars, quit_typed, listener>>

Worker(w) ==
    \/ WorkerStart(w) \/ WorkerWake(w) \/ WorkerPop(w)
    \/ WorkerRecvEnd(w) \/ WorkerRecv(w) \/ WorkerRecvThrows(w)
    \/ WorkerSend(w) \/ WorkerSendThrows(w) \/ WorkerSignal(w)
    \/ WorkerReap(w) \/ WorkerReapThrows(w) \/ WorkerRoundOver(w)

------------------------------------------------------------------------------
(* listener_loop *)

ListenerAt(pc) == listener.pc = pc

\* Mutant of LoopHead: the loop does not look at the stop source.
LoopHeadBlind(stop) == [AtWait EXCEPT !.pc = "wait"]

\* the head of the while loop
LoopHead(stop) == [AtWait EXCEPT !.pc = IF stop THEN "dead" ELSE "wait"]

\* go on with the events of this round that are left
Resume == IF listener.events = {} THEN LoopHead(done)
          ELSE [AtWait EXCEPT !.pc = "dispatch", !.events = listener.events]

\* an exception leaves the loop
Abandon == listener' = LoopHead(TRUE)

\* epoll_wait: a snapshot of the ready descriptors; the eventfd comes first, and
\* reading it resets it
ListenerWake ==
    LET ready == {e \in {"stdin", "socket"} :
                     IF e = "stdin" THEN quit_typed ELSE Backlog # {}}
    IN  /\ ListenerAt("wait")
        /\ evfd \/ ready # {}
        /\ evfd' = FALSE
        /\ listener' = [AtWait EXCEPT !.pc = IF evfd THEN "pop" ELSE "dispatch", !.events = ready]
        /\ UNCHANGED <<clientVars, serverVars, slotVars, q_worker_to_listener,
                       q_listener_to_worker, worker_evfd, quit_typed, worker>>

\* listener_process_worker_to_listener_q pops one message, or finds none
ListenerPops(m) ==
    /\ ListenerAt("pop")
    /\ q_worker_to_listener # <<>>
    /\ m = Head(q_worker_to_listener)
    /\ q_worker_to_listener' = Tail(q_worker_to_listener)
    /\ UNCHANGED <<q_listener_to_worker, evfd, worker_evfd>>

ListenerPopNothing ==
    /\ ListenerAt("pop")
    /\ q_worker_to_listener = <<>>
    /\ listener' = Resume
    /\ UNCHANGED <<clientVars, serverVars, slotVars, queueVars, quit_typed, worker>>

\* UNICAST_REPEATED and INIT_DONE: told to everyone but the client whose id is in
\* the message.  With no client connected the message is thrown away; an empty
\* id makes std::stoi throw, and a full send_queue makes unicast_repeated throw.
Notice(m) == Msg(IF m.action = "INIT_DONE" THEN "JOINED" ELSE m.action, m.id, m.n)

ListenerRelay ==
    \E m \in {q_worker_to_listener[i] : i \in DOMAIN q_worker_to_listener} :
        /\ ListenerPops(m)
        /\ m.action \in {"INIT_DONE", "UNICAST_REPEATED"}
        /\ IF Connected = {}
           THEN listener' = Resume /\ UNCHANGED send_queue
           ELSE IF m.id = None
           THEN Abandon /\ UNCHANGED send_queue
           ELSE /\ unicast_repeated(m.id, Notice(m))
                /\ IF FullQueues(m.id) = {} THEN listener' = Resume ELSE Abandon
        /\ UNCHANGED <<clientVars, clients, accepted, init_state, done, closed, crashed,
                       slotVars, quit_typed, worker>>

\* get_max_and_idx
MaxAllocated(alloc) == Max({alloc[i] : i \in ThreadIdx})

\* Mutant of CanLoseClient: the count is not tested.
CanLoseUncounted(i) == worker_threads[i] # None

\* the tests before a slot loses a client: it has a thread, and a client to lose
CanLoseClient(i) == worker_threads[i] # None /\ allocated[i] # 0

\* worker_client_disconnect: the slot loses a client; a slot that has only this
\* one is reset, which joins its thread first (ListenerReset)
worker_client_disconnect(i) ==
    IF allocated[i] = 1
    THEN /\ listener' = [listener EXCEPT !.pc = "reset", !.at = i, !.for = worker_threads[i]]
         /\ UNCHANGED slotVars
    ELSE /\ listener' = Resume
         /\ allocated' = [allocated EXCEPT ![i] = @ - 1]
         /\ max_clients_per_thread' = MaxAllocated(allocated')
         /\ UNCHANGED <<worker_threads, nr_of_launched_threads>>

\* CL_DISCONNECTED: the array is updated, the others are told, and the slot of
\* the worker that reported it is brought up to date
ListenerDisconnect ==
    \E m \in {q_worker_to_listener[i] : i \in DOMAIN q_worker_to_listener} :
        /\ ListenerPops(m)
        /\ m.action = "CL_DISCONNECTED"
        /\ IF m.id \notin Connected
           THEN /\ IF Connected = {} THEN listener' = Resume ELSE Abandon
                /\ UNCHANGED <<net, clients, send_queue, slotVars>>
           ELSE /\ disconnect_client(m.id)
                /\ IF ~CanLoseClient(m.n)
                   THEN Abandon /\ UNCHANGED <<send_queue, slotVars>>
                   ELSE /\ unicast_repeated(m.id, Msg("LEFT", m.id, 0))
                        /\ IF FullQueues(m.id) # {}
                           THEN Abandon /\ UNCHANGED slotVars
                           ELSE worker_client_disconnect(m.n)
        /\ UNCHANGED <<inbox, out, stage, said, accepted, init_state, done, closed,
                       crashed, quit_typed, worker>>

\* Mutant of ReleaseSlot: the count of threads is lowered, the optional not reset.
ReleaseNothing(i) ==
    /\ allocated' = [allocated EXCEPT ![i] = 0]
    /\ nr_of_launched_threads' = nr_of_launched_threads - 1
    /\ UNCHANGED worker_threads

\* worker_threads[i].reset() once the thread is joined, and the count of threads
ReleaseSlot(i) ==
    /\ worker_threads' = [worker_threads EXCEPT ![i] = None]
    /\ allocated' = [allocated EXCEPT ![i] = 0]
    /\ nr_of_launched_threads' = nr_of_launched_threads - 1

\* the join of the destroyed jthread returns, and the optional is empty
ListenerReset ==
    /\ ListenerAt("reset")
    /\ worker[listener.for].pc = "exited"
    /\ ReleaseSlot(listener.at)
    /\ max_clients_per_thread' = MaxAllocated(allocated')
    /\ listener' = Resume
    /\ UNCHANGED <<clientVars, serverVars, queueVars, quit_typed, worker>>

\* #quit on the server's console: stop, and push a message that no one will pop
ListenerStdin ==
    /\ ListenerAt("dispatch")
    /\ "stdin" \in listener.events
    /\ quit_typed' = FALSE
    /\ done' = TRUE
    /\ q_worker_to_listener' = IF Len(q_worker_to_listener) < QUEUE_SIZE
                               THEN Append(q_worker_to_listener, Msg("SV_DISCONNECTED", None, 0))
                               ELSE q_worker_to_listener
    /\ listener' = IF "socket" \in listener.events
                   THEN [listener EXCEPT !.events = {"socket"}] ELSE LoopHead(TRUE)
    /\ UNCHANGED <<clientVars, clients, accepted, init_state, send_queue, closed, crashed,
                   slotVars, q_listener_to_worker, evfd, worker_evfd, worker>>

------------------------------------------------------------------------------
(* A new connection: accept_client, then process_new_client *)

Occupied == {i \in ThreadIdx : worker_threads[i] # None}

\* get_min_and_idx, when some slot is occupied
MinIdx == Min({i \in Occupied : \A j \in Occupied : allocated[i] <= allocated[j]})

\* assign_client_to_worker after the slot's count has been raised; the worker's
\* eventfd is written by ListenerSignal.  A full queue is an error that asks
\* the server to stop: either way the loop, whose last event this is, ends.
assign_client_to_worker(i, c) ==
    /\ allocated' = [allocated EXCEPT ![i] = @ + 1]
    /\ IF Len(q_listener_to_worker) < QUEUE_SIZE
       THEN /\ q_listener_to_worker' = Append(q_listener_to_worker, Msg("ACCEPT", c, i))
            /\ listener' = [AtWait EXCEPT !.pc = "assign", !.for = worker_threads[i]]
            /\ UNCHANGED done
       ELSE /\ Abandon
            /\ done' = TRUE
            /\ UNCHANGED q_listener_to_worker
    /\ UNCHANGED <<worker_threads, nr_of_launched_threads, worker, crashed>>

\* the tuple is in its slot, and the count of slot idx is raised: when idx is
\* another slot, an empty one, that has no effect on any count
Place(c, idx) ==
    LET i == nr_of_launched_threads
    IN  /\ worker_threads' = [worker_threads EXCEPT ![i] = c]
        /\ allocated' = [allocated EXCEPT ![i] = IF idx = i THEN 1 ELSE 0]
        /\ nr_of_launched_threads' = i + 1
        /\ listener' = LoopHead(done)

\* emplace_new_worker: the new thread starts first; then the slot's old value is
\* destroyed, which joins the thread that is in it (ListenerLaunch).  A worker
\* for the socket -1 throws at once.
emplace_new_worker(c, idx) ==
    /\ crashed' = (c = Ghost)
    /\ worker' = IF c = Ghost THEN worker
                 ELSE [worker EXCEPT ![c] = [NoWorker EXCEPT !.pc = "start", !.idx = idx, !.own = {c}]]
    /\ IF worker_threads[nr_of_launched_threads] = None /\ c # Ghost
       THEN Place(c, idx)
       ELSE /\ listener' = [AtWait EXCEPT !.pc = "launch", !.at = idx, !.for = c]
            /\ UNCHANGED <<worker_threads, allocated, nr_of_launched_threads>>
    /\ UNCHANGED <<max_clients_per_thread, q_listener_to_worker, done>>

process_new_client(c) ==
    IF nr_of_launched_threads = 0 \/ Occupied = {}     \* min_idx is -1
    THEN emplace_new_worker(c, 0)
    ELSE IF allocated[MinIdx] < max_clients_per_thread
    THEN assign_client_to_worker(MinIdx, c) /\ UNCHANGED max_clients_per_thread
    ELSE IF nr_of_launched_threads < MAX_NR_OF_THREADS
    THEN emplace_new_worker(c, nr_of_launched_threads)
    ELSE /\ max_clients_per_thread' = max_clients_per_thread + 1
         /\ IF max_clients_per_thread' > MAX_CLIENTS_PER_THREAD
            THEN /\ listener' = LoopHead(done)      \* ServerFullException
                 /\ UNCHANGED <<worker_threads, allocated, nr_of_launched_threads,
                                q_listener_to_worker, worker, crashed, done>>
            ELSE assign_client_to_worker(MinIdx, c)

ListenerAccept ==
    /\ ListenerAt("dispatch")
    /\ listener.events = {"socket"}
    /\ \E c \in Conn :
         /\ accept_client(c)
         /\ process_new_client(IF FreeSlots = {} THEN Ghost ELSE c)
    /\ UNCHANGED <<inbox, out, stage, said, init_state, send_queue, closed,
                   q_worker_to_listener, evfd, worker_evfd, quit_typed>>

\* accept_client throws, and the handler asks for a stop.  When one was requested
\* already set_is_done throws in turn, which leaves the loop as well.
ListenerAcceptFails ==
    /\ "fault" \in Habits
    /\ ListenerAt("dispatch")
    /\ listener.events = {"socket"}
    /\ accept_client_fails
    /\ done' = TRUE
    /\ Abandon
    /\ UNCHANGED <<inbox, out, stage, said, init_state, send_queue, closed, crashed,
                   slotVars, queueVars, quit_typed, worker>>

\* assign_client_to_worker: the write to the worker's eventfd
ListenerSignal ==
    /\ ListenerAt("assign")
    /\ worker_evfd' = [worker_evfd EXCEPT ![listener.for] = TRUE]
    /\ listener' = LoopHead(done)
    /\ UNCHANGED <<clientVars, serverVars, slotVars, q_worker_to_listener,
                   q_listener_to_worker, evfd, quit_typed, worker>>

\* the thread that was in the slot has been joined, the new one takes its place
ListenerLaunch ==
    /\ ListenerAt("launch")
    /\ worker[worker_threads[nr_of_launched_threads]].pc = "exited"
    /\ Place(listener.for, listener.at)
    /\ UNCHANGED <<clientVars, serverVars, max_clients_per_thread, queueVars, quit_typed, worker>>

\* main: launch_server_loop's thread has ended, MAIN_SERVER is destroyed
Destroy ==
    /\ ListenerAt("dead")
    /\ ~closed
    /\ CloseSockets
    /\ UNCHANGED <<inbox, out, stage, said, clients, accepted, init_state, send_queue,
                   done, crashed, slotVars, queueVars, quit_typed, listener, worker>>

Listener ==
    \/ ListenerWake \/ ListenerPopNothing
    \/ ListenerRelay \/ ListenerDisconnect \/ ListenerReset \/ ListenerStdin
    \/ ListenerAccept \/ ListenerAcceptFails \/ ListenerSignal \/ ListenerLaunch \/ Destroy

------------------------------------------------------------------------------
\* #quit is typed on the server's console
AdminQuit ==
    /\ "stop" \in Habits
    /\ ~done
    /\ ~quit_typed
    /\ quit_typed' = TRUE
    /\ UNCHANGED <<clientVars, serverVars, slotVars, queueVars, listener, worker>>

ClientSteps ==
    /\ \E c \in Conn : ClientStep(c)
    /\ UNCHANGED <<serverVars, slotVars, queueVars, quit_typed, listener, worker>>

Next ==
    /\ ~crashed
    /\ Listener \/ (\E w \in Conn : Worker(w)) \/ ClientSteps \/ AdminQuit

Spec == Init /\ [][Next]_vars

\* The threads are scheduled: a thread that can go on does in the end.  epoll is
\* level-triggered, so what wakes a thread stays there until it is dealt with.
FairSpec ==
    /\ Spec
    /\ WF_vars(~crashed /\ Listener)
    /\ \A w \in Conn : WF_vars(~crashed /\ Worker(w))

------------------------------------------------------------------------------
(* Correctness *)

Ids == Conn \cup {None, Ghost}
Actions == {"ACCEPT", "INIT_REQ", "INIT_DONE", "HELLO", "UNICAST_REPEATED", "MISFIT",
            "INIT_MISFIT", "JOINED", "LEFT", "CL_DISCONNECTED", "SV_DISCONNECTED"}
Messages == [action : Actions, id : Ids, n : Nat]
WorkerPcs == {"none", "start", "wait", "pop", "clients", "signal", "tail", "reapSignal", "exited"}
ListenerPcs == {"wait", "pop", "dispatch", "reset", "assign", "launch", "dead"}

ListenerType == [pc : ListenerPcs, events : SUBSET {"stdin", "socket"},
                 at : ThreadIdx, for : Ids]
WorkerType == [pc : WorkerPcs, idx : ThreadIdx, own : SUBSET Conn, todo : SUBSET Conn,
               ready : SUBSET Conn, new : Conn \cup {None}, raw : BOOLEAN]

ClientTypes ==
    /\ net \in [Conn -> NetStates]
    /\ inbox \in [Conn -> Seq(Messages)]
    /\ out \in [Conn -> Seq(Messages)]
    /\ stage \in [Conn -> Stages]
    /\ said \in [Conn -> Nat]

ServerTypes ==
    /\ clients \in [TableIdx -> Conn \cup {None}]
    /\ accepted \in Nat
    /\ init_state \in [Conn -> DISCONNECT_STATE .. INIT_DONE]
    /\ send_queue \in [Conn -> Seq(Messages)]
    /\ done \in BOOLEAN /\ closed \in BOOLEAN /\ crashed \in BOOLEAN

SlotTypes ==
    /\ worker_threads \in [ThreadIdx -> Conn \cup {None}]
    /\ allocated \in [ThreadIdx -> Nat]
    /\ nr_of_launched_threads \in Int
    /\ max_clients_per_thread \in Nat

QueueTypes ==
    /\ q_worker_to_listener \in Seq(Messages)
    /\ q_listener_to_worker \in Seq(Messages)
    /\ evfd \in BOOLEAN
    /\ worker_evfd \in [Conn -> BOOLEAN]
    /\ quit_typed \in BOOLEAN

ThreadTypes ==
    /\ listener \in ListenerType
    /\ worker \in [Conn -> WorkerType]

\* Every variable keeps its type; in particular no client count goes below zero,
\* and the thread index of a worker and of a join is an index of the array.
TypeOK == ClientTypes /\ ServerTypes /\ SlotTypes /\ QueueTypes /\ ThreadTypes

\* emplace_new_worker indexes worker_threads with nr_of_launched_threads and
\* worker_client_disconnect decrements it: whatever order connects and
\* disconnects come in, it covers the occupied slots, never goes below zero,
\* and is an index of the array whenever a worker is put there.
LaunchIndexInBounds ==
    /\ Cardinality(Occupied) <= nr_of_launched_threads
    /\ nr_of_launched_threads <= MAX_NR_OF_THREADS
    /\ Occupied = {} => nr_of_launched_threads < MAX_NR_OF_THREADS

\* The listener joins only threads that exist: a report names a slot of the array,
\* the slot that is reset holds a worker until the join returns, and a launch
\* waits on an occupied slot, for a client that was really accepted.
JoinsAreSound ==
    /\ \A i \in DOMAIN q_worker_to_listener :
          q_worker_to_listener[i].action = "CL_DISCONNECTED" =>
              q_worker_to_listener[i].n \in ThreadIdx
    /\ ListenerAt("reset") => worker_threads[listener.at] # None
    /\ (ListenerAt("launch") /\ ~crashed) =>
          /\ nr_of_launched_threads \in ThreadIdx
          /\ worker_threads[nr_of_launched_threads] # None
          /\ listener.for \in Conn

\* where a connection is in the server's hands: with a worker, being admitted by
\* one, in an ACCEPT, or in a CL_DISCONNECTED
Owners(c) == {w \in Conn : c \in worker[w].own}
Admitting(c) == {w \in Conn : worker[w].new = c}
Carries(q, action, c) == {i \in DOMAIN q : q[i].action = action /\ q[i].id = c}

Custody(c) == Cardinality(Owners(c)) + Cardinality(Admitting(c))
              + Cardinality(Carries(q_listener_to_worker, "ACCEPT", c))
              + Cardinality(Carries(q_worker_to_listener, "CL_DISCONNECTED", c))

\* No client is ever in two hands, and the Client_Data of a client in someone's
\* hands exists.  So worker_loop and remove_if, which dereference
\* get_client_ref(...) without a test, never dereference an empty optional, the
\* listener never disconnects a client twice, and no two workers read one socket.
SoleCustody ==
    \A c \in Conn : Custody(c) <= 1 /\ (Custody(c) = 1 => c \in Connected)

\* What a client receives begins with the reply to its INIT_REQ and the greeting,
\* in this order and once each: nothing that is broadcast overtakes the handshake.
HandshakeFirst ==
    \A c \in Conn : \A i \in DOMAIN out[c] :
        /\ i = 1 <=> out[c][i].action = "INIT_REQ"
        /\ i = 2 <=> out[c][i].action = "HELLO"

\* position of a notice in the life of the client it is about
Chapter(m) == CASE m.action = "JOINED" -> 0
                [] m.action = "LEFT" -> MaxLines + 1
                [] OTHER -> m.n

\* What a client is told about another one comes in the order it happened: that
\* it connected, its lines in the order they were typed, that it left; nothing
\* twice, and nothing about the client itself.
StoryInOrder ==
    \A c \in Conn : \A i, j \in DOMAIN out[c] :
        (2 < i /\ i < j) =>
            /\ c \notin {out[c][i].id, out[c][j].id}
            /\ out[c][i].id = out[c][j].id => Chapter(out[c][i]) < Chapter(out[c][j])

------------------------------------------------------------------------------
(* What the documentation says, and the code does not keep *)

\* The listener goes on polling: a join it waits in returns.
ListenerResponsive ==
    listener.pc \in {"reset", "launch"} ~> listener.pc \notin {"reset", "launch"}

\* A message on the listener's queue has its eventfd raised, or about to be.
QueuedIsSignalled ==
    (q_worker_to_listener # <<>> /\ ListenerAt("wait")) =>
        evfd \/ \E w \in Conn : worker[w].pc \in {"signal", "reapSignal"}

\* the thread that the listener picked for a client, by a count that lags behind,
\* runs and can pop its ACCEPT
Awaited(c) ==
    \A i \in Carries(q_listener_to_worker, "ACCEPT", c) :
        \E w \in Conn : /\ worker[w].idx = q_listener_to_worker[i].n
                        /\ worker[w].pc \notin {"none", "exited"}

\* A connected client is in somebody's hands: no worker drops its ACCEPT, and it is
\* not assigned to a thread that has ended.
NoClientDropped == \A c \in Connected : Custody(c) = 1 /\ Awaited(c)

\* A worker thread has at most MAX_CLIENTS_PER_THREAD clients.
ThreadCapacityRespected == \A i \in ThreadIdx : allocated[i] <= MAX_CLIENTS_PER_THREAD

\* What the clients send, or do not send, never ends the server: no exception leaves a
\* worker, and the listener's loop ends for no other reason than a stop.
ServerSurvives == ~crashed /\ (ListenerAt("dead") => done)
==============================================================================
