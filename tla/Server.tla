------------------------------- MODULE Server --------------------------------
(***************************************************************************)
(* The Server object: the fixed array of optional Client_Data, the stop    *)
(* source, and the send and receive calls on a client's socket.  The       *)
(* listener and the workers of ServerThreadManager call these operations   *)
(* through the IServer interface.                                          *)
(***************************************************************************)
EXTENDS Clients, FiniteSetsExt

CONSTANTS MAX_NR_OF_THREADS,        \* resources.h
          MAX_CLIENTS_PER_THREAD,
          QUEUE_SIZE                \* capacity of every queue

ASSUME ServerAssumption ==
    /\ MAX_NR_OF_THREADS \in Nat \ {0}
    /\ MAX_CLIENTS_PER_THREAD \in Nat \ {0}
    /\ QUEUE_SIZE \in Nat \ {0}

MAX_CLIENTS == MAX_NR_OF_THREADS * MAX_CLIENTS_PER_THREAD
TableIdx == 0 .. MAX_CLIENTS - 1

VARIABLES clients,      \* the array: a connection or None
          accepted,     \* connections taken off the listening socket so far
          init_state,   \* Client_Data::init_state, DISCONNECT_STATE .. INIT_DONE
          send_queue,   \* Client_Data::send_queue
          done,         \* a stop was requested
          closed,       \* ~Server has closed the sockets
          crashed       \* an exception left a thread: std::terminate, or SIGPIPE

serverVars == <<clients, accepted, init_state, send_queue, done, closed, crashed>>

DISCONNECT_STATE == -1
INITIAL_STATE == 0
REQUESTED_INIT == 1
SENT_INIT_CONFIRMATION == 2
INIT_DONE == 3

ServerInit ==
    /\ clients = [i \in TableIdx |-> None]
    /\ accepted = 0
    /\ init_state = [c \in Conn |-> INITIAL_STATE]
    /\ send_queue = [c \in Conn |-> <<>>]
    /\ done = FALSE
    /\ closed = FALSE
    /\ crashed = FALSE

\* get_connected_IDs, as a set; get_client_ref(c) has a value
Connected == {clients[i] : i \in TableIdx} \ {None}

\* connections waiting in the backlog of the listening socket
Backlog == {c \in Conn : c >= accepted /\ net[c] # "none"}

FreeSlots == {i \in TableIdx : clients[i] = None}

\* accept_client: the first connection of the backlog gets the first free
\* element of the array, or is closed when there is none.  The new Client_Data
\* is in INITIAL_STATE with an empty queue, which is how they start here.  When it
\* throws: accept_client_fails.
accept_client(c) ==
    /\ c = accepted
    /\ c \in Backlog
    /\ accepted' = accepted + 1
    /\ IF FreeSlots = {}
       THEN /\ net' = [net EXCEPT ![c] = "closed"]
            /\ UNCHANGED clients
       ELSE /\ clients' = [clients EXCEPT ![Min(FreeSlots)] = c]
            /\ UNCHANGED net

\* accept4 fails and leaves the connection in the backlog, or fcntl fails and the
\* connection is closed
accept_client_fails ==
    /\ accepted \in Backlog
    /\ \/ UNCHANGED <<accepted, net>>
       \/ accepted' = accepted + 1 /\ net' = [net EXCEPT ![accepted] = "closed"]
    /\ UNCHANGED clients

\* disconnect_client, for a client that is in the array
disconnect_client(c) ==
    /\ clients' = [i \in TableIdx |-> IF clients[i] = c THEN None ELSE clients[i]]
    /\ net' = [net EXCEPT ![c] = "closed"]

\* ~Server closes the socket of every client before the workers are joined
CloseSockets ==
    /\ closed' = TRUE
    /\ net' = [c \in Conn |-> IF c \in Connected THEN "closed" ELSE net[c]]

\* epoll reports EPOLLIN: there is something to read, or the peer is gone
Readable(c) == net[c] # "closed" /\ (inbox[c] # <<>> \/ net[c] # "open")

\* recv returns 0
AtEnd(c) == inbox[c] = <<>> /\ net[c] \in {"fin", "finrst"}

\* recv fails: the connection was reset, or its descriptor is closed
RecvFails(c) == net[c] = "closed" \/ (inbox[c] = <<>> /\ net[c] = "rst")

\* epoll may not report EPOLLOUT: the client has stopped reading what it is sent,
\* and the socket's send buffer is full
MayBeFull(c) == May(c, "stall") /\ out[c] # <<>>

\* send of the messages ms, one call each.  The kernel takes what is sent to a
\* peer that has closed, and the peer answers with a reset; a send after that,
\* or after a reset, raises SIGPIPE or fails, and the failure is not caught.  The
\* send buffer of a socket that was reported writable takes one message more, but
\* perhaps not a second one: EAGAIN is a failure like any other.
SendSucceeds(c, ms) ==
    \/ ms = <<>> /\ UNCHANGED <<net, out>>
    \/ ms # <<>> /\ net[c] = "open" /\ out' = [out EXCEPT ![c] = @ \o ms] /\ UNCHANGED net
    \/ /\ ms # <<>>
       /\ net[c] = "fin"
       /\ \E how \in {"fin", "finrst"} : net' = [net EXCEPT ![c] = how]
       /\ UNCHANGED out

SendMayFail(c, ms) ==
    \/ ms # <<>> /\ net[c] \in {"finrst", "rst", "closed"}
    \/ Len(ms) > 1 /\ (net[c] = "fin" \/ (net[c] = "open" /\ MayBeFull(c)))

\* unicast_repeated pushes m on the queue of every client but one, in the order
\* of the array, and gives up with an exception at the first full queue.
FullQueues(except) ==
    {i \in TableIdx : /\ clients[i] \notin {None, except}
                      /\ Len(send_queue[clients[i]]) >= QUEUE_SIZE}

\* Mutant of Reached: the excepted client is not skipped.
ReachedAll(except) ==
    {clients[i] : i \in {j \in TableIdx : \A k \in FullQueues(except) : j < k}} \ {None}

Reached(except) ==
    {clients[i] : i \in {j \in TableIdx : \A k \in FullQueues(except) : j < k}}
        \ {None, except}

unicast_repeated(except, m) ==
    send_queue' = [c \in Conn |-> IF c \in Reached(except) THEN Append(send_queue[c], m)
                                  ELSE send_queue[c]]
==============================================================================
