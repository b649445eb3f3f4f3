---------------------- MODULE ServerThreadManagerProofs ----------------------
(***************************************************************************)
(* Proofs about ServerThreadManager, for any number of threads, clients    *)
(* per thread and connections, and any queue size: the types, and that the *)
(* listener's index into worker_threads stays in bounds.                   *)
(***************************************************************************)
EXTENDS ServerThreadManager, FiniteSetTheorems, WellFoundedInduction, TLAPS

\* the inductive invariant
IndexInv == TypeOK /\ LaunchIndexInBounds /\ JoinsAreSound

USE ClientAssumption, ServerAssumption

------------------------------------------------------------------------------
(* Smallest and largest elements *)

\* A set of natural numbers that is not empty has a smallest element.
LEMMA LeastExists ==
    ASSUME NEW S \in SUBSET Nat, S # {}
    PROVE  \E x \in S : \A y \in S : x <= y
<1>1. PICK x \in S : \A y \in S : ~(<<y, x>> \in OpToRel(<, Nat))
    BY NatLessThanWellFounded, WFMin
<1>2. \A y \in S : ~(y < x)
    BY <1>1 DEF OpToRel
<1> QED BY <1>2

\* Min is the smallest element.
LEMMA MinIsLeast ==
    ASSUME NEW S \in SUBSET Nat, S # {}
    PROVE  Min(S) \in S
<1> QED BY LeastExists DEF Min

\* Among finitely many client counts there is a largest one (get_max_and_idx).
LEMMA MaxAllocatedType ==
    ASSUME NEW f \in [ThreadIdx -> Nat]
    PROVE  MaxAllocated(f) \in Nat
<1> DEFINE HasTop(k) == \E m \in 0 .. k : \A j \in 0 .. k : f[j] <= f[m]
           Bad == {k \in ThreadIdx : ~HasTop(k)}
<1>1. Bad = {}
  <2> SUFFICES ASSUME Bad # {} PROVE FALSE
      OBVIOUS
  <2>0. Bad \in SUBSET Nat
      BY DEF ThreadIdx
  <2>1. PICK k \in Bad : \A y \in Bad : k <= y
    <3> HIDE DEF Bad
    <3> QED BY <2>0, LeastExists
  <2>2. k \in ThreadIdx /\ k \in Nat
      BY DEF ThreadIdx
  <2>3. k # 0
      BY <2>2 DEF ThreadIdx
  <2>4. k - 1 \in ThreadIdx /\ k - 1 \notin Bad
    <3> HIDE DEF Bad
    <3> QED BY <2>1, <2>2, <2>3 DEF ThreadIdx
  <2>5. PICK m \in 0 .. k - 1 : \A j \in 0 .. k - 1 : f[j] <= f[m]
      BY <2>4
  <2>6. f[k] \in Nat /\ f[m] \in Nat /\ \A j \in 0 .. k : f[j] \in Nat
      BY <2>2, <2>5 DEF ThreadIdx
  <2>7. CASE f[k] <= f[m]
      BY <2>2, <2>5, <2>6, <2>7
  <2>8. CASE f[m] <= f[k]
      BY <2>2, <2>5, <2>6, <2>8
  <2> QED BY <2>6, <2>7, <2>8
<1>2. PICK m \in ThreadIdx : \A j \in ThreadIdx : f[j] <= f[m]
  <2>1. MAX_NR_OF_THREADS - 1 \in ThreadIdx
      BY DEF ThreadIdx
  <2> QED BY <1>1, <2>1 DEF ThreadIdx
<1> DEFINE S == {f[i] : i \in ThreadIdx}
<1>3. \E x \in S : \A y \in S : x >= y
    BY <1>2
<1>4. Max(S) \in S
    BY <1>3 DEF Max
<1> QED BY <1>4 DEF MaxAllocated

\* get_min_and_idx returns the index of a slot in use.
LEMMA MinIdxType ==
    ASSUME SlotTypes, Occupied # {}
    PROVE  MinIdx \in Occupied
<1> DEFINE Counts == {allocated[i] : i \in Occupied}
           Least == {i \in Occupied : \A j \in Occupied : allocated[i] <= allocated[j]}
<1>1. Counts \in SUBSET Nat /\ Counts # {}
    BY DEF SlotTypes, Occupied
<1>2. PICK x \in Counts : \A y \in Counts : x <= y
    BY <1>1, LeastExists
<1>3. Least # {}
    BY <1>2
<1>4. Least \in SUBSET Nat
    BY DEF Occupied, ThreadIdx
<1>5. Min(Least) \in Least
    BY <1>3, <1>4, MinIsLeast
<1> QED BY <1>5 DEF MinIdx

------------------------------------------------------------------------------
(* Facts used for many actions *)

\* A function keeps its type when one value is replaced by another of the type;
\* outside its domain nothing is replaced.
LEMMA UpdateType ==
    ASSUME NEW D, NEW R, NEW f \in [D -> R], NEW x, NEW v, x \in D => v \in R
    PROVE  [f EXCEPT ![x] = v] \in [D -> R]
<1> QED OBVIOUS

\* What the threads put on the queues and the sockets are messages.
LEMMA MsgType ==
    ASSUME NEW a \in Actions, NEW id \in Ids, NEW n \in Nat
    PROVE  Msg(a, id, n) \in Messages
<1> QED BY DEF Msg, Messages

\* The states in which a round of the listener ends are states of the listener,
\* and it is in no join there.
LEMMA RoundEnds ==
    ASSUME ThreadTypes
    PROVE  /\ Resume \in ListenerType
           /\ Resume.pc \notin {"reset", "launch"}
           /\ \A b : LoopHead(b) \in ListenerType
           /\ \A b : LoopHead(b).pc \notin {"reset", "launch"}
<1> USE DEF ThreadTypes, ListenerType, ListenerPcs, AtWait, LoopHead, Ids, ThreadIdx
<1>1. \A b : LoopHead(b) \in ListenerType /\ LoopHead(b).pc \notin {"reset", "launch"}
    OBVIOUS
<1>2. Resume \in ListenerType /\ Resume.pc \notin {"reset", "launch"}
    BY <1>1 DEF Resume
<1> QED BY <1>1, <1>2

\* The states in which the threads start are of their types.
LEMMA StartTypes ==
    AtWait \in ListenerType /\ NoWorker \in WorkerType
<1>1. AtWait \in ListenerType
    BY DEF AtWait, ListenerType, ListenerPcs, ThreadIdx, Ids
<1>2. NoWorker \in WorkerType
    BY DEF NoWorker, WorkerType, WorkerPcs, ThreadIdx
<1> QED BY <1>1, <1>2

\* A step that changes neither the slots nor their count keeps the index in bounds.
LEMMA IndexKept ==
    ASSUME LaunchIndexInBounds, UNCHANGED <<worker_threads, nr_of_launched_threads>>
    PROVE  LaunchIndexInBounds'
<1>1. Occupied' = Occupied
    BY DEF Occupied
<1> QED BY <1>1 DEF LaunchIndexInBounds

\* A step of a worker may add a report to the listener's queue.
LEMMA JoinsKept ==
    ASSUME JoinsAreSound, QueueTypes,
           UNCHANGED <<worker_threads, nr_of_launched_threads, listener, crashed>>,
           \/ UNCHANGED q_worker_to_listener
           \/ \E m \in Messages :
                 /\ q_worker_to_listener' = Append(q_worker_to_listener, m)
                 /\ m.action = "CL_DISCONNECTED" => m.n \in ThreadIdx
    PROVE  JoinsAreSound'
<1>1. \A i \in DOMAIN q_worker_to_listener' :
          q_worker_to_listener'[i].action = "CL_DISCONNECTED" =>
              q_worker_to_listener'[i].n \in ThreadIdx
  <2>1. CASE UNCHANGED q_worker_to_listener
      BY <2>1 DEF JoinsAreSound
  <2>2. CASE \E m \in Messages :
                 /\ q_worker_to_listener' = Append(q_worker_to_listener, m)
                 /\ m.action = "CL_DISCONNECTED" => m.n \in ThreadIdx
      BY <2>2 DEF JoinsAreSound, QueueTypes
  <2> QED BY <2>1, <2>2
<1> QED BY <1>1 DEF JoinsAreSound, ListenerAt

\* The listener may pop from its queue, and does not end up in a join.
LEMMA JoinsOver ==
    ASSUME JoinsAreSound, QueueTypes,
           listener'.pc \notin {"reset", "launch"},
           \/ UNCHANGED q_worker_to_listener
           \/ /\ q_worker_to_listener # <<>>
              /\ q_worker_to_listener' = Tail(q_worker_to_listener)
    PROVE  JoinsAreSound'
<1>1. \A i \in DOMAIN q_worker_to_listener' :
          q_worker_to_listener'[i].action = "CL_DISCONNECTED" =>
              q_worker_to_listener'[i].n \in ThreadIdx
  <2>1. CASE UNCHANGED q_worker_to_listener
      BY <2>1 DEF JoinsAreSound
  <2>2. CASE /\ q_worker_to_listener # <<>>
             /\ q_worker_to_listener' = Tail(q_worker_to_listener)
    <3>1. \A i \in DOMAIN q_worker_to_listener' :
              /\ i + 1 \in DOMAIN q_worker_to_listener
              /\ q_worker_to_listener'[i] = q_worker_to_listener[i + 1]
        BY <2>2 DEF QueueTypes
    <3> QED BY <3>1 DEF JoinsAreSound
  <2> QED BY <2>1, <2>2
<1> QED BY <1>1 DEF JoinsAreSound, ListenerAt

------------------------------------------------------------------------------
(* The clients and the operator *)

LEMMA ClientStepsKeep ==
    ASSUME IndexInv, ClientSteps
    PROVE  IndexInv'
<1>1. PICK c \in Conn : ClientStep(c)
    BY DEF ClientSteps
<1> USE DEF ClientTypes, NetStates, Stages
<1>2. ClientTypes'
  <2> USE DEF IndexInv, TypeOK
  <2>1. CASE Connect(c)
      BY <2>1 DEF Connect
  <2>2. CASE RequestInit(c)
    <3>1. PICK action \in {"INIT_REQ", "INIT_MISFIT"} : ClientSends(c, Msg(action, None, 0))
        BY <2>2 DEF RequestInit
    <3>2. Msg(action, None, 0) \in Messages
        BY MsgType DEF Ids, Actions
    <3> QED BY <2>2, <3>1, <3>2 DEF RequestInit, ClientSends
  <2>3. CASE FinalizeInit(c)
    <3>1. Msg("INIT_DONE", None, 0) \in Messages
        BY MsgType DEF Ids, Actions
    <3> QED BY <2>3, <3>1 DEF FinalizeInit, ClientSends
  <2>4. CASE TypeLine(c)
    <3>1. PICK id \in {c, None}, action \in {"UNICAST_REPEATED", "MISFIT"} :
             ClientSends(c, Msg(action, id, said[c] + 1))
        BY <2>4 DEF TypeLine
    <3>a. said[c] + 1 \in Nat
        OBVIOUS
    <3>b. id \in Ids /\ action \in Actions
        BY DEF Ids, Actions
    <3>2. Msg(action, id, said[c] + 1) \in Messages
        BY <3>a, <3>b, MsgType
    <3> QED BY <2>4, <3>1, <3>2 DEF TypeLine, ClientSends
  <2>5. CASE TypeQuit(c)
    <3>1. Msg("CL_DISCONNECTED", None, 0) \in Messages
        BY MsgType DEF Ids, Actions
    <3> QED BY <2>5, <3>1 DEF TypeQuit, ClientSends
  <2>6. CASE HangUp(c)
      BY <2>6 DEF HangUp
  <2> QED BY <1>1, <2>1, <2>2, <2>3, <2>4, <2>5, <2>6 DEF ClientStep
<1>3. UNCHANGED <<serverVars, slotVars, queueVars, quit_typed, listener, worker>>
    BY DEF ClientSteps
<1>4. ServerTypes' /\ SlotTypes' /\ QueueTypes' /\ ThreadTypes'
    BY <1>3 DEF IndexInv, TypeOK, ServerTypes, SlotTypes, QueueTypes, ThreadTypes,
                serverVars, slotVars, queueVars
<1>5. LaunchIndexInBounds' /\ JoinsAreSound'
    BY <1>3, IndexKept, JoinsKept DEF IndexInv, TypeOK, serverVars, slotVars, queueVars
<1> QED BY <1>2, <1>4, <1>5 DEF IndexInv, TypeOK

LEMMA AdminQuitKeeps ==
    ASSUME IndexInv, AdminQuit
    PROVE  IndexInv'
<1>1. TypeOK'
    BY DEF IndexInv, AdminQuit, TypeOK, ClientTypes, ServerTypes, SlotTypes, QueueTypes,
           ThreadTypes, clientVars, serverVars, slotVars, queueVars
<1>2. LaunchIndexInBounds' /\ JoinsAreSound'
    BY IndexKept, JoinsKept DEF IndexInv, AdminQuit, TypeOK, serverVars, slotVars, queueVars
<1> QED BY <1>1, <1>2 DEF IndexInv

------------------------------------------------------------------------------
(* The workers *)

\* The crash of a worker changes nothing else.
LEMMA TerminateKeeps ==
    ASSUME IndexInv, Terminate
    PROVE  IndexInv'
<1>1. TypeOK'
    BY DEF IndexInv, Terminate, TypeOK, ClientTypes, ServerTypes, SlotTypes, QueueTypes,
           ThreadTypes, clientVars, slotVars, queueVars
<1>2. LaunchIndexInBounds'
    BY IndexKept DEF IndexInv, Terminate, slotVars
<1>3. JoinsAreSound'
    BY DEF IndexInv, JoinsAreSound, ListenerAt, Terminate, slotVars, queueVars
<1> QED BY <1>1, <1>2, <1>3 DEF IndexInv

\* A step of a worker that pushes nothing and leaves its thread index alone.
LEMMA QuietWorkerStep ==
    ASSUME IndexInv,
           UNCHANGED <<slotVars, listener, crashed, q_worker_to_listener>>,
           TypeOK'
    PROVE  IndexInv'
<1> QED BY IndexKept, JoinsKept DEF IndexInv, TypeOK, slotVars

\* One worker gets a new record.
LEMMA WorkerUpdate ==
    ASSUME ThreadTypes, UNCHANGED listener,
           NEW w \in Conn, NEW r \in WorkerType, worker' = [worker EXCEPT ![w] = r]
    PROVE  ThreadTypes'
<1> QED BY DEF ThreadTypes

LEMMA WorkerStartKeeps ==
    ASSUME IndexInv, NEW w \in Conn, WorkerStart(w)
    PROVE  IndexInv'
<1>1. CASE CannotMonitor(w)
    BY <1>1, TerminateKeeps DEF WorkerStart
<1>2. CASE ~CannotMonitor(w)
  <2> USE <1>2 DEF WorkerStart, clientVars, serverVars, slotVars, queueVars
  <2>1. ThreadTypes'
      BY DEF IndexInv, TypeOK, ThreadTypes, WorkerType, WorkerPcs
  <2>2. ClientTypes' /\ ServerTypes' /\ SlotTypes' /\ QueueTypes'
      BY DEF IndexInv, TypeOK, ClientTypes, ServerTypes, SlotTypes, QueueTypes
  <2> QED BY <2>1, <2>2, QuietWorkerStep DEF TypeOK
<1> QED BY <1>1, <1>2

LEMMA WorkerWakeKeeps ==
    ASSUME IndexInv, NEW w \in Conn, WorkerWake(w)
    PROVE  IndexInv'
<1> USE DEF WorkerWake, clientVars, serverVars, slotVars
<1>1. ThreadTypes'
  <2>1. PICK pc \in WorkerPcs, todo \in SUBSET Conn, ready \in SUBSET Conn :
            worker' = [worker EXCEPT ![w].pc = pc, ![w].todo = todo, ![w].ready = ready]
      BY DEF IndexInv, TypeOK, ThreadTypes, WorkerType, WorkerPcs
  <2>2. worker[w] \in WorkerType /\ worker \in [Conn -> WorkerType]
      BY DEF IndexInv, TypeOK, ThreadTypes
  <2> DEFINE r == [worker[w] EXCEPT !.pc = pc, !.todo = todo, !.ready = ready]
  <2>3. r \in WorkerType
      BY <2>2 DEF WorkerType
  <2>4. worker' = [worker EXCEPT ![w] = r]
      BY <2>1, <2>2 DEF WorkerType
  <2> QED BY <2>3, <2>4, WorkerUpdate DEF IndexInv, TypeOK
<1>2. ClientTypes' /\ ServerTypes' /\ SlotTypes' /\ QueueTypes'
    BY DEF IndexInv, TypeOK, ClientTypes, ServerTypes, SlotTypes, QueueTypes
<1> QED BY <1>1, <1>2, QuietWorkerStep DEF TypeOK

LEMMA WorkerPopKeeps ==
    ASSUME IndexInv, NEW w \in Conn, WorkerPop(w)
    PROVE  IndexInv'
<1> DEFINE m == Head(q_listener_to_worker)
           mine == m.n = worker[w].idx
<1>1. CASE q_listener_to_worker = <<>>
  <2> USE <1>1 DEF WorkerPop, clientVars, serverVars, slotVars, queueVars
  <2>1. ThreadTypes'
      BY DEF IndexInv, TypeOK, ThreadTypes, WorkerType, WorkerPcs
  <2>2. ClientTypes' /\ ServerTypes' /\ SlotTypes' /\ QueueTypes'
      BY DEF IndexInv, TypeOK, ClientTypes, ServerTypes, SlotTypes, QueueTypes
  <2> QED BY <2>1, <2>2, QuietWorkerStep DEF TypeOK
<1>2. CASE q_listener_to_worker # <<>> /\ mine /\ CannotMonitor(m.id)
    BY <1>2, TerminateKeeps DEF WorkerPop
<1>3. CASE q_listener_to_worker # <<>> /\ ~(mine /\ CannotMonitor(m.id))
  <2>0. m \in Messages
      BY <1>3 DEF IndexInv, TypeOK, QueueTypes
  <2>1. mine => m.id \in Conn \cup {None}
      BY <1>3, <2>0 DEF CannotMonitor, Messages, Ids
  <2>2. /\ q_listener_to_worker' = Tail(q_listener_to_worker)
        /\ worker' = [worker EXCEPT ![w].pc = "clients",
                                    ![w].new = IF mine THEN m.id ELSE None]
        /\ UNCHANGED <<clientVars, serverVars, slotVars, q_worker_to_listener,
                       evfd, worker_evfd, quit_typed, listener>>
      BY <1>3 DEF WorkerPop
  <2>3. ThreadTypes'
    <3> DEFINE n == IF mine THEN m.id ELSE None
    <3>1. n \in Conn \cup {None}
        BY <2>1
    <3>2. worker' = [worker EXCEPT ![w].pc = "clients", ![w].new = n]
        BY <2>2
    <3>3. worker[w] \in WorkerType /\ worker \in [Conn -> WorkerType]
        BY DEF IndexInv, TypeOK, ThreadTypes
    <3> HIDE DEF n
    <3> DEFINE r == [worker[w] EXCEPT !.pc = "clients", !.new = n]
    <3>4. r \in WorkerType
        BY <3>1, <3>3 DEF WorkerType, WorkerPcs
    <3>5. worker' = [worker EXCEPT ![w] = r]
        BY <3>2, <3>3 DEF WorkerType
    <3> QED BY <2>2, <3>4, <3>5, WorkerUpdate DEF IndexInv, TypeOK
  <2>4. QueueTypes'
      BY <1>3, <2>2 DEF IndexInv, TypeOK, QueueTypes
  <2>5. ClientTypes' /\ ServerTypes' /\ SlotTypes'
      BY <2>2 DEF IndexInv, TypeOK, ClientTypes, ServerTypes, SlotTypes,
                  clientVars, serverVars, slotVars
  <2> QED BY <2>2, <2>3, <2>4, <2>5, QuietWorkerStep DEF TypeOK, serverVars
<1> QED BY <1>1, <1>2, <1>3

LEMMA WorkerRecvEndKeeps ==
    ASSUME IndexInv, NEW w \in Conn, WorkerRecvEnd(w)
    PROVE  IndexInv'
<1> USE DEF WorkerRecvEnd, clientVars, serverVars, slotVars, queueVars
<1>1. ThreadTypes'
    BY DEF IndexInv, TypeOK, ThreadTypes, WorkerType, WorkerPcs
<1>2. ServerTypes'
  <2>1. init_state' \in [Conn -> DISCONNECT_STATE .. INIT_DONE]
    <3>1. DISCONNECT_STATE \in DISCONNECT_STATE .. INIT_DONE
        BY DEF DISCONNECT_STATE, INIT_DONE
    <3> QED BY <3>1, UpdateType DEF IndexInv, TypeOK, ServerTypes
  <2> QED BY <2>1 DEF IndexInv, TypeOK, ServerTypes
<1>3. ClientTypes' /\ SlotTypes' /\ QueueTypes'
    BY DEF IndexInv, TypeOK, ClientTypes, SlotTypes, QueueTypes
<1> QED BY <1>1, <1>2, <1>3, QuietWorkerStep DEF TypeOK

\* What a send does to the socket keeps the types.
LEMMA SendType ==
    ASSUME ClientTypes, NEW c, NEW ms \in Seq(Messages), SendSucceeds(c, ms)
    PROVE  net' \in [Conn -> NetStates] /\ out' \in [Conn -> Seq(Messages)]
<1> USE DEF SendSucceeds, ClientTypes, NetStates
<1>1. net' \in [Conn -> NetStates]
    OBVIOUS
<1>2. out' \in [Conn -> Seq(Messages)]
  <2>1. CASE UNCHANGED out
      BY <2>1
  <2>2. CASE out' = [out EXCEPT ![c] = out[c] \o ms]
    <3>1. c \in Conn => out[c] \o ms \in Seq(Messages)
        OBVIOUS
    <3> HIDE DEF SendSucceeds
    <3> QED BY <2>2, <3>1, UpdateType
  <2> QED BY <2>1, <2>2
<1> QED BY <1>1, <1>2

LEMMA WorkerSendKeeps ==
    ASSUME IndexInv, NEW w \in Conn, WorkerSend(w)
    PROVE  IndexInv'
<1> DEFINE c == Current(w)
<1>0. ClientTypes /\ ServerTypes /\ ThreadTypes /\ SlotTypes /\ QueueTypes
    BY DEF IndexInv, TypeOK
<1>1. /\ SendSucceeds(c, Output(c))
      /\ init_state' = [init_state EXCEPT ![c] =
                            IF @ = REQUESTED_INIT THEN SENT_INIT_CONFIRMATION ELSE @]
      /\ send_queue' = [send_queue EXCEPT ![c] = IF init_state[c] = INIT_DONE THEN <<>> ELSE @]
      /\ worker' = [worker EXCEPT ![w].todo = @ \ {c}]
      /\ UNCHANGED <<inbox, stage, said, clients, accepted, done, closed, crashed,
                     slotVars, queueVars, quit_typed, listener>>
    BY DEF WorkerSend
<1>a. ServerTypes'
  <2>1. init_state' \in [Conn -> DISCONNECT_STATE .. INIT_DONE]
    <3> DEFINE v == IF init_state[c] = REQUESTED_INIT THEN SENT_INIT_CONFIRMATION
                    ELSE init_state[c]
    <3> HIDE DEF c
    <3>1. c \in Conn => v \in DISCONNECT_STATE .. INIT_DONE
        BY <1>0 DEF ServerTypes, DISCONNECT_STATE, INIT_DONE, SENT_INIT_CONFIRMATION
    <3>2. init_state' = [init_state EXCEPT ![c] = v]
        BY <1>1
    <3> QED BY <1>0, <3>1, <3>2, UpdateType DEF ServerTypes
  <2>2. send_queue' \in [Conn -> Seq(Messages)]
    <3> DEFINE v == IF init_state[c] = INIT_DONE THEN <<>> ELSE send_queue[c]
    <3> HIDE DEF c
    <3>1. c \in Conn => v \in Seq(Messages)
        BY <1>0 DEF ServerTypes
    <3>2. send_queue' = [send_queue EXCEPT ![c] = v]
        BY <1>1
    <3> QED BY <1>0, <3>1, <3>2, UpdateType DEF ServerTypes
  <2> QED BY <1>0, <1>1, <2>1, <2>2 DEF ServerTypes
<1>b. ThreadTypes'
    BY <1>0, <1>1 DEF ThreadTypes, WorkerType
<1>c. SlotTypes' /\ QueueTypes'
    BY <1>0, <1>1 DEF SlotTypes, QueueTypes, slotVars, queueVars
<1>d. ClientTypes'
  <2>1. CASE c \in Conn
    <3>1. Output(c) \in Seq(Messages)
      <4>1. Msg("INIT_REQ", c, 0) \in Messages
          BY <2>1, MsgType DEF Ids, Actions
      <4>2. send_queue[c] \in Seq(Messages)
          BY <1>0, <2>1 DEF ServerTypes
      <4> QED BY <4>1, <4>2 DEF Output
    <3> QED BY <1>0, <1>1, <3>1, SendType DEF ClientTypes
  <2>2. CASE c \notin Conn
    <3> HIDE DEF c
    <3>1. net' \in [Conn -> NetStates] /\ out' \in [Conn -> Seq(Messages)]
        BY <1>0, <1>1, <2>2 DEF ClientTypes, SendSucceeds
    <3> QED BY <1>0, <1>1, <3>1 DEF ClientTypes
  <2> QED BY <2>1, <2>2
<1> QED BY <1>1, <1>a, <1>b, <1>c, <1>d, QuietWorkerStep DEF TypeOK, queueVars

LEMMA WorkerSignalKeeps ==
    ASSUME IndexInv, NEW w \in Conn, WorkerSignal(w)
    PROVE  IndexInv'
<1> USE DEF WorkerSignal, clientVars, serverVars, slotVars
<1>1. ThreadTypes'
    BY DEF IndexInv, TypeOK, ThreadTypes, WorkerType, WorkerPcs
<1>2. ClientTypes' /\ ServerTypes' /\ SlotTypes' /\ QueueTypes'
    BY DEF IndexInv, TypeOK, ClientTypes, ServerTypes, SlotTypes, QueueTypes
<1> QED BY <1>1, <1>2, QuietWorkerStep DEF TypeOK

LEMMA WorkerRoundOverKeeps ==
    ASSUME IndexInv, NEW w \in Conn, WorkerRoundOver(w)
    PROVE  IndexInv'
<1> USE DEF WorkerRoundOver, clientVars, serverVars, slotVars, queueVars
<1>1. ThreadTypes'
  <2> DEFINE own == worker[w].own \cup ({worker[w].new} \ {None})
  <2>1. own \in SUBSET Conn
      BY DEF IndexInv, TypeOK, ThreadTypes, WorkerType
  <2>2. PICK pc \in WorkerPcs :
          worker' = [worker EXCEPT ![w].pc = pc, ![w].new = None, ![w].own = own,
                                   ![w].ready = {}]
      BY DEF WorkerPcs
  <2>3. worker[w] \in WorkerType /\ worker \in [Conn -> WorkerType]
      BY DEF IndexInv, TypeOK, ThreadTypes
  <2> HIDE DEF own
  <2> DEFINE r == [worker[w] EXCEPT !.pc = pc, !.new = None, !.own = own, !.ready = {}]
  <2>4. r \in WorkerType
      BY <2>1, <2>3 DEF WorkerType
  <2>5. worker' = [worker EXCEPT ![w] = r]
      BY <2>2, <2>3 DEF WorkerType
  <2> QED BY <2>4, <2>5, WorkerUpdate DEF IndexInv, TypeOK
<1>2. ClientTypes' /\ ServerTypes' /\ SlotTypes' /\ QueueTypes'
    BY DEF IndexInv, TypeOK, ClientTypes, ServerTypes, SlotTypes, QueueTypes
<1> QED BY <1>1, <1>2, QuietWorkerStep DEF TypeOK

LEMMA WorkerReapKeeps ==
    ASSUME IndexInv, NEW w \in Conn, WorkerReap(w)
    PROVE  IndexInv'
<1> DEFINE c == Min(Leaving(w))
           m == Msg("CL_DISCONNECTED", c, worker[w].idx)
<1>0. ClientTypes /\ ServerTypes /\ ThreadTypes /\ SlotTypes /\ QueueTypes
    BY DEF IndexInv, TypeOK
<1>1. c \in Conn
  <2>1. Leaving(w) \in SUBSET Conn
      BY <1>0 DEF Leaving, ThreadTypes, WorkerType
  <2>2. Leaving(w) \in SUBSET Nat
      BY <2>1 DEF Conn
  <2>3. Leaving(w) # {}
      BY DEF WorkerReap
  <2> QED BY <2>1, <2>2, <2>3, MinIsLeast
<1>2. worker[w] \in WorkerType /\ worker[w].idx \in ThreadIdx /\ worker[w].idx \in Nat
    BY <1>0 DEF ThreadTypes, WorkerType, ThreadIdx
<1>3. m \in Messages
  <2>1. "CL_DISCONNECTED" \in Actions /\ c \in Ids
      BY <1>1 DEF Actions, Ids
  <2> HIDE DEF c
  <2> QED BY <1>2, <2>1, MsgType
<1>4. m.action = "CL_DISCONNECTED" => m.n \in ThreadIdx
    BY <1>2 DEF Msg
<1>5. /\ q_worker_to_listener' = Append(q_worker_to_listener, m)
      /\ worker' = [worker EXCEPT ![w].pc = "reapSignal", ![w].own = @ \ {c}]
      /\ UNCHANGED <<q_listener_to_worker, evfd, worker_evfd>>
      /\ UNCHANGED <<clientVars, serverVars, slotVars, quit_typed, listener>>
    BY DEF WorkerReap, PushToListener
<1> HIDE DEF c, m
<1>a. ThreadTypes'
  <2> DEFINE r == [worker[w] EXCEPT !.pc = "reapSignal", !.own = @ \ {c}]
  <2>1. r \in WorkerType
      BY <1>2 DEF WorkerType, WorkerPcs
  <2>2. worker' = [worker EXCEPT ![w] = r]
      BY <1>0, <1>5 DEF ThreadTypes, WorkerType
  <2> QED BY <1>0, <1>5, <2>1, <2>2, WorkerUpdate
<1>b. QueueTypes'
    BY <1>0, <1>3, <1>5 DEF QueueTypes
<1>c. ClientTypes' /\ ServerTypes' /\ SlotTypes'
    BY <1>0, <1>5 DEF ClientTypes, ServerTypes, SlotTypes, clientVars, serverVars, slotVars
<1>d. LaunchIndexInBounds'
    BY <1>5, IndexKept DEF IndexInv, slotVars
<1>e. JoinsAreSound'
    BY <1>0, <1>3, <1>4, <1>5, JoinsKept DEF IndexInv, slotVars, serverVars
<1> QED BY <1>a, <1>b, <1>c, <1>d, <1>e DEF IndexInv, TypeOK

LEMMA WorkerRecvKeeps ==
    ASSUME IndexInv, NEW w \in Conn, WorkerRecv(w)
    PROVE  IndexInv'
<1> DEFINE c == Current(w)
           m == inbox[c][1]
           Stay == Turn(w, c, "clients")
           Pushed == Turn(w, c, "signal")
           State(s) == init_state' = [init_state EXCEPT ![c] = s]
<1>0. ClientTypes /\ ServerTypes /\ ThreadTypes /\ SlotTypes /\ QueueTypes
    BY DEF IndexInv, TypeOK
<1>1. worker[w] \in WorkerType /\ c \in Conn
    BY <1>0 DEF ThreadTypes, WorkerType, WorkerRecv
<1>2. m \in Messages
  <2>1. Len(inbox[c]) = 1
      BY DEF WorkerRecv, WellFormed
  <2> HIDE DEF c
  <2>2. inbox[c] \in Seq(Messages)
      BY <1>0, <1>1 DEF ClientTypes
  <2> QED BY <2>1, <2>2
<1>3. /\ inbox' = [inbox EXCEPT ![c] = <<>>]
      /\ UNCHANGED <<stage, said, clients, accepted, send_queue, done, closed, crashed,
                     slotVars, quit_typed, listener>>
    BY DEF WorkerRecv
<1>4. \/ /\ Stay
         /\ \E s \in {DISCONNECT_STATE, REQUESTED_INIT} : State(s)
         /\ UNCHANGED <<net, out, queueVars>>
      \/ /\ State(INIT_DONE)
         /\ SendSucceeds(c, <<Msg("HELLO", c, 0)>>)
         /\ PushToListener(Msg("INIT_DONE", c, 0)) /\ Pushed
      \/ /\ m.action = "UNICAST_REPEATED"
         /\ PushToListener(m) /\ Pushed
         /\ UNCHANGED <<net, out, init_state>>
      \/ /\ Stay
         /\ UNCHANGED <<net, out, init_state, queueVars>>
    BY DEF WorkerRecv
<1>5. Msg("HELLO", c, 0) \in Messages /\ Msg("INIT_DONE", c, 0) \in Messages
    BY <1>1, MsgType DEF Actions, Ids
<1>6. Msg("INIT_DONE", c, 0).action = "INIT_DONE"
    BY DEF Msg
<1> HIDE DEF c, m
<1>a. ThreadTypes'
  <2>1. PICK pc \in {"clients", "signal"} : Turn(w, c, pc)
      BY <1>4
  <2>2. PICK full : worker' = [worker EXCEPT ![w].pc = pc, ![w].raw = FALSE,
                                             ![w].ready = @ \ {c}, ![w].todo = @ \ full]
      BY <2>1 DEF Turn
  <2> DEFINE r == [worker[w] EXCEPT !.pc = pc, !.raw = FALSE,
                                    !.ready = @ \ {c}, !.todo = @ \ full]
  <2>3. r \in WorkerType
      BY <1>1 DEF WorkerType, WorkerPcs
  <2>4. worker' = [worker EXCEPT ![w] = r]
      BY <1>0, <2>2 DEF ThreadTypes, WorkerType
  <2> QED BY <1>0, <1>3, <2>3, <2>4, WorkerUpdate
<1>b. ClientTypes'
  <2>1. inbox' \in [Conn -> Seq(Messages)]
    <3>1. <<>> \in Seq(Messages)
        OBVIOUS
    <3> QED BY <1>0, <1>3, <3>1, UpdateType DEF ClientTypes
  <2>2. net' \in [Conn -> NetStates] /\ out' \in [Conn -> Seq(Messages)]
    <3>1. CASE UNCHANGED <<net, out>>
        BY <1>0, <3>1 DEF ClientTypes
    <3>2. CASE SendSucceeds(c, <<Msg("HELLO", c, 0)>>)
      <4>1. <<Msg("HELLO", c, 0)>> \in Seq(Messages)
          BY <1>5
      <4> QED BY <1>0, <3>2, <4>1, SendType
    <3> QED BY <1>4, <3>1, <3>2
  <2> QED BY <1>0, <1>3, <2>1, <2>2 DEF ClientTypes
<1>c. ServerTypes'
  <2>1. init_state' \in [Conn -> DISCONNECT_STATE .. INIT_DONE]
    <3>1. CASE UNCHANGED init_state
        BY <1>0, <3>1 DEF ServerTypes
    <3>2. CASE \E s \in {DISCONNECT_STATE, REQUESTED_INIT, INIT_DONE} : State(s)
      <4>1. PICK s \in {DISCONNECT_STATE, REQUESTED_INIT, INIT_DONE} : State(s)
          BY <3>2
      <4>2. s \in DISCONNECT_STATE .. INIT_DONE
          BY DEF DISCONNECT_STATE, REQUESTED_INIT, INIT_DONE
      <4> QED BY <1>0, <4>1, <4>2, UpdateType DEF ServerTypes
    <3> QED BY <1>4, <3>1, <3>2
  <2> QED BY <1>0, <1>3, <2>1 DEF ServerTypes
<1>d. \/ UNCHANGED queueVars
      \/ \E msg \in Messages :
            /\ msg.action # "CL_DISCONNECTED"
            /\ q_worker_to_listener' = Append(q_worker_to_listener, msg)
            /\ UNCHANGED <<q_listener_to_worker, evfd, worker_evfd>>
    BY <1>2, <1>4, <1>5, <1>6 DEF PushToListener
<1>e. QueueTypes' /\ SlotTypes'
  <2>1. SlotTypes'
      BY <1>0, <1>3 DEF SlotTypes, slotVars
  <2>2. q_worker_to_listener' \in Seq(Messages)
      BY <1>0, <1>d DEF QueueTypes, queueVars
  <2>3. UNCHANGED <<q_listener_to_worker, evfd, worker_evfd, quit_typed>>
      BY <1>3, <1>d DEF queueVars
  <2> QED BY <1>0, <2>1, <2>2, <2>3 DEF QueueTypes
<1>f. LaunchIndexInBounds'
    BY <1>3, IndexKept DEF IndexInv, slotVars
<1>g. JoinsAreSound'
    BY <1>0, <1>3, <1>d, JoinsKept DEF IndexInv, slotVars, queueVars
<1> QED BY <1>a, <1>b, <1>c, <1>e, <1>f, <1>g DEF IndexInv, TypeOK

\* Every step of a worker keeps the invariant.
LEMMA WorkerKeeps ==
    ASSUME IndexInv, NEW w \in Conn, Worker(w)
    PROVE  IndexInv'
<1>1. CASE WorkerRecvThrows(w) \/ WorkerSendThrows(w) \/ WorkerReapThrows(w)
    BY <1>1, TerminateKeeps DEF WorkerRecvThrows, WorkerSendThrows, WorkerReapThrows
<1> QED BY <1>1, WorkerStartKeeps, WorkerWakeKeeps, WorkerPopKeeps, WorkerRecvEndKeeps, WorkerRecvKeeps,
           WorkerSendKeeps, WorkerSignalKeeps, WorkerReapKeeps, WorkerRoundOverKeeps
        DEF Worker

------------------------------------------------------------------------------
(* The listener *)

\* A broadcast keeps the type of the clients' queues.
LEMMA BroadcastType ==
    ASSUME ServerTypes, NEW id, NEW m \in Messages, unicast_repeated(id, m)
    PROVE  send_queue' \in [Conn -> Seq(Messages)]
<1> QED BY DEF ServerTypes, unicast_repeated

\* What the listener pops is a message, and one that reports the end of a client
\* names a slot.
LEMMA PoppedMessage ==
    ASSUME QueueTypes, JoinsAreSound, NEW m, ListenerPops(m)
    PROVE  /\ m \in Messages
           /\ m.action = "CL_DISCONNECTED" => m.n \in ThreadIdx
           /\ q_worker_to_listener # <<>>
           /\ q_worker_to_listener' = Tail(q_worker_to_listener)
           /\ UNCHANGED <<q_listener_to_worker, evfd, worker_evfd>>
           /\ quit_typed' = quit_typed => QueueTypes'
<1>1. /\ q_worker_to_listener \in Seq(Messages) /\ q_worker_to_listener # <<>>
      /\ m = q_worker_to_listener[1]
      /\ 1 \in DOMAIN q_worker_to_listener
    BY DEF QueueTypes, ListenerPops
<1>2. m \in Messages
    BY <1>1
<1>3. m.action = "CL_DISCONNECTED" => m.n \in ThreadIdx
    BY <1>1 DEF JoinsAreSound
<1>4. q_worker_to_listener' \in Seq(Messages)
    BY <1>1 DEF ListenerPops
<1> QED BY <1>1, <1>2, <1>3, <1>4 DEF ListenerPops, QueueTypes

LEMMA ListenerWakeKeeps ==
    ASSUME IndexInv, ListenerWake
    PROVE  IndexInv'
<1> USE DEF ListenerWake, clientVars, serverVars, slotVars
<1>1. PICK pc \in {"pop", "dispatch"}, ready \in SUBSET {"stdin", "socket"} :
          listener' = [AtWait EXCEPT !.pc = pc, !.events = ready]
    OBVIOUS
<1>2. listener' \in ListenerType /\ listener'.pc \notin {"reset", "launch"}
  <2>1. listener' = [pc |-> pc, events |-> ready, at |-> 0, for |-> None]
      BY <1>1 DEF AtWait
  <2>2. pc \in ListenerPcs /\ 0 \in ThreadIdx /\ None \in Ids
      BY DEF ListenerPcs, ThreadIdx, Ids
  <2> HIDE DEF ListenerWake
  <2> QED BY <2>1, <2>2 DEF ListenerType
<1>3. TypeOK'
    BY <1>2 DEF IndexInv, TypeOK, ClientTypes, ServerTypes, SlotTypes, QueueTypes, ThreadTypes
<1> QED BY <1>2, <1>3, IndexKept, JoinsOver DEF IndexInv, TypeOK

LEMMA ListenerPopNothingKeeps ==
    ASSUME IndexInv, ListenerPopNothing
    PROVE  IndexInv'
<1> USE DEF ListenerPopNothing, clientVars, serverVars, slotVars, queueVars
<1>1. listener' \in ListenerType /\ listener'.pc \notin {"reset", "launch"}
    BY RoundEnds DEF IndexInv, TypeOK
<1>2. TypeOK'
    BY <1>1 DEF IndexInv, TypeOK, ClientTypes, ServerTypes, SlotTypes, QueueTypes, ThreadTypes
<1> QED BY <1>1, <1>2, IndexKept, JoinsOver DEF IndexInv, TypeOK

LEMMA ListenerRelayKeeps ==
    ASSUME IndexInv, ListenerRelay
    PROVE  IndexInv'
<1>0. ClientTypes /\ ServerTypes /\ ThreadTypes /\ SlotTypes /\ QueueTypes
    BY DEF IndexInv, TypeOK
<1>1. PICK m :
        /\ ListenerPops(m)
        /\ m.action \in {"INIT_DONE", "UNICAST_REPEATED"}
        /\ UNCHANGED send_queue \/ unicast_repeated(m.id, Notice(m))
        /\ listener' = Resume \/ Abandon
        /\ UNCHANGED <<clientVars, clients, accepted, init_state, done, closed, crashed,
                       slotVars, quit_typed, worker>>
    BY DEF ListenerRelay
<1>2. /\ m \in Messages
      /\ q_worker_to_listener # <<>>
      /\ q_worker_to_listener' = Tail(q_worker_to_listener)
      /\ QueueTypes'
    BY <1>0, <1>1, PoppedMessage DEF IndexInv
<1>3. Notice(m) \in Messages
    BY <1>1, <1>2 DEF Notice, Msg, Messages, Actions
<1>4. listener' \in ListenerType /\ listener'.pc \notin {"reset", "launch"}
    BY <1>0, <1>1, RoundEnds DEF Abandon
<1>5. ServerTypes'
  <2>1. send_queue' \in [Conn -> Seq(Messages)]
    <3>1. CASE UNCHANGED send_queue
        BY <1>0, <3>1 DEF ServerTypes
    <3>2. CASE unicast_repeated(m.id, Notice(m))
        BY <1>0, <1>3, <3>2, BroadcastType
    <3> QED BY <1>1, <3>1, <3>2
  <2> QED BY <1>0, <1>1, <2>1 DEF ServerTypes
<1>6. ClientTypes' /\ SlotTypes' /\ ThreadTypes'
    BY <1>0, <1>1, <1>4 DEF ClientTypes, SlotTypes, ThreadTypes, clientVars, slotVars
<1>7. LaunchIndexInBounds'
    BY <1>1, IndexKept DEF IndexInv, slotVars
<1>8. JoinsAreSound'
    BY <1>0, <1>2, <1>4, JoinsOver DEF IndexInv
<1> QED BY <1>2, <1>5, <1>6, <1>7, <1>8 DEF IndexInv, TypeOK

LEMMA ListenerSignalKeeps ==
    ASSUME IndexInv, ListenerSignal
    PROVE  IndexInv'
<1> USE DEF ListenerSignal, clientVars, serverVars, slotVars
<1>0. ClientTypes /\ ServerTypes /\ ThreadTypes /\ SlotTypes /\ QueueTypes
    BY DEF IndexInv, TypeOK
<1>1. listener' \in ListenerType /\ listener'.pc \notin {"reset", "launch"}
    BY <1>0, RoundEnds
<1>2. worker_evfd' \in [Conn -> BOOLEAN]
    BY <1>0, UpdateType DEF QueueTypes
<1>3. QueueTypes'
    BY <1>0, <1>2 DEF QueueTypes
<1>4. ClientTypes' /\ ServerTypes' /\ SlotTypes' /\ ThreadTypes'
    BY <1>0, <1>1 DEF ClientTypes, ServerTypes, SlotTypes, ThreadTypes
<1> QED BY <1>0, <1>1, <1>3, <1>4, IndexKept, JoinsOver DEF IndexInv, TypeOK

LEMMA ListenerStdinKeeps ==
    ASSUME IndexInv, ListenerStdin
    PROVE  IndexInv'
<1> USE DEF ListenerStdin, clientVars, slotVars
<1>0. ClientTypes /\ ServerTypes /\ ThreadTypes /\ SlotTypes /\ QueueTypes
    BY DEF IndexInv, TypeOK
<1> DEFINE m == Msg("SV_DISCONNECTED", None, 0)
<1>1. m \in Messages /\ m.action # "CL_DISCONNECTED"
  <2>1. m \in Messages
      BY MsgType DEF Actions, Ids
  <2> QED BY <2>1 DEF Msg
<1>2. listener' \in ListenerType /\ listener'.pc \notin {"reset", "launch"}
  <2>1. CASE listener' = [listener EXCEPT !.events = {"socket"}]
      BY <1>0, <2>1 DEF ListenerAt, ThreadTypes, ListenerType
  <2>2. CASE listener' = LoopHead(TRUE)
      BY <1>0, <2>2, RoundEnds
  <2> QED BY <2>1, <2>2
<1> HIDE DEF m
<1>3. \/ q_worker_to_listener' = q_worker_to_listener
      \/ q_worker_to_listener' = Append(q_worker_to_listener, m)
    BY DEF m
<1>4. q_worker_to_listener' \in Seq(Messages)
    BY <1>0, <1>1, <1>3 DEF QueueTypes
<1>5. QueueTypes'
    BY <1>0, <1>4 DEF QueueTypes
<1>6. ClientTypes' /\ ServerTypes' /\ SlotTypes' /\ ThreadTypes'
    BY <1>0, <1>2 DEF ClientTypes, ServerTypes, SlotTypes, ThreadTypes
<1>7. JoinsAreSound'
  <2>1. \A i \in DOMAIN q_worker_to_listener' :
          q_worker_to_listener'[i].action = "CL_DISCONNECTED" =>
              q_worker_to_listener'[i].n \in ThreadIdx
    <3> HIDE DEF ListenerStdin
    <3>1. CASE q_worker_to_listener' = q_worker_to_listener
        BY <3>1 DEF IndexInv, JoinsAreSound
    <3>2. CASE q_worker_to_listener' = Append(q_worker_to_listener, m)
        BY <1>0, <1>1, <3>2 DEF IndexInv, JoinsAreSound, QueueTypes
    <3> QED BY <1>3, <3>1, <3>2
  <2> QED BY <1>2, <2>1 DEF JoinsAreSound, ListenerAt
<1> QED BY <1>5, <1>6, <1>7, IndexKept DEF IndexInv, TypeOK

LEMMA DestroyKeeps ==
    ASSUME IndexInv, Destroy
    PROVE  IndexInv'
<1> USE DEF Destroy, CloseSockets, slotVars, queueVars
<1>1. net' \in [Conn -> NetStates]
    BY DEF IndexInv, TypeOK, ClientTypes, NetStates
<1>2. TypeOK'
    BY <1>1 DEF IndexInv, TypeOK, ClientTypes, ServerTypes, SlotTypes, QueueTypes, ThreadTypes
<1> QED BY <1>2, IndexKept, JoinsKept DEF IndexInv, TypeOK

\* The slots are numbered, so finitely many are occupied.
LEMMA OccupiedFinite ==
    /\ IsFiniteSet(Occupied)
    /\ Cardinality(Occupied) \in Nat
<1>1. IsFiniteSet(ThreadIdx)
    BY FS_Interval DEF ThreadIdx
<1>2. IsFiniteSet(Occupied)
    BY <1>1, FS_Subset DEF Occupied
<1> QED BY <1>2, FS_CardinalityType

\* Taking the slot nr_of_launched_threads keeps the count within the array.
LEMMA PlaceKeepsIndex ==
    ASSUME SlotTypes, LaunchIndexInBounds, NEW c \in Conn, NEW idx \in ThreadIdx,
           nr_of_launched_threads \in ThreadIdx, Place(c, idx)
    PROVE  /\ LaunchIndexInBounds'
           /\ worker_threads' \in [ThreadIdx -> Conn \cup {None}]
           /\ allocated' \in [ThreadIdx -> Nat]
           /\ nr_of_launched_threads' \in Int
<1> DEFINE i == nr_of_launched_threads
<1>1. /\ worker_threads' = [worker_threads EXCEPT ![i] = c]
      /\ allocated' = [allocated EXCEPT ![i] = IF idx = i THEN 1 ELSE 0]
      /\ nr_of_launched_threads' = i + 1
    BY DEF Place
<1>2. c # None /\ i \in Int /\ i < MAX_NR_OF_THREADS
    BY DEF Conn, ThreadIdx
<1>3. Occupied' = Occupied \cup {i}
    BY <1>1, <1>2 DEF Occupied, SlotTypes
<1>4. Cardinality(Occupied') <= Cardinality(Occupied) + 1 /\ Cardinality(Occupied') \in Nat
    BY <1>3, OccupiedFinite, FS_AddElement
<1>5. LaunchIndexInBounds'
  <2>1. Occupied' # {}
      BY <1>3
  <2>2. Cardinality(Occupied)' = Cardinality(Occupied')
      OBVIOUS
  <2> QED BY <1>1, <1>2, <1>4, <2>1, <2>2, OccupiedFinite DEF LaunchIndexInBounds
<1> QED BY <1>1, <1>2, <1>5 DEF SlotTypes

LEMMA ListenerLaunchKeeps ==
    ASSUME IndexInv, ~crashed, ListenerLaunch
    PROVE  IndexInv'
<1>0. ClientTypes /\ ServerTypes /\ ThreadTypes /\ SlotTypes /\ QueueTypes
    BY DEF IndexInv, TypeOK
<1>1. listener.for \in Conn /\ listener.at \in ThreadIdx /\ nr_of_launched_threads \in ThreadIdx
    BY <1>0 DEF IndexInv, JoinsAreSound, ListenerLaunch, ThreadTypes, ListenerType
<1>2. /\ LaunchIndexInBounds'
      /\ worker_threads' \in [ThreadIdx -> Conn \cup {None}]
      /\ allocated' \in [ThreadIdx -> Nat]
      /\ nr_of_launched_threads' \in Int
    BY <1>0, <1>1, PlaceKeepsIndex DEF IndexInv, ListenerLaunch
<1>3. /\ listener' = LoopHead(done)
      /\ UNCHANGED <<clientVars, serverVars, max_clients_per_thread, queueVars, quit_typed,
                     worker>>
    BY DEF ListenerLaunch, Place
<1>4. listener' \in ListenerType /\ listener'.pc \notin {"reset", "launch"}
    BY <1>0, <1>3, RoundEnds
<1>5. TypeOK'
    BY <1>0, <1>2, <1>3, <1>4 DEF TypeOK, ClientTypes, ServerTypes, SlotTypes, QueueTypes,
                                  ThreadTypes, clientVars, serverVars, queueVars
<1>6. JoinsAreSound'
    BY <1>0, <1>3, <1>4, JoinsOver DEF IndexInv, queueVars
<1> QED BY <1>2, <1>5, <1>6 DEF IndexInv

LEMMA ListenerResetKeeps ==
    ASSUME IndexInv, ListenerReset
    PROVE  IndexInv'
<1> DEFINE i == listener.at
<1>0. ClientTypes /\ ServerTypes /\ ThreadTypes /\ SlotTypes /\ QueueTypes
    BY DEF IndexInv, TypeOK
<1>1. i \in ThreadIdx /\ worker_threads[i] # None
    BY <1>0 DEF IndexInv, JoinsAreSound, ListenerReset, ThreadTypes, ListenerType
<1>2. /\ worker_threads' = [worker_threads EXCEPT ![i] = None]
      /\ allocated' = [allocated EXCEPT ![i] = 0]
      /\ nr_of_launched_threads' = nr_of_launched_threads - 1
      /\ max_clients_per_thread' = MaxAllocated(allocated')
      /\ listener' = Resume
      /\ UNCHANGED <<clientVars, serverVars, queueVars, quit_typed, worker>>
    BY DEF ListenerReset, ReleaseSlot
<1>3. listener' \in ListenerType /\ listener'.pc \notin {"reset", "launch"}
    BY <1>0, <1>2, RoundEnds
<1> HIDE DEF i
<1>4. allocated' \in [ThreadIdx -> Nat]
    BY <1>0, <1>2, UpdateType DEF SlotTypes
<1>5. max_clients_per_thread' \in Nat
    BY <1>2, <1>4, MaxAllocatedType
<1>6. SlotTypes'
    BY <1>0, <1>2, <1>4, <1>5 DEF SlotTypes
<1>7. ClientTypes' /\ ServerTypes' /\ QueueTypes' /\ ThreadTypes'
    BY <1>0, <1>2, <1>3 DEF ClientTypes, ServerTypes, QueueTypes, ThreadTypes,
                            clientVars, serverVars, queueVars
<1>8. LaunchIndexInBounds'
  <2>1. i \in Occupied /\ Occupied' = Occupied \ {i}
      BY <1>0, <1>1, <1>2 DEF Occupied, SlotTypes
  <2>2. Cardinality(Occupied') = Cardinality(Occupied) - 1
      BY <2>1, OccupiedFinite, FS_RemoveElement
  <2>3. Cardinality(Occupied)' = Cardinality(Occupied')
      OBVIOUS
  <2> QED BY <1>0, <1>2, <2>2, <2>3, OccupiedFinite
          DEF IndexInv, LaunchIndexInBounds, SlotTypes
<1>9. JoinsAreSound'
    BY <1>0, <1>2, <1>3, JoinsOver DEF IndexInv, queueVars
<1> QED BY <1>6, <1>7, <1>8, <1>9 DEF IndexInv, TypeOK

LEMMA ListenerDisconnectKeeps ==
    ASSUME IndexInv, ListenerDisconnect
    PROVE  IndexInv'
<1>0. ClientTypes /\ ServerTypes /\ ThreadTypes /\ SlotTypes /\ QueueTypes
    BY DEF IndexInv, TypeOK
<1>1. PICK m :
        /\ ListenerPops(m)
        /\ m.action = "CL_DISCONNECTED"
        /\ UNCHANGED <<net, clients>> \/ disconnect_client(m.id)
        /\ UNCHANGED send_queue \/ unicast_repeated(m.id, Msg("LEFT", m.id, 0))
        /\ \/ (listener' = Resume \/ Abandon) /\ UNCHANGED slotVars
           \/ CanLoseClient(m.n) /\ worker_client_disconnect(m.n)
        /\ UNCHANGED <<inbox, out, stage, said, accepted, init_state, done, closed,
                       crashed, quit_typed, worker>>
    BY DEF ListenerDisconnect
<1>2. /\ m \in Messages /\ m.n \in ThreadIdx
      /\ q_worker_to_listener # <<>>
      /\ q_worker_to_listener' = Tail(q_worker_to_listener)
      /\ QueueTypes'
    BY <1>0, <1>1, PoppedMessage DEF IndexInv
<1>3. Msg("LEFT", m.id, 0) \in Messages
  <2>1. m.id \in Ids /\ "LEFT" \in Actions
      BY <1>2 DEF Messages, Actions
  <2> QED BY <2>1, MsgType
<1>4. ServerTypes'
  <2>1. send_queue' \in [Conn -> Seq(Messages)]
    <3>1. CASE UNCHANGED send_queue
        BY <1>0, <3>1 DEF ServerTypes
    <3>2. CASE unicast_repeated(m.id, Msg("LEFT", m.id, 0))
        BY <1>0, <1>3, <3>2, BroadcastType
    <3> QED BY <1>1, <3>1, <3>2
  <2>2. clients' \in [TableIdx -> Conn \cup {None}]
      BY <1>0, <1>1 DEF ServerTypes, disconnect_client
  <2> QED BY <1>0, <1>1, <2>1, <2>2 DEF ServerTypes
<1>5. ClientTypes'
  <2>1. net' \in [Conn -> NetStates]
      BY <1>0, <1>1, UpdateType DEF ClientTypes, disconnect_client, NetStates
  <2> QED BY <1>0, <1>1, <2>1 DEF ClientTypes
<1>6. CASE (listener' = Resume \/ Abandon) /\ UNCHANGED slotVars
  <2>1. listener' \in ListenerType /\ listener'.pc \notin {"reset", "launch"}
      BY <1>0, <1>6, RoundEnds DEF Abandon
  <2>2. SlotTypes' /\ ThreadTypes'
      BY <1>0, <1>1, <1>6, <2>1 DEF SlotTypes, ThreadTypes, slotVars
  <2>3. LaunchIndexInBounds'
      BY <1>6, IndexKept DEF IndexInv, slotVars
  <2>4. JoinsAreSound'
      BY <1>0, <1>2, <2>1, JoinsOver DEF IndexInv
  <2> QED BY <1>2, <1>4, <1>5, <2>2, <2>3, <2>4 DEF IndexInv, TypeOK
<1>7. CASE CanLoseClient(m.n) /\ worker_client_disconnect(m.n)
  <2> DEFINE i == m.n
  <2>1. i \in ThreadIdx /\ worker_threads[i] # None /\ allocated[i] # 0
      BY <1>2, <1>7 DEF CanLoseClient
  <2>2. CASE allocated[i] = 1
    <3>1. /\ listener' = [listener EXCEPT !.pc = "reset", !.at = i, !.for = worker_threads[i]]
          /\ UNCHANGED slotVars
        BY <1>7, <2>2 DEF worker_client_disconnect
    <3> HIDE DEF i
    <3>2. worker_threads[i] \in Ids
        BY <1>0, <2>1 DEF SlotTypes, Ids
    <3>3. listener' \in ListenerType /\ listener'.pc = "reset" /\ listener'.at = i
        BY <1>0, <2>1, <3>1, <3>2 DEF ThreadTypes, ListenerType, ListenerPcs
    <3>4. SlotTypes' /\ ThreadTypes'
        BY <1>0, <1>1, <3>1, <3>3 DEF SlotTypes, ThreadTypes, slotVars
    <3>5. LaunchIndexInBounds'
        BY <3>1, IndexKept DEF IndexInv, slotVars
    <3>6. \A k \in DOMAIN q_worker_to_listener' :
              q_worker_to_listener'[k].action = "CL_DISCONNECTED" =>
                  q_worker_to_listener'[k].n \in ThreadIdx
      <4>1. \A k \in DOMAIN q_worker_to_listener' :
                /\ k + 1 \in DOMAIN q_worker_to_listener
                /\ q_worker_to_listener'[k] = q_worker_to_listener[k + 1]
          BY <1>0, <1>2 DEF QueueTypes
      <4> QED BY <4>1 DEF IndexInv, JoinsAreSound
    <3>7. JoinsAreSound'
        BY <2>1, <3>1, <3>3, <3>6 DEF JoinsAreSound, ListenerAt, slotVars
    <3> QED BY <1>2, <1>4, <1>5, <3>4, <3>5, <3>7 DEF IndexInv, TypeOK
  <2>3. CASE allocated[i] # 1
    <3>1. /\ listener' = Resume
          /\ allocated' = [allocated EXCEPT ![i] = @ - 1]
          /\ max_clients_per_thread' = MaxAllocated(allocated')
          /\ UNCHANGED <<worker_threads, nr_of_launched_threads>>
        BY <1>7, <2>3 DEF worker_client_disconnect
    <3> HIDE DEF i
    <3>2. allocated' \in [ThreadIdx -> Nat]
        BY <1>0, <2>1, <3>1 DEF SlotTypes
    <3>3. max_clients_per_thread' \in Nat
        BY <3>1, <3>2, MaxAllocatedType
    <3>4. listener' \in ListenerType /\ listener'.pc \notin {"reset", "launch"}
        BY <1>0, <3>1, RoundEnds
    <3>5. SlotTypes' /\ ThreadTypes'
        BY <1>0, <1>1, <3>1, <3>2, <3>3, <3>4 DEF SlotTypes, ThreadTypes
    <3>6. LaunchIndexInBounds'
        BY <3>1, IndexKept DEF IndexInv
    <3>7. JoinsAreSound'
        BY <1>0, <1>2, <3>4, JoinsOver DEF IndexInv
    <3> QED BY <1>2, <1>4, <1>5, <3>5, <3>6, <3>7 DEF IndexInv, TypeOK
  <2> QED BY <2>2, <2>3
<1> QED BY <1>1, <1>6, <1>7

\* accept_client keeps the types of what it touches.
LEMMA AcceptType ==
    ASSUME ClientTypes, ServerTypes, NEW c \in Conn, accept_client(c)
    PROVE  /\ net' \in [Conn -> NetStates]
           /\ clients' \in [TableIdx -> Conn \cup {None}]
           /\ accepted' \in Nat
<1>1. net' \in [Conn -> NetStates]
    BY DEF ClientTypes, accept_client, NetStates
<1>2. clients' \in [TableIdx -> Conn \cup {None}]
  <2>1. CASE UNCHANGED clients
      BY <2>1 DEF ServerTypes
  <2>2. CASE clients' = [clients EXCEPT ![Min(FreeSlots)] = c]
      BY <2>2, UpdateType DEF ServerTypes
  <2> QED BY <2>1, <2>2 DEF accept_client
<1>3. accepted' \in Nat
    BY DEF ServerTypes, accept_client
<1> QED BY <1>1, <1>2, <1>3

\* What process_new_client has to leave behind for the invariant: the slots and
\* their count, the queue to the workers, and the state of the threads.
NewClientPlaced ==
    /\ SlotTypes' /\ LaunchIndexInBounds'
    /\ q_listener_to_worker' \in Seq(Messages)
    /\ ThreadTypes'
    /\ done' \in BOOLEAN /\ crashed' \in BOOLEAN
    /\ listener'.pc # "reset"
    /\ (listener'.pc = "launch" /\ ~crashed') =>
          /\ nr_of_launched_threads' \in ThreadIdx
          /\ worker_threads'[nr_of_launched_threads'] # None
          /\ listener'.for \in Conn

\* The client is given to the worker of an occupied slot.
LEMMA AssignKeeps ==
    ASSUME TypeOK, LaunchIndexInBounds, NEW i \in Occupied, NEW c \in Conn \cup {Ghost},
           assign_client_to_worker(i, c), max_clients_per_thread' \in Nat
    PROVE  NewClientPlaced
<1>0. ServerTypes /\ ThreadTypes /\ SlotTypes /\ QueueTypes
    BY DEF TypeOK
<1>1. /\ allocated' = [allocated EXCEPT ![i] = @ + 1]
      /\ UNCHANGED <<worker_threads, nr_of_launched_threads, worker, crashed>>
    BY DEF assign_client_to_worker
<1>2. i \in ThreadIdx /\ i \in Nat
    BY DEF Occupied, ThreadIdx
<1>3. SlotTypes'
    BY <1>0, <1>1, <1>2 DEF SlotTypes
<1>4. LaunchIndexInBounds'
    BY <1>1, IndexKept
<1>5. /\ q_listener_to_worker' \in Seq(Messages)
      /\ done' \in BOOLEAN
      /\ listener' \in ListenerType /\ listener'.pc \notin {"reset", "launch"}
  <2>1. CASE Len(q_listener_to_worker) < QUEUE_SIZE
    <3>1. /\ q_listener_to_worker' = Append(q_listener_to_worker, Msg("ACCEPT", c, i))
          /\ listener' = [AtWait EXCEPT !.pc = "assign", !.for = worker_threads[i]]
          /\ UNCHANGED done
        BY <2>1 DEF assign_client_to_worker
    <3>2. "ACCEPT" \in Actions /\ c \in Ids
        BY DEF Actions, Ids
    <3>3. Msg("ACCEPT", c, i) \in Messages
        BY <1>2, <3>2, MsgType
    <3>4. q_listener_to_worker' \in Seq(Messages)
        BY <1>0, <3>1, <3>3 DEF QueueTypes
    <3>5. worker_threads[i] \in Ids
        BY <1>0, <1>2 DEF SlotTypes, Ids
    <3>6. listener' \in ListenerType /\ listener'.pc \notin {"reset", "launch"}
      <4>1. AtWait \in ListenerType
          BY StartTypes
      <4> QED BY <3>1, <3>5, <4>1 DEF ListenerType, ListenerPcs
    <3> QED BY <1>0, <3>1, <3>4, <3>6 DEF ServerTypes
  <2>2. CASE ~(Len(q_listener_to_worker) < QUEUE_SIZE)
    <3>1. Abandon /\ done' = TRUE /\ UNCHANGED q_listener_to_worker
        BY <2>2 DEF assign_client_to_worker
    <3> QED BY <1>0, <3>1, RoundEnds DEF Abandon, QueueTypes
  <2> QED BY <2>1, <2>2
<1>6. ThreadTypes' /\ crashed' \in BOOLEAN
    BY <1>0, <1>1, <1>5 DEF ThreadTypes, ServerTypes
<1> QED BY <1>3, <1>4, <1>5, <1>6 DEF NewClientPlaced

\* The client gets a worker of its own: at once if the slot is free, or after the
\* join of the thread that is in it.
LEMMA EmplaceKeeps ==
    ASSUME TypeOK, LaunchIndexInBounds, NEW idx \in ThreadIdx, NEW c \in Conn \cup {Ghost},
           nr_of_launched_threads \in ThreadIdx, emplace_new_worker(c, idx)
    PROVE  NewClientPlaced
<1>0. ServerTypes /\ ThreadTypes /\ SlotTypes /\ QueueTypes
    BY DEF TypeOK
<1>1. /\ crashed' = (c = Ghost)
      /\ worker' = IF c = Ghost THEN worker
                   ELSE [worker EXCEPT ![c] = [NoWorker EXCEPT !.pc = "start", !.idx = idx,
                                                               !.own = {c}]]
      /\ UNCHANGED <<max_clients_per_thread, q_listener_to_worker, done>>
    BY DEF emplace_new_worker
<1>2. crashed' \in BOOLEAN /\ done' \in BOOLEAN /\ q_listener_to_worker' \in Seq(Messages)
    BY <1>0, <1>1 DEF ServerTypes, QueueTypes
<1>3. worker' \in [Conn -> WorkerType]
  <2>1. CASE c = Ghost
      BY <1>0, <1>1, <2>1 DEF ThreadTypes
  <2>2. CASE c # Ghost
    <3> DEFINE r == [NoWorker EXCEPT !.pc = "start", !.idx = idx, !.own = {c}]
    <3>1. c \in Conn
        BY <2>2
    <3>2. NoWorker \in WorkerType
        BY StartTypes
    <3>3. r \in WorkerType
        BY <3>1, <3>2 DEF WorkerType, WorkerPcs
    <3>4. worker' = [worker EXCEPT ![c] = r]
        BY <1>1, <2>2
    <3> HIDE DEF r
    <3> QED BY <1>0, <3>3, <3>4, UpdateType DEF ThreadTypes
  <2> QED BY <2>1, <2>2
<1>4. CASE worker_threads[nr_of_launched_threads] = None /\ c # Ghost
  <2>1. Place(c, idx) /\ c \in Conn
      BY <1>4 DEF emplace_new_worker
  <2>2. /\ LaunchIndexInBounds'
        /\ worker_threads' \in [ThreadIdx -> Conn \cup {None}]
        /\ allocated' \in [ThreadIdx -> Nat]
        /\ nr_of_launched_threads' \in Int
      BY <1>0, <2>1, PlaceKeepsIndex
  <2>3. SlotTypes'
      BY <1>0, <1>1, <2>2 DEF SlotTypes
  <2>4. listener' \in ListenerType /\ listener'.pc \notin {"reset", "launch"}
      BY <1>0, <2>1, RoundEnds DEF Place
  <2> QED BY <1>2, <1>3, <2>2, <2>3, <2>4 DEF NewClientPlaced, ThreadTypes
<1>5. CASE ~(worker_threads[nr_of_launched_threads] = None /\ c # Ghost)
  <2>1. /\ listener' = [AtWait EXCEPT !.pc = "launch", !.at = idx, !.for = c]
        /\ UNCHANGED <<worker_threads, allocated, nr_of_launched_threads>>
      BY <1>5 DEF emplace_new_worker
  <2>2. SlotTypes' /\ LaunchIndexInBounds'
      BY <1>0, <1>1, <2>1, IndexKept DEF SlotTypes
  <2>3. listener' \in ListenerType /\ listener'.pc = "launch" /\ listener'.for = c
      BY <2>1 DEF ListenerType, ListenerPcs, AtWait, Ids
  <2>4. ~crashed' => /\ nr_of_launched_threads' \in ThreadIdx
                     /\ worker_threads'[nr_of_launched_threads'] # None
                     /\ listener'.for \in Conn
      BY <1>1, <1>5, <2>1, <2>3
  <2> QED BY <1>2, <1>3, <2>2, <2>3, <2>4 DEF NewClientPlaced, ThreadTypes
<1> QED BY <1>4, <1>5

\* process_new_client finds a slot of the array for every client.
LEMMA NewClientKeeps ==
    ASSUME TypeOK, LaunchIndexInBounds, ~crashed, NEW c \in Conn \cup {Ghost},
           process_new_client(c)
    PROVE  NewClientPlaced
<1>0. ServerTypes /\ ThreadTypes /\ SlotTypes /\ QueueTypes
    BY DEF TypeOK
<1>1. Cardinality(Occupied) \in Nat /\ nr_of_launched_threads \in Nat
    BY <1>0, OccupiedFinite DEF LaunchIndexInBounds, SlotTypes
<1>2. CASE nr_of_launched_threads = 0 \/ Occupied = {}
  <2>1. nr_of_launched_threads \in ThreadIdx /\ 0 \in ThreadIdx
      BY <1>1, <1>2 DEF LaunchIndexInBounds, ThreadIdx
  <2>2. emplace_new_worker(c, 0)
      BY <1>2 DEF process_new_client
  <2> QED BY <2>1, <2>2, EmplaceKeeps
<1>3. CASE ~(nr_of_launched_threads = 0 \/ Occupied = {})
  <2>1. MinIdx \in Occupied
      BY <1>0, <1>3, MinIdxType
  <2>2. CASE allocated[MinIdx] < max_clients_per_thread
    <3>1. assign_client_to_worker(MinIdx, c) /\ UNCHANGED max_clients_per_thread
        BY <1>3, <2>2 DEF process_new_client
    <3>2. max_clients_per_thread' \in Nat
        BY <1>0, <3>1 DEF SlotTypes
    <3> QED BY <2>1, <3>1, <3>2, AssignKeeps
  <2>3. CASE /\ ~(allocated[MinIdx] < max_clients_per_thread)
             /\ nr_of_launched_threads < MAX_NR_OF_THREADS
    <3>1. nr_of_launched_threads \in ThreadIdx
        BY <1>1, <2>3 DEF ThreadIdx
    <3>2. emplace_new_worker(c, nr_of_launched_threads)
        BY <1>3, <2>3 DEF process_new_client
    <3> QED BY <3>1, <3>2, EmplaceKeeps
  <2>4. CASE /\ ~(allocated[MinIdx] < max_clients_per_thread)
             /\ ~(nr_of_launched_threads < MAX_NR_OF_THREADS)
    <3>1. /\ max_clients_per_thread' = max_clients_per_thread + 1
          /\ \/ /\ listener' = LoopHead(done)
                /\ UNCHANGED <<worker_threads, allocated, nr_of_launched_threads,
                               q_listener_to_worker, worker, crashed, done>>
             \/ assign_client_to_worker(MinIdx, c)
        BY <1>3, <2>4 DEF process_new_client
    <3>2. max_clients_per_thread' \in Nat
        BY <1>0, <3>1 DEF SlotTypes
    <3>3. CASE assign_client_to_worker(MinIdx, c)
        BY <2>1, <3>2, <3>3, AssignKeeps
    <3>4. CASE /\ listener' = LoopHead(done)
               /\ UNCHANGED <<worker_threads, allocated, nr_of_launched_threads,
                              q_listener_to_worker, worker, crashed, done>>
      <4>1. listener' \in ListenerType /\ listener'.pc \notin {"reset", "launch"}
          BY <1>0, <3>4, RoundEnds
      <4>2. SlotTypes' /\ LaunchIndexInBounds'
          BY <1>0, <3>2, <3>4, IndexKept DEF SlotTypes
      <4>3. ThreadTypes' /\ q_listener_to_worker' \in Seq(Messages)
          BY <1>0, <3>4, <4>1 DEF ThreadTypes, QueueTypes
      <4>4. done' \in BOOLEAN /\ crashed' \in BOOLEAN
          BY <1>0, <3>4 DEF ServerTypes
      <4> QED BY <4>1, <4>2, <4>3, <4>4 DEF NewClientPlaced
    <3> QED BY <3>1, <3>3, <3>4
  <2> QED BY <2>2, <2>3, <2>4
<1> QED BY <1>2, <1>3

LEMMA ListenerAcceptKeeps ==
    ASSUME IndexInv, ~crashed, ListenerAccept
    PROVE  IndexInv'
<1>0. ClientTypes /\ ServerTypes /\ ThreadTypes /\ SlotTypes /\ QueueTypes
    BY DEF IndexInv, TypeOK
<1>1. PICK c \in Conn : /\ accept_client(c)
                        /\ process_new_client(IF FreeSlots = {} THEN Ghost ELSE c)
    BY DEF ListenerAccept
<1>2. UNCHANGED <<inbox, out, stage, said, init_state, send_queue, closed,
                  q_worker_to_listener, evfd, worker_evfd, quit_typed>>
    BY DEF ListenerAccept
<1>3. NewClientPlaced
  <2>1. (IF FreeSlots = {} THEN Ghost ELSE c) \in Conn \cup {Ghost}
      OBVIOUS
  <2> QED BY <1>1, <2>1, NewClientKeeps DEF IndexInv
<1>4. /\ net' \in [Conn -> NetStates]
      /\ clients' \in [TableIdx -> Conn \cup {None}]
      /\ accepted' \in Nat
    BY <1>0, <1>1, AcceptType
<1>5. ClientTypes' /\ ServerTypes'
    BY <1>0, <1>2, <1>3, <1>4 DEF ClientTypes, ServerTypes, NewClientPlaced
<1>6. QueueTypes'
    BY <1>0, <1>2, <1>3 DEF QueueTypes, NewClientPlaced
<1>7. JoinsAreSound'
    BY <1>2, <1>3 DEF IndexInv, JoinsAreSound, ListenerAt, NewClientPlaced
<1> QED BY <1>3, <1>5, <1>6, <1>7 DEF IndexInv, TypeOK, NewClientPlaced

LEMMA ListenerAcceptFailsKeeps ==
    ASSUME IndexInv, ListenerAcceptFails
    PROVE  IndexInv'
<1>0. ClientTypes /\ ServerTypes /\ ThreadTypes /\ SlotTypes /\ QueueTypes
    BY DEF IndexInv, TypeOK
<1>1. /\ done' = TRUE /\ Abandon /\ accept_client_fails
      /\ UNCHANGED <<inbox, out, stage, said, init_state, send_queue, closed, crashed,
                     slotVars, queueVars, quit_typed, worker>>
    BY DEF ListenerAcceptFails
<1>2. listener' \in ListenerType /\ listener'.pc \notin {"reset", "launch"}
    BY <1>0, <1>1, RoundEnds DEF Abandon
<1>3. ThreadTypes' /\ SlotTypes' /\ QueueTypes'
    BY <1>0, <1>1, <1>2 DEF ThreadTypes, SlotTypes, QueueTypes, slotVars, queueVars
<1>4. ClientTypes' /\ ServerTypes'
    BY <1>0, <1>1 DEF ClientTypes, ServerTypes, NetStates, accept_client_fails
<1>5. LaunchIndexInBounds' /\ JoinsAreSound'
    BY <1>0, <1>1, <1>2, IndexKept, JoinsOver DEF IndexInv, slotVars, queueVars
<1> QED BY <1>3, <1>4, <1>5 DEF IndexInv, TypeOK

\* Every step of the listener keeps the invariant.
LEMMA ListenerKeeps ==
    ASSUME IndexInv, ~crashed, Listener
    PROVE  IndexInv'
<1> QED BY ListenerWakeKeeps, ListenerPopNothingKeeps, ListenerRelayKeeps,
           ListenerDisconnectKeeps, ListenerResetKeeps, ListenerStdinKeeps,
           ListenerAcceptKeeps, ListenerAcceptFailsKeeps, ListenerSignalKeeps,
           ListenerLaunchKeeps, DestroyKeeps
        DEF Listener

------------------------------------------------------------------------------
(* The theorems *)

\* The server starts in a state of the invariant.
LEMMA InitEstablishes ==
    ASSUME Init
    PROVE  IndexInv
<1> USE DEF Init, ClientsInit, ServerInit
<1>1. ClientTypes
    BY DEF ClientTypes, NetStates, Stages
<1>2. ServerTypes
  <2>1. clients \in [TableIdx -> Conn \cup {None}] /\ accepted \in Nat
      OBVIOUS
  <2>2. init_state \in [Conn -> DISCONNECT_STATE .. INIT_DONE]
      BY DEF DISCONNECT_STATE, INITIAL_STATE, INIT_DONE
  <2>3. send_queue \in [Conn -> Seq(Messages)]
      OBVIOUS
  <2>4. done \in BOOLEAN /\ closed \in BOOLEAN /\ crashed \in BOOLEAN
      OBVIOUS
  <2> QED BY <2>1, <2>2, <2>3, <2>4 DEF ServerTypes
<1>3. SlotTypes /\ QueueTypes
  <2>1. SlotTypes
      BY DEF SlotTypes
  <2>2. worker_evfd \in [Conn -> BOOLEAN] /\ evfd \in BOOLEAN /\ quit_typed \in BOOLEAN
      OBVIOUS
  <2>3. q_worker_to_listener \in Seq(Messages) /\ q_listener_to_worker \in Seq(Messages)
      OBVIOUS
  <2> QED BY <2>1, <2>2, <2>3 DEF QueueTypes
<1>4. ThreadTypes
    BY StartTypes DEF ThreadTypes
<1>5. LaunchIndexInBounds
  <2>1. Occupied = {}
      BY DEF Occupied
  <2> QED BY <2>1, FS_EmptySet DEF LaunchIndexInBounds
<1>6. JoinsAreSound
    BY DEF JoinsAreSound, ListenerAt, AtWait
<1> QED BY <1>1, <1>2, <1>3, <1>4, <1>5, <1>6 DEF IndexInv, TypeOK

\* Every step of the server, its clients and its operator keeps the invariant.
LEMMA NextKeeps ==
    ASSUME IndexInv, [Next]_vars
    PROVE  IndexInv'
<1>1. CASE Next
    BY <1>1, ListenerKeeps, WorkerKeeps, ClientStepsKeep, AdminQuitKeeps DEF Next
<1>2. CASE UNCHANGED vars
  <2> USE <1>2 DEF vars, clientVars, serverVars, slotVars, queueVars
  <2>1. TypeOK'
      BY DEF IndexInv, TypeOK, ClientTypes, ServerTypes, SlotTypes, QueueTypes, ThreadTypes
  <2> QED BY <2>1, IndexKept, JoinsKept DEF IndexInv, TypeOK
<1> QED BY <1>1, <1>2

\* The invariant holds in every reachable state.
THEOREM IndexInvariant == Spec => []IndexInv
<1> QED BY InitEstablishes, NextKeeps, PTL DEF Spec

\* Every variable of the server keeps its type: no client count is decremented
\* below zero, and worker_client_disconnect and emplace_new_worker are called
\* with indexes of the array worker_threads.
THEOREM ServerTypeCorrect == Spec => []TypeOK
<1>1. IndexInv => TypeOK
    BY DEF IndexInv
<1> QED BY <1>1, IndexInvariant, PTL

\* nr_of_launched_threads, the index at which emplace_new_worker writes, covers the
\* occupied slots and stays within worker_threads, in whatever order clients
\* connect and disconnect, and for any array size.
THEOREM LaunchIndexStaysInBounds == Spec => []LaunchIndexInBounds
<1>1. IndexInv => LaunchIndexInBounds
    BY DEF IndexInv
<1> QED BY <1>1, IndexInvariant, PTL

\* The listener only ever joins a thread that exists: CL_DISCONNECTED names a slot
\* of the array, and the slot of a join it waits in is occupied.
THEOREM ListenerJoinsAreSound == Spec => []JoinsAreSound
<1>1. IndexInv => JoinsAreSound
    BY DEF IndexInv
<1> QED BY <1>1, IndexInvariant, PTL
==============================================================================
