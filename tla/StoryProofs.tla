----------------------------- MODULE StoryProofs -----------------------------
(***************************************************************************)
(* Proofs about what the server tells a client, for any number of threads, *)
(* connections and lines and any queue size.                               *)
(*                                                                         *)
(* The handshake comes first: worker_loop answers INIT_REQ, then greets,   *)
(* and only then drains the client's send_queue, into which the listener   *)
(* may have put notices at any moment since the client was accepted.       *)
(*                                                                         *)
(* What a client is told about another one comes in the order it happened. *)
(* A piece of news passes through the queue to the listener, is put on the *)
(* send_queue of each client, and is sent by that client's worker; the     *)
(* invariant says that along this way the news of one client is in order,  *)
(* and that what the client does next will be later news.                  *)
(***************************************************************************)
EXTENDS CustodyProofs

------------------------------------------------------------------------------
(* The handshake *)

\* begins with the reply and the greeting, as far as it goes
Shaped(s) == \A i \in DOMAIN s : /\ i = 1 <=> s[i].action = "INIT_REQ"
                                 /\ i = 2 <=> s[i].action = "HELLO"

\* holds no part of the handshake
Plain(s) == \A i \in DOMAIN s : s[i].action \notin {"INIT_REQ", "HELLO"}

\* the connection is up: once the peer has gone init_state still moves on, but
\* nothing is sent any more
Linked(c) == net[c] \in {"none", "open"}

\* how much of the handshake was sent to a client in state st
AsFarAs(s, st) ==
    /\ st \in {INITIAL_STATE, REQUESTED_INIT} => s = <<>>
    /\ st = SENT_INIT_CONFIRMATION => Len(s) = 1
    /\ st = INIT_DONE => Len(s) >= 2

\* the inductive invariant
HandshakeInv ==
    \A c \in Conn : /\ Shaped(out[c])
                    /\ Plain(send_queue[c])
                    /\ Linked(c) => AsFarAs(out[c], init_state[c])

------------------------------------------------------------------------------
(* The handshake: sequences of messages *)

\* The reply to INIT_REQ is what a client receives first.
LEMMA ReplyFirst ==
    ASSUME NEW c, NEW s, s = <<Msg("INIT_REQ", c, 0)>>
    PROVE  Shaped(s) /\ Len(s) = 1
<1> QED BY DEF Shaped, Msg

\* The elements of a concatenation.
LEMMA ConcatElements ==
    ASSUME NEW s \in Seq(Messages), NEW t \in Seq(Messages)
    PROVE  /\ Len(s \o t) = Len(s) + Len(t)
           /\ DOMAIN (s \o t) = 1 .. Len(s) + Len(t)
           /\ \A i \in 1 .. Len(s) : (s \o t)[i] = s[i]
           /\ \A i \in Len(s) + 1 .. Len(s) + Len(t) : (s \o t)[i] = t[i - Len(s)]
<1> QED OBVIOUS

\* The greeting follows the reply.
LEMMA GreetingSecond ==
    ASSUME NEW s \in Seq(Messages), NEW t \in Seq(Messages), Shaped(s), Len(s) = 1,
           Len(t) = 1, t[1].action = "HELLO"
    PROVE  Shaped(s \o t) /\ Len(s \o t) >= 2
<1> DEFINE r == s \o t
<1>1. /\ Len(r) = Len(s) + Len(t)
      /\ DOMAIN r = 1 .. Len(s) + Len(t)
      /\ \A i \in 1 .. Len(s) : r[i] = s[i]
      /\ \A i \in Len(s) + 1 .. Len(s) + Len(t) : r[i] = t[i - Len(s)]
    BY ConcatElements
<1> HIDE DEF r
<1>2. Len(r) >= 2 /\ DOMAIN r = 1 .. 2 /\ r[1] = s[1] /\ r[2] = t[1]
    BY <1>1
<1>3. s[1].action = "INIT_REQ"
    BY DEF Shaped
<1>4. Shaped(r)
    BY <1>2, <1>3 DEF Shaped
<1> QED BY <1>2, <1>4 DEF r

\* Notices may follow the handshake.
LEMMA NoticesAfter ==
    ASSUME NEW s \in Seq(Messages), NEW t \in Seq(Messages), Shaped(s), Len(s) >= 2, Plain(t)
    PROVE  Shaped(s \o t) /\ Len(s \o t) >= 2
<1>1. /\ Len(s \o t) >= 2
      /\ \A i \in DOMAIN (s \o t) : \/ i \in DOMAIN s /\ (s \o t)[i] = s[i]
                                    \/ /\ i > 2
                                       /\ i - Len(s) \in DOMAIN t
                                       /\ (s \o t)[i] = t[i - Len(s)]
    OBVIOUS
<1> QED BY <1>1 DEF Shaped, Plain

\* A notice is put behind others.
LEMMA NoticeQueued ==
    ASSUME NEW s \in Seq(Messages), NEW m \in Messages, Plain(s),
           m.action \notin {"INIT_REQ", "HELLO"}
    PROVE  Plain(Append(s, m))
<1> QED BY DEF Plain

\* With nothing to send, nothing changes.
LEMMA NothingAfter ==
    ASSUME NEW s \in Seq(Messages)
    PROVE  s \o <<>> = s /\ <<>> \o s = s
<1> QED OBVIOUS

------------------------------------------------------------------------------
(* The handshake: facts used for several actions *)

\* The client a worker's loop is at is one of those it found ready.
LEMMA CurrentIsTodo ==
    ASSUME ThreadTypes, NEW w \in Conn, worker[w].todo # {}
    PROVE  Current(w) \in worker[w].todo /\ Current(w) \in Conn
<1>1. worker[w].todo \in SUBSET Conn
    BY DEF ThreadTypes, WorkerType
<1>2. worker[w].todo \in SUBSET Nat
    BY <1>1 DEF Conn
<1> QED BY <1>1, <1>2, MinIsLeast DEF Current

\* A connection that went down stays down, and nothing else of the handshake changes.
LEMMA HandshakeKept ==
    ASSUME HandshakeInv, UNCHANGED <<out, init_state, send_queue>>,
           \A c \in Conn : Linked(c)' => Linked(c)
    PROVE  HandshakeInv'
<1> QED BY DEF HandshakeInv

\* A step for one client c.
LEMMA HandshakeAdvances ==
    ASSUME HandshakeInv, NEW c \in Conn,
           \A d \in Conn : Linked(d)' => Linked(d),
           \A d \in Conn \ {c} : /\ out'[d] = out[d]
                                 /\ init_state'[d] = init_state[d]
                                 /\ send_queue'[d] = send_queue[d],
           Shaped(out'[c]), Plain(send_queue'[c]),
           Linked(c)' => AsFarAs(out'[c], init_state'[c])
    PROVE  HandshakeInv'
<1> SUFFICES ASSUME NEW d \in Conn
             PROVE  /\ Shaped(out'[d])
                    /\ Plain(send_queue'[d])
                    /\ Linked(d)' => AsFarAs(out'[d], init_state'[d])
    BY DEF HandshakeInv
<1>1. CASE d = c
    BY <1>1
<1>2. CASE d # c
    BY <1>2 DEF HandshakeInv
<1> QED BY <1>1, <1>2

\* A broadcast of something that is no part of the handshake.
LEMMA BroadcastKeepsHandshake ==
    ASSUME HandshakeInv, ServerTypes, UNCHANGED <<out, init_state>>,
           \A c \in Conn : Linked(c)' => Linked(c),
           NEW id, NEW m \in Messages, m.action \notin {"INIT_REQ", "HELLO"},
           unicast_repeated(id, m)
    PROVE  HandshakeInv'
<1>1. ASSUME NEW c \in Conn
      PROVE  Plain(send_queue'[c])
  <2>1. send_queue[c] \in Seq(Messages) /\ Plain(send_queue[c])
      BY DEF ServerTypes, HandshakeInv
  <2>2. Plain(Append(send_queue[c], m))
      BY <2>1, NoticeQueued
  <2>3. send_queue'[c] \in {send_queue[c], Append(send_queue[c], m)}
      BY DEF unicast_repeated
  <2> QED BY <2>1, <2>2, <2>3
<1> QED BY <1>1 DEF HandshakeInv

\* What is sent to a client follows what was sent before, or the peer is gone.
LEMMA SendEffect ==
    ASSUME ClientTypes, NEW c \in Conn, NEW ms \in Seq(Messages), SendSucceeds(c, ms)
    PROVE  /\ \A d \in Conn : Linked(d)' => Linked(d)
           /\ \A d \in Conn \ {c} : out'[d] = out[d]
           /\ \/ out'[c] = out[c] /\ (ms = <<>> \/ ~Linked(c)')
              \/ out'[c] = out[c] \o ms /\ Linked(c)'
<1> USE DEF ClientTypes, Linked
<1>1. CASE ms = <<>> /\ UNCHANGED <<net, out>>
    BY <1>1
<1>2. CASE ms # <<>> /\ net[c] = "open" /\ out' = [out EXCEPT ![c] = @ \o ms] /\ UNCHANGED net
    BY <1>2
<1>3. CASE /\ net[c] = "fin"
           /\ \E how \in {"fin", "finrst"} : net' = [net EXCEPT ![c] = how]
           /\ UNCHANGED out
    BY <1>3
<1> QED BY <1>1, <1>2, <1>3 DEF SendSucceeds

------------------------------------------------------------------------------
(* The handshake: the workers *)

\* The states of Client_Data are five numbers.
LEMMA StatesDiffer ==
    /\ DISCONNECT_STATE = -1 /\ INITIAL_STATE = 0 /\ REQUESTED_INIT = 1
    /\ SENT_INIT_CONFIRMATION = 2 /\ INIT_DONE = 3
<1> QED BY DEF DISCONNECT_STATE, INITIAL_STATE, REQUESTED_INIT, SENT_INIT_CONFIRMATION, INIT_DONE

\* The end of a connection leaves its handshake behind.
LEMMA WorkerRecvEndHandshake ==
    ASSUME TypeOK, HandshakeInv, NEW w \in Conn, WorkerRecvEnd(w)
    PROVE  HandshakeInv'
<1>1. PICK c \in Conn : c = Current(w)
    BY CurrentIsTodo DEF TypeOK, WorkerRecvEnd
<1>2. /\ init_state' = [init_state EXCEPT ![c] = DISCONNECT_STATE]
      /\ UNCHANGED <<net, out, send_queue>>
    BY <1>1 DEF WorkerRecvEnd, clientVars
<1>3. init_state'[c] = DISCONNECT_STATE /\ \A d \in Conn \ {c} : init_state'[d] = init_state[d]
    BY <1>2 DEF TypeOK, ServerTypes
<1>4. Shaped(out'[c]) /\ Plain(send_queue'[c])
    BY <1>2 DEF HandshakeInv
<1>5. AsFarAs(out'[c], init_state'[c])
    BY <1>3, StatesDiffer DEF AsFarAs
<1> QED BY <1>2, <1>3, <1>4, <1>5, HandshakeAdvances DEF Linked

\* EPOLLOUT: the reply is the first thing sent; the queue is drained once the
\* greeting was sent, and not before.
LEMMA WorkerSendHandshake ==
    ASSUME TypeOK, HandshakeInv, NEW w \in Conn, WorkerSend(w)
    PROVE  HandshakeInv'
<1>0. ClientTypes /\ ServerTypes /\ ThreadTypes
    BY DEF TypeOK
<1>1. PICK c \in Conn : c = Current(w)
    BY <1>0, CurrentIsTodo DEF WorkerSend
<1> DEFINE ms == Output(c)
<1>2. /\ SendSucceeds(c, ms)
      /\ init_state' = [init_state EXCEPT ![c] =
                            IF @ = REQUESTED_INIT THEN SENT_INIT_CONFIRMATION ELSE @]
      /\ send_queue' = [send_queue EXCEPT ![c] = IF init_state[c] = INIT_DONE THEN <<>> ELSE @]
    BY <1>1 DEF WorkerSend
<1>3. /\ out[c] \in Seq(Messages) /\ send_queue[c] \in Seq(Messages)
      /\ Shaped(out[c]) /\ Plain(send_queue[c])
      /\ Linked(c) => AsFarAs(out[c], init_state[c])
    BY <1>0 DEF ClientTypes, ServerTypes, HandshakeInv
<1>4. Msg("INIT_REQ", c, 0) \in Messages
    BY MsgType DEF Ids, Actions
<1>5. ms \in Seq(Messages)
    BY <1>3, <1>4 DEF Output
<1>6. /\ \A d \in Conn : Linked(d)' => Linked(d)
      /\ \A d \in Conn \ {c} : out'[d] = out[d]
      /\ \/ out'[c] = out[c] /\ (ms = <<>> \/ ~Linked(c)')
         \/ out'[c] = out[c] \o ms /\ Linked(c)'
    BY <1>0, <1>2, <1>5, SendEffect
<1>7. /\ init_state'[c] = IF init_state[c] = REQUESTED_INIT THEN SENT_INIT_CONFIRMATION
                          ELSE init_state[c]
      /\ send_queue'[c] = IF init_state[c] = INIT_DONE THEN <<>> ELSE send_queue[c]
      /\ \A d \in Conn \ {c} : init_state'[d] = init_state[d] /\ send_queue'[d] = send_queue[d]
    BY <1>0, <1>2 DEF ServerTypes
<1>8. ms = IF init_state[c] = REQUESTED_INIT THEN <<Msg("INIT_REQ", c, 0)>>
           ELSE IF init_state[c] = INIT_DONE THEN send_queue[c] ELSE <<>>
    BY DEF Output
<1> HIDE DEF ms
<1>9. Shaped(out'[c]) /\ (Linked(c)' => AsFarAs(out'[c], init_state'[c]))
  <2>1. CASE out'[c] = out[c] /\ ~Linked(c)'
      BY <1>3, <2>1
  <2>2. CASE out'[c] = out[c] /\ ms = <<>> /\ Linked(c)'
    <3>1. init_state[c] # REQUESTED_INIT
        BY <1>8, <2>2
    <3> QED BY <1>3, <1>6, <1>7, <2>2, <3>1
  <2>3. CASE out'[c] = out[c] \o ms /\ Linked(c)'
    <3>1. AsFarAs(out[c], init_state[c])
        BY <1>3, <1>6, <2>3
    <3>2. CASE init_state[c] = REQUESTED_INIT
      <4>1. out[c] = <<>> /\ ms = <<Msg("INIT_REQ", c, 0)>>
          BY <1>8, <3>1, <3>2 DEF AsFarAs
      <4>2. out'[c] = <<Msg("INIT_REQ", c, 0)>>
          BY <1>5, <2>3, <4>1, NothingAfter
      <4>3. Shaped(out'[c]) /\ Len(out'[c]) = 1
          BY <4>2, ReplyFirst
      <4> QED BY <1>7, <3>2, <4>3, StatesDiffer DEF AsFarAs
    <3>3. CASE init_state[c] = INIT_DONE
      <4>1. ms = send_queue[c] /\ Len(out[c]) >= 2
          BY <1>8, <3>1, <3>3, StatesDiffer DEF AsFarAs
      <4>2. Shaped(out'[c]) /\ Len(out'[c]) >= 2
          BY <1>3, <2>3, <4>1, NoticesAfter
      <4> QED BY <1>7, <3>3, <4>2, StatesDiffer DEF AsFarAs
    <3>4. CASE init_state[c] \notin {REQUESTED_INIT, INIT_DONE}
      <4>1. out'[c] = out[c]
          BY <1>3, <1>8, <2>3, <3>4, NothingAfter
      <4> QED BY <1>3, <1>7, <3>1, <3>4, <4>1
    <3> QED BY <3>2, <3>3, <3>4
  <2> QED BY <1>6, <2>1, <2>2, <2>3
<1>a. Plain(send_queue'[c])
    BY <1>3, <1>7 DEF Plain
<1> QED BY <1>6, <1>7, <1>9, <1>a, HandshakeAdvances

\* EPOLLIN: the greeting answers INIT_DONE, for which the worker waits after its reply.
LEMMA WorkerRecvHandshake ==
    ASSUME TypeOK, HandshakeInv, NEW w \in Conn, WorkerRecv(w)
    PROVE  HandshakeInv'
<1>0. ClientTypes /\ ServerTypes /\ ThreadTypes
    BY DEF TypeOK
<1>1. PICK c \in Conn : c = Current(w)
    BY <1>0, CurrentIsTodo DEF WorkerRecv
<1>2. UNCHANGED send_queue
    BY DEF WorkerRecv
<1>3. \/ /\ init_state' = [init_state EXCEPT ![c] = DISCONNECT_STATE]
         /\ UNCHANGED <<net, out>>
      \/ /\ init_state[c] = INITIAL_STATE
         /\ init_state' = [init_state EXCEPT ![c] = REQUESTED_INIT]
         /\ UNCHANGED <<net, out>>
      \/ /\ init_state[c] = SENT_INIT_CONFIRMATION
         /\ init_state' = [init_state EXCEPT ![c] = INIT_DONE]
         /\ SendSucceeds(c, <<Msg("HELLO", c, 0)>>)
      \/ UNCHANGED <<net, out, init_state>>
    BY <1>1 DEF WorkerRecv
<1>4. /\ out[c] \in Seq(Messages) /\ Shaped(out[c]) /\ Plain(send_queue[c])
      /\ Linked(c) => AsFarAs(out[c], init_state[c])
    BY <1>0 DEF ClientTypes, HandshakeInv
<1>5. CASE UNCHANGED <<net, out, init_state>>
    BY <1>2, <1>5, HandshakeKept DEF Linked
<1>6. CASE /\ init_state' = [init_state EXCEPT ![c] = DISCONNECT_STATE]
           /\ UNCHANGED <<net, out>>
  <2>1. init_state'[c] = DISCONNECT_STATE /\ \A d \in Conn \ {c} : init_state'[d] = init_state[d]
      BY <1>0, <1>6 DEF ServerTypes
  <2>2. AsFarAs(out'[c], init_state'[c])
      BY <2>1, StatesDiffer DEF AsFarAs
  <2> QED BY <1>2, <1>4, <1>6, <2>1, <2>2, HandshakeAdvances DEF Linked
<1>7. CASE /\ init_state[c] = INITIAL_STATE
           /\ init_state' = [init_state EXCEPT ![c] = REQUESTED_INIT]
           /\ UNCHANGED <<net, out>>
  <2>1. init_state'[c] = REQUESTED_INIT /\ \A d \in Conn \ {c} : init_state'[d] = init_state[d]
      BY <1>0, <1>7 DEF ServerTypes
  <2>2. Linked(c)' => Linked(c)
      BY <1>7 DEF Linked
  <2>3. Linked(c)' => AsFarAs(out'[c], init_state'[c])
      BY <1>4, <1>7, <2>1, <2>2, StatesDiffer DEF AsFarAs
  <2> QED BY <1>2, <1>4, <1>7, <2>1, <2>3, HandshakeAdvances DEF Linked
<1>8. CASE /\ init_state[c] = SENT_INIT_CONFIRMATION
           /\ init_state' = [init_state EXCEPT ![c] = INIT_DONE]
           /\ SendSucceeds(c, <<Msg("HELLO", c, 0)>>)
  <2> DEFINE t == <<Msg("HELLO", c, 0)>>
  <2>1. init_state'[c] = INIT_DONE /\ \A d \in Conn \ {c} : init_state'[d] = init_state[d]
      BY <1>0, <1>8 DEF ServerTypes
  <2>2. Msg("HELLO", c, 0) \in Messages
      BY MsgType DEF Ids, Actions
  <2>3. t \in Seq(Messages) /\ Len(t) = 1 /\ t[1].action = "HELLO" /\ t # <<>>
      BY <2>2 DEF Msg
  <2>4. SendSucceeds(c, t)
      BY <1>8
  <2> HIDE DEF t
  <2>5. /\ \A d \in Conn : Linked(d)' => Linked(d)
        /\ \A d \in Conn \ {c} : out'[d] = out[d]
        /\ \/ out'[c] = out[c] /\ ~Linked(c)'
           \/ out'[c] = out[c] \o t /\ Linked(c)'
      BY <1>0, <2>3, <2>4, SendEffect
  <2>6. Linked(c)' => Shaped(out'[c]) /\ Len(out'[c]) >= 2
    <3>1. Linked(c) => Len(out[c]) = 1
        BY <1>4, <1>8, StatesDiffer DEF AsFarAs
    <3>2. Linked(c) => Shaped(out[c] \o t) /\ Len(out[c] \o t) >= 2
        BY <1>4, <2>3, <3>1, GreetingSecond
    <3> QED BY <2>5, <3>2
  <2>7. Shaped(out'[c])
      BY <1>4, <2>5, <2>6
  <2>8. Linked(c)' => AsFarAs(out'[c], init_state'[c])
      BY <2>1, <2>6, StatesDiffer DEF AsFarAs
  <2> QED BY <1>2, <1>4, <2>1, <2>5, <2>7, <2>8, HandshakeAdvances
<1> QED BY <1>3, <1>5, <1>6, <1>7, <1>8

\* Every step of a worker keeps the invariant.
LEMMA WorkerHandshake ==
    ASSUME TypeOK, HandshakeInv, NEW w \in Conn, Worker(w)
    PROVE  HandshakeInv'
<1> USE DEF clientVars, serverVars
<1>1. CASE Terminate
    BY <1>1, HandshakeKept DEF Terminate, Linked
<1>2. CASE WorkerWake(w)
    BY <1>2, HandshakeKept DEF WorkerWake, Linked
<1>3. CASE WorkerPop(w)
    BY <1>1, <1>3, HandshakeKept DEF WorkerPop, Linked
<1>4. CASE WorkerRecvThrows(w) \/ WorkerSendThrows(w) \/ WorkerReapThrows(w)
    BY <1>1, <1>4 DEF WorkerRecvThrows, WorkerSendThrows, WorkerReapThrows
<1>5. CASE WorkerSignal(w)
    BY <1>5, HandshakeKept DEF WorkerSignal, Linked
<1>6. CASE WorkerReap(w)
    BY <1>6, HandshakeKept DEF WorkerReap, Linked
<1>7. CASE WorkerRoundOver(w)
    BY <1>7, HandshakeKept DEF WorkerRoundOver, Linked
<1>8. CASE WorkerStart(w)
    BY <1>1, <1>8, HandshakeKept DEF WorkerStart, Linked
<1> QED BY <1>2, <1>3, <1>4, <1>5, <1>6, <1>7, <1>8, WorkerRecvEndHandshake,
           WorkerRecvHandshake, WorkerSendHandshake DEF Worker

------------------------------------------------------------------------------
(* The handshake: the listener *)

\* A relayed line is queued only for clients past the handshake.
LEMMA ListenerRelayHandshake ==
    ASSUME IndexInv, HandshakeInv, ListenerRelay
    PROVE  HandshakeInv'
<1>0. ServerTypes /\ QueueTypes
    BY DEF IndexInv, TypeOK
<1>1. PICK m :
        /\ ListenerPops(m)
        /\ m.action \in {"INIT_DONE", "UNICAST_REPEATED"}
        /\ UNCHANGED send_queue \/ unicast_repeated(m.id, Notice(m))
        /\ UNCHANGED <<net, out, init_state>>
    BY DEF ListenerRelay, clientVars
<1>2. m \in Messages
    BY <1>0, <1>1, PoppedMessage DEF IndexInv
<1>3. CASE UNCHANGED send_queue
    BY <1>1, <1>3, HandshakeKept DEF Linked
<1>4. CASE unicast_repeated(m.id, Notice(m))
  <2>1. Notice(m) \in Messages /\ Notice(m).action \notin {"INIT_REQ", "HELLO"}
      BY <1>1, <1>2 DEF Notice, Msg, Messages, Actions
  <2> QED BY <1>0, <1>1, <1>4, <2>1, BroadcastKeepsHandshake DEF Linked
<1> QED BY <1>1, <1>3, <1>4

\* So is the news that a client has left.
LEMMA ListenerDisconnectHandshake ==
    ASSUME IndexInv, HandshakeInv, ListenerDisconnect
    PROVE  HandshakeInv'
<1>0. ClientTypes /\ ServerTypes /\ QueueTypes
    BY DEF IndexInv, TypeOK
<1>1. PICK m :
        /\ ListenerPops(m)
        /\ UNCHANGED net \/ disconnect_client(m.id)
        /\ UNCHANGED send_queue \/ unicast_repeated(m.id, Msg("LEFT", m.id, 0))
        /\ UNCHANGED <<out, init_state>>
    BY DEF ListenerDisconnect
<1>2. m \in Messages
    BY <1>0, <1>1, PoppedMessage DEF IndexInv
<1>3. \A c \in Conn : Linked(c)' => Linked(c)
    BY <1>0, <1>1 DEF Linked, disconnect_client, ClientTypes
<1>4. CASE UNCHANGED send_queue
    BY <1>1, <1>3, <1>4, HandshakeKept
<1>5. CASE unicast_repeated(m.id, Msg("LEFT", m.id, 0))
  <2>1. Msg("LEFT", m.id, 0) \in Messages /\ Msg("LEFT", m.id, 0).action = "LEFT"
      BY <1>2 DEF Msg, Messages, Actions
  <2> QED BY <1>0, <1>1, <1>3, <1>5, <2>1, BroadcastKeepsHandshake
<1> QED BY <1>1, <1>4, <1>5

\* Every step of the listener keeps the handshake.
LEMMA ListenerHandshake ==
    ASSUME IndexInv, HandshakeInv, Listener
    PROVE  HandshakeInv'
<1>0. ClientTypes
    BY DEF IndexInv, TypeOK
<1> USE DEF clientVars, serverVars
<1>1. CASE ListenerWake \/ ListenerPopNothing \/ ListenerReset \/ ListenerSignal \/ ListenerLaunch
    BY <1>1, HandshakeKept
       DEF ListenerWake, ListenerPopNothing, ListenerReset, ListenerSignal, ListenerLaunch, Linked
<1>2. CASE ListenerStdin
    BY <1>2, HandshakeKept DEF ListenerStdin, Linked
<1>3. CASE ListenerAccept
  <2>1. PICK c \in Conn : accept_client(c)
      BY <1>3 DEF ListenerAccept
  <2>2. UNCHANGED <<out, init_state, send_queue>>
      BY <1>3 DEF ListenerAccept
  <2>3. \A d \in Conn : Linked(d)' => Linked(d)
      BY <1>0, <2>1 DEF accept_client, ClientTypes, Linked
  <2> QED BY <2>2, <2>3, HandshakeKept
<1>4. CASE Destroy
  <2>1. \A d \in Conn : Linked(d)' => Linked(d)
      BY <1>0, <1>4 DEF Destroy, CloseSockets, ClientTypes, Linked
  <2> QED BY <1>4, <2>1, HandshakeKept DEF Destroy
<1>5. CASE ListenerAcceptFails
  <2>1. \A d \in Conn : Linked(d)' => Linked(d)
      BY <1>0, <1>5 DEF ListenerAcceptFails, accept_client_fails, ClientTypes, Linked
  <2> QED BY <1>5, <2>1, HandshakeKept DEF ListenerAcceptFails
<1> QED BY <1>1, <1>2, <1>3, <1>4, <1>5, ListenerRelayHandshake, ListenerDisconnectHandshake
        DEF Listener

------------------------------------------------------------------------------
(* The handshake: the theorem *)

\* The clients' own steps write to the network and to nothing of the server.
LEMMA ClientStepsHandshake ==
    ASSUME TypeOK, HandshakeInv, ClientSteps
    PROVE  HandshakeInv'
<1>1. UNCHANGED <<out, init_state, send_queue>>
    BY DEF ClientSteps, ClientStep, Connect, RequestInit, FinalizeInit, TypeLine, TypeQuit,
           HangUp, serverVars
<1>2. \A c \in Conn : Linked(c)' => Linked(c)
    BY DEF ClientSteps, ClientStep, Connect, RequestInit, FinalizeInit, TypeLine, TypeQuit,
           HangUp, TypeOK, ClientTypes, Linked
<1> QED BY <1>1, <1>2, HandshakeKept

\* HandshakeInv is inductive.
LEMMA HandshakeStep ==
    ASSUME IndexInv, HandshakeInv, [Next]_vars
    PROVE  HandshakeInv'
<1>1. CASE UNCHANGED vars \/ AdminQuit
    BY <1>1, HandshakeKept DEF vars, AdminQuit, clientVars, serverVars, Linked
<1> QED BY <1>1, ListenerHandshake, WorkerHandshake, ClientStepsHandshake DEF Next, IndexInv

\* The reply and the greeting are sent as init_state advances: a client whose
\* connection is up has been sent as much of the handshake as its state says.
THEOREM HandshakeInvariant == Spec => []HandshakeInv
<1>1. Init => HandshakeInv
    BY StatesDiffer DEF Init, ClientsInit, ServerInit, HandshakeInv, Shaped, Plain, AsFarAs
<1> QED BY <1>1, HandshakeStep, IndexInvariant, PTL DEF Spec

\* What the server sends to a client begins with the reply to its INIT_REQ and the
\* greeting, once each and in this order: however its worker and the listener are
\* interleaved, no notice overtakes the handshake in process_client_state.
THEOREM HandshakeComesFirst == Spec => []HandshakeFirst
<1>1. HandshakeInv => HandshakeFirst
    BY DEF HandshakeInv, HandshakeFirst, Shaped
<1> QED BY <1>1, HandshakeInvariant, PTL

------------------------------------------------------------------------------
(* The news *)

\* position of a message in the life of the client it is about: Chapter, also for
\* the messages from which the listener makes its notices
Rank(m) == IF m.action \in {"JOINED", "INIT_DONE"} THEN 0
           ELSE IF m.action \in {"LEFT", "CL_DISCONNECTED"} THEN MaxLines + 1
           ELSE m.n

Before(m, n) == (m.id = n.id /\ m.id # None) => Rank(m) < Rank(n)
AllBefore(S, T) == \A m \in S, n \in T : Before(m, n)

\* the messages behind the first k, and their order
From(s, k) == {s[i] : i \in {j \in DOMAIN s : k < j}}
Ordered(s, k) == \A i, j \in DOMAIN s : (k < i /\ i < j) => Before(s[i], s[j])

\* the news on its way to the listener, and what client c was told or will be
Pending == From(q_worker_to_listener, 0)
Queued(c) == From(send_queue[c], 0)
Told(c) == From(out[c], 2)

\* What holds of a message about a client: the client was accepted and has finished its
\* handshake, lines that were not read yet are later news, and once the message says
\* that it left no worker serves it.
Sound(m) ==
    m.id # None =>
        /\ m.id \in Conn
        /\ m.id < accepted
        /\ init_state[m.id] \in {DISCONNECT_STATE, INIT_DONE}
        /\ Rank(m) \in 0 .. said[m.id] \cup {MaxLines + 1}
        /\ Rank(m) = MaxLines + 1 => ~Serving(m.id)
        /\ Rank(m) # MaxLines + 1 =>
              \A k \in DOMAIN inbox[m.id] :
                 inbox[m.id][k].action = "UNICAST_REPEATED" => Rank(m) < inbox[m.id][k].n

\* what the listener makes of it is a notice, and about another client
NoticeFor(m, c) == m.id \notin {c, None} /\ m.action \in {"JOINED", "LEFT", "UNICAST_REPEATED"}

NewsInOrder ==
    /\ Ordered(q_worker_to_listener, 0)
    /\ \A c \in Conn : /\ Ordered(out[c], 2)
                       /\ Ordered(send_queue[c], 0)
                       /\ AllBefore(Told(c), Queued(c))
                       /\ AllBefore(Told(c) \cup Queued(c), Pending)

NewsIsSound ==
    /\ \A m \in Pending : Sound(m)
    /\ \A c \in Conn : \A m \in Told(c) \cup Queued(c) : Sound(m) /\ NoticeFor(m, c)

\* the lines of a client that were not read yet
LinesNumbered ==
    \A c \in Conn :
        /\ said[c] <= MaxLines
        /\ \A k \in DOMAIN inbox[c] :
              inbox[c][k].action = "UNICAST_REPEATED" =>
                  inbox[c][k].id \in {c, None} /\ inbox[c][k].n <= said[c]

\* a worker deals with its own clients only
TodoIsOwn == \A w \in Conn : worker[w].todo \subseteq worker[w].own

\* the inductive invariant, with what it needs of the others
StoryInv == NewsInOrder /\ NewsIsSound /\ LinesNumbered /\ TodoIsOwn
AllInv == IndexInv /\ HandshakeInv /\ CustodyInv /\ StoryInv

------------------------------------------------------------------------------
(* Sequences of news *)

\* Later news behind a sequence.
LEMMA AppendOrdered ==
    ASSUME NEW s \in Seq(Messages), NEW m \in Messages, NEW k \in Nat,
           Ordered(s, k), AllBefore(From(s, k), {m})
    PROVE  Ordered(Append(s, m), k) /\ From(Append(s, m), k) \subseteq From(s, k) \cup {m}
<1> DEFINE r == Append(s, m)
<1>1. DOMAIN s = 1 .. Len(s) /\ Len(s) \in Nat
    OBVIOUS
<1>2. \A i \in DOMAIN r : \/ i \in DOMAIN s /\ r[i] = s[i]
                          \/ i = Len(s) + 1 /\ r[i] = m
    OBVIOUS
<1> HIDE DEF r
<1>3. Ordered(r, k)
  <2> SUFFICES ASSUME NEW i \in DOMAIN r, NEW j \in DOMAIN r, k < i, i < j
               PROVE  Before(r[i], r[j])
      BY DEF Ordered
  <2>1. i \in DOMAIN s /\ r[i] = s[i]
      BY <1>1, <1>2
  <2>2. CASE j \in DOMAIN s /\ r[j] = s[j]
      BY <2>1, <2>2 DEF Ordered
  <2>3. CASE r[j] = m
      BY <2>1, <2>3 DEF AllBefore, From
  <2> QED BY <1>2, <2>2, <2>3
<1>4. From(r, k) \subseteq From(s, k) \cup {m}
    BY <1>2 DEF From
<1> QED BY <1>3, <1>4 DEF r

\* The first message is earlier than the others.
LEMMA TailOrdered ==
    ASSUME NEW s \in Seq(Messages), s # <<>>, Ordered(s, 0)
    PROVE  /\ Head(s) \in From(s, 0) /\ Head(s) \in Messages
           /\ Ordered(Tail(s), 0)
           /\ From(Tail(s), 0) \subseteq From(s, 0)
           /\ AllBefore({Head(s)}, From(Tail(s), 0))
<1> DEFINE r == Tail(s)
<1>1. /\ 1 \in DOMAIN s /\ Head(s) = s[1] /\ s[1] \in Messages
      /\ \A i \in DOMAIN r : i \in Nat /\ 0 < i /\ i + 1 \in DOMAIN s /\ r[i] = s[i + 1]
    OBVIOUS
<1> HIDE DEF r
<1>2. Head(s) \in From(s, 0)
    BY <1>1 DEF From
<1>3. Ordered(r, 0)
  <2> SUFFICES ASSUME NEW i \in DOMAIN r, NEW j \in DOMAIN r, 0 < i, i < j
               PROVE  Before(r[i], r[j])
      BY DEF Ordered
  <2>1. i + 1 \in DOMAIN s /\ j + 1 \in DOMAIN s /\ 0 < i + 1 /\ i + 1 < j + 1
      BY <1>1
  <2> QED BY <1>1, <2>1 DEF Ordered
<1>4. From(r, 0) \subseteq From(s, 0)
    BY <1>1 DEF From
<1>5. AllBefore({Head(s)}, From(r, 0))
  <2> SUFFICES ASSUME NEW i \in DOMAIN r PROVE Before(s[1], r[i])
      BY <1>1 DEF AllBefore, From
  <2>1. i + 1 \in DOMAIN s /\ 0 < 1 /\ 1 < i + 1
      BY <1>1
  <2> QED BY <1>1, <2>1 DEF Ordered
<1> QED BY <1>1, <1>2, <1>3, <1>4, <1>5 DEF r

\* A sequence of later news behind another.
LEMMA ConcatOrdered ==
    ASSUME NEW s \in Seq(Messages), NEW t \in Seq(Messages), NEW k \in Nat,
           Ordered(s, k), Ordered(t, 0), AllBefore(From(s, k), From(t, 0))
    PROVE  Ordered(s \o t, k) /\ From(s \o t, k) \subseteq From(s, k) \cup From(t, 0)
<1> DEFINE r == s \o t
<1>1. \A i \in DOMAIN r : \/ i \in DOMAIN s /\ r[i] = s[i]
                          \/ /\ i > Len(s)
                             /\ i - Len(s) \in DOMAIN t
                             /\ r[i] = t[i - Len(s)]
    OBVIOUS
<1>2. DOMAIN s = 1 .. Len(s) /\ Len(s) \in Nat /\ DOMAIN t \in SUBSET Nat /\ DOMAIN r \in SUBSET Nat
    OBVIOUS
<1>a. \A i \in DOMAIN t : 0 < i
    OBVIOUS
<1> HIDE DEF r
<1>3. Ordered(r, k)
  <2> SUFFICES ASSUME NEW i \in DOMAIN r, NEW j \in DOMAIN r, k < i, i < j
               PROVE  Before(r[i], r[j])
      BY DEF Ordered
  <2>1. CASE i \in DOMAIN s /\ r[i] = s[i] /\ j \in DOMAIN s /\ r[j] = s[j]
      BY <2>1 DEF Ordered
  <2>2. CASE i \in DOMAIN s /\ r[i] = s[i] /\ j - Len(s) \in DOMAIN t /\ r[j] = t[j - Len(s)]
      BY <1>a, <2>2 DEF AllBefore, From
  <2>3. CASE /\ i - Len(s) \in DOMAIN t /\ r[i] = t[i - Len(s)]
             /\ j - Len(s) \in DOMAIN t /\ r[j] = t[j - Len(s)]
    <3>1. 0 < i - Len(s) /\ i - Len(s) < j - Len(s)
        BY <1>2, <1>a, <2>3
    <3> QED BY <2>3, <3>1 DEF Ordered
  <2> QED BY <1>1, <1>2, <2>1, <2>2, <2>3
<1>4. From(r, k) \subseteq From(s, k) \cup From(t, 0)
    BY <1>1, <1>a DEF From
<1> QED BY <1>3, <1>4 DEF r

\* The handshake is no news.
LEMMA ShortOrdered ==
    ASSUME NEW s, DOMAIN s \subseteq 1 .. 2
    PROVE  Ordered(s, 2) /\ From(s, 2) = {}
<1> QED BY DEF Ordered, From

------------------------------------------------------------------------------
(* What no step does *)

\* How a step may change what Sound looks at: handshakes only go on, lines are
\* numbered as they are typed.
Onward(c) ==
    /\ init_state[c] \in {DISCONNECT_STATE, INIT_DONE} =>
          init_state'[c] \in {DISCONNECT_STATE, INIT_DONE}
    /\ said'[c] \in said[c] .. MaxLines
    /\ \/ inbox'[c] \in {inbox[c], <<>>}
       \/ \E m \in Messages :
             /\ inbox'[c] = Append(inbox[c], m)
             /\ m.action = "UNICAST_REPEATED" =>
                   m.id \in {c, None} /\ m.n = said[c] + 1 /\ said'[c] = said[c] + 1

\* What a client sends follows what it has sent before.
LEMMA ClientOnward ==
    ASSUME TypeOK, LinesNumbered, ClientSteps
    PROVE  \A c \in Conn : Onward(c)
<1>0. ClientTypes /\ UNCHANGED init_state
    BY DEF TypeOK, ClientSteps, serverVars
<1>1. PICK d \in Conn : ClientStep(d)
    BY DEF ClientSteps
<1>2. \A c \in Conn : said[c] \in Nat /\ said[c] <= MaxLines /\ MaxLines \in Nat
    BY <1>0, ClientAssumption DEF ClientTypes, LinesNumbered
<1>3. CASE UNCHANGED <<inbox, said>>
    BY <1>0, <1>2, <1>3 DEF Onward
<1>4. ASSUME NEW m \in Messages, m.action # "UNICAST_REPEATED", ClientSends(d, m), UNCHANGED said
      PROVE  \A c \in Conn : Onward(c)
  <2>1. /\ \A c \in Conn \ {d} : inbox'[c] = inbox[c]
        /\ inbox'[d] = Append(inbox[d], m)
      BY <1>0, <1>4 DEF ClientSends, ClientTypes
  <2> QED BY <1>0, <1>2, <1>4, <2>1 DEF Onward
<1>5. CASE TypeLine(d)
  <2>1. PICK id \in {d, None}, action \in {"UNICAST_REPEATED", "MISFIT"} :
           ClientSends(d, Msg(action, id, said[d] + 1))
      BY <1>5 DEF TypeLine
  <2>2. said[d] < MaxLines /\ said' = [said EXCEPT ![d] = @ + 1]
      BY <1>5 DEF TypeLine
  <2>3. PICK m \in Messages : m = Msg(action, id, said[d] + 1)
    <3>1. said[d] + 1 \in Nat /\ action \in Actions /\ id \in Ids
        BY <1>2 DEF Actions, Ids
    <3> QED BY <3>1, MsgType
  <2>4. m.id \in {d, None} /\ m.n = said[d] + 1
      BY <2>3 DEF Msg
  <2>5. /\ \A c \in Conn \ {d} : inbox'[c] = inbox[c] /\ said'[c] = said[c]
        /\ inbox'[d] = Append(inbox[d], m) /\ said'[d] = said[d] + 1
      BY <1>0, <2>1, <2>2, <2>3 DEF ClientSends, ClientTypes
  <2>6. \A c \in Conn \ {d} : Onward(c)
      BY <1>0, <1>2, <2>5 DEF Onward
  <2>7. Onward(d)
      BY <1>0, <1>2, <2>2, <2>4, <2>5 DEF Onward
  <2> QED BY <2>6, <2>7
<1>6. CASE RequestInit(d) \/ FinalizeInit(d) \/ TypeQuit(d)
  <2>1. \A a \in {"INIT_REQ", "INIT_MISFIT", "INIT_DONE", "CL_DISCONNECTED"} :
            Msg(a, None, 0) \in Messages /\ Msg(a, None, 0).action # "UNICAST_REPEATED"
      BY MsgType DEF Actions, Ids, Msg
  <2> QED BY <1>4, <1>6, <2>1 DEF RequestInit, FinalizeInit, TypeQuit
<1>7. CASE Connect(d) \/ HangUp(d)
    BY <1>3, <1>7 DEF Connect, HangUp
<1> QED BY <1>1, <1>5, <1>6, <1>7 DEF ClientStep

\* A worker takes lines off a connection from the front.
LEMMA WorkerOnward ==
    ASSUME TypeOK, LinesNumbered, NEW w \in Conn, Worker(w)
    PROVE  \A c \in Conn : Onward(c)
<1>0. ClientTypes /\ ServerTypes /\ ThreadTypes
    BY DEF TypeOK
<1>1. \A c \in Conn : said[c] \in Nat /\ said[c] <= MaxLines /\ MaxLines \in Nat
    BY <1>0, ClientAssumption DEF ClientTypes, LinesNumbered
<1> USE DEF clientVars, serverVars
<1>2. CASE UNCHANGED <<inbox, said, init_state>>
    BY <1>1, <1>2 DEF Onward
<1>3. CASE WorkerRecvEnd(w)
    BY <1>0, <1>1, <1>3 DEF WorkerRecvEnd, Onward, ServerTypes
<1>4. CASE WorkerRecv(w)
  <2>1. /\ inbox' = [inbox EXCEPT ![Current(w)] = <<>>]
        /\ UNCHANGED said
        /\ \/ UNCHANGED init_state
           \/ init_state' = [init_state EXCEPT ![Current(w)] = DISCONNECT_STATE]
           \/ /\ init_state[Current(w)] = INITIAL_STATE
              /\ init_state' = [init_state EXCEPT ![Current(w)] = REQUESTED_INIT]
           \/ init_state' = [init_state EXCEPT ![Current(w)] = INIT_DONE]
      BY <1>4 DEF WorkerRecv
  <2>2. \A c \in Conn : inbox'[c] \in {inbox[c], <<>>}
      BY <1>0, <2>1 DEF ClientTypes
  <2>3. \A c \in Conn : init_state[c] \in {DISCONNECT_STATE, INIT_DONE} =>
                            init_state'[c] \in {DISCONNECT_STATE, INIT_DONE}
      BY <1>0, <2>1, StatesDiffer DEF ServerTypes
  <2> QED BY <1>1, <2>1, <2>2, <2>3 DEF Onward
<1>5. CASE WorkerSend(w)
  <2>1. UNCHANGED <<inbox, said>>
      BY <1>5 DEF WorkerSend
  <2>2. \A c \in Conn : init_state[c] \in {DISCONNECT_STATE, INIT_DONE} =>
                            init_state'[c] = init_state[c]
      BY <1>0, <1>5, StatesDiffer DEF ServerTypes, WorkerSend
  <2> QED BY <1>1, <2>1, <2>2 DEF Onward
<1>6. CASE Terminate
    BY <1>2, <1>6 DEF Terminate
<1>7. CASE WorkerWake(w) \/ WorkerPop(w) \/ WorkerSignal(w) \/ WorkerReap(w) \/ WorkerRoundOver(w)
    BY <1>2, <1>6, <1>7 DEF WorkerWake, WorkerPop, WorkerSignal, WorkerReap, WorkerRoundOver
<1>8. CASE WorkerStart(w)
    BY <1>2, <1>6, <1>8 DEF WorkerStart
<1> QED BY <1>3, <1>4, <1>5, <1>6, <1>7, <1>8
        DEF Worker, WorkerRecvThrows, WorkerSendThrows, WorkerReapThrows

\* The listener reads no socket and no line.
LEMMA ListenerOnward ==
    ASSUME TypeOK, LinesNumbered, Listener
    PROVE  \A c \in Conn : Onward(c)
<1>1. UNCHANGED <<inbox, said, init_state>>
    BY DEF Listener, ListenerWake, ListenerPopNothing, ListenerRelay, ListenerDisconnect,
           ListenerReset, ListenerStdin, ListenerAccept, ListenerAcceptFails, ListenerSignal,
           ListenerLaunch, Destroy, clientVars, serverVars
<1>2. \A c \in Conn : said[c] \in Nat /\ said[c] <= MaxLines /\ MaxLines \in Nat
    BY ClientAssumption DEF TypeOK, ClientTypes, LinesNumbered
<1> QED BY <1>1, <1>2 DEF Onward

\* No step of the server turns a client's story back.
LEMMA StepOnward ==
    ASSUME TypeOK, LinesNumbered, [Next]_vars
    PROVE  \A c \in Conn : Onward(c)
<1>1. CASE UNCHANGED vars \/ AdminQuit
  <2>1. UNCHANGED <<inbox, said, init_state>>
      BY <1>1 DEF vars, AdminQuit, clientVars, serverVars
  <2>2. \A c \in Conn : said[c] \in Nat /\ said[c] <= MaxLines /\ MaxLines \in Nat
      BY ClientAssumption DEF TypeOK, ClientTypes, LinesNumbered
  <2> QED BY <2>1, <2>2 DEF Onward
<1> QED BY <1>1, ClientOnward, WorkerOnward, ListenerOnward DEF Next

\* Connections are accepted one after the other.
LEMMA AcceptedGrows ==
    ASSUME TypeOK, [Next]_vars
    PROVE  accepted' \in {accepted, accepted + 1} /\ accepted \in Nat
<1>1. accepted \in Nat
    BY DEF TypeOK, ServerTypes
<1> USE DEF serverVars
<1>2. CASE UNCHANGED vars \/ AdminQuit \/ ClientSteps
    BY <1>1, <1>2 DEF vars, AdminQuit, ClientSteps
<1>3. CASE Listener
    BY <1>1, <1>3 DEF Listener, ListenerWake, ListenerPopNothing, ListenerRelay,
           ListenerDisconnect, ListenerReset, ListenerStdin, ListenerAccept, accept_client,
           ListenerAcceptFails, accept_client_fails, ListenerSignal, ListenerLaunch, Destroy
<1>4. ASSUME NEW w \in Conn, Worker(w)
      PROVE  accepted' = accepted
    BY <1>4 DEF Worker, WorkerStart, WorkerWake, WorkerPop, WorkerRecvEnd, WorkerRecv, WorkerRecvThrows,
           WorkerSend, WorkerSendThrows, WorkerSignal, WorkerReap, WorkerReapThrows,
           WorkerRoundOver, Terminate
<1> QED BY <1>1, <1>2, <1>3, <1>4 DEF Next

\* The lines that were not read stay numbered.
LEMMA LinesStep ==
    ASSUME TypeOK, LinesNumbered, \A c \in Conn : Onward(c)
    PROVE  LinesNumbered'
<1> SUFFICES ASSUME NEW c \in Conn
             PROVE  /\ said'[c] <= MaxLines
                    /\ \A k \in DOMAIN inbox'[c] :
                          inbox'[c][k].action = "UNICAST_REPEATED" =>
                              inbox'[c][k].id \in {c, None} /\ inbox'[c][k].n <= said'[c]
    BY DEF LinesNumbered
<1>1. said[c] \in Nat /\ MaxLines \in Nat /\ inbox[c] \in Seq(Messages)
    BY ClientAssumption DEF TypeOK, ClientTypes
<1>2. said'[c] \in Nat /\ said[c] <= said'[c] /\ said'[c] <= MaxLines
    BY <1>1 DEF Onward
<1>3. \A k \in DOMAIN inbox[c] :
          /\ inbox[c][k].n \in Nat
          /\ inbox[c][k].action = "UNICAST_REPEATED" =>
                inbox[c][k].id \in {c, None} /\ inbox[c][k].n <= said'[c]
  <2>1. \A k \in DOMAIN inbox[c] : inbox[c][k] \in Messages
      BY <1>1
  <2>2. \A k \in DOMAIN inbox[c] : inbox[c][k].n \in Nat
      BY <2>1 DEF Messages
  <2> QED BY <1>1, <1>2, <2>2 DEF LinesNumbered
<1>4. CASE inbox'[c] \in {inbox[c], <<>>}
    BY <1>2, <1>3, <1>4
<1>5. ASSUME NEW m \in Messages, inbox'[c] = Append(inbox[c], m),
             m.action = "UNICAST_REPEATED" =>
                 m.id \in {c, None} /\ m.n = said[c] + 1 /\ said'[c] = said[c] + 1
      PROVE  \A k \in DOMAIN inbox'[c] :
                 inbox'[c][k].action = "UNICAST_REPEATED" =>
                     inbox'[c][k].id \in {c, None} /\ inbox'[c][k].n <= said'[c]
  <2>1. \A k \in DOMAIN inbox'[c] : \/ k \in DOMAIN inbox[c] /\ inbox'[c][k] = inbox[c][k]
                                    \/ inbox'[c][k] = m
      BY <1>1, <1>5
  <2> QED BY <1>1, <1>3, <1>5, <2>1
<1> QED BY <1>2, <1>4, <1>5 DEF Onward

\* A message that was sound stays so, wherever it is.
LEMMA SoundStep ==
    ASSUME TypeOK, LinesNumbered, \A c \in Conn : Onward(c), NoneReturns,
           accepted' \in {accepted, accepted + 1}, NEW m \in Messages, Sound(m)
    PROVE  Sound(m)'
<1> SUFFICES ASSUME m.id # None
             PROVE  Sound(m)'
    BY DEF Sound
<1> DEFINE d == m.id
<1>1. /\ d \in Conn /\ d < accepted
      /\ init_state[d] \in {DISCONNECT_STATE, INIT_DONE}
      /\ Rank(m) \in 0 .. said[d] \cup {MaxLines + 1}
      /\ Rank(m) = MaxLines + 1 => ~Serving(d)
      /\ Rank(m) # MaxLines + 1 =>
            \A k \in DOMAIN inbox[d] :
               inbox[d][k].action = "UNICAST_REPEATED" => Rank(m) < inbox[d][k].n
    BY DEF Sound
<1>2. /\ accepted \in Nat /\ said[d] \in Nat /\ MaxLines \in Nat
      /\ inbox[d] \in Seq(Messages) /\ d \in Int
    BY <1>1, ClientAssumption DEF TypeOK, ClientTypes, ServerTypes, Conn
<1> HIDE DEF d
<1>3. d < accepted' /\ d # accepted
    BY <1>1, <1>2
<1>4. init_state'[d] \in {DISCONNECT_STATE, INIT_DONE}
    BY <1>1 DEF Onward
<1>5. said'[d] \in Nat /\ said[d] <= said'[d] /\ said'[d] <= MaxLines
    BY <1>1, <1>2 DEF Onward
<1>6. Rank(m) \in 0 .. said'[d] \cup {MaxLines + 1}
    BY <1>1, <1>2, <1>5
<1>7. Rank(m) = MaxLines + 1 => ~Serving(d)'
    BY <1>1, <1>3 DEF NoneReturns
<1>8. Rank(m) # MaxLines + 1 =>
          \A k \in DOMAIN inbox'[d] :
             inbox'[d][k].action = "UNICAST_REPEATED" => Rank(m) < inbox'[d][k].n
  <2> SUFFICES ASSUME Rank(m) # MaxLines + 1
               PROVE  \A k \in DOMAIN inbox'[d] :
                          inbox'[d][k].action = "UNICAST_REPEATED" => Rank(m) < inbox'[d][k].n
      OBVIOUS
  <2>1. CASE inbox'[d] \in {inbox[d], <<>>}
      BY <1>1, <2>1
  <2>2. ASSUME NEW x \in Messages, inbox'[d] = Append(inbox[d], x),
               x.action = "UNICAST_REPEATED" => x.n = said[d] + 1
        PROVE  \A k \in DOMAIN inbox'[d] :
                   inbox'[d][k].action = "UNICAST_REPEATED" => Rank(m) < inbox'[d][k].n
    <3>1. \A k \in DOMAIN inbox'[d] : \/ k \in DOMAIN inbox[d] /\ inbox'[d][k] = inbox[d][k]
                                      \/ inbox'[d][k] = x
        BY <1>2, <2>2
    <3>2. Rank(m) < said[d] + 1
        BY <1>1, <1>2
    <3> QED BY <1>1, <2>2, <3>1, <3>2
  <2> QED BY <1>1, <2>1, <2>2 DEF Onward
<1> QED BY <1>1, <1>3, <1>4, <1>6, <1>7, <1>8 DEF Sound, d

------------------------------------------------------------------------------
(* How news moves *)

\* Sound messages stay sound and nothing is said about anything new.
SoundStays == \A m \in Messages : Sound(m) => Sound(m)'

\* The messages on the queues are messages.
LEMMA NewsTypes ==
    ASSUME TypeOK
    PROVE  /\ Pending \subseteq Messages
           /\ \A c \in Conn : Told(c) \cup Queued(c) \subseteq Messages
<1>1. q_worker_to_listener \in Seq(Messages)
    BY DEF TypeOK, QueueTypes
<1>2. Pending \subseteq Messages
    BY <1>1 DEF Pending, From
<1>3. ASSUME NEW c \in Conn
      PROVE  Told(c) \cup Queued(c) \subseteq Messages
  <2>1. out[c] \in Seq(Messages) /\ send_queue[c] \in Seq(Messages)
      BY DEF TypeOK, ClientTypes, ServerTypes
  <2> QED BY <2>1 DEF Told, Queued, From
<1> QED BY <1>2, <1>3

\* No news moves.
LEMMA NewsKept ==
    ASSUME TypeOK, NewsInOrder, NewsIsSound, SoundStays,
           UNCHANGED <<q_worker_to_listener, send_queue, out>>
    PROVE  NewsInOrder' /\ NewsIsSound'
<1>1. Pending' = Pending /\ \A c \in Conn : Told(c)' = Told(c) /\ Queued(c)' = Queued(c)
    BY DEF Pending, Told, Queued
<1>2. NewsInOrder'
    BY <1>1 DEF NewsInOrder
<1>3. NewsIsSound'
    BY <1>1, NewsTypes DEF NewsIsSound, SoundStays
<1> QED BY <1>2, <1>3

\* News m is pushed, later than all there is about the same client; what is sent in
\* the same step is no news.
LEMMA NewsPushed ==
    ASSUME TypeOK, NewsInOrder, NewsIsSound, SoundStays, UNCHANGED send_queue,
           \A c \in Conn : Ordered(out'[c], 2) /\ Told(c)' \subseteq Told(c),
           NEW m \in Messages, Sound(m)',
           \A x \in Messages : Sound(x) => Before(x, m),
           q_worker_to_listener' = Append(q_worker_to_listener, m)
    PROVE  NewsInOrder' /\ NewsIsSound'
<1> DEFINE q == q_worker_to_listener
<1>0. q \in Seq(Messages) /\ 0 \in Nat
    BY DEF TypeOK, QueueTypes
<1>1. /\ Pending \subseteq Messages
      /\ \A c \in Conn : Told(c) \cup Queued(c) \subseteq Messages
    BY NewsTypes
<1>2. AllBefore(From(q, 0), {m})
    BY <1>1 DEF NewsIsSound, AllBefore, Pending
<1>3. Ordered(Append(q, m), 0) /\ From(Append(q, m), 0) \subseteq From(q, 0) \cup {m}
    BY <1>0, <1>2, AppendOrdered DEF NewsInOrder
<1>4. Ordered(q', 0) /\ Pending' \subseteq Pending \cup {m}
    BY <1>3 DEF Pending
<1>5. \A c \in Conn : Told(c)' \subseteq Told(c) /\ Queued(c)' = Queued(c)
    BY DEF Queued
<1>6. \A c \in Conn : AllBefore(Told(c) \cup Queued(c), Pending')
    BY <1>1, <1>4 DEF NewsInOrder, NewsIsSound, AllBefore
<1>7. NewsInOrder'
  <2>1. \A c \in Conn : /\ AllBefore(Told(c)', Queued(c)')
                        /\ AllBefore(Told(c)' \cup Queued(c)', Pending')
      BY <1>5, <1>6 DEF AllBefore, NewsInOrder
  <2> QED BY <1>4, <2>1 DEF NewsInOrder
<1>8. NewsIsSound'
  <2>1. \A x \in Pending' : Sound(x)'
      BY <1>1, <1>4 DEF NewsIsSound, SoundStays
  <2>2. \A c \in Conn : \A x \in Told(c)' \cup Queued(c)' : Sound(x)' /\ NoticeFor(x, c)'
      BY <1>1, <1>5 DEF NewsIsSound, SoundStays, NoticeFor
  <2> QED BY <2>1, <2>2 DEF NewsIsSound
<1> QED BY <1>7, <1>8

\* The listener pops news and passes a notice of it, n, to some of the clients; a
\* notice is about the same client and the same moment as the news.
LEMMA NewsPassed ==
    ASSUME TypeOK, NewsInOrder, NewsIsSound, SoundStays, UNCHANGED out,
           q_worker_to_listener # <<>>,
           q_worker_to_listener' = Tail(q_worker_to_listener),
           NEW n \in Messages,
           n.id = Head(q_worker_to_listener).id,
           Rank(n) = Rank(Head(q_worker_to_listener)),
           n.action \in {"JOINED", "LEFT", "UNICAST_REPEATED"},
           \A c \in Conn : \/ send_queue'[c] = send_queue[c]
                           \/ /\ send_queue'[c] = Append(send_queue[c], n)
                              /\ n.id \notin {c, None}
    PROVE  NewsInOrder' /\ NewsIsSound'
<1> DEFINE q == q_worker_to_listener
<1>0. q \in Seq(Messages) /\ 0 \in Nat
    BY DEF TypeOK, QueueTypes
<1>1. /\ Pending \subseteq Messages
      /\ \A c \in Conn : Told(c) \cup Queued(c) \subseteq Messages
    BY NewsTypes
<1>2. PICK h \in Messages :
        /\ h = Head(q) /\ h \in Pending
        /\ Ordered(q', 0)
        /\ Pending' \subseteq Pending
        /\ AllBefore({h}, Pending')
    BY <1>0, TailOrdered DEF NewsInOrder, Pending
<1>3. n.id = h.id /\ Rank(n) = Rank(h)
    BY <1>2
<1> HIDE DEF q
<1>a. AllBefore({n}, Pending')
    BY <1>2, <1>3 DEF AllBefore, Before
<1>b. Sound(n)'
  <2>1. Sound(h)'
      BY <1>2 DEF NewsIsSound, SoundStays
  <2> QED BY <1>3, <2>1 DEF Sound
<1>4. ASSUME NEW c \in Conn
      PROVE  /\ Ordered(out'[c], 2) /\ Ordered(send_queue'[c], 0)
             /\ AllBefore(Told(c)', Queued(c)')
             /\ AllBefore(Told(c)' \cup Queued(c)', Pending')
             /\ \A m \in Told(c)' \cup Queued(c)' : Sound(m)' /\ NoticeFor(m, c)
  <2>1. Told(c)' = Told(c) /\ out'[c] = out[c]
      BY DEF Told
  <2>2. /\ Ordered(out[c], 2) /\ Ordered(send_queue[c], 0)
        /\ AllBefore(Told(c), Queued(c)) /\ AllBefore(Told(c) \cup Queued(c), Pending)
        /\ \A m \in Told(c) \cup Queued(c) : Sound(m)' /\ NoticeFor(m, c)
      BY <1>1 DEF NewsInOrder, NewsIsSound, SoundStays
  <2>3. AllBefore(Told(c) \cup Queued(c), Pending') /\ AllBefore(Told(c) \cup Queued(c), {n})
      BY <1>2, <1>3, <2>2 DEF AllBefore, Before
  <2>4. CASE send_queue'[c] = send_queue[c]
    <3>1. Queued(c)' = Queued(c)
        BY <2>4 DEF Queued
    <3> QED BY <2>1, <2>2, <2>3, <2>4, <3>1
  <2>5. CASE send_queue'[c] = Append(send_queue[c], n) /\ n.id \notin {c, None}
    <3>1. send_queue[c] \in Seq(Messages) /\ AllBefore(From(send_queue[c], 0), {n})
        BY <2>3 DEF TypeOK, ServerTypes, Queued, AllBefore
    <3>a. /\ Ordered(Append(send_queue[c], n), 0)
          /\ From(Append(send_queue[c], n), 0) \subseteq From(send_queue[c], 0) \cup {n}
        BY <1>0, <2>2, <3>1, AppendOrdered
    <3>2. Ordered(send_queue'[c], 0) /\ Queued(c)' \subseteq Queued(c) \cup {n}
        BY <2>5, <3>a DEF Queued
    <3>3. NoticeFor(n, c)
        BY <2>5 DEF NoticeFor
    <3> QED BY <1>a, <1>b, <2>1, <2>2, <2>3, <3>2, <3>3 DEF AllBefore
  <2> QED BY <2>4, <2>5
<1>5. NewsInOrder'
    BY <1>2, <1>4 DEF NewsInOrder, q
<1>6. NewsIsSound'
  <2>1. \A m \in Pending' : Sound(m)'
      BY <1>1, <1>2 DEF NewsIsSound, SoundStays
  <2>2. \A c \in Conn : \A m \in Told(c)' \cup Queued(c)' : NoticeFor(m, c)'
      BY <1>4 DEF NoticeFor
  <2> QED BY <1>4, <2>1, <2>2 DEF NewsIsSound
<1> QED BY <1>5, <1>6

\* What client c is told changes, in order, and to nothing it was not going to be told.
LEMMA NewsSent ==
    ASSUME TypeOK, NewsInOrder, NewsIsSound, SoundStays, UNCHANGED q_worker_to_listener,
           NEW c \in Conn,
           \A d \in Conn \ {c} : out'[d] = out[d] /\ send_queue'[d] = send_queue[d],
           Ordered(out'[c], 2), send_queue'[c] \in {send_queue[c], <<>>},
           \/ Told(c)' \subseteq Told(c)
           \/ Told(c)' \subseteq Told(c) \cup Queued(c) /\ send_queue'[c] = <<>>
    PROVE  NewsInOrder' /\ NewsIsSound'
<1>1. /\ Pending \subseteq Messages
      /\ \A d \in Conn : Told(d) \cup Queued(d) \subseteq Messages
    BY NewsTypes
<1>2. Pending' = Pending
    BY DEF Pending
<1>3. \A d \in Conn \ {c} : Told(d)' = Told(d) /\ Queued(d)' = Queued(d)
    BY DEF Told, Queued
<1>4. /\ send_queue'[c] = <<>> => Queued(c)' = {}
      /\ send_queue'[c] = send_queue[c] => Queued(c)' = Queued(c)
      /\ Ordered(send_queue'[c], 0)
  <2>1. Ordered(<<>>, 0) /\ From(<<>>, 0) = {}
      BY DEF Ordered, From
  <2>2. Ordered(send_queue[c], 0)
      BY DEF NewsInOrder
  <2> QED BY <2>1, <2>2 DEF Queued
<1>5. /\ Told(c)' \cup Queued(c)' \subseteq Told(c) \cup Queued(c)
      /\ AllBefore(Told(c)', Queued(c)')
    BY <1>4 DEF AllBefore, NewsInOrder
<1>6. NewsInOrder'
    BY <1>2, <1>3, <1>4, <1>5 DEF NewsInOrder, AllBefore
<1>7. NewsIsSound'
  <2>1. \A m \in Pending' : Sound(m)'
      BY <1>1, <1>2 DEF NewsIsSound, SoundStays
  <2>2. \A d \in Conn : Told(d)' \cup Queued(d)' \subseteq Told(d) \cup Queued(d)
      BY <1>3, <1>5
  <2>3. \A d \in Conn : \A m \in Told(d) \cup Queued(d) : Sound(m)' /\ NoticeFor(m, d)
      BY <1>1 DEF NewsIsSound, SoundStays
  <2>4. \A d \in Conn : \A m \in Told(d)' \cup Queued(d)' : Sound(m)' /\ NoticeFor(m, d)'
      BY <2>2, <2>3 DEF NoticeFor
  <2> QED BY <2>1, <2>4 DEF NewsIsSound
<1> QED BY <1>6, <1>7

\* The worker's reply or greeting is among the first two messages.
LEMMA ShortConcat ==
    ASSUME NEW s \in Seq(Messages), NEW m \in Messages, Len(s) <= 1
    PROVE  Ordered(s \o <<m>>, 2) /\ From(s \o <<m>>, 2) = {}
<1>1. DOMAIN (s \o <<m>>) \subseteq 1 .. 2
    OBVIOUS
<1> QED BY <1>1, ShortOrdered

------------------------------------------------------------------------------
(* The news: the workers *)

\* EPOLLOUT: the reply is no news, and the queue is drained behind what was sent before.
LEMMA WorkerSendNews ==
    ASSUME AllInv, SoundStays, NEW w \in Conn, WorkerSend(w)
    PROVE  NewsInOrder' /\ NewsIsSound'
<1>0. TypeOK /\ ClientTypes /\ ServerTypes /\ ThreadTypes /\ NewsInOrder /\ NewsIsSound
    BY DEF AllInv, StoryInv, IndexInv, TypeOK
<1>1. PICK c \in Conn : c = Current(w)
    BY <1>0, CurrentIsTodo DEF WorkerSend
<1> DEFINE ms == Output(c)
<1>2. /\ SendSucceeds(c, ms)
      /\ send_queue' = [send_queue EXCEPT ![c] = IF init_state[c] = INIT_DONE THEN <<>> ELSE @]
      /\ UNCHANGED q_worker_to_listener
    BY <1>1 DEF WorkerSend, queueVars
<1>3. /\ out[c] \in Seq(Messages) /\ send_queue[c] \in Seq(Messages)
      /\ Ordered(out[c], 2) /\ Ordered(send_queue[c], 0) /\ AllBefore(Told(c), Queued(c))
      /\ Linked(c) => AsFarAs(out[c], init_state[c])
    BY <1>0 DEF ClientTypes, ServerTypes, NewsInOrder, AllInv, HandshakeInv
<1>4. Msg("INIT_REQ", c, 0) \in Messages
    BY MsgType DEF Ids, Actions
<1>5. ms \in Seq(Messages)
    BY <1>3, <1>4 DEF Output
<1>6. /\ \A d \in Conn : Linked(d)' => Linked(d)
      /\ \A d \in Conn \ {c} : out'[d] = out[d]
      /\ \/ out'[c] = out[c]
         \/ out'[c] = out[c] \o ms /\ Linked(c)'
    BY <1>0, <1>2, <1>5, SendEffect
<1>7. /\ send_queue'[c] = IF init_state[c] = INIT_DONE THEN <<>> ELSE send_queue[c]
      /\ \A d \in Conn \ {c} : send_queue'[d] = send_queue[d]
    BY <1>0, <1>2 DEF ServerTypes
<1>8. ms = IF init_state[c] = REQUESTED_INIT THEN <<Msg("INIT_REQ", c, 0)>>
           ELSE IF init_state[c] = INIT_DONE THEN send_queue[c] ELSE <<>>
    BY DEF Output
<1> HIDE DEF ms
<1>9. /\ Ordered(out'[c], 2)
      /\ \/ Told(c)' \subseteq Told(c)
         \/ Told(c)' \subseteq Told(c) \cup Queued(c) /\ send_queue'[c] = <<>>
  <2>1. CASE out'[c] = out[c]
      BY <1>3, <2>1 DEF Told
  <2>2. CASE out'[c] = out[c] \o ms /\ Linked(c)'
    <3>1. AsFarAs(out[c], init_state[c])
        BY <1>3, <1>6, <2>2
    <3>2. CASE init_state[c] = REQUESTED_INIT
      <4>1. out[c] = <<>> /\ ms = <<Msg("INIT_REQ", c, 0)>>
          BY <1>8, <3>1, <3>2 DEF AsFarAs
      <4>2. Len(out[c]) <= 1
          BY <4>1
      <4>3. Ordered(out[c] \o ms, 2) /\ From(out[c] \o ms, 2) = {}
          BY <1>3, <1>4, <4>1, <4>2, ShortConcat
      <4> QED BY <2>2, <4>3 DEF Told
    <3>3. CASE init_state[c] = INIT_DONE
      <4>1. ms = send_queue[c] /\ send_queue'[c] = <<>>
          BY <1>7, <1>8, <3>3, StatesDiffer
      <4>2. /\ Ordered(out[c] \o send_queue[c], 2)
            /\ From(out[c] \o send_queue[c], 2)
                  \subseteq From(out[c], 2) \cup From(send_queue[c], 0)
          BY <1>3, ConcatOrdered DEF Told, Queued
      <4> QED BY <2>2, <4>1, <4>2 DEF Told, Queued
    <3>4. CASE init_state[c] \notin {REQUESTED_INIT, INIT_DONE}
      <4>1. out'[c] = out[c]
          BY <1>3, <1>8, <2>2, <3>4, NothingAfter
      <4> QED BY <2>1, <4>1
    <3> QED BY <3>2, <3>3, <3>4
  <2> QED BY <1>6, <2>1, <2>2
<1> QED BY <1>0, <1>2, <1>6, <1>7, <1>9, NewsSent

\* A worker that reports a client has nothing more to tell of it.
LEMMA WorkerReapNews ==
    ASSUME AllInv, SoundStays, CustodyInv', NEW w \in Conn, WorkerReap(w)
    PROVE  NewsInOrder' /\ NewsIsSound'
<1>0. /\ TypeOK /\ ClientTypes /\ ThreadTypes /\ ServerTypes /\ CustodyInv
      /\ NewsInOrder /\ NewsIsSound /\ LinesNumbered
    BY DEF AllInv, StoryInv, IndexInv, TypeOK
<1>1. PICK c \in Conn : c = Min(Leaving(w)) /\ c \in Leaving(w)
  <2>1. Leaving(w) \in SUBSET Conn
      BY <1>0 DEF Leaving, ThreadTypes, WorkerType
  <2>2. Leaving(w) \in SUBSET Nat
      BY <2>1 DEF Conn
  <2>3. Leaving(w) # {}
      BY DEF WorkerReap
  <2> QED BY <2>1, <2>2, <2>3, MinIsLeast
<1>2. PICK m \in Messages : m = Msg("CL_DISCONNECTED", c, worker[w].idx)
  <2>1. worker[w].idx \in Nat
      BY <1>0 DEF ThreadTypes, WorkerType, ThreadIdx
  <2> QED BY <2>1, MsgType DEF Actions, Ids
<1>3. m.action = "CL_DISCONNECTED" /\ m.id = c /\ Rank(m) = MaxLines + 1
    BY <1>2 DEF Msg, Rank
<1>4. /\ q_worker_to_listener' = Append(q_worker_to_listener, m)
      /\ UNCHANGED <<out, send_queue, init_state, accepted, said>>
    BY <1>1, <1>2 DEF WorkerReap, PushToListener, clientVars, serverVars
<1>5. c \in worker[w].own /\ init_state[c] = DISCONNECT_STATE
    BY <1>1 DEF Leaving
<1>6. Serving(c) /\ c < accepted
  <2>1. Serving(c)
      BY <1>5 DEF Serving, Owners
  <2> QED BY <1>0, <2>1 DEF CustodyInv
<1>7. ~Serving(c)'
  <2>1. q_worker_to_listener \in Seq(Messages)
      BY <1>0 DEF TypeOK, QueueTypes
  <2>2. Carries(Append(q_worker_to_listener, m), "CL_DISCONNECTED", c) # {}
    <3> DEFINE q == q_worker_to_listener
               a == "CL_DISCONNECTED"
    <3>1. q \in Seq(Messages) /\ m.action = a
        BY <1>3, <2>1
    <3> HIDE DEF q, a
    <3>2. (m.action = a /\ m.id = c) =>
              Carries(Append(q, m), a, c) = Carries(q, a, c) \cup {Len(q) + 1}
        BY <3>1, CarriesAppend
    <3> QED BY <1>3, <3>1, <3>2 DEF q, a
  <2>3. Reports(c)' # {}
      BY <1>4, <2>2 DEF Reports
  <2>4. OneHand(c)'
      BY DEF CustodyInv
  <2> QED BY <2>3, <2>4 DEF OneHand, Serving
<1>8. Sound(m)'
    BY <1>3, <1>4, <1>5, <1>6, <1>7 DEF Sound
<1>9. \A x \in Messages : Sound(x) => Before(x, m)
  <2> SUFFICES ASSUME NEW x \in Messages, Sound(x), x.id = c
               PROVE  Rank(x) < MaxLines + 1
      BY <1>3 DEF Before
  <2>1. Rank(x) \in 0 .. said[c] /\ said[c] <= MaxLines /\ said[c] \in Nat /\ MaxLines \in Nat
      BY <1>0, <1>6, ClientAssumption, NoneIsNoConn DEF Sound, LinesNumbered, ClientTypes
  <2> QED BY <2>1
<1>a. \A d \in Conn : Ordered(out'[d], 2) /\ Told(d)' \subseteq Told(d)
    BY <1>0, <1>4 DEF NewsInOrder, Told
<1> QED BY <1>0, <1>4, <1>8, <1>9, <1>a, NewsPushed

\* EPOLLIN: that a client has joined is the first news of it, and its line comes after
\* all that was told of it, because a client that is still served has not left.
LEMMA WorkerRecvNews ==
    ASSUME AllInv, SoundStays, NEW w \in Conn, WorkerRecv(w)
    PROVE  NewsInOrder' /\ NewsIsSound'
<1>0. /\ TypeOK /\ ClientTypes /\ ThreadTypes /\ ServerTypes /\ CustodyInv
      /\ NewsInOrder /\ NewsIsSound /\ LinesNumbered /\ TodoIsOwn
    BY DEF AllInv, StoryInv, IndexInv, TypeOK
<1>1. PICK c \in Conn : c = Current(w) /\ c \in worker[w].todo
    BY <1>0, CurrentIsTodo DEF WorkerRecv
<1>2. PICK m : m = inbox[c][1]
    OBVIOUS
<1>3. /\ inbox' = [inbox EXCEPT ![c] = <<>>]
      /\ UNCHANGED <<send_queue, accepted, said>>
      /\ \/ UNCHANGED <<out, q_worker_to_listener>>
         \/ /\ init_state[c] = SENT_INIT_CONFIRMATION
            /\ init_state' = [init_state EXCEPT ![c] = INIT_DONE]
            /\ SendSucceeds(c, <<Msg("HELLO", c, 0)>>)
            /\ q_worker_to_listener' = Append(q_worker_to_listener, Msg("INIT_DONE", c, 0))
         \/ /\ m.action = "UNICAST_REPEATED" /\ init_state[c] = INIT_DONE
            /\ q_worker_to_listener' = Append(q_worker_to_listener, m)
            /\ UNCHANGED <<out, init_state>>
    BY <1>1, <1>2 DEF WorkerRecv, PushToListener, queueVars
<1>4. inbox'[c] = <<>>
    BY <1>0, <1>3 DEF ClientTypes
<1>5. Serving(c) /\ c < accepted
  <2>1. Serving(c)
      BY <1>0, <1>1 DEF TodoIsOwn, Serving, Owners
  <2> QED BY <1>0, <2>1 DEF CustodyInv
<1>6. said[c] \in Nat /\ said[c] <= MaxLines /\ MaxLines \in Nat
    BY <1>0, ClientAssumption DEF ClientTypes, LinesNumbered
<1>7. ASSUME NEW x \in Messages, x.id \in {c, None}, Rank(x) \in 0 .. said[c],
             init_state'[c] = INIT_DONE
      PROVE  Sound(x)'
    BY <1>3, <1>4, <1>5, <1>6, <1>7 DEF Sound
<1>8. CASE UNCHANGED <<out, q_worker_to_listener>>
    BY <1>0, <1>3, <1>8, NewsKept
<1>9. CASE /\ init_state[c] = SENT_INIT_CONFIRMATION
           /\ init_state' = [init_state EXCEPT ![c] = INIT_DONE]
           /\ SendSucceeds(c, <<Msg("HELLO", c, 0)>>)
           /\ q_worker_to_listener' = Append(q_worker_to_listener, Msg("INIT_DONE", c, 0))
  <2>1. PICK x \in Messages : x = Msg("INIT_DONE", c, 0)
      BY MsgType DEF Ids, Actions
  <2>2. x.id = c /\ Rank(x) = 0
      BY <2>1 DEF Msg, Rank
  <2>3. init_state'[c] = INIT_DONE
      BY <1>0, <1>9 DEF ServerTypes
  <2>4. Sound(x)'
      BY <1>6, <1>7, <2>2, <2>3
  <2>5. \A y \in Messages : Sound(y) => Before(y, x)
      BY <1>9, <2>2, StatesDiffer DEF Sound, Before
  <2>6. \A d \in Conn : Ordered(out'[d], 2) /\ Told(d)' \subseteq Told(d)
    <3>1. PICK h \in Messages : h = Msg("HELLO", c, 0)
        BY MsgType DEF Ids, Actions
    <3> DEFINE t == <<h>>
    <3>2. t \in Seq(Messages) /\ SendSucceeds(c, t)
        BY <1>9, <3>1
    <3> HIDE DEF t
    <3>3. /\ \A d \in Conn : Linked(d)' => Linked(d)
          /\ \A d \in Conn \ {c} : out'[d] = out[d]
          /\ \/ out'[c] = out[c]
             \/ out'[c] = out[c] \o t /\ Linked(c)'
        BY <1>0, <3>2, SendEffect
    <3>4. out[c] \in Seq(Messages) /\ \A d \in Conn : Ordered(out[d], 2)
        BY <1>0 DEF ClientTypes, NewsInOrder
    <3>5. Linked(c) => Len(out[c]) <= 1
      <4> SUFFICES ASSUME Linked(c) PROVE Len(out[c]) <= 1
          OBVIOUS
      <4>1. Len(out[c]) = 1
          BY <1>9, StatesDiffer DEF AllInv, HandshakeInv, AsFarAs
      <4> QED BY <4>1
    <3>6. Linked(c) => Ordered(out[c] \o t, 2) /\ From(out[c] \o t, 2) = {}
        BY <3>4, <3>5, ShortConcat DEF t
    <3>7. Ordered(out'[c], 2) /\ Told(c)' \subseteq Told(c)
        BY <3>3, <3>4, <3>6 DEF Told
    <3> QED BY <3>3, <3>4, <3>7 DEF Told
  <2> QED BY <1>0, <1>3, <1>9, <2>1, <2>4, <2>5, <2>6, NewsPushed
<1>a. CASE /\ m.action = "UNICAST_REPEATED" /\ init_state[c] = INIT_DONE
           /\ q_worker_to_listener' = Append(q_worker_to_listener, m)
           /\ UNCHANGED <<out, init_state>>
  <2>1. 1 \in DOMAIN inbox[c] /\ inbox[c][1] \in Messages
    <3>1. inbox[c] \in Seq(Messages) /\ Len(inbox[c]) = 1
        BY <1>0, <1>1 DEF WorkerRecv, WellFormed, ClientTypes
    <3> QED BY <3>1
  <2>2. m \in Messages /\ m.n \in Nat /\ Rank(m) = m.n
      BY <1>2, <1>a, <2>1 DEF Messages, Rank
  <2>3. m.id \in {c, None} /\ m.n <= said[c]
      BY <1>0, <1>2, <1>a, <2>1 DEF LinesNumbered
  <2>4. Rank(m) \in 0 .. said[c]
      BY <1>6, <2>2, <2>3
  <2>5. Sound(m)'
      BY <1>7, <1>a, <2>2, <2>3, <2>4
  <2>6. \A y \in Messages : Sound(y) => Before(y, m)
    <3> SUFFICES ASSUME NEW y \in Messages, Sound(y), y.id = m.id, y.id # None
                 PROVE  Rank(y) < Rank(m)
        BY DEF Before
    <3>1. y.id = c
        BY <2>3
    <3>2. Rank(y) # MaxLines + 1
        BY <1>5, <3>1 DEF Sound
    <3>3. Rank(y) < inbox[c][1].n
        BY <1>2, <1>a, <2>1, <3>1, <3>2 DEF Sound
    <3> QED BY <1>2, <2>2, <3>3
  <2>7. \A d \in Conn : Ordered(out'[d], 2) /\ Told(d)' \subseteq Told(d)
      BY <1>0, <1>a DEF NewsInOrder, Told
  <2> QED BY <1>0, <1>3, <1>a, <2>2, <2>5, <2>6, <2>7, NewsPushed
<1> QED BY <1>3, <1>8, <1>9, <1>a

\* Every step of a worker keeps the news in order.
LEMMA WorkerNews ==
    ASSUME AllInv, SoundStays, CustodyInv', NEW w \in Conn, Worker(w)
    PROVE  NewsInOrder' /\ NewsIsSound'
<1>0. TypeOK /\ NewsInOrder /\ NewsIsSound
    BY DEF AllInv, StoryInv, IndexInv
<1> USE DEF clientVars, serverVars, queueVars
<1>1. CASE Terminate
    BY <1>0, <1>1, NewsKept DEF Terminate
<1>2. CASE WorkerPop(w)
    BY <1>0, <1>1, <1>2, NewsKept DEF WorkerPop
<1>3. CASE WorkerRecvThrows(w) \/ WorkerSendThrows(w) \/ WorkerReapThrows(w)
    BY <1>1, <1>3 DEF WorkerRecvThrows, WorkerSendThrows, WorkerReapThrows
<1>4. CASE WorkerWake(w) \/ WorkerSignal(w)
    BY <1>0, <1>4, NewsKept DEF WorkerWake, WorkerSignal
<1>5. CASE WorkerRecvEnd(w) \/ WorkerRoundOver(w)
    BY <1>0, <1>5, NewsKept DEF WorkerRecvEnd, WorkerRoundOver
<1>6. CASE WorkerStart(w)
    BY <1>0, <1>1, <1>6, NewsKept DEF WorkerStart
<1> QED BY <1>2, <1>3, <1>4, <1>5, <1>6, WorkerRecvNews, WorkerSendNews, WorkerReapNews DEF Worker

------------------------------------------------------------------------------
(* The news: the listener *)

\* A broadcast reaches clients other than the one it is about.
LEMMA BroadcastReaches ==
    ASSUME NEW id, NEW n, unicast_repeated(id, n)
    PROVE  \A c \in Conn : \/ send_queue'[c] = send_queue[c]
                           \/ send_queue'[c] = Append(send_queue[c], n) /\ c # id
<1> QED BY DEF unicast_repeated, Reached

\* The relay of a line continues the story of the client that said it.
LEMMA ListenerRelayNews ==
    ASSUME AllInv, SoundStays, ListenerRelay
    PROVE  NewsInOrder' /\ NewsIsSound'
<1>0. TypeOK /\ QueueTypes /\ JoinsAreSound /\ NewsInOrder /\ NewsIsSound
    BY DEF AllInv, StoryInv, IndexInv, TypeOK
<1>1. PICK m :
        /\ ListenerPops(m)
        /\ m.action \in {"INIT_DONE", "UNICAST_REPEATED"}
        /\ UNCHANGED send_queue \/ (m.id # None /\ unicast_repeated(m.id, Notice(m)))
        /\ UNCHANGED out
    BY DEF ListenerRelay, clientVars
<1>2. /\ m \in Messages /\ m = Head(q_worker_to_listener)
      /\ q_worker_to_listener # <<>>
      /\ q_worker_to_listener' = Tail(q_worker_to_listener)
    BY <1>0, <1>1, PoppedMessage DEF ListenerPops
<1>3. PICK n \in Messages : n = Notice(m)
    BY <1>1, <1>2 DEF Notice, Msg, Messages, Actions
<1>4. n.id = m.id /\ Rank(n) = Rank(m) /\ n.action \in {"JOINED", "LEFT", "UNICAST_REPEATED"}
    BY <1>1, <1>3 DEF Notice, Msg, Rank
<1>5. \A c \in Conn : \/ send_queue'[c] = send_queue[c]
                      \/ send_queue'[c] = Append(send_queue[c], n) /\ n.id \notin {c, None}
  <2>1. CASE UNCHANGED send_queue
      BY <2>1
  <2>2. CASE m.id # None /\ unicast_repeated(m.id, n)
      BY <1>4, <2>2, BroadcastReaches
  <2> QED BY <1>1, <1>3, <2>1, <2>2
<1> QED BY <1>0, <1>1, <1>2, <1>4, <1>5, NewsPassed

\* The news that a client has left ends its story.
LEMMA ListenerDisconnectNews ==
    ASSUME AllInv, SoundStays, ListenerDisconnect
    PROVE  NewsInOrder' /\ NewsIsSound'
<1>0. TypeOK /\ QueueTypes /\ JoinsAreSound /\ NewsInOrder /\ NewsIsSound
    BY DEF AllInv, StoryInv, IndexInv, TypeOK
<1>1. PICK m :
        /\ ListenerPops(m)
        /\ m.action = "CL_DISCONNECTED"
        /\ \/ UNCHANGED send_queue
           \/ m.id \in Connected /\ unicast_repeated(m.id, Msg("LEFT", m.id, 0))
        /\ UNCHANGED out
    BY DEF ListenerDisconnect
<1>2. /\ m \in Messages /\ m = Head(q_worker_to_listener)
      /\ q_worker_to_listener # <<>>
      /\ q_worker_to_listener' = Tail(q_worker_to_listener)
    BY <1>0, <1>1, PoppedMessage DEF ListenerPops
<1>3. PICK n \in Messages : n = Msg("LEFT", m.id, 0)
    BY <1>2 DEF Msg, Messages, Actions
<1>4. n.id = m.id /\ Rank(n) = Rank(m) /\ n.action \in {"JOINED", "LEFT", "UNICAST_REPEATED"}
    BY <1>1, <1>3 DEF Msg, Rank
<1>5. \A c \in Conn : \/ send_queue'[c] = send_queue[c]
                      \/ send_queue'[c] = Append(send_queue[c], n) /\ n.id \notin {c, None}
  <2>1. CASE UNCHANGED send_queue
      BY <2>1
  <2>2. CASE m.id \in Connected /\ unicast_repeated(m.id, n)
      BY <1>4, <2>2, BroadcastReaches DEF Connected
  <2> QED BY <1>1, <1>3, <2>1, <2>2
<1> QED BY <1>0, <1>1, <1>2, <1>4, <1>5, NewsPassed

\* #quit on the console: a message that is about no client.
LEMMA ListenerStdinNews ==
    ASSUME AllInv, SoundStays, ListenerStdin
    PROVE  NewsInOrder' /\ NewsIsSound'
<1>0. TypeOK /\ NewsInOrder /\ NewsIsSound
    BY DEF AllInv, StoryInv, IndexInv
<1>1. PICK m \in Messages : m = Msg("SV_DISCONNECTED", None, 0)
    BY MsgType DEF Actions, Ids
<1>2. /\ UNCHANGED <<out, send_queue>>
      /\ \/ q_worker_to_listener' = q_worker_to_listener
         \/ q_worker_to_listener' = Append(q_worker_to_listener, m)
    BY <1>1 DEF ListenerStdin, clientVars
<1>3. m.id = None
    BY <1>1 DEF Msg
<1>4. Sound(m)' /\ \A x \in Messages : Before(x, m)
    BY <1>3 DEF Sound, Before
<1>5. \A d \in Conn : Ordered(out'[d], 2) /\ Told(d)' \subseteq Told(d)
    BY <1>0, <1>2 DEF NewsInOrder, Told
<1> QED BY <1>0, <1>2, <1>4, <1>5, NewsKept, NewsPushed

\* Every step of the listener keeps the stories in order.
LEMMA ListenerNews ==
    ASSUME AllInv, SoundStays, Listener
    PROVE  NewsInOrder' /\ NewsIsSound'
<1>0. TypeOK /\ NewsInOrder /\ NewsIsSound
    BY DEF AllInv, StoryInv, IndexInv
<1> USE DEF clientVars, serverVars, queueVars
<1>1. CASE ListenerWake \/ ListenerPopNothing \/ ListenerReset \/ ListenerSignal \/ ListenerLaunch
    BY <1>0, <1>1, NewsKept
       DEF ListenerWake, ListenerPopNothing, ListenerReset, ListenerSignal, ListenerLaunch
<1>2. CASE ListenerAccept \/ ListenerAcceptFails \/ Destroy
    BY <1>0, <1>2, NewsKept DEF ListenerAccept, ListenerAcceptFails, Destroy
<1> QED BY <1>1, <1>2, ListenerRelayNews, ListenerDisconnectNews, ListenerStdinNews DEF Listener

------------------------------------------------------------------------------
(* The clients of a round *)

\* The clients of a round are some of the worker's own, and a client is let go after
\* the round is over.
LEMMA TodoStep ==
    ASSUME ThreadTypes, TodoIsOwn, [Next]_vars
    PROVE  TodoIsOwn'
<1>0. \A w \in Conn : worker[w] \in WorkerType /\ worker[w].todo \subseteq worker[w].own
    BY DEF ThreadTypes, TodoIsOwn
<1> USE DEF ThreadTypes
<1>1. CASE UNCHANGED worker
    BY <1>0, <1>1 DEF TodoIsOwn
<1>2. CASE UNCHANGED vars \/ AdminQuit \/ ClientSteps
    BY <1>1, <1>2 DEF vars, AdminQuit, ClientSteps
<1>3. ASSUME NEW w \in Conn, NEW r, r.todo \subseteq r.own, worker' = [worker EXCEPT ![w] = r]
      PROVE  TodoIsOwn'
    BY <1>0, <1>3 DEF TodoIsOwn
<1>4. ASSUME NEW w \in Conn, Worker(w)
      PROVE  TodoIsOwn'
  <2>1. CASE Terminate
      BY <1>1, <2>1 DEF Terminate
  <2>2. CASE WorkerWake(w)
    <3>a. PICK pc, todo, ready :
             /\ todo \subseteq worker[w].own
             /\ worker' = [worker EXCEPT ![w].pc = pc, ![w].todo = todo, ![w].ready = ready]
        BY <2>2 DEF WorkerWake
    <3>1. /\ \A v \in Conn \ {w} : worker'[v] = worker[v]
          /\ worker'[w].todo = todo /\ worker'[w].own = worker[w].own
        BY <1>0, <3>a DEF WorkerType
    <3> QED BY <1>0, <3>a, <3>1 DEF TodoIsOwn
  <2>b. CASE WorkerStart(w) /\ ~Terminate
    <3>1. /\ \A v \in Conn \ {w} : worker'[v] = worker[v]
          /\ worker'[w].todo = worker[w].todo /\ worker'[w].own = worker[w].own
        BY <1>0, <2>b DEF WorkerStart, WorkerType
    <3> QED BY <1>0, <3>1 DEF TodoIsOwn
  <2>3. CASE WorkerPop(w) /\ ~Terminate
    <3>1. /\ \A v \in Conn \ {w} : worker'[v] = worker[v]
          /\ worker'[w].todo = worker[w].todo /\ worker'[w].own = worker[w].own
        BY <1>0, <2>3 DEF WorkerPop, WorkerType
    <3> QED BY <1>0, <3>1 DEF TodoIsOwn
  <2>4. CASE WorkerRecvEnd(w) \/ WorkerSend(w)
    <3>1. /\ \A v \in Conn \ {w} : worker'[v] = worker[v]
          /\ worker'[w].todo \subseteq worker[w].todo /\ worker'[w].own = worker[w].own
        BY <1>0, <2>4 DEF WorkerRecvEnd, WorkerSend, WorkerType
    <3> QED BY <1>0, <3>1 DEF TodoIsOwn
  <2>5. CASE WorkerRecv(w)
    <3>a. PICK pc : Turn(w, Current(w), pc)
        BY <2>5 DEF WorkerRecv
    <3>1. /\ \A v \in Conn \ {w} : worker'[v] = worker[v]
          /\ worker'[w].todo \subseteq worker[w].todo /\ worker'[w].own = worker[w].own
        BY <1>0, <3>a DEF Turn, WorkerType
    <3> QED BY <1>0, <3>1 DEF TodoIsOwn
  <2>6. CASE WorkerSignal(w)
    <3>1. /\ \A v \in Conn \ {w} : worker'[v] = worker[v]
          /\ worker'[w].todo = worker[w].todo /\ worker'[w].own = worker[w].own
        BY <1>0, <2>6 DEF WorkerSignal, WorkerType
    <3> QED BY <1>0, <3>1 DEF TodoIsOwn
  <2>7. CASE WorkerReap(w)
    <3>a. PICK own : /\ worker[w].todo = {}
                     /\ worker' = [worker EXCEPT ![w].pc = "reapSignal", ![w].own = own]
        BY <2>7 DEF WorkerReap
    <3>1. (\A v \in Conn \ {w} : worker'[v] = worker[v]) /\ worker'[w].todo = {}
        BY <1>0, <3>a DEF WorkerType
    <3> QED BY <1>0, <3>1 DEF TodoIsOwn
  <2>9. CASE WorkerRoundOver(w)
    <3>a. PICK pc, own : /\ worker[w].todo = {}
                         /\ worker' = [worker EXCEPT ![w].pc = pc, ![w].new = None,
                                                     ![w].own = own, ![w].ready = {}]
        BY <2>9 DEF WorkerRoundOver
    <3>1. (\A v \in Conn \ {w} : worker'[v] = worker[v]) /\ worker'[w].todo = {}
        BY <1>0, <3>a DEF WorkerType
    <3> QED BY <1>0, <3>1 DEF TodoIsOwn
  <2>8. CASE WorkerRecvThrows(w) \/ WorkerSendThrows(w) \/ WorkerReapThrows(w)
      BY <2>1, <2>8 DEF WorkerRecvThrows, WorkerSendThrows, WorkerReapThrows
  <2> QED BY <1>4, <2>1, <2>2, <2>3, <2>4, <2>5, <2>6, <2>7, <2>8, <2>9, <2>b DEF Worker
<1>5. CASE Listener
  <2>1. \/ UNCHANGED worker
        \/ \E c \in Conn, i \in {0, nr_of_launched_threads} :
              worker' = [worker EXCEPT
                            ![c] = [NoWorker EXCEPT !.pc = "start", !.idx = i, !.own = {c}]]
      BY <1>5 DEF Listener, ListenerWake, ListenerPopNothing, ListenerRelay, ListenerDisconnect,
                  ListenerReset, ListenerStdin, ListenerAccept, process_new_client,
                  emplace_new_worker, assign_client_to_worker, ListenerAcceptFails,
                  ListenerSignal, ListenerLaunch, Destroy
  <2>2. \A c, i : [NoWorker EXCEPT !.pc = "start", !.idx = i, !.own = {c}].todo = {}
      BY DEF NoWorker
  <2> QED BY <1>1, <1>3, <2>1, <2>2
<1> QED BY <1>2, <1>4, <1>5 DEF Next

------------------------------------------------------------------------------
(* The news: the theorem *)

\* StoryInv is inductive.
LEMMA StoryStep ==
    ASSUME AllInv, CustodyInv', [Next]_vars
    PROVE  StoryInv'
<1>0. IndexInv /\ TypeOK /\ CustodyInv /\ LinesNumbered /\ TodoIsOwn /\ NewsInOrder /\ NewsIsSound
    BY DEF AllInv, StoryInv, IndexInv
<1>1. \A c \in Conn : Onward(c)
    BY <1>0, StepOnward
<1>2. LinesNumbered'
    BY <1>0, <1>1, LinesStep
<1>3. TodoIsOwn'
    BY <1>0, TodoStep DEF TypeOK
<1>4. SoundStays
  <2>1. NoneReturns
      BY <1>0, CustodyStep
  <2>2. accepted' \in {accepted, accepted + 1}
      BY <1>0, AcceptedGrows
  <2> QED BY <1>0, <1>1, <2>1, <2>2, SoundStep DEF SoundStays
<1>5. NewsInOrder' /\ NewsIsSound'
  <2>1. CASE UNCHANGED vars \/ AdminQuit \/ ClientSteps
    <3>1. UNCHANGED <<q_worker_to_listener, send_queue, out>>
        BY <2>1 DEF vars, AdminQuit, ClientSteps, ClientStep, Connect, RequestInit, FinalizeInit,
                    TypeLine, TypeQuit, HangUp, clientVars, serverVars, queueVars
    <3> QED BY <1>0, <1>4, <3>1, NewsKept
  <2> QED BY <1>4, <2>1, WorkerNews, ListenerNews DEF Next
<1> QED BY <1>2, <1>3, <1>5 DEF StoryInv

\* Before the first connection there is no story.
LEMMA StoryInit ==
    ASSUME Init
    PROVE  StoryInv
<1>1. \A k \in Nat : Ordered(<<>>, k) /\ From(<<>>, k) = {}
    BY DEF Ordered, From
<1>2. q_worker_to_listener = <<>> /\ \A c \in Conn : out[c] = <<>> /\ send_queue[c] = <<>>
    BY DEF Init, ClientsInit, ServerInit
<1>3. Pending = {} /\ \A c \in Conn : Told(c) = {} /\ Queued(c) = {}
    BY <1>1, <1>2 DEF Pending, Told, Queued
<1>4. NewsInOrder
    BY <1>1, <1>2, <1>3 DEF NewsInOrder, AllBefore
<1>5. NewsIsSound
    BY <1>3 DEF NewsIsSound
<1>6. LinesNumbered
    BY ClientAssumption DEF Init, ClientsInit, LinesNumbered
<1>7. TodoIsOwn
    BY DEF Init, NoWorker, TodoIsOwn
<1> QED BY <1>4, <1>5, <1>6, <1>7 DEF StoryInv

\* Stories in order on their way are in order when told.
LEMMA StoryTold ==
    ASSUME TypeOK, StoryInv
    PROVE  StoryInOrder
<1> SUFFICES ASSUME NEW c \in Conn, NEW i \in DOMAIN out[c], NEW j \in DOMAIN out[c], 2 < i, i < j
             PROVE  /\ c \notin {out[c][i].id, out[c][j].id}
                    /\ out[c][i].id = out[c][j].id => Chapter(out[c][i]) < Chapter(out[c][j])
    BY DEF StoryInOrder
<1> DEFINE m == out[c][i]
           n == out[c][j]
<1>1. m \in Told(c) /\ n \in Told(c)
  <2>1. i \in Nat /\ j \in Nat
      BY DEF TypeOK, ClientTypes
  <2> QED BY <2>1 DEF Told, From
<1>2. NoticeFor(m, c) /\ NoticeFor(n, c)
    BY <1>1 DEF StoryInv, NewsIsSound
<1>3. Before(m, n)
    BY DEF StoryInv, NewsInOrder, Ordered
<1> HIDE DEF m, n
<1>4. Chapter(m) = Rank(m) /\ Chapter(n) = Rank(n)
    BY <1>2 DEF NoticeFor, Chapter, Rank
<1> QED BY <1>2, <1>3, <1>4 DEF NoticeFor, Before, m, n

\* News of a client moves in order from its worker over the queue to the listener and
\* the send_queue of every other client to what that client receives, and what is on
\* its way says nothing that the server's state contradicts.
THEOREM StoryInvariant == Spec => []StoryInv
<1>1. Init => StoryInv
    BY StoryInit
<1>2. StoryInv /\ IndexInv /\ HandshakeInv /\ CustodyInv /\ CustodyInv' /\ [Next]_vars => StoryInv'
    BY StoryStep DEF AllInv
<1> QED BY <1>1, <1>2, IndexInvariant, HandshakeInvariant, CustodyInvariant, PTL DEF Spec

\* What a client is told about another comes in the order it happened, nothing twice
\* and nothing about itself: however the workers that push on q_worker_to_listener,
\* the listener that broadcasts and the worker that drains the send_queue are
\* interleaved.
THEOREM StoryStaysInOrder == Spec => []StoryInOrder
<1> QED BY StoryInvariant, StoryTold, ServerTypeCorrect, PTL
==============================================================================
