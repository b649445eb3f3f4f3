---------------------------- MODULE CustodyProofs ----------------------------
(***************************************************************************)
(* Proof that no client of the server is ever in two hands, for any number *)
(* of threads, clients per thread and connections, and any queue size.     *)
(* A client that was accepted is owned by one worker, or announced to one  *)
(* in an ACCEPT, or being admitted by one, or reported to the listener in  *)
(* a CL_DISCONNECTED, or in nobody's hands any more, and as long as it is  *)
(* in somebody's hands its Client_Data exists.                             *)
(***************************************************************************)
EXTENDS ServerThreadManagerProofs

Accepts(c) == Carries(q_listener_to_worker, "ACCEPT", c)
Reports(c) == Carries(q_worker_to_listener, "CL_DISCONNECTED", c)

\* at most one element
Sole(S) == \A x, y \in S : x = y

\* the workers have the client, or are about to
Serving(c) == Owners(c) # {} \/ Admitting(c) # {} \/ Accepts(c) # {}

OneHand(c) ==
    /\ Sole(Owners(c)) /\ Sole(Admitting(c)) /\ Sole(Accepts(c)) /\ Sole(Reports(c))
    /\ Owners(c) # {} => Admitting(c) = {} /\ Accepts(c) = {} /\ Reports(c) = {}
    /\ Admitting(c) # {} => Accepts(c) = {} /\ Reports(c) = {}
    /\ Accepts(c) # {} => Reports(c) = {}

\* The inductive invariant.  A connection that was not accepted yet is in nobody's
\* hands, because it is not in the array of clients; so accept_client may put it
\* into one.  A worker takes every message from the listener for an ACCEPT.
CustodyInv ==
    /\ \A c \in Conn : OneHand(c)
    /\ \A c \in Conn : (Serving(c) \/ Reports(c) # {}) => c \in Connected
    /\ \A c \in Connected : c < accepted
    /\ \A i \in DOMAIN q_listener_to_worker : q_listener_to_worker[i].action = "ACCEPT"

\* Only the connection that is accepted next comes into the workers' hands: a client
\* that has left them does not return.
NoneReturns == \A c \in Conn : Serving(c)' => (Serving(c) \/ c = accepted)

\* No connection is called None.
LEMMA NoneIsNoConn ==
    \A d \in Conn : None # d
<1> QED BY ClientAssumption DEF Conn

------------------------------------------------------------------------------
(* Messages on a queue *)

\* What a push adds to the messages of one kind.
LEMMA CarriesAppend ==
    ASSUME NEW q \in Seq(Messages), NEW m \in Messages, NEW a, NEW c
    PROVE  /\ ~(m.action = a /\ m.id = c) => Carries(Append(q, m), a, c) = Carries(q, a, c)
           /\ (m.action = a /\ m.id = c) =>
                 Carries(Append(q, m), a, c) = Carries(q, a, c) \cup {Len(q) + 1}
<1>1. /\ DOMAIN Append(q, m) = DOMAIN q \cup {Len(q) + 1}
      /\ Append(q, m)[Len(q) + 1] = m
      /\ \A i \in DOMAIN q : Append(q, m)[i] = q[i]
    OBVIOUS
<1> QED BY <1>1 DEF Carries

\* A pop takes the first message; the others move up.
LEMMA CarriesTail ==
    ASSUME NEW q \in Seq(Messages), q # <<>>, NEW a, NEW c
    PROVE  \A i \in Carries(Tail(q), a, c) : i + 1 \in Carries(q, a, c) /\ i \in Nat \ {0}
<1>1. \A i \in DOMAIN Tail(q) : i \in Nat \ {0} /\ i + 1 \in DOMAIN q /\ Tail(q)[i] = q[i + 1]
    OBVIOUS
<1> QED BY <1>1 DEF Carries

\* A pop leaves no second message of a kind of which there was one at most.
LEMMA CarriesPopped ==
    ASSUME NEW q \in Seq(Messages), q # <<>>, NEW a, NEW c, Sole(Carries(q, a, c))
    PROVE  /\ Sole(Carries(Tail(q), a, c))
           /\ Carries(Tail(q), a, c) # {} => Carries(q, a, c) # {}
           /\ (Head(q).action = a /\ Head(q).id = c) => Carries(Tail(q), a, c) = {}
<1>1. \A i \in Carries(Tail(q), a, c) : i + 1 \in Carries(q, a, c) /\ i \in Nat \ {0}
    BY CarriesTail
<1>2. (Head(q).action = a /\ Head(q).id = c) => 1 \in Carries(q, a, c)
    BY DEF Carries
<1> QED BY <1>1, <1>2 DEF Sole

------------------------------------------------------------------------------
(* Steps by which nobody gets a client *)

\* No one who did not have client c has it now.
Kept(c) ==
    /\ Owners(c)' \subseteq Owners(c)
    /\ Admitting(c)' \subseteq Admitting(c)
    /\ Sole(Accepts(c)') /\ (Accepts(c)' # {} => Accepts(c) # {})
    /\ Sole(Reports(c)') /\ (Reports(c)' # {} => Reports(c) # {})

\* A step that adds no mention of c to any hand leaves c in one hand.
LEMMA KeptOneHand ==
    ASSUME NEW c, OneHand(c), Kept(c)
    PROVE  /\ OneHand(c)'
           /\ Serving(c)' => Serving(c)
           /\ Reports(c)' # {} => Reports(c) # {}
<1> QED BY DEF OneHand, Kept, Sole, Serving

\* A step that touches neither what the workers have nor the queue to them.
LEMMA QuietKeepsHands ==
    ASSUME CustodyInv, QueueTypes, ThreadTypes,
           \A w \in Conn : worker'[w].own = worker[w].own /\ worker'[w].new = worker[w].new,
           UNCHANGED q_listener_to_worker,
           \/ UNCHANGED q_worker_to_listener
           \/ \E m \in Messages : /\ m.action # "CL_DISCONNECTED"
                                  /\ q_worker_to_listener' = Append(q_worker_to_listener, m)
           \/ /\ q_worker_to_listener # <<>>
              /\ q_worker_to_listener' = Tail(q_worker_to_listener)
    PROVE  \A c \in Conn : Kept(c)
<1> SUFFICES ASSUME NEW c \in Conn PROVE Kept(c)
    OBVIOUS
<1>1. Owners(c)' = Owners(c) /\ Admitting(c)' = Admitting(c)
    BY DEF Owners, Admitting
<1>2. Accepts(c)' = Accepts(c)
    BY DEF Accepts, Carries
<1>3. Sole(Accepts(c)) /\ Sole(Reports(c))
    BY DEF CustodyInv, OneHand
<1>4. Sole(Reports(c)') /\ (Reports(c)' # {} => Reports(c) # {})
  <2>1. CASE UNCHANGED q_worker_to_listener
      BY <1>3, <2>1 DEF Reports, Carries
  <2>2. CASE \E m \in Messages : /\ m.action # "CL_DISCONNECTED"
                                 /\ q_worker_to_listener' = Append(q_worker_to_listener, m)
    <3>1. Carries(q_worker_to_listener', "CL_DISCONNECTED", c) = Reports(c)
        BY <2>2, CarriesAppend DEF Reports, QueueTypes
    <3> QED BY <1>3, <3>1 DEF Reports, Carries
  <2>3. CASE /\ q_worker_to_listener # <<>>
             /\ q_worker_to_listener' = Tail(q_worker_to_listener)
      BY <1>3, <2>3, CarriesPopped DEF Reports, QueueTypes
  <2> QED BY <2>1, <2>2, <2>3
<1> QED BY <1>1, <1>2, <1>3, <1>4 DEF Kept

\* Then the invariant is kept, if the array of clients stays as it is.
LEMMA KeptCustody ==
    ASSUME CustodyInv, \A c \in Conn : Kept(c), UNCHANGED <<clients, accepted>>,
           \A i \in DOMAIN q_listener_to_worker' : q_listener_to_worker'[i].action = "ACCEPT"
    PROVE  CustodyInv' /\ NoneReturns
<1>1. \A c \in Conn : /\ OneHand(c)'
                      /\ (Serving(c)' \/ Reports(c)' # {}) => (Serving(c) \/ Reports(c) # {})
    BY KeptOneHand DEF CustodyInv
<1>2. Connected' = Connected
    BY DEF Connected
<1>3. NoneReturns
    BY KeptOneHand DEF CustodyInv, NoneReturns
<1> QED BY <1>1, <1>2, <1>3 DEF CustodyInv

\* A step that hands no client over keeps custody.
LEMMA QuietCustody ==
    ASSUME CustodyInv, QueueTypes, ThreadTypes,
           \A w \in Conn : worker'[w].own = worker[w].own /\ worker'[w].new = worker[w].new,
           UNCHANGED <<q_listener_to_worker, clients, accepted>>,
           \/ UNCHANGED q_worker_to_listener
           \/ \E m \in Messages : /\ m.action # "CL_DISCONNECTED"
                                  /\ q_worker_to_listener' = Append(q_worker_to_listener, m)
           \/ /\ q_worker_to_listener # <<>>
              /\ q_worker_to_listener' = Tail(q_worker_to_listener)
    PROVE  CustodyInv' /\ NoneReturns
<1>1. \A c \in Conn : Kept(c)
    BY QuietKeepsHands
<1> QED BY <1>1, KeptCustody DEF CustodyInv

\* A client goes from one hand to another.
LEMMA HandMoves ==
    ASSUME CustodyInv, NEW c \in Conn, \A d \in Conn \ {c} : Kept(d),
           OneHand(c)', c \in Connected, Serving(c)' => Serving(c),
           UNCHANGED <<clients, accepted>>,
           \A i \in DOMAIN q_listener_to_worker' : q_listener_to_worker'[i].action = "ACCEPT"
    PROVE  CustodyInv' /\ NoneReturns
<1>1. \A d \in Conn \ {c} :
          /\ OneHand(d)'
          /\ (Serving(d)' \/ Reports(d)' # {}) => (Serving(d) \/ Reports(d) # {})
          /\ Serving(d)' => Serving(d)
    BY KeptOneHand DEF CustodyInv
<1>2. Connected' = Connected
    BY DEF Connected
<1>3. NoneReturns
    BY <1>1 DEF NoneReturns
<1> QED BY <1>1, <1>2, <1>3 DEF CustodyInv

------------------------------------------------------------------------------
(* The workers *)

\* An ACCEPT is taken off the queue by the worker it is for, which admits its client,
\* or by another one, which drops it.
LEMMA WorkerPopCustody ==
    ASSUME TypeOK, CustodyInv, NEW w \in Conn, WorkerPop(w)
    PROVE  CustodyInv' /\ NoneReturns
<1>0. QueueTypes /\ ThreadTypes /\ q_listener_to_worker \in Seq(Messages)
    BY DEF TypeOK, QueueTypes
<1> USE DEF clientVars, serverVars, queueVars
<1>1. CASE q_listener_to_worker = <<>>
  <2>1. \A v \in Conn : worker'[v].own = worker[v].own /\ worker'[v].new = worker[v].new
      BY <1>0, <1>1 DEF WorkerPop, ThreadTypes, WorkerType
  <2> QED BY <1>0, <1>1, <2>1, QuietCustody DEF WorkerPop
<1>2. CASE Terminate
    BY <1>0, <1>2, QuietCustody DEF Terminate
<1>3. CASE q_listener_to_worker # <<>> /\ ~Terminate
  <2> DEFINE q == q_listener_to_worker
  <2>1. PICK n \in Conn \cup {None} :
          /\ n # None => n = Head(q).id
          /\ worker' = [worker EXCEPT ![w].pc = "clients", ![w].new = n]
          /\ q_listener_to_worker' = Tail(q)
          /\ UNCHANGED <<clients, accepted, q_worker_to_listener>>
    <3> DEFINE m == Head(q)
               mine == m.n = worker[w].idx
               new == IF mine THEN m.id ELSE None
    <3>1. m \in Messages
        BY <1>0, <1>3
    <3>2. /\ ~(mine /\ CannotMonitor(m.id))
          /\ worker' = [worker EXCEPT ![w].pc = "clients", ![w].new = new]
          /\ q_listener_to_worker' = Tail(q)
          /\ UNCHANGED <<clients, accepted, q_worker_to_listener>>
        BY <1>3 DEF WorkerPop
    <3>3. new \in Conn \cup {None} /\ (new # None => new = m.id)
        BY <3>1, <3>2 DEF CannotMonitor, Messages, Ids
    <3> HIDE DEF new
    <3> QED BY <3>2, <3>3
  <2>2. /\ \A v \in Conn : worker'[v].own = worker[v].own
        /\ \A v \in Conn \ {w} : worker'[v].new = worker[v].new
        /\ worker'[w].new = n
      BY <1>0, <2>1 DEF ThreadTypes, WorkerType
  <2>3. /\ q # <<>> /\ Head(q).action = "ACCEPT" /\ Head(q) \in Messages
        /\ \A i \in DOMAIN Tail(q) : Tail(q)[i].action = "ACCEPT"
    <3>1. q # <<>> /\ 1 \in DOMAIN q /\ Head(q) = q[1] /\ q[1] \in Messages
        BY <1>0, <1>3
    <3>2. \A i \in DOMAIN Tail(q) : i + 1 \in DOMAIN q /\ Tail(q)[i] = q[i + 1]
        BY <1>0, <3>1
    <3> QED BY <3>1, <3>2 DEF CustodyInv
  <2>4. ASSUME NEW d \in Conn
        PROVE  /\ Owners(d)' = Owners(d) /\ Reports(d)' = Reports(d)
               /\ Sole(Accepts(d)') /\ (Accepts(d)' # {} => Accepts(d) # {})
               /\ Admitting(d)' \subseteq Admitting(d) \cup {v \in {w} : d = n}
               /\ OneHand(d)
    <3>1. OneHand(d)
        BY DEF CustodyInv
    <3>2. Sole(Carries(q, "ACCEPT", d))
        BY <3>1 DEF OneHand, Accepts
    <3>3. Sole(Accepts(d)') /\ (Accepts(d)' # {} => Accepts(d) # {})
        BY <1>0, <2>1, <2>3, <3>2, CarriesPopped DEF Accepts
    <3>4. Owners(d)' = Owners(d) /\ Reports(d)' = Reports(d)
        BY <2>1, <2>2 DEF Owners, Reports, Carries
    <3>5. Admitting(d)' \subseteq Admitting(d) \cup {v \in {w} : d = n}
        BY <2>2 DEF Admitting
    <3> QED BY <3>1, <3>3, <3>4, <3>5
  <2>5. \A d \in Conn \ {n} : Kept(d)
      BY <2>4 DEF Kept, OneHand
  <2>6. CASE n = None
    <3>1. \A d \in Conn : Kept(d)
        BY <2>5, <2>6, NoneIsNoConn
    <3> QED BY <2>1, <2>3, <3>1, KeptCustody
  <2>7. CASE n \in Conn
    <3>1. n = Head(q).id
        BY <2>1, <2>7, NoneIsNoConn
    <3>2. 1 \in Accepts(n)
        BY <1>0, <2>3, <3>1 DEF Accepts, Carries
    <3>3. n \in Connected
        BY <2>7, <3>2 DEF CustodyInv, Serving
    <3>4. Owners(n) = {} /\ Admitting(n) = {} /\ Reports(n) = {}
        BY <2>4, <2>7, <3>2 DEF OneHand
    <3>5. Accepts(n)' = {}
      <4>1. Sole(Carries(q, "ACCEPT", n))
          BY <2>4, <2>7 DEF OneHand, Accepts
      <4> QED BY <1>0, <2>1, <2>3, <3>1, <4>1, CarriesPopped DEF Accepts
    <3>6. OneHand(n)'
        BY <2>4, <2>7, <3>4, <3>5 DEF OneHand, Sole
    <3>7. Serving(n)
        BY <3>2 DEF Serving
    <3> QED BY <2>1, <2>3, <2>5, <2>7, <3>3, <3>6, <3>7, HandMoves
  <2> QED BY <2>6, <2>7
<1> QED BY <1>1, <1>2, <1>3

\* The client that was admitted in this round becomes one of the worker's own.
LEMMA WorkerRoundOverCustody ==
    ASSUME TypeOK, CustodyInv, NEW w \in Conn, WorkerRoundOver(w)
    PROVE  CustodyInv' /\ NoneReturns
<1>0. QueueTypes /\ ThreadTypes
    BY DEF TypeOK
<1>1. PICK n \in Conn \cup {None} : n = worker[w].new
    BY <1>0 DEF ThreadTypes, WorkerType
<1>2. /\ \A v \in Conn \ {w} : worker'[v].own = worker[v].own /\ worker'[v].new = worker[v].new
      /\ worker'[w].own = worker[w].own \cup ({n} \ {None})
      /\ worker'[w].new = None
  <2> DEFINE own == worker[w].own \cup ({n} \ {None})
  <2>1. PICK pc : worker' = [worker EXCEPT ![w].pc = pc, ![w].new = None, ![w].own = own,
                                           ![w].ready = {}]
      BY <1>1 DEF WorkerRoundOver
  <2> HIDE DEF own
  <2>2. /\ \A v \in Conn \ {w} : worker'[v] = worker[v]
        /\ worker'[w].own = own /\ worker'[w].new = None
      BY <1>0, <2>1 DEF ThreadTypes, WorkerType
  <2> QED BY <2>2 DEF own
<1>3. UNCHANGED <<clients, accepted, q_listener_to_worker, q_worker_to_listener>>
    BY DEF WorkerRoundOver, serverVars, queueVars
<1>4. \A d \in Conn : None # d
    BY NoneIsNoConn
<1>5. ASSUME NEW d \in Conn
      PROVE  /\ Accepts(d)' = Accepts(d) /\ Reports(d)' = Reports(d)
             /\ Admitting(d)' = Admitting(d) \ {w}
             /\ Owners(d)' = Owners(d) \cup {v \in {w} : d = n}
             /\ OneHand(d)
  <2>1. Accepts(d)' = Accepts(d) /\ Reports(d)' = Reports(d)
      BY <1>3 DEF Accepts, Reports, Carries
  <2>2. Admitting(d)' = Admitting(d) \ {w}
      BY <1>2, <1>4 DEF Admitting
  <2>3. Owners(d)' = Owners(d) \cup {v \in {w} : d = n}
      BY <1>2, <1>4 DEF Owners
  <2> QED BY <2>1, <2>2, <2>3 DEF CustodyInv
<1>6. \A d \in Conn \ {n} : Kept(d)
    BY <1>5 DEF Kept, OneHand
<1>7. \A i \in DOMAIN q_listener_to_worker' : q_listener_to_worker'[i].action = "ACCEPT"
    BY <1>3 DEF CustodyInv
<1>8. CASE n = None
    BY <1>3, <1>4, <1>6, <1>7, <1>8, KeptCustody
<1>9. CASE n \in Conn
  <2>1. w \in Admitting(n)
      BY <1>1, <1>9 DEF Admitting
  <2>2. n \in Connected
      BY <1>9, <2>1 DEF CustodyInv, Serving
  <2>3. Owners(n) = {} /\ Admitting(n) = {w} /\ Accepts(n) = {} /\ Reports(n) = {}
      BY <1>5, <1>9, <2>1 DEF OneHand, Sole
  <2>4. OneHand(n)'
      BY <1>5, <1>9, <2>3 DEF OneHand, Sole
  <2>5. Serving(n)
      BY <2>1 DEF Serving
  <2> QED BY <1>3, <1>6, <1>7, <1>9, <2>2, <2>4, <2>5, HandMoves
<1> QED BY <1>8, <1>9

\* A worker reports a client that has left, and forgets it.
LEMMA WorkerReapCustody ==
    ASSUME TypeOK, CustodyInv, NEW w \in Conn, WorkerReap(w)
    PROVE  CustodyInv' /\ NoneReturns
<1>0. QueueTypes /\ ThreadTypes /\ q_worker_to_listener \in Seq(Messages)
    BY DEF TypeOK, QueueTypes
<1>1. PICK c \in Conn : c = Min(Leaving(w)) /\ c \in worker[w].own
  <2>1. Leaving(w) \in SUBSET Conn
      BY <1>0 DEF Leaving, ThreadTypes, WorkerType
  <2>2. Leaving(w) \in SUBSET Nat
      BY <2>1 DEF Conn
  <2>3. Leaving(w) # {}
      BY DEF WorkerReap
  <2>4. Min(Leaving(w)) \in Leaving(w)
      BY <2>2, <2>3, MinIsLeast
  <2> QED BY <2>1, <2>4 DEF Leaving
<1>2. PICK m \in Messages : m = Msg("CL_DISCONNECTED", c, worker[w].idx)
  <2>1. worker[w].idx \in Nat
      BY <1>0 DEF ThreadTypes, WorkerType, ThreadIdx
  <2> QED BY <2>1, MsgType DEF Actions, Ids
<1>3. m.action = "CL_DISCONNECTED" /\ m.id = c
    BY <1>2 DEF Msg
<1>4. /\ q_worker_to_listener' = Append(q_worker_to_listener, m)
      /\ UNCHANGED <<clients, accepted, q_listener_to_worker>>
      /\ worker' = [worker EXCEPT ![w].pc = "reapSignal", ![w].own = @ \ {c}]
    BY <1>1, <1>2 DEF WorkerReap, PushToListener, serverVars
<1>5. /\ \A v \in Conn : worker'[v].new = worker[v].new
      /\ \A v \in Conn \ {w} : worker'[v].own = worker[v].own
      /\ worker'[w].own = worker[w].own \ {c}
    BY <1>0, <1>4 DEF ThreadTypes, WorkerType
<1>6. ASSUME NEW d \in Conn
      PROVE  /\ Accepts(d)' = Accepts(d) /\ Admitting(d)' = Admitting(d)
             /\ Owners(d)' = IF d = c THEN Owners(d) \ {w} ELSE Owners(d)
             /\ d # c => Reports(d)' = Reports(d)
             /\ d = c => Reports(d)' = Reports(d) \cup {Len(q_worker_to_listener) + 1}
             /\ OneHand(d)
  <2>1. Accepts(d)' = Accepts(d) /\ Admitting(d)' = Admitting(d)
      BY <1>4, <1>5 DEF Accepts, Carries, Admitting
  <2>2. Owners(d)' = IF d = c THEN Owners(d) \ {w} ELSE Owners(d)
      BY <1>5 DEF Owners
  <2>3. /\ d # c => Reports(d)' = Reports(d)
        /\ d = c => Reports(d)' = Reports(d) \cup {Len(q_worker_to_listener) + 1}
    <3> DEFINE q == q_worker_to_listener
               a == "CL_DISCONNECTED"
    <3>1. /\ d # c => Carries(Append(q, m), a, d) = Carries(q, a, d)
          /\ d = c => Carries(Append(q, m), a, d) = Carries(q, a, d) \cup {Len(q) + 1}
      <4>1. q \in Seq(Messages) /\ m \in Messages
          BY <1>0
      <4> HIDE DEF q, a
      <4>2. /\ ~(m.action = a /\ m.id = d) => Carries(Append(q, m), a, d) = Carries(q, a, d)
            /\ (m.action = a /\ m.id = d) =>
                  Carries(Append(q, m), a, d) = Carries(q, a, d) \cup {Len(q) + 1}
          BY <4>1, CarriesAppend
      <4>3. m.action = a /\ m.id = c
          BY <1>3 DEF a
      <4> QED BY <4>2, <4>3
    <3>2. Reports(d)' = Carries(Append(q, m), a, d)
        BY <1>4 DEF Reports
    <3> QED BY <3>1, <3>2 DEF Reports
  <2> QED BY <2>1, <2>2, <2>3 DEF CustodyInv
<1>7. \A d \in Conn \ {c} : Kept(d)
    BY <1>6 DEF Kept, OneHand
<1>8. w \in Owners(c)
    BY <1>1 DEF Owners
<1>9. c \in Connected
    BY <1>8 DEF CustodyInv, Serving
<1>a. Owners(c) = {w} /\ Admitting(c) = {} /\ Accepts(c) = {} /\ Reports(c) = {}
    BY <1>6, <1>8 DEF OneHand, Sole
<1>b. OneHand(c)'
    BY <1>6, <1>a DEF OneHand, Sole
<1>c. Serving(c)
    BY <1>8 DEF Serving
<1> QED BY <1>4, <1>7, <1>9, <1>b, <1>c, HandMoves DEF CustodyInv

\* Every step of a worker keeps the invariant.
LEMMA WorkerCustody ==
    ASSUME TypeOK, CustodyInv, NEW w \in Conn, Worker(w)
    PROVE  CustodyInv' /\ NoneReturns
<1>0. QueueTypes /\ ThreadTypes /\ ClientTypes
    BY DEF TypeOK
<1> USE DEF serverVars, queueVars
<1>1. CASE WorkerWake(w)
  <2>1. \A v \in Conn : worker'[v].own = worker[v].own /\ worker'[v].new = worker[v].new
    <3>1. PICK pc, todo, ready : worker' = [worker EXCEPT ![w].pc = pc, ![w].todo = todo,
                                                          ![w].ready = ready]
        BY <1>1 DEF WorkerWake
    <3> QED BY <1>0, <3>1 DEF ThreadTypes, WorkerType
  <2> QED BY <1>0, <1>1, <2>1, QuietCustody DEF WorkerWake
<1>2. CASE WorkerRecvEnd(w)
  <2>1. \A v \in Conn : worker'[v].own = worker[v].own /\ worker'[v].new = worker[v].new
      BY <1>0, <1>2 DEF WorkerRecvEnd, ThreadTypes, WorkerType
  <2> QED BY <1>0, <1>2, <2>1, QuietCustody DEF WorkerRecvEnd
<1>3. CASE WorkerRecv(w)
  <2>1. \A v \in Conn : worker'[v].own = worker[v].own /\ worker'[v].new = worker[v].new
    <3>1. PICK pc : Turn(w, Current(w), pc)
        BY <1>3 DEF WorkerRecv
    <3> QED BY <1>0, <3>1 DEF ThreadTypes, WorkerType, Turn
  <2>2. UNCHANGED <<q_listener_to_worker, clients, accepted>>
      BY <1>3 DEF WorkerRecv, PushToListener
  <2>3. \/ UNCHANGED q_worker_to_listener
        \/ \E m \in Messages : /\ m.action # "CL_DISCONNECTED"
                               /\ q_worker_to_listener' = Append(q_worker_to_listener, m)
    <3>1. PICK c \in Conn : c = Current(w) /\ WellFormed(c)
      <4>1. worker[w].todo \in SUBSET Nat /\ worker[w].todo \in SUBSET Conn
            /\ worker[w].todo # {}
          BY <1>0, <1>3 DEF ThreadTypes, WorkerType, Conn, WorkerRecv
      <4> QED BY <1>3, <4>1, MinIsLeast DEF Current, WorkerRecv
    <3>2. inbox[c][1] \in Messages
      <4>1. inbox[c] \in Seq(Messages) /\ Len(inbox[c]) = 1
          BY <1>0, <3>1 DEF ClientTypes, WellFormed
      <4> QED BY <4>1
    <3>3. Msg("INIT_DONE", c, 0) \in Messages /\ Msg("INIT_DONE", c, 0).action = "INIT_DONE"
        BY MsgType DEF Actions, Ids, Msg
    <3>4. \/ UNCHANGED q_worker_to_listener
          \/ q_worker_to_listener' = Append(q_worker_to_listener, Msg("INIT_DONE", c, 0))
          \/ /\ inbox[c][1].action = "UNICAST_REPEATED"
             /\ q_worker_to_listener' = Append(q_worker_to_listener, inbox[c][1])
        BY <1>3, <3>1 DEF WorkerRecv, PushToListener
    <3> QED BY <3>2, <3>3, <3>4
  <2> QED BY <1>0, <2>1, <2>2, <2>3, QuietCustody
<1>4. CASE WorkerSend(w)
  <2>1. \A v \in Conn : worker'[v].own = worker[v].own /\ worker'[v].new = worker[v].new
      BY <1>0, <1>4 DEF WorkerSend, ThreadTypes, WorkerType
  <2> QED BY <1>0, <1>4, <2>1, QuietCustody DEF WorkerSend
<1>5. CASE WorkerSignal(w)
  <2>1. \A v \in Conn : worker'[v].own = worker[v].own /\ worker'[v].new = worker[v].new
      BY <1>0, <1>5 DEF WorkerSignal, ThreadTypes, WorkerType
  <2> QED BY <1>0, <1>5, <2>1, QuietCustody DEF WorkerSignal
<1>6. CASE WorkerRecvThrows(w) \/ WorkerSendThrows(w) \/ WorkerReapThrows(w)
  <2>1. Terminate
      BY <1>6 DEF WorkerRecvThrows, WorkerSendThrows, WorkerReapThrows
  <2> QED BY <1>0, <2>1, QuietCustody DEF Terminate
<1>7. CASE WorkerStart(w)
  <2>1. \A v \in Conn : worker'[v].own = worker[v].own /\ worker'[v].new = worker[v].new
      BY <1>0, <1>7 DEF WorkerStart, Terminate, ThreadTypes, WorkerType
  <2> QED BY <1>0, <1>7, <2>1, QuietCustody DEF WorkerStart, Terminate
<1> QED BY <1>1, <1>2, <1>3, <1>4, <1>5, <1>6, <1>7, WorkerPopCustody, WorkerRoundOverCustody,
           WorkerReapCustody DEF Worker

------------------------------------------------------------------------------
(* The listener *)

\* disconnect_client takes a client out of the array when it was reported; as it was
\* in no other hands, nobody is left to ask for its Client_Data.
LEMMA ListenerDisconnectCustody ==
    ASSUME IndexInv, CustodyInv, ListenerDisconnect
    PROVE  CustodyInv' /\ NoneReturns
<1>0. QueueTypes /\ ThreadTypes /\ ServerTypes /\ q_worker_to_listener \in Seq(Messages)
    BY DEF IndexInv, TypeOK, QueueTypes
<1>1. PICK m :
        /\ ListenerPops(m)
        /\ m.action = "CL_DISCONNECTED"
        /\ UNCHANGED clients \/ disconnect_client(m.id)
        /\ UNCHANGED <<accepted, worker>>
    BY DEF ListenerDisconnect
<1>2. /\ m = Head(q_worker_to_listener)
      /\ q_worker_to_listener # <<>>
      /\ q_worker_to_listener' = Tail(q_worker_to_listener)
      /\ UNCHANGED q_listener_to_worker
    BY <1>1 DEF ListenerPops
<1>3. \A c \in Conn : Kept(c)
    BY <1>0, <1>1, <1>2, QuietKeepsHands
<1>4. CASE UNCHANGED clients
    BY <1>1, <1>2, <1>3, <1>4, KeptCustody DEF CustodyInv
<1>5. CASE disconnect_client(m.id)
  <2>1. /\ \A d \in Connected : d # m.id => d \in Connected'
        /\ Connected' \subseteq Connected
    <3>1. clients' = [i \in TableIdx |-> IF clients[i] = m.id THEN None ELSE clients[i]]
        BY <1>5 DEF disconnect_client
    <3> QED BY <3>1 DEF Connected
  <2>2. ASSUME NEW d \in Conn
        PROVE  /\ OneHand(d)' /\ ((Serving(d)' \/ Reports(d)' # {}) => d \in Connected')
               /\ Serving(d)' => Serving(d)
    <3>1. OneHand(d)
        BY DEF CustodyInv
    <3>2. /\ OneHand(d)'
          /\ Serving(d)' => Serving(d)
          /\ Reports(d)' # {} => Reports(d) # {}
        BY <1>3, <3>1, KeptOneHand
    <3>3. CASE d # m.id
        BY <2>1, <3>2, <3>3 DEF CustodyInv
    <3>4. CASE d = m.id
      <4>1. Sole(Carries(q_worker_to_listener, "CL_DISCONNECTED", d))
          BY <3>1 DEF OneHand, Reports
      <4>2. Reports(d)' = {}
          BY <1>0, <1>1, <1>2, <3>4, <4>1, CarriesPopped DEF Reports
      <4>3. 1 \in Reports(d)
          BY <1>0, <1>1, <1>2, <3>4 DEF Reports, Carries
      <4>4. ~Serving(d)
          BY <3>1, <4>3 DEF OneHand, Serving
      <4> QED BY <3>2, <4>2, <4>4
    <3> QED BY <3>3, <3>4
  <2> QED BY <1>1, <1>2, <2>1, <2>2 DEF CustodyInv, NoneReturns
<1> QED BY <1>1, <1>4, <1>5

\* Where process_new_client leaves a client, or the Ghost: with a new worker, in an
\* ACCEPT, or nowhere.
LEMMA NewClientEffect ==
    ASSUME TypeOK, NEW c \in Conn \cup {Ghost}, process_new_client(c)
    PROVE  \/ UNCHANGED <<worker, q_listener_to_worker>>
           \/ /\ c \in Conn
              /\ \E idx : worker' = [worker EXCEPT ![c] = [NoWorker EXCEPT !.pc = "start",
                                                              !.idx = idx, !.own = {c}]]
              /\ UNCHANGED q_listener_to_worker
           \/ /\ UNCHANGED worker
              /\ \E m \in Messages : /\ m.action = "ACCEPT" /\ m.id = c
                                     /\ q_listener_to_worker' = Append(q_listener_to_worker, m)
<1>0. SlotTypes
    BY DEF TypeOK
<1>1. ASSUME NEW idx, emplace_new_worker(c, idx)
      PROVE  /\ UNCHANGED q_listener_to_worker
             /\ \/ UNCHANGED worker
                \/ /\ c \in Conn
                   /\ worker' = [worker EXCEPT ![c] = [NoWorker EXCEPT !.pc = "start",
                                                          !.idx = idx, !.own = {c}]]
    BY <1>1 DEF emplace_new_worker
<1>2. ASSUME Occupied # {}, assign_client_to_worker(MinIdx, c)
      PROVE  /\ UNCHANGED worker
             /\ \/ UNCHANGED q_listener_to_worker
                \/ \E m \in Messages : /\ m.action = "ACCEPT" /\ m.id = c
                                       /\ q_listener_to_worker' = Append(q_listener_to_worker, m)
  <2>1. MinIdx \in Nat
      BY <1>0, <1>2, MinIdxType DEF Occupied, ThreadIdx
  <2>2. Msg("ACCEPT", c, MinIdx) \in Messages
      BY <2>1, MsgType DEF Actions, Ids
  <2>3. Msg("ACCEPT", c, MinIdx).action = "ACCEPT" /\ Msg("ACCEPT", c, MinIdx).id = c
      BY DEF Msg
  <2> QED BY <1>2, <2>2, <2>3 DEF assign_client_to_worker
<1> QED BY <1>1, <1>2 DEF process_new_client

\* The connection that is accepted was in nobody's hands; it is put into the array
\* and into one hand at most.
LEMMA ListenerAcceptCustody ==
    ASSUME IndexInv, CustodyInv, ListenerAccept
    PROVE  CustodyInv' /\ NoneReturns
<1>0. TypeOK /\ ThreadTypes /\ ServerTypes /\ q_listener_to_worker \in Seq(Messages)
    BY DEF IndexInv, TypeOK, QueueTypes
<1>1. PICK c \in Conn : /\ accept_client(c)
                        /\ process_new_client(IF FreeSlots = {} THEN Ghost ELSE c)
    BY DEF ListenerAccept
<1>2. PICK x \in Conn \cup {Ghost} :
          x = (IF FreeSlots = {} THEN Ghost ELSE c) /\ process_new_client(x)
    BY <1>1
<1>3. UNCHANGED q_worker_to_listener
    BY DEF ListenerAccept
<1>4. /\ Connected \subseteq Connected'
      /\ \A d \in Connected' : d < accepted'
      /\ x # Ghost => c \in Connected'
  <2>1. c = accepted /\ accepted' = accepted + 1 /\ \A d \in Connected : d \in Int /\ d < accepted
      BY <1>0, <1>1 DEF accept_client, CustodyInv, Connected, ServerTypes, Conn
  <2>2. CASE FreeSlots = {}
    <3>1. Connected' = Connected
        BY <1>1, <2>2 DEF accept_client, Connected
    <3> QED BY <1>0, <1>2, <2>1, <2>2, <3>1 DEF ServerTypes
  <2>3. CASE FreeSlots # {}
    <3>1. FreeSlots \in SUBSET Nat
        BY DEF FreeSlots, TableIdx
    <3>2. PICK i \in FreeSlots : clients' = [clients EXCEPT ![i] = c]
        BY <1>1, <2>3, <3>1, MinIsLeast DEF accept_client
    <3>3. /\ i \in TableIdx /\ clients[i] = None
          /\ clients'[i] = c /\ \A j \in TableIdx \ {i} : clients'[j] = clients[j]
        BY <1>0, <3>2 DEF FreeSlots, ServerTypes
    <3>4. Connected' = Connected \cup {c}
        BY <3>3, NoneIsNoConn DEF Connected
    <3> QED BY <1>0, <2>1, <3>4 DEF ServerTypes, Conn
  <2> QED BY <2>2, <2>3
<1>5. Owners(c) = {} /\ Admitting(c) = {} /\ Accepts(c) = {} /\ Reports(c) = {}
  <2>1. c = accepted /\ accepted \in Nat
      BY <1>0, <1>1 DEF accept_client, ServerTypes
  <2>2. c \notin Connected
      BY <2>1 DEF CustodyInv
  <2> QED BY <2>2 DEF CustodyInv, Serving
<1>6. \A d \in Conn : /\ Sole(Accepts(d)) /\ Sole(Reports(d)) /\ Reports(d)' = Reports(d)
                      /\ OneHand(d)
    BY <1>3 DEF CustodyInv, OneHand, Reports, Carries
<1>7. /\ \A d \in Conn \ {c} : Kept(d)
      /\ OneHand(c)' /\ ((Serving(c)' \/ Reports(c)' # {}) => c \in Connected')
      /\ \A i \in DOMAIN q_listener_to_worker' : q_listener_to_worker'[i].action = "ACCEPT"
  <2>1. CASE UNCHANGED <<worker, q_listener_to_worker>>
    <3>1. \A d \in Conn : /\ Owners(d)' = Owners(d) /\ Admitting(d)' = Admitting(d)
                          /\ Accepts(d)' = Accepts(d)
        BY <2>1 DEF Owners, Admitting, Accepts, Carries
    <3> QED BY <1>5, <1>6, <2>1, <3>1 DEF Kept, OneHand, Sole, Serving, CustodyInv
  <2>2. CASE /\ x \in Conn
             /\ \E idx : worker' = [worker EXCEPT ![x] = [NoWorker EXCEPT !.pc = "start",
                                                             !.idx = idx, !.own = {x}]]
             /\ UNCHANGED q_listener_to_worker
    <3>1. x = c /\ c \in Connected'
        BY <1>2, <1>4, <2>2 DEF Ghost, Conn
    <3>2. /\ \A v \in Conn \ {c} : worker'[v] = worker[v]
          /\ worker'[c].own = {c} /\ worker'[c].new = None
        BY <1>0, <2>2, <3>1 DEF ThreadTypes, NoWorker
    <3>3. \A d \in Conn : Accepts(d)' = Accepts(d)
        BY <2>2 DEF Accepts, Carries
    <3>4. \A d \in Conn : Admitting(d)' \subseteq Admitting(d)
        BY <3>2, NoneIsNoConn DEF Admitting
    <3>5. \A d \in Conn \ {c} : Owners(d)' \subseteq Owners(d)
        BY <3>2 DEF Owners
    <3>6. Owners(c)' = {c}
        BY <1>5, <3>2 DEF Owners
    <3> QED BY <1>5, <1>6, <2>2, <3>1, <3>3, <3>4, <3>5, <3>6 DEF Kept, OneHand, Sole, CustodyInv
  <2>3. CASE /\ UNCHANGED worker
             /\ \E m \in Messages : /\ m.action = "ACCEPT" /\ m.id = x
                                    /\ q_listener_to_worker' = Append(q_listener_to_worker, m)
    <3> DEFINE q == q_listener_to_worker
    <3>1. PICK m \in Messages : m.action = "ACCEPT" /\ m.id = x /\ q' = Append(q, m)
        BY <2>3
    <3>2. \A d \in Conn : Owners(d)' = Owners(d) /\ Admitting(d)' = Admitting(d)
        BY <2>3 DEF Owners, Admitting
    <3>3. q \in Seq(Messages) /\ \A i \in DOMAIN q : q[i].action = "ACCEPT"
        BY <1>0 DEF CustodyInv
    <3>4. \A d \in Conn : /\ Accepts(d) = Carries(q, "ACCEPT", d)
                          /\ Accepts(d)' = Carries(Append(q, m), "ACCEPT", d)
        BY <3>1 DEF Accepts
    <3>5. \A i \in DOMAIN q' : q'[i].action = "ACCEPT"
        BY <3>1, <3>3
    <3> HIDE DEF q
    <3>6. \A d \in Conn : /\ d # x => Accepts(d)' = Accepts(d)
                          /\ d = x => Accepts(d)' = Accepts(d) \cup {Len(q) + 1}
        BY <3>1, <3>3, <3>4, CarriesAppend
    <3>7. \A d \in Conn \ {c} : Accepts(d)' = Accepts(d)
        BY <1>2, <3>6 DEF Ghost, Conn
    <3>8. Sole(Accepts(c)') /\ (Accepts(c)' # {} => c \in Connected')
        BY <1>2, <1>4, <1>5, <3>6 DEF Sole, Ghost, Conn
    <3>9. \A i \in DOMAIN q_listener_to_worker' : q_listener_to_worker'[i].action = "ACCEPT"
        BY <3>5 DEF q
    <3> QED BY <1>5, <1>6, <3>2, <3>7, <3>8, <3>9 DEF Kept, OneHand, Sole, Serving
  <2> QED BY <1>0, <1>2, <2>1, <2>2, <2>3, NewClientEffect
<1>8. \A d \in Conn \ {c} :
          /\ OneHand(d)'
          /\ (Serving(d)' \/ Reports(d)' # {}) => d \in Connected'
          /\ Serving(d)' => Serving(d)
    BY <1>4, <1>6, <1>7, KeptOneHand DEF CustodyInv
<1>9. NoneReturns
    BY <1>1, <1>8 DEF NoneReturns, accept_client
<1> QED BY <1>4, <1>7, <1>8, <1>9 DEF CustodyInv

\* A connection that is lost in accept_client comes into nobody's hands.
LEMMA ListenerAcceptFailsCustody ==
    ASSUME IndexInv, CustodyInv, ListenerAcceptFails
    PROVE  CustodyInv' /\ NoneReturns
<1>0. QueueTypes /\ ThreadTypes /\ ServerTypes
    BY DEF IndexInv, TypeOK
<1>1. UNCHANGED <<q_listener_to_worker, q_worker_to_listener, worker, clients>>
    BY DEF ListenerAcceptFails, accept_client_fails, queueVars
<1>2. \A c \in Conn : Kept(c)
    BY <1>0, <1>1, QuietKeepsHands
<1>3. \A c \in Conn : /\ OneHand(c)'
                      /\ Serving(c)' => Serving(c)
                      /\ Reports(c)' # {} => Reports(c) # {}
    BY <1>2, KeptOneHand DEF CustodyInv
<1>4. Connected' = Connected
    BY <1>1 DEF Connected
<1>5. \A c \in Connected : c < accepted'
  <2>1. \A c \in Connected : c \in Int /\ c < accepted
      BY <1>0 DEF CustodyInv, Connected, ServerTypes, Conn
  <2> QED BY <1>0, <2>1 DEF ListenerAcceptFails, accept_client_fails, ServerTypes
<1> QED BY <1>1, <1>3, <1>4, <1>5 DEF CustodyInv, NoneReturns

\* Every step of the listener keeps custody: accept hands a client over once.
LEMMA ListenerCustody ==
    ASSUME IndexInv, CustodyInv, Listener
    PROVE  CustodyInv' /\ NoneReturns
<1>0. QueueTypes /\ ThreadTypes
    BY DEF IndexInv, TypeOK
<1> USE DEF serverVars, queueVars
<1>1. CASE ListenerWake \/ ListenerPopNothing \/ ListenerReset \/ ListenerSignal
    BY <1>0, <1>1, QuietCustody
       DEF ListenerWake, ListenerPopNothing, ListenerReset, ListenerSignal
<1>2. CASE ListenerLaunch \/ Destroy
    BY <1>0, <1>2, QuietCustody DEF ListenerLaunch, Destroy
<1>3. CASE ListenerRelay
    BY <1>0, <1>3, QuietCustody DEF ListenerRelay, ListenerPops
<1>4. CASE ListenerStdin
  <2>1. Msg("SV_DISCONNECTED", None, 0) \in Messages
        /\ Msg("SV_DISCONNECTED", None, 0).action = "SV_DISCONNECTED"
      BY MsgType DEF Actions, Ids, Msg
  <2> QED BY <1>0, <1>4, <2>1, QuietCustody DEF ListenerStdin
<1> QED BY <1>1, <1>2, <1>3, <1>4, ListenerDisconnectCustody, ListenerAcceptCustody,
           ListenerAcceptFailsCustody DEF Listener

------------------------------------------------------------------------------
(* The theorem *)

\* CustodyInv is inductive, and no step brings a client back.
LEMMA CustodyStep ==
    ASSUME IndexInv, CustodyInv, [Next]_vars
    PROVE  CustodyInv' /\ NoneReturns
<1>0. TypeOK /\ QueueTypes /\ ThreadTypes
    BY DEF IndexInv, TypeOK
<1>1. CASE UNCHANGED vars \/ AdminQuit \/ ClientSteps
    BY <1>0, <1>1, QuietCustody DEF vars, AdminQuit, ClientSteps, serverVars, queueVars
<1> QED BY <1>0, <1>1, ListenerCustody, WorkerCustody DEF Next

\* Before the first accept nobody holds a client.
LEMMA CustodyInit ==
    ASSUME Init
    PROVE  CustodyInv
<1>1. \A c \in Conn : Owners(c) = {} /\ Admitting(c) = {} /\ Accepts(c) = {} /\ Reports(c) = {}
    BY NoneIsNoConn DEF Init, NoWorker, Owners, Admitting, Accepts, Reports, Carries
<1>2. Connected = {}
    BY DEF Init, ServerInit, Connected
<1> QED BY <1>1, <1>2 DEF Init, CustodyInv, OneHand, Sole, Serving

\* The invariant holds in every reachable state.
THEOREM CustodyInvariant == Spec => []CustodyInv
<1> QED BY CustodyInit, CustodyStep, IndexInvariant, PTL DEF Spec

\* A set with at most one element has the cardinality 0 or 1.
LEMMA SoleCardinality ==
    ASSUME NEW S, Sole(S)
    PROVE  /\ S = {} => Cardinality(S) = 0
           /\ S # {} => Cardinality(S) = 1
<1>1. S = {} => Cardinality(S) = 0
    BY FS_EmptySet
<1>2. ASSUME S # {} PROVE Cardinality(S) = 1
  <2>1. PICK x \in S : S = {x}
      BY <1>2 DEF Sole
  <2> QED BY <2>1, FS_Singleton
<1> QED BY <1>1, <1>2

\* To be in one hand is to be counted once by Custody.
LEMMA OneHandCounts ==
    ASSUME NEW c \in Conn, OneHand(c)
    PROVE  /\ Custody(c) \in {0, 1}
           /\ Custody(c) = 1 <=> (Serving(c) \/ Reports(c) # {})
<1> DEFINE a == Cardinality(Owners(c))
           b == Cardinality(Admitting(c))
           d == Cardinality(Accepts(c))
           e == Cardinality(Reports(c))
<1>1. /\ Owners(c) = {} => a = 0
      /\ Owners(c) # {} => a = 1
      /\ Admitting(c) = {} => b = 0
      /\ Admitting(c) # {} => b = 1
      /\ Accepts(c) = {} => d = 0
      /\ Accepts(c) # {} => d = 1
      /\ Reports(c) = {} => e = 0
      /\ Reports(c) # {} => e = 1
    BY SoleCardinality DEF OneHand
<1>2. Custody(c) = a + b + d + e
    BY DEF Custody, Accepts, Reports
<1> HIDE DEF a, b, d, e
<1> QED BY <1>1, <1>2 DEF OneHand, Serving

\* No client is ever in two hands, and one that is in somebody's hands has its entry
\* in the array: worker_loop and remove_if dereference no empty optional, the
\* listener disconnects no client twice, and no two workers read one socket.
THEOREM CustodyIsSole == Spec => []SoleCustody
<1>1. CustodyInv => SoleCustody
  <2> SUFFICES ASSUME CustodyInv, NEW c \in Conn
               PROVE  Custody(c) <= 1 /\ (Custody(c) = 1 => c \in Connected)
      BY DEF SoleCustody
  <2> QED BY OneHandCounts DEF CustodyInv
<1> QED BY <1>1, CustodyInvariant, PTL

\* A client that its worker has reported, or whose ACCEPT was dropped, never comes into
\* the workers' hands again: no later step of the listener or of a worker brings it
\* back, only the connection that accept_client takes next is new to them.
THEOREM ClientsNeverReturn == Spec => [][NoneReturns]_vars
<1>1. IndexInv /\ CustodyInv /\ [Next]_vars => [NoneReturns]_vars
    BY CustodyStep
<1> QED BY <1>1, IndexInvariant, CustodyInvariant, PTL DEF Spec
==============================================================================
