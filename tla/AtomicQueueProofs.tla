-------------------------- MODULE AtomicQueueProofs --------------------------
(***************************************************************************)
(* AtomicQueue keeps its promises for any number of threads, any ring      *)
(* size and any counter width: no data race on a slot, nothing lost,       *)
(* nothing delivered twice, and it implements the bounded pool.            *)
(***************************************************************************)
EXTENDS AtomicQueue, FiniteSetTheorems, TLAPS

\* A remainder lies below its divisor.
LEMMA ModRange ==
    ASSUME NEW a \in Int, NEW b \in Nat \ {0}
    PROVE  a % b \in 0 .. b - 1
  OBVIOUS

\* remap_index yields an index of the ring, and a counter stays in its type.
LEMMA TicketRange ==
    ASSUME NEW t \in Tickets
    PROVE  SlotOf(t) \in Slots /\ Inc(t) \in Tickets
  BY ModRange, SizeAssumption DEF SlotOf, Inc, Slots, Tickets

\* The types hold when the queue is made.
LEMMA InitType == Init => TypeOK
  BY ThreadAssumption, SizeAssumption DEF Init, TypeOK, Threads, Tickets, SlotStates, PushPcs, PopPcs

\* Every step of try_push keeps the types.
LEMMA PushType ==
    ASSUME TypeOK, NEW p \in Producers, Push(p)
    PROVE  TypeOK'
  <1> USE DEF TypeOK, Threads, PushPcs, PopPcs, Goto
  <1>0. p \in Threads /\ p \notin Consumers
    BY ThreadAssumption
  <1>1. CASE PushBegin(p)
    BY <1>0, <1>1 DEF PushBegin
  <1>2. CASE PushRefuse(p)
    BY <1>0, <1>2 DEF PushRefuse
  <1>3. CASE PushRoom(p)
    BY <1>0, <1>3 DEF PushRoom
  <1>4. CASE PushClaim(p)
    BY <1>0, <1>4, TicketRange DEF PushClaim
  <1>5. CASE PushRetry(p)
    BY <1>0, <1>5 DEF PushRetry
  <1>6. CASE PushSlot(p)
    BY <1>0, <1>6 DEF PushSlot, SlotStates
  <1>7. CASE PushWrite(p)
    <2>0. sent[p] \in 0 .. MaxPush /\ sent[p] < MaxPush
      BY <1>7 DEF PushWrite
    <2>1. Item(p) \in Items
      BY <2>0, ThreadAssumption DEF Item, Items
    <2> QED BY <1>0, <1>7, <2>1 DEF PushWrite
  <1>8. CASE PushPublish(p)
    <2>0. sent[p] \in 0 .. MaxPush /\ sent[p] < MaxPush
      BY <1>8 DEF PushPublish
    <2>1. sent[p] + 1 \in 0 .. MaxPush
      BY <2>0, ThreadAssumption
    <2> QED BY <1>0, <1>8, <2>1 DEF PushPublish, SlotStates
  <1> QED
    BY <1>1, <1>2, <1>3, <1>4, <1>5, <1>6, <1>7, <1>8 DEF Push

\* Every step of try_pop keeps the types.
LEMMA PopType ==
    ASSUME TypeOK, NEW c \in Consumers, Pop(c)
    PROVE  TypeOK'
  <1> USE DEF TypeOK, Threads, PushPcs, PopPcs, Goto
  <1>0. c \in Threads /\ c \notin Producers
    BY ThreadAssumption
  <1>1. CASE PopBegin(c)
    BY <1>0, <1>1 DEF PopBegin
  <1>2. CASE PopRefuse(c)
    BY <1>0, <1>2 DEF PopRefuse
  <1>3. CASE PopSome(c)
    BY <1>0, <1>3 DEF PopSome
  <1>4. CASE PopClaim(c)
    BY <1>0, <1>4, TicketRange DEF PopClaim
  <1>5. CASE PopRetry(c)
    BY <1>0, <1>5 DEF PopRetry
  <1>6. CASE PopSlot(c)
    BY <1>0, <1>6 DEF PopSlot, SlotStates
  <1>7. CASE PopRead(c)
    <2>1. MySlot(c) \in Slots
      BY <1>0, TicketRange DEF MySlot
    <2> QED BY <1>0, <1>7, <2>1 DEF PopRead
  <1>8. CASE PopRelease(c)
    BY <1>0, <1>8 DEF PopRelease, SlotStates
  <1> QED
    BY <1>1, <1>2, <1>3, <1>4, <1>5, <1>6, <1>7, <1>8 DEF Pop

\* Every reachable state of the queue is well typed: in particular the ticket
\* counters never leave the range of an unsigned int.
THEOREM TypeCorrect == Spec => []TypeOK
  <1>1. TypeOK /\ [Next]_vars => TypeOK'
    <2> SUFFICES ASSUME TypeOK, [Next]_vars PROVE TypeOK'
      OBVIOUS
    <2>1. CASE UNCHANGED vars
      BY <2>1 DEF vars, TypeOK
    <2>2. CASE Next
      BY <2>2, PushType, PopType DEF Next
    <2> QED BY <2>1, <2>2
  <1> QED BY InitType, <1>1, PTL DEF Spec

------------------------------------------------------------------------------
(* Reading, testing and claiming the counters touches no slot.             *)

Outside(t) ==
    /\ pc[t] \notin InSlot
    /\ pc'[t] \notin InSlot
    /\ \A u \in Threads \ {t} : pc'[u] = pc[u] /\ reg'[u] = reg[u]
    /\ UNCHANGED <<states, elements, sent, got>>

\* A try_push stays outside the slots until its CAS on the slot's state.
LEMMA PushOutside ==
    ASSUME TypeOK, NEW p \in Producers,
           PushBegin(p) \/ PushRefuse(p) \/ PushRoom(p) \/ PushClaim(p) \/ PushRetry(p)
    PROVE  Outside(p)
  BY DEF TypeOK, Outside, InSlot, Threads, Goto,
         PushBegin, PushRefuse, PushRoom, PushClaim, PushRetry

\* So does a try_pop.
LEMMA PopOutside ==
    ASSUME TypeOK, NEW c \in Consumers,
           PopBegin(c) \/ PopRefuse(c) \/ PopSome(c) \/ PopClaim(c) \/ PopRetry(c)
    PROVE  Outside(c)
  BY DEF TypeOK, Outside, InSlot, Threads, Goto,
         PopBegin, PopRefuse, PopSome, PopClaim, PopRetry

\* Every thread's slot is a slot of the ring.
LEMMA SlotRange ==
    ASSUME TypeOK, NEW t \in Threads
    PROVE  MySlot(t) \in Slots
  BY TicketRange DEF TypeOK, MySlot

\* A step outside the slots keeps all that is said about them.
LEMMA OutsideStep ==
    ASSUME Inv, TypeOK', NEW t \in Threads, Outside(t)
    PROVE  Inv'
  <1> USE DEF Outside
  <1>1. SlotExclusion'
    BY DEF Inv, SlotExclusion, MySlot
  <1>2. SlotContents'
    BY DEF Inv, SlotContents, MySlot, InSlot, Threads, Item
  <1>3. NothingLost'
    BY DEF Inv, NothingLost, Holds
  <1>4. NothingTwice'
    BY DEF Inv, NothingTwice, Holds
  <1> QED BY <1>1, <1>2, <1>3, <1>4 DEF Inv

------------------------------------------------------------------------------
(* Inside a slot.  The CAS on the slot's state admits one thread; from then *)
(* on the state itself keeps every other thread out.                       *)

\* The CAS EMPTY -> STORING.
LEMMA PushSlotStep ==
    ASSUME Inv, TypeOK', NEW p \in Producers, PushSlot(p)
    PROVE  Inv'
  <1>0. /\ p \in Threads /\ p \notin Consumers /\ MySlot(p) \in Slots
        /\ TypeOK /\ SlotExclusion /\ SlotContents /\ NothingLost /\ NothingTwice
    BY ThreadAssumption, SlotRange DEF Inv, Threads
  <1>1. SlotExclusion'
    BY <1>0 DEF PushSlot, Goto, TypeOK, SlotExclusion, SlotContents, MySlot, InSlot
  <1>2. SlotContents'
    BY <1>0, ThreadAssumption
    DEF PushSlot, Goto, TypeOK, SlotContents, MySlot, InSlot, Threads, Item
  <1>3. NothingLost'
    BY <1>0 DEF PushSlot, TypeOK, NothingLost, Holds
  <1>4. NothingTwice'
    BY <1>0 DEF PushSlot, TypeOK, NothingTwice, Holds
  <1> QED BY <1>1, <1>2, <1>3, <1>4 DEF Inv

\* The assignment of the element.
LEMMA PushWriteStep ==
    ASSUME Inv, TypeOK', NEW p \in Producers, PushWrite(p)
    PROVE  Inv'
  <1>0. /\ p \in Threads /\ p \notin Consumers /\ MySlot(p) \in Slots
        /\ TypeOK /\ SlotExclusion /\ SlotContents /\ NothingLost /\ NothingTwice
    BY ThreadAssumption, SlotRange DEF Inv, Threads
  <1>a. states[MySlot(p)] = "STORING"
    BY <1>0 DEF PushWrite, Goto, SlotContents, InSlot
  <1>1. SlotExclusion'
    BY <1>0 DEF PushWrite, Goto, TypeOK, SlotExclusion, MySlot, InSlot
  <1>2. SlotContents'
    BY <1>0, <1>a, ThreadAssumption
    DEF PushWrite, Goto, TypeOK, SlotExclusion, SlotContents, MySlot, InSlot, Threads, Item
  <1>3. NothingLost'
    <2>1. \A i \in Slots : \A v : Holds(i, v) => Holds(i, v)'
      BY <1>0, <1>a DEF PushWrite, TypeOK, Holds
    <2> QED BY <1>0, <2>1 DEF PushWrite, NothingLost
  <1>4. NothingTwice'
    BY <1>0, <1>a DEF PushWrite, TypeOK, NothingTwice, Holds
  <1> QED BY <1>1, <1>2, <1>3, <1>4 DEF Inv

\* The store of STORED: the message is now in the queue.
LEMMA PushPublishStep ==
    ASSUME Inv, TypeOK', NEW p \in Producers, PushPublish(p)
    PROVE  Inv'
  <1>0. /\ p \in Threads /\ p \notin Consumers /\ MySlot(p) \in Slots
        /\ TypeOK /\ SlotExclusion /\ SlotContents /\ NothingLost /\ NothingTwice
    BY ThreadAssumption, SlotRange DEF Inv, Threads
  <1>a. states[MySlot(p)] = "STORING" /\ elements[MySlot(p)] = Item(p)
    BY <1>0 DEF PushPublish, Goto, SlotContents, InSlot
  <1>1. SlotExclusion'
    BY <1>0 DEF PushPublish, Goto, TypeOK, SlotExclusion, MySlot, InSlot
  <1>s. PICK s \in Slots : s = MySlot(p)
    BY <1>0
  <1>i. PICK new \in Items : new = Item(p)
    <2>1. sent[p] \in 0 .. MaxPush /\ sent[p] < MaxPush
      BY <1>0 DEF PushPublish, Goto, TypeOK
    <2>2. Item(p) \in Items
      BY <2>1, ThreadAssumption DEF Item, Items
    <2> QED BY <2>2
  <1>b. sent[p] \in Nat /\ sent'[p] = sent[p] + 1
    BY <1>0, ThreadAssumption DEF PushPublish, TypeOK
  <1>c. \A q \in Producers : sent[q] \in Nat /\ sent'[q] \in Nat /\ sent[q] <= sent'[q]
    BY <1>0, <1>b, ThreadAssumption DEF PushPublish, TypeOK
  <1>d. \A i \in Slots : elements[i] # NoItem =>
           elements[i] \in Items /\ elements[i][1] \in Producers /\ elements[i][2] \in Nat
    BY <1>0, ThreadAssumption DEF TypeOK, Items
  <1>2. SlotContents'
    <2>1. \A t \in Threads : pc'[t] \in InSlot =>
             states'[MySlot(t)] = IF t \in Producers THEN "STORING" ELSE "LOADING"
      BY <1>0 DEF PushPublish, Goto, TypeOK, SlotExclusion, SlotContents, MySlot, InSlot
    <2>2. \A q \in Producers : pc'[q] = "pushPublish" => elements[MySlot(q)] = Item(q)'
      BY <1>0 DEF PushPublish, Goto, TypeOK, SlotContents, MySlot, Item, Threads
    <2>3. \A i \in Slots : states'[i] = "STORED" => elements[i] # NoItem
      BY <1>0, <1>a, <1>i, ThreadAssumption DEF PushPublish, TypeOK, SlotContents, Items
    <2>4. \A i \in Slots : (states'[i] \in {"STORED", "LOADING"} /\ elements[i] # NoItem)
             => elements[i][2] <= sent'[elements[i][1]]
      <3> SUFFICES ASSUME NEW i \in Slots, states'[i] \in {"STORED", "LOADING"},
                          elements[i] # NoItem
                   PROVE  elements[i][2] <= sent'[elements[i][1]]
        OBVIOUS
      <3>1. CASE i = MySlot(p)
        BY <3>1, <1>a, <1>b DEF Item
      <3>2. CASE i # MySlot(p)
        <4>1. elements[i][2] <= sent[elements[i][1]]
          BY <1>0, <3>2 DEF PushPublish, TypeOK, SlotContents
        <4> QED BY <4>1, <1>c, <1>d
      <3> QED BY <3>1, <3>2
    <2>5. \A c \in Consumers : pc'[c] = pc[c] /\ MySlot(c)' = MySlot(c)
      BY <1>0 DEF PushPublish, Goto, TypeOK, MySlot, Threads
    <2>6. elements' = elements /\ reg' = reg
      BY DEF PushPublish
    <2> QED
      BY <1>0, <2>1, <2>2, <2>3, <2>4, <2>5, <2>6 DEF SlotContents, MySlot
  <1>e. \A i \in Slots : \A v : i # s => (Holds(i, v)' <=> Holds(i, v))
    BY <1>0, <1>s DEF PushPublish, TypeOK, Holds
  <1>f. \A v : ~Holds(s, v)
    BY <1>a, <1>s DEF Holds
  <1>g. \A v : Holds(s, v)' <=> v = new
    BY <1>0, <1>a, <1>s, <1>i DEF PushPublish, TypeOK, Holds
  <1>3. NothingLost'
    <2> SUFFICES ASSUME NEW q \in Producers, NEW k \in 1 .. sent'[q]
                 PROVE  \/ \E i \in Slots : Holds(i, <<q, k>>)'
                        \/ \E c \in Consumers : \E n \in DOMAIN got[c] : got[c][n] = <<q, k>>
      BY DEF NothingLost, PushPublish
    <2>1. CASE k \in 1 .. sent[q]
      BY <2>1, <1>0, <1>e, <1>f DEF NothingLost
    <2>2. CASE k \notin 1 .. sent[q]
      <3>1. q = p
        BY <2>2, <1>0 DEF PushPublish, TypeOK
      <3>2. k = sent[p] + 1
        BY <2>2, <3>1, <1>b
      <3> QED BY <1>g, <1>i, <3>1, <3>2 DEF Item
    <2> QED BY <2>1, <2>2
  <1>4. NothingTwice'
    <2>1. \A i \in Slots : ~Holds(i, new)
      <3> SUFFICES ASSUME NEW i \in Slots, Holds(i, new) PROVE FALSE
        OBVIOUS
      <3>1. new # NoItem
        BY ThreadAssumption DEF Items
      <3>2. elements[i][2] <= sent[elements[i][1]] /\ elements[i] = <<p, sent[p] + 1>>
        BY <1>0, <1>i, <3>1 DEF Holds, SlotContents, Item
      <3> QED BY <3>2, <1>b
    <2>2. \A c \in Consumers : \A n \in DOMAIN got[c] :
             /\ got[c][n] # new
             /\ got[c][n] \in Items
             /\ got[c][n][2] <= sent'[got[c][n][1]]
      <3> SUFFICES ASSUME NEW c \in Consumers, NEW n \in DOMAIN got[c]
                   PROVE  /\ got[c][n] # new
                          /\ got[c][n] \in Items
                          /\ got[c][n][2] <= sent'[got[c][n][1]]
        OBVIOUS
      <3>1. got[c][n] \in Items /\ got[c][n][2] <= sent[got[c][n][1]]
        BY <1>0 DEF NothingTwice
      <3>2. got[c][n][1] \in Producers /\ got[c][n][2] \in Nat
        BY <3>1 DEF Items
      <3> QED BY <3>1, <3>2, <1>b, <1>c, <1>i DEF Item
    <2>3. elements' = elements /\ got' = got
      BY DEF PushPublish
    <2>4. \A c \in Consumers : \A n \in DOMAIN got[c] : \A i \in Slots :
             \A v : v = got[c][n] => ~Holds(i, v)'
      BY <1>0, <1>e, <1>g, <2>2 DEF NothingTwice
    <2>5. \A i, j \in Slots : \A v \in {elements[i]} \ {NoItem} :
             Holds(i, v)' /\ Holds(j, v)' => i = j
      <3> SUFFICES ASSUME NEW i \in Slots, NEW j \in Slots, NEW v,
                          v = elements[i], v # NoItem, Holds(i, v)', Holds(j, v)'
                   PROVE  i = j
        OBVIOUS
      <3>1. CASE v = new
        BY <3>1, <1>e, <2>1
      <3>2. CASE v # new
        BY <3>2, <1>0, <1>e, <1>g DEF NothingTwice
      <3> QED BY <3>1, <3>2
    <2> QED BY <1>0, <2>2, <2>3, <2>4, <2>5 DEF NothingTwice
  <1> QED BY <1>1, <1>2, <1>3, <1>4 DEF Inv

\* The CAS STORED -> LOADING.
LEMMA PopSlotStep ==
    ASSUME Inv, TypeOK', NEW c \in Consumers, PopSlot(c)
    PROVE  Inv'
  <1>0. /\ c \in Threads /\ c \notin Producers /\ MySlot(c) \in Slots
        /\ TypeOK /\ SlotExclusion /\ SlotContents /\ NothingLost /\ NothingTwice
    BY ThreadAssumption, SlotRange DEF Inv, Threads
  <1>1. SlotExclusion'
    BY <1>0 DEF PopSlot, Goto, TypeOK, SlotExclusion, SlotContents, MySlot, InSlot
  <1>2. SlotContents'
    BY <1>0, ThreadAssumption
    DEF PopSlot, Goto, TypeOK, SlotContents, MySlot, InSlot, Threads, Item
  <1>3. NothingLost'
    BY <1>0 DEF PopSlot, TypeOK, NothingLost, Holds
  <1>4. NothingTwice'
    BY <1>0 DEF PopSlot, TypeOK, NothingTwice, Holds
  <1> QED BY <1>1, <1>2, <1>3, <1>4 DEF Inv

\* The move out of the slot.
LEMMA PopReadStep ==
    ASSUME Inv, TypeOK', NEW c \in Consumers, PopRead(c)
    PROVE  Inv'
  <1>0. /\ c \in Threads /\ c \notin Producers /\ MySlot(c) \in Slots
        /\ TypeOK /\ SlotExclusion /\ SlotContents /\ NothingLost /\ NothingTwice
    BY ThreadAssumption, SlotRange DEF Inv, Threads
  <1>a. states[MySlot(c)] = "LOADING" /\ elements[MySlot(c)] # NoItem
    BY <1>0 DEF PopRead, Goto, SlotContents, InSlot
  <1>1. SlotExclusion'
    BY <1>0 DEF PopRead, Goto, TypeOK, SlotExclusion, MySlot, InSlot
  <1>2. SlotContents'
    BY <1>0, <1>a, ThreadAssumption
    DEF PopRead, Goto, TypeOK, SlotExclusion, SlotContents, MySlot, InSlot, Threads, Item
  <1>s. PICK s \in Slots : s = MySlot(c)
    BY <1>0
  <1>w. PICK w : w = elements[MySlot(c)]
    OBVIOUS
  <1>l. PICK last : last = Len(got[c]) + 1
    OBVIOUS
  <1>b. w \in Items /\ w[2] <= sent[w[1]] /\ w # NoItem
    BY <1>0, <1>a, <1>w DEF TypeOK, SlotContents
  <1>c. got[c] \in Seq(Items \cup {NoItem}) /\ got' = [got EXCEPT ![c] = Append(got[c], w)]
    BY <1>0, <1>w DEF PopRead, TypeOK
  <1>d. /\ DOMAIN got'[c] = DOMAIN got[c] \cup {last}
        /\ last \notin DOMAIN got[c]
        /\ got'[c][last] = w
        /\ \A n \in DOMAIN got[c] : got'[c][n] = got[c][n]
    BY <1>0, <1>b, <1>c, <1>l DEF TypeOK
  <1>e. \A d \in Consumers \ {c} : got'[d] = got[d]
    BY <1>0, <1>c DEF TypeOK
  <1>f. \A i \in Slots : \A v : i # s => (Holds(i, v)' <=> Holds(i, v))
    BY <1>0, <1>s DEF PopRead, TypeOK, Holds
  <1>g. \A v : (Holds(s, v) <=> v = w) /\ (Holds(s, v)' <=> v = NoItem)
    BY <1>0, <1>a, <1>s, <1>w DEF PopRead, TypeOK, Holds
  <1>3. NothingLost'
    <2> SUFFICES ASSUME NEW q \in Producers, NEW k \in 1 .. sent[q], NEW v, v = <<q, k>>
                 PROVE  \/ \E i \in Slots : Holds(i, v)'
                        \/ \E d \in Consumers : \E n \in DOMAIN got'[d] : got'[d][n] = v
      BY DEF NothingLost, PopRead
    <2>1. CASE \E i \in Slots : Holds(i, v)
      BY <2>1, <1>0, <1>d, <1>f, <1>g
    <2>2. CASE \E d \in Consumers : \E n \in DOMAIN got[d] : got[d][n] = v
      BY <2>2, <1>d, <1>e
    <2> QED BY <1>0, <2>1, <2>2 DEF NothingLost
  <1>4. NothingTwice'
    <2>0. sent' = sent
      BY DEF PopRead
    <2>1. \A d \in Consumers : \A n \in DOMAIN got'[d] :
             \/ d = c /\ n = last /\ got'[d][n] = w
             \/ n \in DOMAIN got[d] /\ got'[d][n] = got[d][n] /\ got[d][n] # w
      BY <1>0, <1>d, <1>e, <1>g DEF NothingTwice
    <2>2. \A d \in Consumers : \A n \in DOMAIN got'[d] :
             got'[d][n] \in Items /\ got'[d][n][2] <= sent[got'[d][n][1]]
      BY <1>0, <1>b, <2>1 DEF NothingTwice
    <2>3. \A i \in Slots : ~Holds(i, w)'
      <3> SUFFICES ASSUME NEW i \in Slots, Holds(i, w)' PROVE FALSE
        OBVIOUS
      <3>1. i # s /\ Holds(i, w) /\ w = elements[i]
        BY <1>b, <1>f, <1>g DEF Holds
      <3> QED BY <3>1, <1>0, <1>b, <1>g DEF NothingTwice
    <2>4. \A d \in Consumers : \A n \in DOMAIN got'[d] : \A i \in Slots :
             \A v : v = got'[d][n] => ~Holds(i, v)'
      <3> SUFFICES ASSUME NEW d \in Consumers, NEW n \in DOMAIN got'[d], NEW i \in Slots,
                          NEW v, v = got'[d][n], Holds(i, v)'
                   PROVE  FALSE
        OBVIOUS
      <3>1. v # NoItem
        BY <2>2, ThreadAssumption DEF Items
      <3> QED BY <1>0, <1>f, <1>g, <2>1, <2>3, <3>1 DEF NothingTwice
    <2>5. \A d, e \in Consumers : \A n \in DOMAIN got'[d] : \A m \in DOMAIN got'[e] :
             got'[d][n] = got'[e][m] => d = e /\ n = m
      BY <1>0, <2>1 DEF NothingTwice
    <2>6. \A i, j \in Slots : \A v \in {elements'[i]} \ {NoItem} :
             Holds(i, v)' /\ Holds(j, v)' => i = j
      <3> SUFFICES ASSUME NEW i \in Slots, NEW j \in Slots, NEW v,
                          v = elements'[i], v # NoItem, Holds(i, v)', Holds(j, v)'
                   PROVE  i = j
        OBVIOUS
      <3>1. Holds(i, v) /\ Holds(j, v) /\ v = elements[i]
        BY <1>f, <1>g DEF Holds
      <3> QED BY <3>1, <1>0 DEF NothingTwice
    <2> QED BY <2>0, <2>2, <2>4, <2>5, <2>6 DEF NothingTwice
  <1> QED BY <1>1, <1>2, <1>3, <1>4 DEF Inv

\* The store of EMPTY.
LEMMA PopReleaseStep ==
    ASSUME Inv, TypeOK', NEW c \in Consumers, PopRelease(c)
    PROVE  Inv'
  <1>0. /\ c \in Threads /\ c \notin Producers /\ MySlot(c) \in Slots
        /\ TypeOK /\ SlotExclusion /\ SlotContents /\ NothingLost /\ NothingTwice
    BY ThreadAssumption, SlotRange DEF Inv, Threads
  <1>a. states[MySlot(c)] = "LOADING" /\ elements[MySlot(c)] = NoItem
    BY <1>0 DEF PopRelease, Goto, SlotContents, InSlot
  <1>1. SlotExclusion'
    BY <1>0 DEF PopRelease, Goto, TypeOK, SlotExclusion, MySlot, InSlot
  <1>2. SlotContents'
    BY <1>0, <1>a, ThreadAssumption
    DEF PopRelease, Goto, TypeOK, SlotExclusion, SlotContents, MySlot, InSlot, Threads, Item
  <1>3. NothingLost'
    <2>1. \A i \in Slots : \A v : v # NoItem /\ Holds(i, v) => Holds(i, v)'
      BY <1>0, <1>a DEF PopRelease, TypeOK, Holds
    <2>2. \A q \in Producers : \A k \in 1 .. sent[q] : <<q, k>> # NoItem
      BY <1>0, ThreadAssumption DEF TypeOK, Items
    <2> QED BY <1>0, <2>1, <2>2 DEF PopRelease, NothingLost
  <1>4. NothingTwice'
    BY <1>0, <1>a DEF PopRelease, TypeOK, NothingTwice, Holds
  <1> QED BY <1>1, <1>2, <1>3, <1>4 DEF Inv

\* Nothing is claimed, stored or delivered yet.
LEMMA InitInv == Init => Inv
  <1> SUFFICES ASSUME Init PROVE Inv
    OBVIOUS
  <1>1. SlotExclusion /\ SlotContents
    BY DEF Init, SlotExclusion, SlotContents, InSlot, Threads
  <1>2. NothingLost /\ NothingTwice
    BY DEF Init, NothingLost, NothingTwice, Holds
  <1> QED BY <1>1, <1>2, InitType DEF Inv

\* Inv is inductive.
LEMMA InvStep == Inv /\ [Next]_vars => Inv'
  <1> SUFFICES ASSUME Inv, [Next]_vars PROVE Inv'
    OBVIOUS
  <1>0. TypeOK
    BY DEF Inv
  <1>1. ASSUME NEW p \in Producers, Push(p) PROVE Inv'
    <2>1. TypeOK' /\ p \in Threads
      BY <1>0, <1>1, PushType DEF Threads
    <2> QED
      BY <1>0, <1>1, <2>1, PushOutside, OutsideStep, PushSlotStep, PushWriteStep,
         PushPublishStep DEF Push
  <1>2. ASSUME NEW c \in Consumers, Pop(c) PROVE Inv'
    <2>1. TypeOK' /\ c \in Threads
      BY <1>0, <1>2, PopType DEF Threads
    <2> QED
      BY <1>0, <1>2, <2>1, PopOutside, OutsideStep, PopSlotStep, PopReadStep,
         PopReleaseStep DEF Pop
  <1>3. ASSUME UNCHANGED vars PROVE Inv'
    <2>1. TypeOK'
      BY <1>0, <1>3 DEF vars, TypeOK
    <2>2. SlotExclusion' /\ SlotContents'
      BY <1>3 DEF vars, Inv, SlotExclusion, SlotContents, MySlot, Item
    <2>3. NothingLost'
      BY <1>3 DEF vars, Inv, NothingLost, Holds
    <2>4. NothingTwice'
      BY <1>3 DEF vars, Inv, NothingTwice, Holds
    <2> QED BY <2>1, <2>2, <2>3, <2>4 DEF Inv
  <1> QED BY <1>1, <1>2, <1>3 DEF Next

\* Inv holds in every reachable state of the queue.
THEOREM Invariance == Spec => []Inv
  BY InitInv, InvStep, PTL DEF Spec

\* No two threads are ever inside the same slot: elements_ is free of data
\* races for any number of threads, any ring size and across counter wraps.
THEOREM SlotsAreExclusive == Spec => []SlotExclusion
  <1>1. Inv => SlotExclusion
    BY DEF Inv
  <1> QED BY <1>1, Invariance, PTL

\* Every message whose try_push returned true is in the ring or was popped.
THEOREM NoMessageLost == Spec => []NothingLost
  <1>1. Inv => NothingLost
    BY DEF Inv
  <1> QED BY <1>1, Invariance, PTL

\* No message comes out of the queue twice, and none that did not go in.
THEOREM NoMessageTwice == Spec => []NothingTwice
  <1>1. Inv => NothingTwice
    BY DEF Inv
  <1> QED BY <1>1, Invariance, PTL

\* What a thread finds in the slot it is in is what it left there or what the other
\* side published: a message is read only where one was stored.
THEOREM SlotsHoldWhatWasPut == Spec => []SlotContents
  <1>1. Inv => SlotContents
    BY DEF Inv
  <1> QED BY <1>1, Invariance, PTL

------------------------------------------------------------------------------
(* Refinement: publishing a slot is the pool's Put, turning it LOADING is  *)
(* its Take, and every other step leaves the pool as it is.                *)

\* What it takes to be in the pool, and to have left it.
LEMMA PoolMembers ==
    /\ \A v : v \in storedItems <=> \E i \in Slots : states[i] = "STORED" /\ elements[i] = v
    /\ \A v : v \in takenItems <=>
          \/ \E c \in Consumers : \E n \in DOMAIN got[c] : got[c][n] = v
          \/ v # NoItem /\ \E i \in Slots : states[i] = "LOADING" /\ elements[i] = v
  <1>1. \A v : v \in storedItems <=> \E i \in Slots : states[i] = "STORED" /\ elements[i] = v
    BY DEF storedItems
  <1>2. \A v : v \in poppedItems <=>
               \E c \in Consumers : \E n \in DOMAIN got[c] : got[c][n] = v
    BY DEF poppedItems
  <1>3. \A v : v \in loadingItems <=>
               v # NoItem /\ \E i \in Slots : states[i] = "LOADING" /\ elements[i] = v
    BY DEF loadingItems
  <1> QED BY <1>1, <1>2, <1>3 DEF takenItems

\* The same in the next state.
LEMMA PoolMembersNext ==
    /\ \A v : v \in storedItems' <=> \E i \in Slots : states'[i] = "STORED" /\ elements'[i] = v
    /\ \A v : v \in takenItems' <=>
          \/ \E c \in Consumers : \E n \in DOMAIN got'[c] : got'[c][n] = v
          \/ v # NoItem /\ \E i \in Slots : states'[i] = "LOADING" /\ elements'[i] = v
  <1>1. \A v : v \in storedItems' <=> \E i \in Slots : states'[i] = "STORED" /\ elements'[i] = v
    BY DEF storedItems
  <1>2. \A v : v \in poppedItems' <=>
               \E c \in Consumers : \E n \in DOMAIN got'[c] : got'[c][n] = v
    BY DEF poppedItems
  <1>3. \A v : v \in loadingItems' <=>
               v # NoItem /\ \E i \in Slots : states'[i] = "LOADING" /\ elements'[i] = v
    BY DEF loadingItems
  <1> QED BY <1>1, <1>2, <1>3 DEF takenItems

\* A ring with a slot that is not STORED has room in the pool.
LEMMA RoomInPool ==
    ASSUME TypeOK, NEW s \in Slots, states[s] # "STORED"
    PROVE  IsFiniteSet(storedItems) /\ Cardinality(storedItems) < Size
  <1> DEFINE F == {j \in Slots : states[j] = "STORED"}
  <1>1. IsFiniteSet(Slots) /\ Cardinality(Slots) = Size
    <2>1. 0 \in Int /\ Size - 1 \in Int /\ Size \in Nat \ {0}
      BY SizeAssumption
    <2>2. IsFiniteSet(0 .. Size - 1) /\ Cardinality(0 .. Size - 1) = IF 0 > Size - 1 THEN 0 ELSE Size - 1 - 0 + 1
      BY <2>1, FS_Interval
    <2> QED BY <2>1, <2>2 DEF Slots
  <1>2. IsFiniteSet(Slots \ {s}) /\ Cardinality(Slots \ {s}) = Size - 1
    BY <1>1, FS_RemoveElement
  <1>3. F \subseteq Slots \ {s}
    OBVIOUS
  <1>4. IsFiniteSet(F) /\ Cardinality(F) <= Size - 1
    BY <1>2, <1>3, FS_Subset
  <1> HIDE DEF F
  <1>5. IsFiniteSet({elements[i] : i \in F}) /\ Cardinality({elements[i] : i \in F}) <= Cardinality(F)
    <2>1. [i \in F |-> elements[i]] \in Surjection(F, {elements[i] : i \in F})
      BY DEF Surjection
    <2> QED BY <1>4, <2>1, FS_Surjection
  <1>6. Cardinality({elements[i] : i \in F}) \in Nat /\ Cardinality(F) \in Nat
    BY <1>4, <1>5, FS_CardinalityType
  <1>7. storedItems = {elements[i] : i \in F}
    BY DEF storedItems, F
  <1> QED BY <1>4, <1>5, <1>6, <1>7, SizeAssumption

\* Steps that move no item: the pool does not notice them.
LEMMA PoolStutter ==
    ASSUME storedItems' = storedItems, takenItems' = takenItems
    PROVE  UNCHANGED Pool!poolVars
  BY DEF Pool!poolVars

\* The step that publishes a message puts it into the pool.
LEMMA PublishPuts ==
    ASSUME Inv, TypeOK', NEW p \in Producers, PushPublish(p)
    PROVE  Pool!Put(Item(p)) /\ Item(p) \in Items
  <1>0. /\ p \in Threads /\ MySlot(p) \in Slots
        /\ TypeOK /\ SlotContents /\ NothingTwice
    BY SlotRange DEF Inv, Threads
  <1>1. states[MySlot(p)] = "STORING" /\ elements[MySlot(p)] = Item(p)
    BY <1>0 DEF PushPublish, Goto, SlotContents, InSlot
  <1>2. Item(p) \in Items /\ sent[p] \in Nat
    <2>1. sent[p] \in 0 .. MaxPush /\ sent[p] < MaxPush
      BY <1>0 DEF PushPublish, Goto, TypeOK
    <2> QED BY <2>1, ThreadAssumption DEF Item, Items
  <1>3. PICK new : new = Item(p)
    OBVIOUS
  <1>4. new # NoItem
    BY <1>2, <1>3, ThreadAssumption DEF Items
  <1>5. \A i \in Slots : states[i] \in {"STORED", "LOADING"} => elements[i] # new
    BY <1>0, <1>2, <1>3, <1>4 DEF SlotContents, Item
  <1>6. \A c \in Consumers : \A n \in DOMAIN got[c] : got[c][n] # new
    BY <1>0, <1>2, <1>3 DEF NothingTwice, Item
  <1>7. new \notin storedItems \cup takenItems
    BY <1>5, <1>6, PoolMembers
  <1>8. storedItems' = storedItems \cup {new}
    <2>1. \A v : v \in storedItems' <=> v \in storedItems \cup {new}
      BY <1>0, <1>1, <1>3, PoolMembers, PoolMembersNext DEF PushPublish, TypeOK
    <2> QED BY <2>1
  <1>9. takenItems' = takenItems
    <2>1. /\ \A i \in Slots : states'[i] = "LOADING" <=> states[i] = "LOADING"
          /\ elements' = elements /\ got' = got
      BY <1>0, <1>1 DEF PushPublish, TypeOK
    <2>2. \A v : v \in takenItems' <=> v \in takenItems
      BY <2>1, PoolMembers, PoolMembersNext
    <2> QED BY <2>2
  <1>10. Cardinality(storedItems) < Size
    BY <1>0, <1>1, RoomInPool
  <1>11. Pool!Cardinality(storedItems) = Cardinality(storedItems)
    BY Zenon DEF Pool!Cardinality, Cardinality
  <1>12. Pool!Put(new)
    BY <1>7, <1>8, <1>9, <1>10, <1>11 DEF Pool!Put
  <1> QED BY <1>2, <1>3, <1>12

\* The CAS of a pop takes the slot's message out of the pool.
LEMMA PopSlotTakes ==
    ASSUME Inv, NEW c \in Consumers, PopSlot(c)
    PROVE  Pool!Take(elements[MySlot(c)]) /\ elements[MySlot(c)] \in Items
  <1>0. MySlot(c) \in Slots /\ TypeOK /\ SlotContents /\ NothingTwice
    BY SlotRange DEF Inv, Threads
  <1>1. PICK s \in Slots : s = MySlot(c)
    BY <1>0
  <1>2. PICK w : w = elements[s]
    OBVIOUS
  <1>3. states[s] = "STORED" /\ w \in Items /\ w # NoItem
    BY <1>0, <1>1, <1>2 DEF PopSlot, TypeOK, SlotContents
  <1>4. \A i \in Slots : states[i] = "STORED" /\ elements[i] = w => i = s
    BY <1>0, <1>2, <1>3 DEF NothingTwice, Holds
  <1>5. states' = [states EXCEPT ![s] = "LOADING"] /\ elements' = elements /\ got' = got
    BY <1>1 DEF PopSlot
  <1>6. storedItems' = storedItems \ {w}
    <2>1. \A v : v \in storedItems' <=> v \in storedItems \ {w}
      BY <1>0, <1>2, <1>4, <1>5, PoolMembers, PoolMembersNext DEF TypeOK
    <2> QED BY <2>1
  <1>7. takenItems' = takenItems \cup {w}
    <2>1. \A v : v \in takenItems' <=> v \in takenItems \cup {w}
      BY <1>0, <1>2, <1>3, <1>5, PoolMembers, PoolMembersNext DEF TypeOK
    <2> QED BY <2>1
  <1>8. w \in storedItems
    BY <1>2, <1>3, PoolMembers
  <1> QED BY <1>1, <1>2, <1>3, <1>6, <1>7, <1>8 DEF Pool!Take

\* Every other step moves no item into or out of the pool.
LEMMA OthersStutter ==
    ASSUME Inv, NEW t \in Threads,
           \/ Outside(t)
           \/ t \in Producers /\ (PushSlot(t) \/ PushWrite(t))
           \/ t \in Consumers /\ (PopRead(t) \/ PopRelease(t))
    PROVE  storedItems' = storedItems /\ takenItems' = takenItems
  <1>0. MySlot(t) \in Slots /\ TypeOK /\ SlotContents
    BY SlotRange DEF Inv
  <1>1. CASE Outside(t)
    BY <1>1 DEF Outside, storedItems, takenItems, poppedItems, loadingItems
  <1>2. CASE t \in Producers /\ (PushSlot(t) \/ PushWrite(t))
    <2>1. states[MySlot(t)] \in {"EMPTY", "STORING"}
      BY <1>0, <1>2 DEF PushSlot, PushWrite, Goto, SlotContents, InSlot
    <2>2. /\ \A i \in Slots : states'[i] = "STORED" <=> states[i] = "STORED"
          /\ \A i \in Slots : states'[i] = "LOADING" <=> states[i] = "LOADING"
          /\ \A i \in Slots : states[i] \in {"STORED", "LOADING"} => elements'[i] = elements[i]
          /\ got' = got
      BY <1>0, <1>2, <2>1 DEF PushSlot, PushWrite, TypeOK
    <2>3. \A v : v \in storedItems' <=> v \in storedItems
      BY <2>2, PoolMembers, PoolMembersNext
    <2>4. \A v : v \in takenItems' <=> v \in takenItems
      BY <2>2, PoolMembers, PoolMembersNext
    <2> QED BY <2>3, <2>4
  <1>3. CASE t \in Consumers /\ PopRelease(t)
    <2>1. states[MySlot(t)] = "LOADING" /\ elements[MySlot(t)] = NoItem
      BY <1>0, <1>3, ThreadAssumption DEF PopRelease, Goto, SlotContents, InSlot
    <2>2. /\ \A i \in Slots : states'[i] = "STORED" <=> states[i] = "STORED"
          /\ \A i \in Slots : elements[i] # NoItem =>
                (states'[i] = "LOADING" <=> states[i] = "LOADING")
          /\ elements' = elements /\ got' = got
      BY <1>0, <1>3, <2>1 DEF PopRelease, TypeOK
    <2>3. \A v : v \in storedItems' <=> v \in storedItems
      BY <2>2, PoolMembers, PoolMembersNext
    <2>4. \A v : v \in takenItems' <=> v \in takenItems
      BY <2>2, PoolMembers, PoolMembersNext
    <2> QED BY <2>3, <2>4
  <1>4. CASE t \in Consumers /\ PopRead(t)
    <2>s. PICK s \in Slots : s = MySlot(t)
      BY <1>0
    <2>w. PICK w : w = elements[s]
      OBVIOUS
    <2>1. states[s] = "LOADING" /\ w # NoItem /\ states' = states
      BY <1>0, <1>4, <2>s, <2>w, ThreadAssumption DEF PopRead, Goto, SlotContents, InSlot
    <2>2. elements' = [elements EXCEPT ![s] = NoItem] /\ got' = [got EXCEPT ![t] = Append(got[t], w)]
      BY <1>4, <2>s, <2>w DEF PopRead
    <2>3. /\ got \in [Consumers -> Seq(Items \cup {NoItem})]
          /\ w \in Items \cup {NoItem}
          /\ elements \in [Slots -> Items \cup {NoItem}]
      BY <1>0, <2>w DEF TypeOK
    <2>4. /\ DOMAIN got'[t] = DOMAIN got[t] \cup {Len(got[t]) + 1}
          /\ got'[t][Len(got[t]) + 1] = w
          /\ \A n \in DOMAIN got[t] : got'[t][n] = got[t][n]
      BY <1>4, <2>2, <2>3
    <2>5. \A v : (\E c \in Consumers : \E n \in DOMAIN got'[c] : got'[c][n] = v)
                 <=> v = w \/ \E c \in Consumers : \E n \in DOMAIN got[c] : got[c][n] = v
      BY <1>4, <2>2, <2>3, <2>4
    <2>6. \A v : v # NoItem =>
             ((\E i \in Slots : states[i] = "LOADING" /\ elements[i] = v)
              <=> v = w \/ \E i \in Slots : states[i] = "LOADING" /\ elements'[i] = v)
      BY <2>1, <2>2, <2>3, <2>w
    <2>7. \A v : v \in takenItems' <=> v \in takenItems
      <3>1. \A v : v \in takenItems' <=>
               \/ v = w
               \/ \E c \in Consumers : \E n \in DOMAIN got[c] : got[c][n] = v
               \/ v # NoItem /\ \E i \in Slots : states[i] = "LOADING" /\ elements'[i] = v
        BY <2>1, <2>5, PoolMembersNext
      <3>2. \A v : v \in takenItems <=>
               \/ \E c \in Consumers : \E n \in DOMAIN got[c] : got[c][n] = v
               \/ v # NoItem /\ (v = w \/ \E i \in Slots : states[i] = "LOADING" /\ elements'[i] = v)
        BY <2>6, PoolMembers
      <3> QED BY <2>1, <3>1, <3>2
    <2>8. \A v : v \in storedItems' <=> v \in storedItems
      BY <2>1, <2>2, <2>3, PoolMembers, PoolMembersNext
    <2> QED BY <2>7, <2>8
  <1> QED BY <1>1, <1>2, <1>3, <1>4

\* AtomicQueue2 implements the bounded pool, for any number of threads, any
\* ring size and across counter wraps.
THEOREM Refinement == Spec => ImplementsPool
  <1>1. Init => Pool!PoolInit
    <2> SUFFICES ASSUME Init PROVE Pool!PoolInit
      OBVIOUS
    <2>1. \A v : v \notin storedItems /\ v \notin takenItems
      BY PoolMembers DEF Init
    <2> QED BY <2>1 DEF Pool!PoolInit
  <1>2. Inv /\ Inv' /\ [Next]_vars => [Pool!PoolNext]_(Pool!poolVars)
    <2> SUFFICES ASSUME Inv, Inv', [Next]_vars PROVE [Pool!PoolNext]_(Pool!poolVars)
      OBVIOUS
    <2>0. TypeOK /\ TypeOK'
      BY DEF Inv
    <2>1. ASSUME NEW p \in Producers, Push(p)
          PROVE  Pool!PoolNext \/ UNCHANGED Pool!poolVars
      <3>1. CASE PushPublish(p)
        BY <2>0, <3>1, PublishPuts DEF Pool!PoolNext
      <3>2. CASE ~PushPublish(p)
        <4>1. p \in Threads
          BY DEF Threads
        <4>2. Outside(p) \/ PushSlot(p) \/ PushWrite(p)
          BY <2>0, <2>1, <3>2, PushOutside DEF Push
        <4> QED BY <4>1, <4>2, OthersStutter, PoolStutter
      <3> QED BY <3>1, <3>2
    <2>2. ASSUME NEW c \in Consumers, Pop(c)
          PROVE  Pool!PoolNext \/ UNCHANGED Pool!poolVars
      <3>1. CASE PopSlot(c)
        BY <3>1, PopSlotTakes DEF Pool!PoolNext
      <3>2. CASE ~PopSlot(c)
        <4>1. c \in Threads
          BY DEF Threads
        <4>2. Outside(c) \/ PopRead(c) \/ PopRelease(c)
          BY <2>0, <2>2, <3>2, PopOutside DEF Pop
        <4> QED BY <4>1, <4>2, OthersStutter, PoolStutter
      <3> QED BY <3>1, <3>2
    <2>3. ASSUME UNCHANGED vars PROVE UNCHANGED Pool!poolVars
      BY <2>3 DEF vars, Pool!poolVars, storedItems, takenItems, poppedItems, loadingItems
    <2> QED BY <2>1, <2>2, <2>3 DEF Next
  <1> QED BY <1>1, <1>2, Invariance, PTL DEF Spec, ImplementsPool, Pool!PoolSpec
==============================================================================
