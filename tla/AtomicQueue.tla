----------------------------- MODULE AtomicQueue -----------------------------
(***************************************************************************)
(* AtomicQueue2, the lock-free ring that carries every message of the      *)
(* server (include/Atomic_queue/atomic_queue.h), at the grain of its       *)
(* atomic operations.  A try_push claims a ticket by a compare-and-swap on *)
(* head_, then owns the ticket's slot between the CAS EMPTY -> STORING and *)
(* the store of STORED; a try_pop claims a ticket on tail_ and owns the    *)
(* slot between STORED -> LOADING and the store of EMPTY.                  *)
(*                                                                         *)
(* Tickets are unsigned integers that wrap at Modulus (2^32 in the code)   *)
(* and are compared through a signed cast.  Several threads may hold       *)
(* tickets of one slot at once (a lap apart); only the slot's state keeps  *)
(* them out of each other's way.                                           *)
(***************************************************************************)
EXTENDS Integers, Sequences, FiniteSets

CONSTANTS Producers, Consumers, \* threads that push, threads that pop
          Size,                 \* size_: slots of the ring
          Modulus,              \* number of values of a ticket counter
          StartTickets,         \* where head_ and tail_ stand when the model starts
          MaxPush,              \* bound: successful pushes of one producer
          NoItem                \* an empty (or moved-from) string

ASSUME SizeAssumption ==
    /\ Size \in Nat \ {0}
    /\ Modulus \in Nat \ {0}
    /\ Modulus % Size = 0       \* round_up_to_power_of_2 makes it so
    /\ 2 * Size < Modulus

ASSUME ThreadAssumption ==
    /\ Producers \cap Consumers = {}
    /\ StartTickets \subseteq 0 .. Modulus - 1
    /\ MaxPush \in Nat
    /\ NoItem \notin Producers \X (1 .. MaxPush)

VARIABLES head, tail,   \* head_, tail_
          states,       \* states_: one of SlotStates for each slot
          elements,     \* elements_
          pc,           \* where each thread stands
          reg,          \* the thread's local copy of a counter, then its ticket
          sent,         \* number of items each producer has pushed
          got           \* items each consumer has popped, in order

vars == <<head, tail, states, elements, pc, reg, sent, got>>

Threads == Producers \cup Consumers
Slots == 0 .. Size - 1
Tickets == 0 .. Modulus - 1
SlotStates == {"EMPTY", "STORING", "STORED", "LOADING"}
Item(p) == <<p, sent[p] + 1>>       \* what p is pushing: its next message
Items == Producers \X (1 .. MaxPush)

\* unsigned increment, and static_cast<int>(a - b); mutants of both that forget
\* that the counters wrap
IncNoWrap(t) == t + 1
Inc(t) == (t + 1) % Modulus
WideDiff(a, b) == a - b
SignedDiff(a, b) == LET d == (a - b) % Modulus
                    IN  IF 2 * d < Modulus THEN d ELSE d - Modulus

\* The slot of a ticket.  SHUFFLE_BITS is 0 for 128 one-byte states (fewer
\* than the 4096 GetIndexShuffleBits asks for), so remap_index is the identity.
SlotOf(t) == t % Size
MySlot(t) == SlotOf(reg[t])

Goto(t, from, to) ==
    /\ pc[t] = from
    /\ pc' = [pc EXCEPT ![t] = to]

(***************************************************************************)
(* A queue that has carried n items and is empty again stands at head_ =   *)
(* tail_ = n % Modulus, with every slot EMPTY; the code starts at n = 0.   *)
(***************************************************************************)
Init ==
    /\ head \in StartTickets
    /\ tail = head
    /\ states = [i \in Slots |-> "EMPTY"]
    /\ elements = [i \in Slots |-> NoItem]
    /\ pc = [t \in Threads |-> "idle"]
    /\ reg = [t \in Threads |-> 0]
    /\ sent = [p \in Producers |-> 0]
    /\ got = [c \in Consumers |-> <<>>]

------------------------------------------------------------------------------
(* try_push *)

PushBegin(p) ==
    /\ sent[p] < MaxPush
    /\ Goto(p, "idle", "pushCheck")
    /\ reg' = [reg EXCEPT ![p] = head]
    /\ UNCHANGED <<head, tail, states, elements, sent, got>>

\* the full test; its mutant lets one push too many in
RoomOffByOne(p) == SignedDiff(reg[p], tail) <= Size
Room(p) == SignedDiff(reg[p], tail) < Size

PushRefuse(p) ==
    /\ ~Room(p)
    /\ Goto(p, "pushCheck", "idle")
    /\ UNCHANGED <<head, tail, states, elements, reg, sent, got>>

PushRoom(p) ==
    /\ Room(p)
    /\ Goto(p, "pushCheck", "pushClaim")
    /\ UNCHANGED <<head, tail, states, elements, reg, sent, got>>

\* mutant: pushes to the slot after the one it claimed
PushClaimNext(p) ==
    /\ head = reg[p]
    /\ Goto(p, "pushClaim", "pushSlot")
    /\ head' = Inc(head)
    /\ reg' = [reg EXCEPT ![p] = Inc(head)]
    /\ UNCHANGED <<tail, states, elements, sent, got>>

PushClaim(p) ==
    /\ head = reg[p]
    /\ Goto(p, "pushClaim", "pushSlot")
    /\ head' = Inc(head)
    /\ UNCHANGED <<tail, states, elements, reg, sent, got>>

\* compare_exchange_weak may also fail although the values are equal
PushRetry(p) ==
    /\ Goto(p, "pushClaim", "pushCheck")
    /\ reg' = [reg EXCEPT ![p] = head]
    /\ UNCHANGED <<head, tail, states, elements, sent, got>>

\* mutants: the slot is taken whatever its state, or also while it is STORED
PushSlotBlind(p) ==
    /\ Goto(p, "pushSlot", "pushWrite")
    /\ states' = [states EXCEPT ![MySlot(p)] = "STORING"]
    /\ UNCHANGED <<head, tail, elements, reg, sent, got>>

PushSlotOverwrite(p) ==
    /\ states[MySlot(p)] \in {"EMPTY", "STORED"}
    /\ PushSlotBlind(p)

PushSlot(p) ==
    /\ states[MySlot(p)] = "EMPTY"
    /\ Goto(p, "pushSlot", "pushWrite")
    /\ states' = [states EXCEPT ![MySlot(p)] = "STORING"]
    /\ UNCHANGED <<head, tail, elements, reg, sent, got>>

\* mutant: the slot is published without being written
PushWriteNever(p) ==
    /\ Goto(p, "pushWrite", "pushPublish")
    /\ UNCHANGED <<head, tail, states, elements, reg, sent, got>>

PushWrite(p) ==
    /\ Goto(p, "pushWrite", "pushPublish")
    /\ elements' = [elements EXCEPT ![MySlot(p)] = Item(p)]
    /\ UNCHANGED <<head, tail, states, reg, sent, got>>

PushPublish(p) ==
    /\ Goto(p, "pushPublish", "idle")
    /\ states' = [states EXCEPT ![MySlot(p)] = "STORED"]
    /\ sent' = [sent EXCEPT ![p] = @ + 1]
    /\ UNCHANGED <<head, tail, elements, reg, got>>

------------------------------------------------------------------------------
(* try_pop *)

PopBegin(c) ==
    /\ Goto(c, "idle", "popCheck")
    /\ reg' = [reg EXCEPT ![c] = tail]
    /\ UNCHANGED <<head, tail, states, elements, sent, got>>

PopRefuse(c) ==
    /\ SignedDiff(head, reg[c]) <= 0
    /\ Goto(c, "popCheck", "idle")
    /\ UNCHANGED <<head, tail, states, elements, reg, sent, got>>

PopSome(c) ==
    /\ SignedDiff(head, reg[c]) > 0
    /\ Goto(c, "popCheck", "popClaim")
    /\ UNCHANGED <<head, tail, states, elements, reg, sent, got>>

\* mutant: claims a ticket and skips the next one
PopClaimSkip(c) ==
    /\ tail = reg[c]
    /\ Goto(c, "popClaim", "popSlot")
    /\ tail' = Inc(Inc(tail))
    /\ UNCHANGED <<head, states, elements, reg, sent, got>>

PopClaim(c) ==
    /\ tail = reg[c]
    /\ Goto(c, "popClaim", "popSlot")
    /\ tail' = Inc(tail)
    /\ UNCHANGED <<head, states, elements, reg, sent, got>>

PopRetry(c) ==
    /\ Goto(c, "popClaim", "popCheck")
    /\ reg' = [reg EXCEPT ![c] = tail]
    /\ UNCHANGED <<head, tail, states, elements, sent, got>>

\* mutant: the wait of the single-consumer branch (spsc_), a load without a CAS
PopSlotSpsc(c) ==
    /\ states[MySlot(c)] = "STORED"
    /\ Goto(c, "popSlot", "popRead")
    /\ UNCHANGED <<head, tail, states, elements, reg, sent, got>>

PopSlot(c) ==
    /\ states[MySlot(c)] = "STORED"
    /\ Goto(c, "popSlot", "popRead")
    /\ states' = [states EXCEPT ![MySlot(c)] = "LOADING"]
    /\ UNCHANGED <<head, tail, elements, reg, sent, got>>

PopRead(c) ==
    /\ Goto(c, "popRead", "popRelease")
    /\ got' = [got EXCEPT ![c] = Append(@, elements[MySlot(c)])]
    /\ elements' = [elements EXCEPT ![MySlot(c)] = NoItem]
    /\ UNCHANGED <<head, tail, states, reg, sent>>

PopRelease(c) ==
    /\ Goto(c, "popRelease", "idle")
    /\ states' = [states EXCEPT ![MySlot(c)] = "EMPTY"]
    /\ UNCHANGED <<head, tail, elements, reg, sent, got>>

------------------------------------------------------------------------------
Push(p) ==
    \/ PushBegin(p) \/ PushRefuse(p) \/ PushRoom(p) \/ PushClaim(p)
    \/ PushRetry(p) \/ PushSlot(p) \/ PushWrite(p) \/ PushPublish(p)

Pop(c) ==
    \/ PopBegin(c) \/ PopRefuse(c) \/ PopSome(c) \/ PopClaim(c)
    \/ PopRetry(c) \/ PopSlot(c) \/ PopRead(c) \/ PopRelease(c)

Next == (\E p \in Producers : Push(p)) \/ (\E c \in Consumers : Pop(c))

Spec == Init /\ [][Next]_vars

\* The runs that ask for progress: every step a thread has begun is taken in
\* the end.  A weak compare_exchange may fail for no reason, but not forever.
PushFair(p) == WF_vars(Push(p) /\ pc[p] # "idle") /\ SF_vars(PushClaim(p))
PopFair(c) == WF_vars(Pop(c) /\ pc[c] # "idle") /\ SF_vars(PopClaim(c))

FairSpec ==
    /\ Spec
    /\ \A p \in Producers : PushFair(p)
    /\ \A c \in Consumers : PopFair(c)
------------------------------------------------------------------------------
(* Correctness *)

PushPcs == {"idle", "pushCheck", "pushClaim", "pushSlot", "pushWrite", "pushPublish"}
PopPcs == {"idle", "popCheck", "popClaim", "popSlot", "popRead", "popRelease"}

\* Every variable keeps its type; counters stay within an unsigned int.
TypeOK ==
    /\ head \in Tickets
    /\ tail \in Tickets
    /\ states \in [Slots -> SlotStates]
    /\ elements \in [Slots -> Items \cup {NoItem}]
    /\ pc \in [Threads -> PushPcs \cup PopPcs]
    /\ \A p \in Producers : pc[p] \in PushPcs
    /\ \A c \in Consumers : pc[c] \in PopPcs
    /\ reg \in [Threads -> Tickets]
    /\ sent \in [Producers -> 0 .. MaxPush]
    /\ \A p \in Producers : pc[p] # "idle" => sent[p] < MaxPush
    /\ got \in [Consumers -> Seq(Items \cup {NoItem})]

InSlot == {"pushWrite", "pushPublish", "popRead", "popRelease"}

\* do_push_any and do_pop_any touch the non-atomic std::string of a slot only
\* while they own it: no two threads are ever between the compare-and-swap and
\* the final store of the same slot, so there is no data race on elements_,
\* although tickets a lap apart, or after the counters wrap, share the slot.
SlotExclusion ==
    \A t, u \in Threads :
        (t # u /\ pc[t] \in InSlot /\ pc[u] \in InSlot) => MySlot(t) # MySlot(u)

\* The claimed tickets never outrun the ring: try_push's full test and try_pop's
\* empty test, made on a counter read earlier, still hold at the claim.
TicketWindow == SignedDiff(head, tail) \in 0 .. Size

\* a slot whose element is stored, or is being loaded and not yet moved out
Holds(i, v) == states[i] \in {"STORED", "LOADING"} /\ elements[i] = v

\* A message whose try_push returned true is in a slot or was handed to a consumer.
NothingLost ==
    \A p \in Producers : \A k \in 1 .. sent[p] :
        \/ \E i \in Slots : Holds(i, <<p, k>>)
        \/ \E c \in Consumers : \E n \in DOMAIN got[c] : got[c][n] = <<p, k>>

\* No message is popped twice, by one consumer or by two, nor popped while a slot
\* still holds it, nor held by two slots; and only pushed messages are popped.
NothingTwice ==
    /\ \A c \in Consumers : \A n \in DOMAIN got[c] :
          /\ got[c][n] \in Items
          /\ got[c][n][2] <= sent[got[c][n][1]]
          /\ \A i \in Slots : ~Holds(i, got[c][n])
          /\ \A d \in Consumers : \A m \in DOMAIN got[d] :
                got[c][n] = got[d][m] => c = d /\ n = m
    /\ \A i, j \in Slots : \A v \in {elements[i]} \ {NoItem} :
          Holds(i, v) /\ Holds(j, v) => i = j

\* try_push answers false only while the ring is full, try_pop only while it is
\* empty: neither is misled by the stale copy of a counter it started from.
RefusalsAreHonest ==
    [][/\ \A p \in Producers :
             pc[p] = "pushCheck" /\ pc'[p] = "idle" => SignedDiff(head, tail) = Size
       /\ \A c \in Consumers :
             pc[c] = "popCheck" /\ pc'[c] = "idle" => head = tail]_vars

\* As long as one thread has pushed and one has popped (a client's send_queue: the
\* listener pushes, the client's worker pops), messages come out in the order they
\* went in; other threads may have called and been refused, or be about to claim.
FirstInFirstOut ==
    \A p \in Producers, c \in Consumers :
        (/\ \A q \in Producers \ {p} : sent[q] = 0 /\ pc[q] \in {"idle", "pushCheck", "pushClaim"}
         /\ \A d \in Consumers \ {c} : got[d] = <<>> /\ pc[d] \in {"idle", "popCheck", "popClaim"})
        => \A n \in DOMAIN got[c] : got[c][n] = <<p, n>>

\* Every try_push and try_pop that has begun returns, if every thread that is
\* inside a call goes on: a call that spins on a slot waits for the thread that
\* claimed it, and these waits never form a circle.
CallsReturn == \A t \in Threads : pc[t] # "idle" ~> pc[t] = "idle"

------------------------------------------------------------------------------
(* The ring implements the bounded pool: an item enters the pool when its  *)
(* slot becomes STORED and leaves it when a consumer turns it LOADING.     *)

storedItems == {elements[i] : i \in {j \in Slots : states[j] = "STORED"}}
loadingItems == {elements[i] : i \in {j \in Slots : states[j] = "LOADING"}} \ {NoItem}
poppedItems == UNION {{got[c][n] : n \in DOMAIN got[c]} : c \in Consumers}
takenItems == poppedItems \cup loadingItems

Pool == INSTANCE BoundedPool
            WITH Capacity <- Size, stored <- storedItems, taken <- takenItems

\* The ring never holds more than Size items, and each is put once and taken once.
ImplementsPool == Pool!PoolSpec

\* What the proofs of the properties above carry from step to step.
SlotContents ==
    /\ \A t \in Threads : pc[t] \in InSlot =>
          states[MySlot(t)] = IF t \in Producers THEN "STORING" ELSE "LOADING"
    /\ \A p \in Producers : pc[p] = "pushPublish" => elements[MySlot(p)] = Item(p)
    /\ \A c \in Consumers :
          /\ pc[c] = "popRead" => elements[MySlot(c)] # NoItem
          /\ pc[c] = "popRelease" => elements[MySlot(c)] = NoItem
    /\ \A i \in Slots : states[i] = "STORED" => elements[i] # NoItem
    /\ \A i \in Slots : (states[i] \in {"STORED", "LOADING"} /\ elements[i] # NoItem)
          => elements[i][2] <= sent[elements[i][1]]

Inv == TypeOK /\ SlotExclusion /\ SlotContents /\ NothingLost /\ NothingTwice
==============================================================================
