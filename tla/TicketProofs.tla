---------------------------- MODULE TicketProofs -----------------------------
(***************************************************************************)
(* What the ticket counters of AtomicQueue2 guarantee, for any number of   *)
(* threads, any ring size and any counter width: the claimed tickets stay  *)
(* within the ring and refusals are honest as long as the counters have    *)
(* not been run through once, and messages of one producer reach the one   *)
(* consumer in order, however often they have been.                        *)
(***************************************************************************)
EXTENDS AtomicQueueProofs

------------------------------------------------------------------------------
(* Remainders *)

\* A multiple of m that is positive is at least m.
LEMMA MulPos ==
    ASSUME NEW m \in Nat \ {0}, NEW x \in Int, x >= 1
    PROVE  m * x >= m
<1>1. m * x = m * (x - 1) + m
    OBVIOUS
<1>2. m * (x - 1) >= 0
    OBVIOUS
<1> QED BY <1>1, <1>2

\* Quotient and remainder.
LEMMA Quot ==
    ASSUME NEW m \in Nat \ {0}, NEW a \in Int
    PROVE  a \div m \in Int /\ a = m * (a \div m) + (a % m) /\ a % m \in 0 .. m - 1
<1>1. a \div m \in Int
    OBVIOUS
<1>2. a = m * (a \div m) + (a % m)
    OBVIOUS
<1>3. a % m \in 0 .. m - 1
    OBVIOUS
<1> QED BY <1>1, <1>2, <1>3

\* They are unique.
LEMMA ModUnique ==
    ASSUME NEW m \in Nat \ {0}, NEW d \in Int, NEW e \in Int, NEW r \in Int, NEW s \in Int,
           m * d + r = m * e + s, 0 <= r, r < m, 0 <= s, s < m
    PROVE  r = s /\ d = e
<1>1. m * (d - e) = s - r
    OBVIOUS
<1>2. CASE d > e
    BY <1>1, <1>2, MulPos
<1>3. CASE d < e
  <2>1. m * (e - d) = r - s
    OBVIOUS
  <2> QED BY <1>3, <2>1, MulPos
<1> QED BY <1>1, <1>2, <1>3

\* A number is a multiple of m and a remainder.
LEMMA Divide ==
    ASSUME NEW m \in Nat \ {0}, NEW a \in Int
    PROVE  \E d \in Int, r \in Int : a = m * d + r /\ r = a % m /\ 0 <= r /\ r < m
<1>1. a \div m \in Int /\ a = m * (a \div m) + (a % m) /\ a % m \in 0 .. m - 1
    BY Quot
<1>2. PICK d \in Int, r \in Int : d = a \div m /\ r = a % m
    BY <1>1
<1>3. a = m * d + r /\ 0 <= r /\ r < m
    BY <1>1, <1>2
<1> QED BY <1>2, <1>3

\* That is what % yields.
LEMMA ModIs ==
    ASSUME NEW m \in Nat \ {0}, NEW a \in Int, NEW d \in Int, NEW r \in Int,
           a = m * d + r, 0 <= r, r < m
    PROVE  a % m = r
<1>1. PICK e \in Int, s \in Int : a = m * e + s /\ s = a % m /\ 0 <= s /\ s < m
    BY Divide
<1>2. m * d + r = m * e + s /\ 0 <= s /\ s < m
    BY <1>1
<1>3. r = s
    BY ONLY <1>2, ModUnique, m \in Nat \ {0}, d \in Int, r \in Int, e \in Int, s \in Int,
          0 <= r, r < m
<1> QED BY <1>1, <1>3

\* Adding to a counter that has wrapped.
LEMMA ModAdd ==
    ASSUME NEW m \in Nat \ {0}, NEW x \in Int, NEW y \in Int
    PROVE  ((x % m) + y) % m = (x + y) % m
<1>1. PICK d \in Int, r \in Int : x = m * d + r /\ r = x % m /\ 0 <= r /\ r < m
    BY Divide
<1>2. PICK z \in Int : z = r + y
    OBVIOUS
<1>3. PICK e \in Int, s \in Int : z = m * e + s /\ s = z % m /\ 0 <= s /\ s < m
    BY Divide
<1>4. PICK p \in Int, q \in Int : p = m * d /\ q = m * e
    OBVIOUS
<1>5. x = p + r /\ z = q + s
    BY <1>1, <1>3, <1>4
<1>6. PICK a \in Int, f \in Int : a = x + y /\ f = d + e
    OBVIOUS
<1>7. m * f = p + q
    BY <1>4, <1>6
<1>8. a = m * f + s
    BY <1>2, <1>5, <1>6, <1>7
<1>9. a % m = s
    BY <1>3, <1>8, ModIs
<1> QED BY <1>1, <1>2, <1>3, <1>6, <1>9

\* Numbers less than m apart have different remainders.
LEMMA ModApart ==
    ASSUME NEW m \in Nat \ {0}, NEW x \in Int, NEW y \in Int, x % m = y % m, y <= x, x < y + m
    PROVE  x = y
<1>1. PICK d \in Int, r \in 0 .. m - 1 : x = m * d + r /\ r = x % m
    BY Quot
<1>2. PICK e \in Int, s \in 0 .. m - 1 : y = m * e + s /\ s = y % m
    BY Quot
<1>3. r = s /\ m * (d - e) = x - y
    BY <1>1, <1>2
<1>4. d >= e
  <2> SUFFICES ASSUME e > d PROVE FALSE
    BY <1>1, <1>2
  <2>1. m * (e - d) >= m
    BY MulPos
  <2>2. m * (e - d) = y - x
    BY <1>3
  <2> QED BY <2>1, <2>2
<1>5. ~(d > e)
  <2> SUFFICES ASSUME d > e PROVE FALSE
    OBVIOUS
  <2>1. m * (d - e) >= m
    BY MulPos
  <2> QED BY <1>3, <2>1
<1>6. d = e
    BY <1>4, <1>5
<1> QED BY <1>1, <1>2, <1>3, <1>6

\* The distance of two counters that have wrapped, if they are less than m apart.
LEMMA ModSub ==
    ASSUME NEW m \in Nat \ {0}, NEW x \in Int, NEW y \in Int, y <= x, x < y + m
    PROVE  ((x % m) - (y % m)) % m = x - y
<1>1. PICK d \in Int, r \in Int : x = m * d + r /\ r = x % m /\ 0 <= r /\ r < m
    BY Divide
<1>2. PICK e \in Int, s \in Int : y = m * e + s /\ s = y % m /\ 0 <= s /\ s < m
    BY Divide
<1>3. PICK z \in Int : z = x - y /\ 0 <= z /\ z < m
    OBVIOUS
<1>4. PICK p \in Int, q \in Int : p = m * d /\ q = m * e
    OBVIOUS
<1>5. x = p + r /\ y = q + s
    BY <1>1, <1>2, <1>4
<1>6. PICK a \in Int, f \in Int : a = r - s /\ f = e - d
    OBVIOUS
<1>7. m * f = q - p
    BY <1>4, <1>6
<1>8. a = m * f + z
    BY <1>3, <1>5, <1>6, <1>7
<1>9. a % m = z
    BY <1>3, <1>8, ModIs
<1> QED BY <1>1, <1>2, <1>3, <1>6, <1>9

\* The slot of a counter that has wrapped, if the ring's size divides the modulus.
LEMMA ModMod ==
    ASSUME NEW n \in Nat \ {0}, NEW m \in Nat \ {0}, m % n = 0, NEW x \in Int
    PROVE  (x % m) % n = x % n
<1>1. PICK d \in Int, r \in Int : x = m * d + r /\ r = x % m /\ 0 <= r /\ r < m
    BY Divide
<1>2. PICK k \in Int, z \in Int : m = n * k + z /\ z = m % n
    BY Divide
<1>3. PICK e \in Int, s \in Int : r = n * e + s /\ s = r % n /\ 0 <= s /\ s < n
    BY Divide
<1>4. m = n * k
    BY <1>2
<1>5. PICK h \in Int : h = k * d
    OBVIOUS
<1>6. m * d = n * h
    BY <1>4, <1>5
<1>7. PICK p \in Int, q \in Int, f \in Int : p = n * h /\ q = n * e /\ f = h + e
    OBVIOUS
<1>8. x = p + r /\ r = q + s
    BY <1>1, <1>3, <1>6, <1>7
<1>9. n * f = p + q
    BY <1>7
<1>a. x = n * f + s
    BY <1>8, <1>9
<1>b. x % n = s
    BY <1>3, <1>a, ModIs
<1> QED BY <1>1, <1>3, <1>b

------------------------------------------------------------------------------
(* Tickets and slots *)

\* the counter, and its slot, after k claims from ticket b
Pos(b, k) == (b + k) % Modulus
Slot(b, k) == SlotOf(Pos(b, k))

\* One more claim is one increment, and a counter stays in its type.
LEMMA PosNext ==
    ASSUME NEW b \in Tickets, NEW k \in Nat
    PROVE  Inc(Pos(b, k)) = Pos(b, k + 1) /\ Pos(b, k) \in Tickets
<1>1. Modulus \in Nat \ {0} /\ b \in Int
    BY SizeAssumption DEF Tickets
<1>2. PICK a \in Int : a = b + k
    BY <1>1
<1>3. ((a % Modulus) + 1) % Modulus = (a + 1) % Modulus
  <2>1. PICK j \in Int : j = 1
      OBVIOUS
  <2>2. ((a % Modulus) + j) % Modulus = (a + j) % Modulus
      BY <1>1, ModAdd
  <2> QED BY <2>1, <2>2
<1>4. a + 1 = b + (k + 1)
    BY <1>1, <1>2
<1>5. a % Modulus \in 0 .. Modulus - 1
    BY <1>1, ModRange
<1> QED BY <1>2, <1>3, <1>4, <1>5 DEF Inc, Pos, Tickets

\* Before the first claim the counter stands where it started.
LEMMA PosStart ==
    ASSUME NEW b \in Tickets
    PROVE  Pos(b, 0) = b
<1>1. Modulus \in Nat \ {0} /\ b \in Int /\ 0 <= b /\ b < Modulus
    BY SizeAssumption DEF Tickets
<1>2. b = Modulus * 0 + b
    BY <1>1
<1>3. b % Modulus = b
    BY <1>1, <1>2, ModIs
<1> QED BY <1>1, <1>3 DEF Pos

\* Two counts less than a full range apart are two tickets.
LEMMA PosApart ==
    ASSUME NEW b \in Tickets, NEW k \in Nat, NEW l \in Nat,
           Pos(b, k) = Pos(b, l), l <= k, k < l + Modulus
    PROVE  k = l
<1>1. Modulus \in Nat \ {0} /\ b \in Int
    BY SizeAssumption DEF Tickets
<1>2. PICK x \in Int, y \in Int : x = b + k /\ y = b + l
    BY <1>1
<1>3. x % Modulus = y % Modulus /\ y <= x /\ x < y + Modulus
    BY <1>1, <1>2 DEF Pos
<1>4. x = y
    BY <1>1, <1>3, ModApart
<1> QED BY <1>1, <1>2, <1>4

\* static_cast<int>(a - b) is the distance of two counters that are less than half
\* their range apart.
LEMMA PosDiff ==
    ASSUME NEW b \in Tickets, NEW k \in Nat, NEW l \in Nat, l <= k, 2 * (k - l) < Modulus
    PROVE  SignedDiff(Pos(b, k), Pos(b, l)) = k - l /\ SignedDiff(Pos(b, l), Pos(b, k)) = l - k
<1>1. Modulus \in Nat \ {0} /\ b \in Int
    BY SizeAssumption DEF Tickets
<1>2. PICK x \in Int, y \in Int, z \in Int : x = b + k /\ y = b + l /\ z = y + Modulus
    BY <1>1
<1>3. ((x % Modulus) - (y % Modulus)) % Modulus = k - l
  <2>1. y <= x /\ x < y + Modulus /\ x - y = k - l
      BY <1>1, <1>2
  <2> QED BY <1>1, <2>1, ModSub
<1>4. SignedDiff(Pos(b, k), Pos(b, l)) = k - l
    BY <1>2, <1>3 DEF SignedDiff, Pos
<1>5. CASE k = l
    BY <1>4, <1>5
<1>6. CASE l < k
  <2>1. z % Modulus = y % Modulus
    <3>1. PICK d \in Int, r \in Int :
            y = Modulus * d + r /\ r = y % Modulus /\ 0 <= r /\ r < Modulus
        BY <1>1, Divide
    <3>2. PICK e \in Int : e = d + 1
        OBVIOUS
    <3>3. Modulus * e = Modulus * d + Modulus
        BY <1>1, <3>2
    <3>4. z = Modulus * e + r
        BY <1>1, <1>2, <3>1, <3>3
    <3>5. z % Modulus = r
        BY <1>1, <3>1, <3>4, ModIs
    <3> QED BY <3>1, <3>5
  <2>2. x <= z /\ z < x + Modulus /\ z - x = Modulus - (k - l)
      BY <1>1, <1>2, <1>6
  <2>3. ((z % Modulus) - (x % Modulus)) % Modulus = z - x
      BY <1>1, <2>2, ModSub
  <2>4. ((y % Modulus) - (x % Modulus)) % Modulus = Modulus - (k - l)
      BY <2>1, <2>2, <2>3
  <2>5. ~(2 * (Modulus - (k - l)) < Modulus) /\ (Modulus - (k - l)) - Modulus = l - k
      BY <1>1
  <2>6. SignedDiff(Pos(b, l), Pos(b, k)) = l - k
      BY <1>2, <2>4, <2>5 DEF SignedDiff, Pos
  <2> QED BY <1>4, <2>6
<1> QED BY <1>5, <1>6

\* The ring's size divides the range: the slot goes by the count itself.
LEMMA SlotIs ==
    ASSUME NEW b \in Tickets, NEW k \in Nat
    PROVE  Slot(b, k) = (b + k) % Size /\ Slot(b, k) \in Slots
<1>1. /\ Modulus \in Nat \ {0} /\ Size \in Nat \ {0} /\ Modulus % Size = 0
      /\ b \in Int /\ b + k \in Int
    BY SizeAssumption DEF Tickets
<1>2. ((b + k) % Modulus) % Size = (b + k) % Size
    BY <1>1, ModMod
<1>3. (b + k) % Size \in 0 .. Size - 1
    BY <1>1, ModRange
<1> QED BY <1>2, <1>3 DEF Slot, SlotOf, Pos, Slots

\* Counts less than a lap apart have different slots.
LEMMA SlotApart ==
    ASSUME NEW b \in Tickets, NEW k \in Nat, NEW l \in Nat, Slot(b, k) = Slot(b, l),
           l <= k, k < l + Size
    PROVE  k = l
<1>1. Size \in Nat \ {0} /\ b \in Int
    BY SizeAssumption DEF Tickets
<1>2. PICK x \in Int, y \in Int : x = b + k /\ y = b + l
    BY <1>1
<1>3. x % Size = y % Size /\ y <= x /\ x < y + Size
    BY <1>1, <1>2, SlotIs
<1>4. x = y
    BY <1>1, <1>3, ModApart
<1> QED BY <1>1, <1>2, <1>4

\* A lap later the slot is the same.
LEMMA SlotLap ==
    ASSUME NEW b \in Tickets, NEW k \in Nat
    PROVE  Slot(b, k + Size) = Slot(b, k)
<1>1. Size \in Nat \ {0} /\ b \in Int
    BY SizeAssumption DEF Tickets
<1>2. PICK y \in Int, z \in Int : y = b + k /\ z = b + (k + Size)
    BY <1>1
<1>3. PICK d \in Int, r \in Int : y = Size * d + r /\ r = y % Size /\ 0 <= r /\ r < Size
    BY <1>1, Divide
<1>4. PICK e \in Int : e = d + 1
    OBVIOUS
<1>5. Size * e = Size * d + Size
    BY <1>1, <1>4
<1>6. z = Size * e + r
    BY <1>1, <1>2, <1>3, <1>5
<1>7. z % Size = r
    BY <1>1, <1>3, <1>6, ModIs
<1>8. k + Size \in Nat
    BY <1>1
<1> QED BY <1>2, <1>3, <1>7, <1>8, SlotIs

------------------------------------------------------------------------------
(* Counting claims *)

Claiming == {"pushSlot", "pushWrite", "pushPublish"}
Taking == {"popSlot", "popRead"}

\* how often a thread has claimed a ticket
Begun(p) == sent[p] + (IF pc[p] \in Claiming THEN 1 ELSE 0)
Taken(c) == Len(got[c]) + (IF pc[c] \in Taking THEN 1 ELSE 0)

\* the claims, one pair each, and their number
Claimed == UNION {{<<p, k>> : k \in 1 .. Begun(p)} : p \in Producers}
Handed == UNION {{<<c, k>> : k \in 1 .. Taken(c)} : c \in Consumers}
Pushes == Cardinality(Claimed)
Pops == Cardinality(Handed)

\* A step that claims nothing changes no count.
LEMMA CountsKept ==
    ASSUME TypeOK, [Next]_vars,
           ~\E p \in Producers : PushClaim(p), ~\E c \in Consumers : PopClaim(c)
    PROVE  /\ \A p \in Producers : Begun(p)' = Begun(p)
           /\ \A c \in Consumers : Taken(c)' = Taken(c)
           /\ UNCHANGED <<head, tail>>
<1> USE DEF TypeOK, Threads, Goto, Claiming, Taking
<1>1. CASE UNCHANGED vars
    BY <1>1 DEF vars, Begun, Taken
<1>2. ASSUME NEW p \in Producers, Push(p)
      PROVE  /\ \A q \in Producers : Begun(q)' = Begun(q)
             /\ \A c \in Consumers : Taken(c)' = Taken(c)
             /\ UNCHANGED <<head, tail>>
  <2>0. p \notin Consumers /\ ~PushClaim(p) /\ sent[p] \in Nat
      BY ThreadAssumption
  <2>1. CASE PushBegin(p) \/ PushRefuse(p) \/ PushRoom(p) \/ PushRetry(p)
      BY <2>0, <2>1 DEF PushBegin, PushRefuse, PushRoom, PushRetry, Begun, Taken
  <2>2. CASE PushSlot(p) \/ PushWrite(p)
      BY <2>0, <2>2 DEF PushSlot, PushWrite, Begun, Taken
  <2>3. CASE PushPublish(p)
    <3>1. \A q \in Producers \ {p} : Begun(q)' = Begun(q)
        BY <2>3 DEF PushPublish, Begun
    <3>2. Begun(p)' = Begun(p)
        BY <2>0, <2>3 DEF PushPublish, Begun
    <3>3. UNCHANGED <<head, tail>> /\ \A c \in Consumers : Taken(c)' = Taken(c)
        BY <2>0, <2>3 DEF PushPublish, Taken
    <3> QED BY <3>1, <3>2, <3>3
  <2> QED BY <1>2, <2>0, <2>1, <2>2, <2>3 DEF Push
<1>3. ASSUME NEW c \in Consumers, Pop(c)
      PROVE  /\ \A p \in Producers : Begun(p)' = Begun(p)
             /\ \A d \in Consumers : Taken(d)' = Taken(d)
             /\ UNCHANGED <<head, tail>>
  <2>0. c \notin Producers /\ ~PopClaim(c)
      BY ThreadAssumption
  <2>1. CASE PopBegin(c) \/ PopRefuse(c) \/ PopSome(c) \/ PopRetry(c)
      BY <2>0, <2>1 DEF PopBegin, PopRefuse, PopSome, PopRetry, Begun, Taken
  <2>2. CASE PopSlot(c) \/ PopRelease(c)
      BY <2>0, <2>2 DEF PopSlot, PopRelease, Begun, Taken
  <2>3. CASE PopRead(c)
    <3>1. got[c] \in Seq(Items \cup {NoItem}) /\ elements[MySlot(c)] \in Items \cup {NoItem}
        BY SlotRange
    <3>2. Len(got'[c]) = Len(got[c]) + 1 /\ pc[c] = "popRead" /\ pc'[c] = "popRelease"
        BY <2>3, <3>1 DEF PopRead
    <3>3. Taken(c)' = Taken(c)
        BY <3>1, <3>2 DEF Taken
    <3>4. \A d \in Consumers \ {c} : Taken(d)' = Taken(d)
        BY <2>3 DEF PopRead, Taken
    <3>5. UNCHANGED <<head, tail>> /\ \A p \in Producers : Begun(p)' = Begun(p)
        BY <2>0, <2>3 DEF PopRead, Begun
    <3> QED BY <3>3, <3>4, <3>5
  <2> QED BY <1>3, <2>0, <2>1, <2>2, <2>3 DEF Pop
<1> QED BY <1>1, <1>2, <1>3 DEF Next

\* A claim is one more.
LEMMA OneMore ==
    ASSUME NEW S, NEW T, NEW x, IsFiniteSet(S), x \notin S, T = S \cup {x}
    PROVE  IsFiniteSet(T) /\ Cardinality(T) = Cardinality(S) + 1 /\ Cardinality(S) \in Nat
<1>1. IsFiniteSet(T) /\ Cardinality(T) = Cardinality(S) + 1
    BY FS_AddElement
<1>2. Cardinality(S) \in Nat
    BY FS_CardinalityType
<1> QED BY <1>1, <1>2

\* The claim of a push is counted once, and is no pop.
LEMMA PushClaimCounts ==
    ASSUME TypeOK, NEW p \in Producers, PushClaim(p), IsFiniteSet(Claimed)
    PROVE  /\ IsFiniteSet(Claimed') /\ Pushes' = Pushes + 1 /\ Pushes \in Nat
           /\ Handed' = Handed
<1> USE DEF TypeOK, Threads, Goto, Claiming, Taking
<1>0. p \notin Consumers /\ sent[p] \in Nat
    BY ThreadAssumption
<1>1. /\ \A q \in Producers \ {p} : Begun(q)' = Begun(q)
      /\ Begun(p) = sent[p] /\ Begun(p)' = sent[p] + 1
      /\ \A c \in Consumers : Taken(c)' = Taken(c)
    BY <1>0 DEF PushClaim, Begun, Taken
<1>2. PICK n \in Nat : n = sent[p]
    BY <1>0
<1>3. Claimed' = Claimed \cup {<<p, n + 1>>}
  <2>1. \A q \in Producers : \A v :
            v \in {<<q, k>> : k \in 1 .. Begun(q)'} <=>
                v \in {<<q, k>> : k \in 1 .. Begun(q)} \/ (q = p /\ v = <<p, n + 1>>)
    <3> TAKE q \in Producers
    <3>1. CASE q # p
        BY <1>1, <3>1
    <3>2. CASE q = p
      <4>1. 1 .. n + 1 = (1 .. n) \cup {n + 1}
          BY <1>2
      <4> QED BY <1>1, <1>2, <3>2, <4>1
    <3> QED BY <3>1, <3>2
  <2>2. /\ \A v : v \in Claimed <=> \E q \in Producers : v \in {<<q, k>> : k \in 1 .. Begun(q)}
        /\ \A v : v \in Claimed' <=> \E q \in Producers : v \in {<<q, k>> : k \in 1 .. Begun(q)'}
      BY DEF Claimed
  <2>3. \A v : v \in Claimed' <=> v \in Claimed \/ v = <<p, n + 1>>
      BY <2>1, <2>2, Zenon
  <2> QED BY <2>3
<1>4. <<p, n + 1>> \notin Claimed
  <2> SUFFICES ASSUME NEW q \in Producers, NEW k \in 1 .. Begun(q), <<p, n + 1>> = <<q, k>>
               PROVE  FALSE
      BY DEF Claimed
  <2>1. q = p /\ k = n + 1
      OBVIOUS
  <2> QED BY <1>1, <1>2, <2>1
<1>5. Handed' = Handed
    BY <1>1 DEF Handed
<1>6. /\ IsFiniteSet(Claimed') /\ Cardinality(Claimed) \in Nat
      /\ Cardinality(Claimed') = Cardinality(Claimed) + 1
  <2> DEFINE S == Claimed
             T == Claimed'
             x == <<p, n + 1>>
  <2>1. IsFiniteSet(S) /\ x \notin S /\ T = S \cup {x}
      BY <1>3, <1>4
  <2> HIDE DEF S, T, x
  <2>2. IsFiniteSet(T) /\ Cardinality(T) = Cardinality(S) + 1 /\ Cardinality(S) \in Nat
      BY <2>1, OneMore
  <2> QED BY <2>2 DEF S, T
<1> QED BY <1>5, <1>6 DEF Pushes

\* The claim of a pop is counted once, and is no push.
LEMMA PopClaimCounts ==
    ASSUME TypeOK, NEW c \in Consumers, PopClaim(c), IsFiniteSet(Handed)
    PROVE  /\ IsFiniteSet(Handed') /\ Pops' = Pops + 1 /\ Pops \in Nat
           /\ Claimed' = Claimed
<1> USE DEF TypeOK, Threads, Goto, Claiming, Taking
<1>0. c \notin Producers /\ Len(got[c]) \in Nat
    BY ThreadAssumption
<1>1. /\ \A d \in Consumers \ {c} : Taken(d)' = Taken(d)
      /\ Taken(c) = Len(got[c]) /\ Taken(c)' = Len(got[c]) + 1
      /\ \A p \in Producers : Begun(p)' = Begun(p)
    BY <1>0 DEF PopClaim, Begun, Taken
<1>2. PICK n \in Nat : n = Len(got[c])
    BY <1>0
<1>3. Handed' = Handed \cup {<<c, n + 1>>}
  <2>1. \A d \in Consumers : \A v :
            v \in {<<d, k>> : k \in 1 .. Taken(d)'} <=>
                v \in {<<d, k>> : k \in 1 .. Taken(d)} \/ (d = c /\ v = <<c, n + 1>>)
    <3> TAKE d \in Consumers
    <3>1. CASE d # c
        BY <1>1, <3>1
    <3>2. CASE d = c
      <4>1. 1 .. n + 1 = (1 .. n) \cup {n + 1}
          BY <1>2
      <4> QED BY <1>1, <1>2, <3>2, <4>1
    <3> QED BY <3>1, <3>2
  <2>2. /\ \A v : v \in Handed <=> \E d \in Consumers : v \in {<<d, k>> : k \in 1 .. Taken(d)}
        /\ \A v : v \in Handed' <=> \E d \in Consumers : v \in {<<d, k>> : k \in 1 .. Taken(d)'}
      BY DEF Handed
  <2>3. \A v : v \in Handed' <=> v \in Handed \/ v = <<c, n + 1>>
      BY <2>1, <2>2, ZenonT(40)
  <2> QED BY <2>3
<1>4. <<c, n + 1>> \notin Handed
  <2> SUFFICES ASSUME NEW d \in Consumers, NEW k \in 1 .. Taken(d), <<c, n + 1>> = <<d, k>>
               PROVE  FALSE
      BY DEF Handed
  <2>1. d = c /\ k = n + 1
      OBVIOUS
  <2> QED BY <1>1, <1>2, <2>1
<1>5. Claimed' = Claimed
    BY <1>1 DEF Claimed
<1>6. /\ IsFiniteSet(Handed') /\ Cardinality(Handed) \in Nat
      /\ Cardinality(Handed') = Cardinality(Handed) + 1
  <2> DEFINE S == Handed
             T == Handed'
             x == <<c, n + 1>>
  <2>1. IsFiniteSet(S) /\ x \notin S /\ T = S \cup {x}
      BY <1>3, <1>4
  <2> HIDE DEF S, T, x
  <2>2. IsFiniteSet(T) /\ Cardinality(T) = Cardinality(S) + 1 /\ Cardinality(S) \in Nat
      BY <2>1, OneMore
  <2> QED BY <2>2 DEF S, T
<1> QED BY <1>5, <1>6 DEF Pops

------------------------------------------------------------------------------
(* The window.  b is the ticket the queue started from, h and t the claims *)
(* made so far on head_ and on tail_.                                      *)

\* A try_push that has not claimed yet holds a counter value that was current r
\* claims from the start; if it still is current, the room it found is still there.
PushReady(b, h, t, p) ==
    pc[p] \in {"pushCheck", "pushClaim"} =>
        \E r \in 0 .. h : reg[p] = Pos(b, r) /\ (pc[p] = "pushClaim" /\ r = h => h < t + Size)

\* The same for a try_pop and the element it found.
PopReady(b, h, t, c) ==
    pc[c] \in {"popCheck", "popClaim"} =>
        \E r \in 0 .. t : reg[c] = Pos(b, r) /\ (pc[c] = "popClaim" /\ r = t => t < h)

Within(b, h, t) ==
    /\ head = Pos(b, h) /\ tail = Pos(b, t)
    /\ t <= h /\ h <= t + Size
    /\ \A p \in Producers : PushReady(b, h, t, p)
    /\ \A c \in Consumers : PopReady(b, h, t, c)

\* What the proofs below carry from step to step, until head_ has passed through
\* every ticket and a stalled compare-and-swap can mistake a new lap for the old one.
WindowInv ==
    /\ IsFiniteSet(Claimed) /\ IsFiniteSet(Handed)
    /\ Pushes < Modulus => \E b \in Tickets : Within(b, Pushes, Pops)

\* Within the window head_ - tail_ is exact.
LEMMA WithinWindow ==
    ASSUME NEW b \in Tickets, NEW h \in Nat, NEW t \in Nat, Within(b, h, t)
    PROVE  SignedDiff(head, tail) = h - t /\ TicketWindow
<1>1. t <= h /\ 2 * (h - t) < Modulus
    BY SizeAssumption DEF Within
<1>2. SignedDiff(Pos(b, h), Pos(b, t)) = h - t
    BY <1>1, PosDiff
<1> QED BY <1>2, SizeAssumption DEF Within, TicketWindow

\* The claim of a push: the compare-and-swap succeeds only on a current value.
LEMMA PushClaimWithin ==
    ASSUME TypeOK, NEW b \in Tickets, NEW h \in Nat, NEW t \in Nat, Within(b, h, t), h < Modulus,
           NEW p \in Producers, PushClaim(p)
    PROVE  Within(b, h + 1, t)'
<1> USE DEF TypeOK, Threads, Goto
<1>0. Size \in Nat /\ Modulus \in Nat
    BY SizeAssumption
<1>1. PICK r \in 0 .. h : reg[p] = Pos(b, r) /\ (r = h => h < t + Size)
    BY DEF Within, PushReady, PushClaim
<1>2. r = h
  <2>1. Pos(b, h) = Pos(b, r) /\ r <= h /\ h < r + Modulus /\ r \in Nat
      BY <1>0, <1>1 DEF Within, PushClaim
  <2> QED BY <2>1, PosApart
<1>3. head' = Pos(b, h + 1) /\ tail' = Pos(b, t)
    BY PosNext DEF Within, PushClaim
<1>4. t <= h + 1 /\ h + 1 <= t + Size
    BY <1>0, <1>1, <1>2 DEF Within
<1>5. ASSUME NEW q \in Producers PROVE PushReady(b, h + 1, t, q)'
  <2> SUFFICES ASSUME pc'[q] \in {"pushCheck", "pushClaim"}
               PROVE  \E s \in 0 .. h + 1 : reg'[q] = Pos(b, s)
                         /\ (pc'[q] = "pushClaim" /\ s = h + 1 => h + 1 < t + Size)
      BY DEF PushReady
  <2>1. q # p /\ pc[q] \in {"pushCheck", "pushClaim"} /\ reg'[q] = reg[q]
      BY DEF PushClaim
  <2>2. PICK s \in 0 .. h : reg[q] = Pos(b, s)
      BY <2>1 DEF Within, PushReady
  <2>3. s \in 0 .. h + 1 /\ s # h + 1
      OBVIOUS
  <2> QED BY <2>1, <2>2, <2>3
<1>6. ASSUME NEW c \in Consumers PROVE PopReady(b, h + 1, t, c)'
  <2> SUFFICES ASSUME pc'[c] \in {"popCheck", "popClaim"}
               PROVE  \E s \in 0 .. t : reg'[c] = Pos(b, s)
                         /\ (pc'[c] = "popClaim" /\ s = t => t < h + 1)
      BY DEF PopReady
  <2>1. pc'[c] = pc[c] /\ reg'[c] = reg[c]
      BY ThreadAssumption DEF PushClaim
  <2>2. PICK s \in 0 .. t : reg[c] = Pos(b, s)
      BY <2>1 DEF Within, PopReady
  <2> QED BY <2>1, <2>2 DEF Within
<1> QED BY <1>3, <1>4, <1>5, <1>6 DEF Within

\* The claim of a pop.
LEMMA PopClaimWithin ==
    ASSUME TypeOK, NEW b \in Tickets, NEW h \in Nat, NEW t \in Nat, Within(b, h, t), h < Modulus,
           NEW c \in Consumers, PopClaim(c)
    PROVE  Within(b, h, t + 1)'
<1> USE DEF TypeOK, Threads, Goto
<1>0. Size \in Nat /\ Modulus \in Nat
    BY SizeAssumption
<1>1. PICK r \in 0 .. t : reg[c] = Pos(b, r) /\ (r = t => t < h)
    BY DEF Within, PopReady, PopClaim
<1>2. r = t
  <2>1. Pos(b, t) = Pos(b, r) /\ r <= t /\ t < r + Modulus /\ r \in Nat
      BY <1>0, <1>1 DEF Within, PopClaim
  <2> QED BY <2>1, PosApart
<1>3. head' = Pos(b, h) /\ tail' = Pos(b, t + 1)
    BY PosNext DEF Within, PopClaim
<1>4. t + 1 <= h /\ h <= (t + 1) + Size
    BY <1>0, <1>1, <1>2 DEF Within
<1>5. ASSUME NEW p \in Producers PROVE PushReady(b, h, t + 1, p)'
  <2> SUFFICES ASSUME pc'[p] \in {"pushCheck", "pushClaim"}
               PROVE  \E s \in 0 .. h : reg'[p] = Pos(b, s)
                         /\ (pc'[p] = "pushClaim" /\ s = h => h < (t + 1) + Size)
      BY DEF PushReady
  <2>1. pc'[p] = pc[p] /\ reg'[p] = reg[p]
      BY ThreadAssumption DEF PopClaim
  <2>2. PICK s \in 0 .. h : reg[p] = Pos(b, s)
      BY <2>1 DEF Within, PushReady
  <2> QED BY <1>0, <2>1, <2>2 DEF Within
<1>6. ASSUME NEW d \in Consumers PROVE PopReady(b, h, t + 1, d)'
  <2> SUFFICES ASSUME pc'[d] \in {"popCheck", "popClaim"}
               PROVE  \E s \in 0 .. t + 1 : reg'[d] = Pos(b, s)
                         /\ (pc'[d] = "popClaim" /\ s = t + 1 => t + 1 < h)
      BY DEF PopReady
  <2>1. d # c /\ pc[d] \in {"popCheck", "popClaim"} /\ reg'[d] = reg[d]
      BY DEF PopClaim
  <2>2. PICK s \in 0 .. t : reg[d] = Pos(b, s)
      BY <2>1 DEF Within, PopReady
  <2>3. s \in 0 .. t + 1 /\ s # t + 1
      OBVIOUS
  <2> QED BY <2>1, <2>2, <2>3
<1> QED BY <1>3, <1>4, <1>5, <1>6 DEF Within

\* Every other step: a read takes the current value, and a test that finds room (an
\* element) on a value that is still current finds it truly.
LEMMA OtherWithin ==
    ASSUME TypeOK, [Next]_vars, NEW b \in Tickets, NEW h \in Nat, NEW t \in Nat, Within(b, h, t),
           ~\E p \in Producers : PushClaim(p), ~\E c \in Consumers : PopClaim(c)
    PROVE  Within(b, h, t)'
<1> USE DEF TypeOK, Threads, Goto
<1>0. Size \in Nat /\ Modulus \in Nat /\ 2 * Size < Modulus
    BY SizeAssumption
<1>1. UNCHANGED <<head, tail>>
    BY CountsKept
<1>2. ASSUME NEW p \in Producers PROVE PushReady(b, h, t, p)'
  <2>1. CASE pc'[p] = pc[p] /\ reg'[p] = reg[p]
      BY <2>1 DEF Within, PushReady
  <2>2. CASE PushBegin(p) \/ PushRetry(p)
    <3>1. reg'[p] = Pos(b, h) /\ pc'[p] = "pushCheck"
        BY <2>2 DEF PushBegin, PushRetry, Within
    <3>2. h \in 0 .. h
        OBVIOUS
    <3> QED BY <3>1, <3>2 DEF PushReady
  <2>3. CASE PushRoom(p)
    <3>1. PICK r \in 0 .. h : reg[p] = Pos(b, r)
        BY <2>3 DEF PushRoom, Within, PushReady
    <3>2. ASSUME r = h PROVE h < t + Size
      <4>1. SignedDiff(Pos(b, h), Pos(b, t)) = h - t
          BY <1>0, PosDiff DEF Within
      <4>2. SignedDiff(Pos(b, h), Pos(b, t)) < Size
          BY <2>3, <3>1, <3>2 DEF PushRoom, Room, Within
      <4> QED BY <1>0, <4>1, <4>2
    <3>3. reg'[p] = reg[p]
        BY <2>3 DEF PushRoom
    <3> QED BY <3>1, <3>2, <3>3 DEF PushReady
  <2>4. CASE pc'[p] \notin {"pushCheck", "pushClaim"}
      BY <2>4 DEF PushReady
  <2>5. CASE Push(p)
    <3>1. CASE PushRefuse(p) \/ PushSlot(p) \/ PushWrite(p) \/ PushPublish(p)
      <4>1. pc'[p] \notin {"pushCheck", "pushClaim"}
          BY <3>1 DEF PushRefuse, PushSlot, PushWrite, PushPublish
      <4> QED BY <2>4, <4>1
    <3> QED BY <2>2, <2>3, <2>5, <3>1 DEF Push
  <2>6. CASE \E q \in Producers \ {p} : Push(q)
    <3>1. pc'[p] = pc[p] /\ reg'[p] = reg[p]
        BY <2>6 DEF Push, PushBegin, PushRefuse, PushRoom, PushClaim, PushRetry, PushSlot,
              PushWrite, PushPublish
    <3> QED BY <2>1, <3>1
  <2>7. CASE \E c \in Consumers : Pop(c)
    <3>1. pc'[p] = pc[p] /\ reg'[p] = reg[p]
        BY <2>7, ThreadAssumption DEF Pop, PopBegin, PopRefuse, PopSome, PopClaim, PopRetry,
              PopSlot, PopRead, PopRelease
    <3> QED BY <2>1, <3>1
  <2>8. CASE UNCHANGED vars
      BY <2>1, <2>8 DEF vars
  <2> QED BY <2>5, <2>6, <2>7, <2>8 DEF Next
<1>3. ASSUME NEW c \in Consumers PROVE PopReady(b, h, t, c)'
  <2>1. CASE pc'[c] = pc[c] /\ reg'[c] = reg[c]
      BY <2>1 DEF Within, PopReady
  <2>2. CASE PopBegin(c) \/ PopRetry(c)
    <3>1. reg'[c] = Pos(b, t) /\ pc'[c] = "popCheck"
        BY <2>2 DEF PopBegin, PopRetry, Within
    <3>2. t \in 0 .. t
        OBVIOUS
    <3> QED BY <3>1, <3>2 DEF PopReady
  <2>3. CASE PopSome(c)
    <3>1. PICK r \in 0 .. t : reg[c] = Pos(b, r)
        BY <2>3 DEF PopSome, Within, PopReady
    <3>2. ASSUME r = t PROVE t < h
      <4>1. SignedDiff(Pos(b, h), Pos(b, t)) = h - t
          BY <1>0, PosDiff DEF Within
      <4>2. SignedDiff(Pos(b, h), Pos(b, t)) > 0
          BY <2>3, <3>1, <3>2 DEF PopSome, Within
      <4> QED BY <1>0, <4>1, <4>2
    <3>3. reg'[c] = reg[c]
        BY <2>3 DEF PopSome
    <3> QED BY <3>1, <3>2, <3>3 DEF PopReady
  <2>4. CASE pc'[c] \notin {"popCheck", "popClaim"}
      BY <2>4 DEF PopReady
  <2>5. CASE Pop(c)
    <3>1. CASE PopRefuse(c) \/ PopSlot(c) \/ PopRead(c) \/ PopRelease(c)
      <4>1. pc'[c] \notin {"popCheck", "popClaim"}
          BY <3>1 DEF PopRefuse, PopSlot, PopRead, PopRelease
      <4> QED BY <2>4, <4>1
    <3> QED BY <2>2, <2>3, <2>5, <3>1 DEF Pop
  <2>6. CASE \E d \in Consumers \ {c} : Pop(d)
    <3>1. pc'[c] = pc[c] /\ reg'[c] = reg[c]
        BY <2>6 DEF Pop, PopBegin, PopRefuse, PopSome, PopClaim, PopRetry, PopSlot, PopRead,
              PopRelease
    <3> QED BY <2>1, <3>1
  <2>7. CASE \E p \in Producers : Push(p)
    <3>1. pc'[c] = pc[c] /\ reg'[c] = reg[c]
        BY <2>7, ThreadAssumption DEF Push, PushBegin, PushRefuse, PushRoom, PushClaim, PushRetry,
              PushSlot, PushWrite, PushPublish
    <3> QED BY <2>1, <3>1
  <2>8. CASE UNCHANGED vars
      BY <2>1, <2>8 DEF vars
  <2> QED BY <2>5, <2>6, <2>7, <2>8 DEF Next
<1> QED BY <1>1, <1>2, <1>3 DEF Within

\* A queue that has just been made has seen no claim.
LEMMA WindowInit == Init => WindowInv
<1> SUFFICES ASSUME Init PROVE WindowInv
    OBVIOUS
<1>1. Claimed = {} /\ Handed = {}
  <2>1. \A p \in Producers : Begun(p) = 0
      BY DEF Init, Begun, Claiming, Threads
  <2>2. \A c \in Consumers : Taken(c) = 0
      BY DEF Init, Taken, Taking, Threads
  <2>3. 1 .. 0 = {}
      OBVIOUS
  <2> QED BY <2>1, <2>2, <2>3 DEF Claimed, Handed
<1>2. IsFiniteSet(Claimed) /\ IsFiniteSet(Handed) /\ Pushes = 0 /\ Pops = 0
    BY <1>1, FS_EmptySet DEF Pushes, Pops
<1>3. head \in Tickets /\ tail = head /\ head = Pos(head, 0)
    BY PosStart, ThreadAssumption DEF Init, Tickets
<1>4. Within(head, 0, 0)
  <2>1. \A p \in Producers : PushReady(head, 0, 0, p)
      BY DEF Init, PushReady, Threads
  <2>2. \A c \in Consumers : PopReady(head, 0, 0, c)
      BY DEF Init, PopReady, Threads
  <2> QED BY <1>3, <2>1, <2>2, SizeAssumption DEF Within
<1> QED BY <1>2, <1>3, <1>4 DEF WindowInv

\* WindowInv is inductive.
LEMMA WindowStep ==
    ASSUME TypeOK, WindowInv, [Next]_vars
    PROVE  WindowInv'
<1>0. /\ IsFiniteSet(Claimed) /\ IsFiniteSet(Handed) /\ Pushes \in Nat /\ Pops \in Nat
      /\ Modulus \in Nat
    BY FS_CardinalityType, SizeAssumption DEF WindowInv, Pushes, Pops
<1>h. PICK h \in Nat, t \in Nat : h = Pushes /\ t = Pops
    BY <1>0
<1>1. ASSUME NEW p \in Producers, PushClaim(p) PROVE WindowInv'
  <2>1. IsFiniteSet(Claimed') /\ Pushes' = h + 1 /\ Handed' = Handed
      BY <1>0, <1>1, <1>h, PushClaimCounts
  <2>2. IsFiniteSet(Handed') /\ Pops' = t
      BY <1>0, <1>h, <2>1 DEF Pops
  <2>3. ASSUME h + 1 < Modulus PROVE \E b \in Tickets : Within(b, h + 1, t)'
    <3>1. PICK b \in Tickets : Within(b, h, t)
        BY <1>0, <1>h, <2>3 DEF WindowInv
    <3> QED BY <1>0, <1>1, <2>3, <3>1, PushClaimWithin
  <2>4. Pushes' < Modulus => \E b \in Tickets : Within(b, Pushes, Pops)'
      BY <2>1, <2>2, <2>3 DEF Within, PushReady, PopReady
  <2> QED BY <2>1, <2>2, <2>4 DEF WindowInv
<1>2. ASSUME NEW c \in Consumers, PopClaim(c) PROVE WindowInv'
  <2>1. IsFiniteSet(Handed') /\ Pops' = t + 1 /\ Claimed' = Claimed
      BY <1>0, <1>2, <1>h, PopClaimCounts
  <2>2. IsFiniteSet(Claimed') /\ Pushes' = h
      BY <1>0, <1>h, <2>1 DEF Pushes
  <2>3. ASSUME h < Modulus PROVE \E b \in Tickets : Within(b, h, t + 1)'
    <3>1. PICK b \in Tickets : Within(b, h, t)
        BY <1>0, <1>h, <2>3 DEF WindowInv
    <3> QED BY <1>0, <1>2, <2>3, <3>1, PopClaimWithin
  <2>4. Pushes' < Modulus => \E b \in Tickets : Within(b, Pushes, Pops)'
      BY <2>1, <2>2, <2>3 DEF Within, PushReady, PopReady
  <2> QED BY <2>1, <2>2, <2>4 DEF WindowInv
<1>3. CASE (~\E p \in Producers : PushClaim(p)) /\ ~\E c \in Consumers : PopClaim(c)
  <2>1. /\ \A p \in Producers : Begun(p)' = Begun(p)
        /\ \A c \in Consumers : Taken(c)' = Taken(c)
      BY <1>3, CountsKept
  <2>2. Claimed' = Claimed /\ Handed' = Handed
      BY <2>1 DEF Claimed, Handed
  <2>3. Pushes' = h /\ Pops' = t /\ IsFiniteSet(Claimed') /\ IsFiniteSet(Handed')
      BY <1>0, <1>h, <2>2 DEF Pushes, Pops
  <2>4. ASSUME h < Modulus PROVE \E b \in Tickets : Within(b, h, t)'
    <3>1. PICK b \in Tickets : Within(b, h, t)
        BY <1>0, <1>h, <2>4 DEF WindowInv
    <3> QED BY <1>3, <3>1, OtherWithin
  <2>5. Pushes' < Modulus => \E b \in Tickets : Within(b, Pushes, Pops)'
      BY <2>3, <2>4 DEF Within, PushReady, PopReady
  <2> QED BY <2>3, <2>5 DEF WindowInv
<1> QED BY <1>1, <1>2, <1>3

\* WindowInv holds in every reachable state of the queue.
THEOREM WindowInvariant == Spec => []WindowInv
<1>1. TypeOK /\ WindowInv /\ [Next]_vars => WindowInv'
    BY WindowStep
<1> QED BY <1>1, WindowInit, TypeCorrect, PTL DEF Spec

\* The claimed tickets never outrun the ring, and no pop claims a ticket no push
\* has claimed, while fewer tickets have been claimed than the counter has values.
THEOREM WindowUntilLap == Spec => [](Pushes < Modulus => TicketWindow)
<1>1. ASSUME WindowInv, Pushes < Modulus PROVE TicketWindow
  <2>1. Pushes \in Nat /\ Pops \in Nat
      BY <1>1, FS_CardinalityType DEF WindowInv, Pushes, Pops
  <2>2. PICK h \in Nat, t \in Nat : h = Pushes /\ t = Pops
      BY <2>1
  <2>3. PICK b \in Tickets : Within(b, h, t)
      BY <1>1, <2>2 DEF WindowInv
  <2> QED BY <2>3, WithinWindow
<1>2. WindowInv => (Pushes < Modulus => TicketWindow)
    BY <1>1
<1> QED BY <1>2, WindowInvariant, PTL

\* A refusal while fewer than half the counter's values have been claimed is honest.
LEMMA HonestStep ==
    ASSUME TypeOK, WindowInv, 2 * Pushes < Modulus, [Next]_vars
    PROVE  /\ \A p \in Producers :
                 pc[p] = "pushCheck" /\ pc'[p] = "idle" => SignedDiff(head, tail) = Size
           /\ \A c \in Consumers :
                 pc[c] = "popCheck" /\ pc'[c] = "idle" => head = tail
<1> USE DEF TypeOK, Threads, Goto
<1>0. Pushes \in Nat /\ Pops \in Nat /\ Modulus \in Nat /\ Size \in Nat
    BY FS_CardinalityType, SizeAssumption DEF WindowInv, Pushes, Pops
<1>1. PICK h \in Nat, t \in Nat : h = Pushes /\ t = Pops
    BY <1>0
<1>2. 2 * h < Modulus /\ h < Modulus
    BY <1>0, <1>1
<1>3. PICK b \in Tickets : Within(b, h, t)
    BY <1>1, <1>2 DEF WindowInv
<1>4. t <= h /\ h <= t + Size /\ head = Pos(b, h) /\ tail = Pos(b, t)
    BY <1>3 DEF Within
<1>5. ASSUME NEW p \in Producers, pc[p] = "pushCheck", pc'[p] = "idle"
      PROVE  SignedDiff(head, tail) = Size
  <2>1. PushRefuse(p)
    <3>1. CASE \E q \in Producers : Push(q)
      <4>1. Push(p)
          BY <1>5, <3>1 DEF Push, PushBegin, PushRefuse, PushRoom, PushClaim, PushRetry, PushSlot,
                PushWrite, PushPublish
      <4> QED BY <1>5, <4>1 DEF Push, PushBegin, PushRoom, PushClaim, PushRetry, PushSlot,
                PushWrite, PushPublish
    <3>2. CASE \E c \in Consumers : Pop(c)
        BY <1>5, <3>2, ThreadAssumption DEF Pop, PopBegin, PopRefuse, PopSome, PopClaim, PopRetry,
              PopSlot, PopRead, PopRelease
    <3>3. CASE UNCHANGED vars
        BY <1>5, <3>3 DEF vars
    <3> QED BY <3>1, <3>2, <3>3 DEF Next
  <2>2. PICK r \in 0 .. h : reg[p] = Pos(b, r)
      BY <1>3, <1>5 DEF Within, PushReady
  <2>3. r \in Nat /\ SignedDiff(Pos(b, r), Pos(b, t)) = r - t
    <3>1. CASE t <= r
      <4>1. 2 * (r - t) < Modulus /\ r \in Nat
          BY <1>0, <1>2
      <4> QED BY <3>1, <4>1, PosDiff
    <3>2. CASE r < t
      <4>1. 2 * (t - r) < Modulus /\ r \in Nat /\ r <= t
          BY <1>0, <1>2, <1>4, <3>2
      <4> QED BY <4>1, PosDiff
    <3> QED BY <3>1, <3>2
  <2>4. ~(r - t < Size)
      BY <1>4, <2>1, <2>2, <2>3 DEF PushRefuse, Room
  <2>5. h - t = Size
      BY <1>0, <1>4, <2>4
  <2> QED BY <1>3, <2>5, WithinWindow
<1>6. ASSUME NEW c \in Consumers, pc[c] = "popCheck", pc'[c] = "idle"
      PROVE  head = tail
  <2>1. PopRefuse(c)
    <3>1. CASE \E d \in Consumers : Pop(d)
      <4>1. Pop(c)
          BY <1>6, <3>1 DEF Pop, PopBegin, PopRefuse, PopSome, PopClaim, PopRetry, PopSlot,
                PopRead, PopRelease
      <4> QED BY <1>6, <4>1 DEF Pop, PopBegin, PopSome, PopClaim, PopRetry, PopSlot, PopRead,
                PopRelease
    <3>2. CASE \E p \in Producers : Push(p)
        BY <1>6, <3>2, ThreadAssumption DEF Push, PushBegin, PushRefuse, PushRoom, PushClaim,
              PushRetry, PushSlot, PushWrite, PushPublish
    <3>3. CASE UNCHANGED vars
        BY <1>6, <3>3 DEF vars
    <3> QED BY <3>1, <3>2, <3>3 DEF Next
  <2>2. PICK r \in 0 .. t : reg[c] = Pos(b, r)
      BY <1>3, <1>6 DEF Within, PopReady
  <2>3. r \in Nat /\ r <= h /\ 2 * (h - r) < Modulus
      BY <1>0, <1>2, <1>4
  <2>4. SignedDiff(Pos(b, h), Pos(b, r)) = h - r
      BY <2>3, PosDiff
  <2>5. h - r <= 0
      BY <1>4, <2>1, <2>2, <2>4 DEF PopRefuse
  <2>6. h = t
      BY <1>4, <2>5
  <2> QED BY <1>4, <2>6
<1> QED BY <1>5, <1>6

\* try_push answers false only while the ring is full and try_pop only while it is
\* empty, in every execution that claims fewer than half the counter's values.
THEOREM HonestUntilHalfLap == Spec /\ [](2 * Pushes < Modulus) => RefusalsAreHonest
<1>1. TypeOK /\ WindowInv /\ 2 * Pushes < Modulus /\ [Next]_vars =>
        [/\ \A p \in Producers :
               pc[p] = "pushCheck" /\ pc'[p] = "idle" => SignedDiff(head, tail) = Size
         /\ \A c \in Consumers :
               pc[c] = "popCheck" /\ pc'[c] = "idle" => head = tail]_vars
    BY HonestStep
<1> QED BY <1>1, TypeCorrect, WindowInvariant, PTL DEF Spec, RefusalsAreHonest

\* Every claim is for a message a producer has to send.
LEMMA ClaimsAreItems ==
    ASSUME TypeOK, IsFiniteSet(Producers)
    PROVE  Pushes <= Cardinality(Producers) * MaxPush /\ Pushes \in Nat
<1>1. Claimed \subseteq Items
  <2> SUFFICES ASSUME NEW p \in Producers, NEW k \in 1 .. Begun(p) PROVE <<p, k>> \in Items
      BY DEF Claimed
  <2>1. /\ sent[p] \in 0 .. MaxPush /\ (pc[p] # "idle" => sent[p] < MaxPush) /\ MaxPush \in Nat
      BY ThreadAssumption DEF TypeOK
  <2>2. Begun(p) \in 0 .. MaxPush
      BY <2>1 DEF Begun, Claiming
  <2>3. k \in 1 .. MaxPush
      BY <2>1, <2>2
  <2> QED BY <2>3 DEF Items
<1>2. IsFiniteSet(1 .. MaxPush) /\ Cardinality(1 .. MaxPush) = MaxPush
  <2>1. MaxPush \in Nat
      BY ThreadAssumption
  <2>2. 1 \in Int /\ MaxPush \in Int
      BY <2>1
  <2>3. /\ IsFiniteSet(1 .. MaxPush)
        /\ Cardinality(1 .. MaxPush) = IF 1 > MaxPush THEN 0 ELSE MaxPush - 1 + 1
      BY <2>2, FS_Interval
  <2> QED BY <2>1, <2>3
<1>3. IsFiniteSet(Items) /\ Cardinality(Items) = Cardinality(Producers) * MaxPush
    BY <1>2, FS_Product DEF Items
<1>4. IsFiniteSet(Claimed) /\ Cardinality(Claimed) <= Cardinality(Items)
    BY <1>1, <1>3, FS_Subset
<1>5. Cardinality(Claimed) \in Nat
    BY <1>4, FS_CardinalityType
<1> QED BY <1>3, <1>4, <1>5 DEF Pushes

\* The same for a bounded load: with fewer messages than tickets the window holds...
THEOREM TicketsStayInWindow ==
    ASSUME IsFiniteSet(Producers), Cardinality(Producers) * MaxPush < Modulus
    PROVE  Spec => []TicketWindow
<1>1. TypeOK => Pushes < Modulus
  <2> SUFFICES ASSUME TypeOK PROVE Pushes < Modulus
      OBVIOUS
  <2>1. PICK n \in Nat : n = Cardinality(Producers) * MaxPush
      BY FS_CardinalityType, ThreadAssumption
  <2>2. Modulus \in Nat /\ n < Modulus
      BY <2>1, SizeAssumption
  <2>3. Pushes <= n /\ Pushes \in Nat
      BY <2>1, ClaimsAreItems
  <2> QED BY <2>2, <2>3
<1> QED BY <1>1, TypeCorrect, WindowUntilLap, PTL

\* ... and with fewer than half as many every refusal is honest.
THEOREM RefusalsStayHonest ==
    ASSUME IsFiniteSet(Producers), 2 * (Cardinality(Producers) * MaxPush) < Modulus
    PROVE  Spec => RefusalsAreHonest
<1>1. TypeOK => 2 * Pushes < Modulus
  <2> SUFFICES ASSUME TypeOK PROVE 2 * Pushes < Modulus
      OBVIOUS
  <2>1. PICK n \in Nat : n = Cardinality(Producers) * MaxPush
      BY FS_CardinalityType, ThreadAssumption
  <2>2. Modulus \in Nat /\ 2 * n < Modulus
      BY <2>1, SizeAssumption
  <2>3. Pushes <= n /\ Pushes \in Nat
      BY <2>1, ClaimsAreItems
  <2> QED BY <2>2, <2>3
<1> QED BY <1>1, TypeCorrect, HonestUntilHalfLap, PTL

------------------------------------------------------------------------------
(* One producer and one consumer.  The slots hold the messages the consumer *)
(* has not read yet, one slot each, in the order of their tickets.  This    *)
(* needs no bound on the number of claims.                                  *)

\* p is the only producer that has pushed or is in a slot, and c the only consumer
Alone(p, c) ==
    /\ \A q \in Producers \ {p} : sent[q] = 0 /\ pc[q] \in {"idle", "pushCheck", "pushClaim"}
    /\ \A d \in Consumers \ {c} : got[d] = <<>> /\ pc[d] \in {"idle", "popCheck", "popClaim"}

\* pops of c whose slot is EMPTY again; pushes of p that have taken their slot
Released(c) == IF pc[c] = "popRelease" THEN Len(got[c]) - 1 ELSE Len(got[c])
Entered(p) == IF pc[p] \in {"pushWrite", "pushPublish"} THEN sent[p] + 1 ELSE sent[p]

\* where p and c stand, counted from ticket b
Standing(b, p, c) ==
    /\ head = Pos(b, Begun(p)) /\ tail = Pos(b, Taken(c))
    /\ pc[p] \in Claiming => reg[p] = Pos(b, sent[p])
    /\ pc[c] \in Taking => reg[c] = Pos(b, Len(got[c]))
    /\ pc[c] = "popRelease" => Len(got[c]) > 0 /\ reg[c] = Pos(b, Len(got[c]) - 1)
    /\ Len(got[c]) <= sent[p]
    /\ pc[c] = "popRead" => Len(got[c]) < sent[p]
    /\ Entered(p) <= Released(c) + Size

\* what the slots between them hold
Between(b, p, c) ==
    /\ \A k \in Len(got[c]) .. sent[p] - 1 :
          /\ elements[Slot(b, k)] = <<p, k + 1>>
          /\ states[Slot(b, k)] \in {"STORED", "LOADING"}
    /\ \A i \in Slots : states[i] = "STORED" =>
          \E k \in Len(got[c]) .. sent[p] - 1 : i = Slot(b, k)

InOrder(p, c) == \A n \in DOMAIN got[c] : got[c][n] = <<p, n>>

Line(b, p, c) == Standing(b, p, c) /\ Between(b, p, c) /\ InOrder(p, c)

\* a try_pop that is about to release its slot has read from it
HasRead == \A c \in Consumers : pc[c] = "popRelease" => got[c] # <<>>

OrderInv ==
    /\ HasRead
    /\ \E b \in Tickets : \A p \in Producers, c \in Consumers : Alone(p, c) => Line(b, p, c)

\* Whoever is alone after a step was alone before it.
LEMMA AloneBefore ==
    ASSUME TypeOK, HasRead, [Next]_vars, NEW p \in Producers, NEW c \in Consumers, Alone(p, c)'
    PROVE  Alone(p, c)
<1> USE DEF TypeOK, Threads, Goto
<1>1. CASE UNCHANGED vars
    BY <1>1 DEF vars, Alone
<1>2. ASSUME NEW q \in Producers, Push(q) PROVE Alone(p, c)
  <2>0. q \notin Consumers /\ sent[q] \in Nat
      BY ThreadAssumption
  <2>1. CASE PushPublish(q)
      BY <2>0, <2>1 DEF PushPublish, Alone
  <2>2. CASE PushBegin(q) \/ PushRefuse(q) \/ PushRoom(q) \/ PushRetry(q)
      BY <2>0, <2>2 DEF PushBegin, PushRefuse, PushRoom, PushRetry, Alone
  <2>3. CASE PushClaim(q) \/ PushSlot(q) \/ PushWrite(q)
      BY <2>0, <2>3 DEF PushClaim, PushSlot, PushWrite, Alone
  <2> QED BY <1>2, <2>1, <2>2, <2>3 DEF Push
<1>3. ASSUME NEW d \in Consumers, Pop(d) PROVE Alone(p, c)
  <2>0. d \notin Producers /\ got[d] \in Seq(Items \cup {NoItem})
      BY ThreadAssumption
  <2>1. CASE PopRelease(d)
    <3>1. CASE d = c
        BY <2>0, <2>1, <3>1 DEF PopRelease, Alone
    <3>2. CASE d # c
        BY <2>0, <2>1, <3>2 DEF PopRelease, Alone, HasRead
    <3> QED BY <3>1, <3>2
  <2>2. CASE PopBegin(d) \/ PopRefuse(d) \/ PopSome(d) \/ PopRetry(d)
      BY <2>0, <2>2 DEF PopBegin, PopRefuse, PopSome, PopRetry, Alone
  <2>3. CASE PopClaim(d) \/ PopSlot(d) \/ PopRead(d)
      BY <2>0, <2>3 DEF PopClaim, PopSlot, PopRead, Alone
  <2> QED BY <1>3, <2>1, <2>2, <2>3 DEF Pop
<1> QED BY <1>1, <1>2, <1>3 DEF Next

\* A slot is read before it is released.
LEMMA HasReadStep ==
    ASSUME TypeOK, HasRead, [Next]_vars
    PROVE  HasRead'
<1> USE DEF TypeOK, Threads, Goto, HasRead
<1>1. CASE UNCHANGED vars
    BY <1>1 DEF vars
<1>2. ASSUME NEW p \in Producers, Push(p) PROVE HasRead'
    BY <1>2, ThreadAssumption DEF Push, PushBegin, PushRefuse, PushRoom, PushClaim, PushRetry,
          PushSlot, PushWrite, PushPublish
<1>3. ASSUME NEW c \in Consumers, Pop(c) PROVE HasRead'
  <2>1. CASE PopRead(c)
    <3>1. got[c] \in Seq(Items \cup {NoItem}) /\ elements[MySlot(c)] \in Items \cup {NoItem}
        BY SlotRange
    <3>2. got'[c] # <<>>
      <4>1. got'[c] = Append(got[c], elements[MySlot(c)])
          BY <2>1 DEF PopRead
      <4>2. Len(got'[c]) = Len(got[c]) + 1 /\ Len(got[c]) \in Nat
          BY <3>1, <4>1
      <4>3. Len(<<>>) = 0
          OBVIOUS
      <4> QED BY <4>2, <4>3
    <3>3. \A d \in Consumers \ {c} : got'[d] = got[d] /\ pc'[d] = pc[d]
        BY <2>1 DEF PopRead
    <3> QED BY <3>2, <3>3
  <2>2. CASE ~PopRead(c)
      BY <1>3, <2>2 DEF Pop, PopBegin, PopRefuse, PopSome, PopClaim, PopRetry, PopSlot, PopRelease
  <2> QED BY <2>1, <2>2
<1> QED BY <1>1, <1>2, <1>3 DEF Next

\* A step that leaves the slots, the counters and both threads as they are.
LEMMA LineKept ==
    ASSUME NEW b, NEW p, NEW c, Line(b, p, c),
           UNCHANGED <<head, tail, states, elements, sent, got>>,
           pc'[p] = pc[p], pc'[c] = pc[c], reg'[p] = reg[p], reg'[c] = reg[c]
    PROVE  Line(b, p, c)'
<1>1. Begun(p)' = Begun(p) /\ Taken(c)' = Taken(c)
    BY DEF Begun, Taken
<1>2. Released(c)' = Released(c) /\ Entered(p)' = Entered(p)
    BY DEF Released, Entered
<1>3. Standing(b, p, c)'
    BY <1>1, <1>2 DEF Line, Standing
<1>4. Between(b, p, c)' /\ InOrder(p, c)'
    BY DEF Line, Between, InOrder
<1> QED BY <1>3, <1>4 DEF Line

\* Nobody but p and c moves the counters or a slot.
LEMMA OthersLine ==
    ASSUME TypeOK, NEW b, NEW p \in Producers, NEW c \in Consumers, Alone(p, c), Alone(p, c)',
           Line(b, p, c),
           \/ \E q \in Producers \ {p} : Push(q)
           \/ \E d \in Consumers \ {c} : Pop(d)
           \/ UNCHANGED vars
    PROVE  Line(b, p, c)'
<1> USE DEF TypeOK, Threads, Goto
<1>1. ASSUME NEW q \in Producers \ {p}, Push(q) PROVE Line(b, p, c)'
  <2>1. PushBegin(q) \/ PushRefuse(q) \/ PushRoom(q) \/ PushRetry(q)
      BY <1>1 DEF Push, PushClaim, PushSlot, PushWrite, PushPublish, Alone
  <2>2. /\ UNCHANGED <<head, tail, states, elements, sent, got>>
        /\ pc'[p] = pc[p] /\ pc'[c] = pc[c] /\ reg'[p] = reg[p] /\ reg'[c] = reg[c]
      BY <2>1, ThreadAssumption DEF PushBegin, PushRefuse, PushRoom, PushRetry
  <2> QED BY <2>2, LineKept
<1>2. ASSUME NEW d \in Consumers \ {c}, Pop(d) PROVE Line(b, p, c)'
  <2>1. PopBegin(d) \/ PopRefuse(d) \/ PopSome(d) \/ PopRetry(d)
      BY <1>2 DEF Pop, PopClaim, PopSlot, PopRead, PopRelease, Alone
  <2>2. /\ UNCHANGED <<head, tail, states, elements, sent, got>>
        /\ pc'[p] = pc[p] /\ pc'[c] = pc[c] /\ reg'[p] = reg[p] /\ reg'[c] = reg[c]
      BY <2>1, ThreadAssumption DEF PopBegin, PopRefuse, PopSome, PopRetry
  <2> QED BY <2>2, LineKept
<1>3. CASE UNCHANGED vars
    BY <1>3, LineKept DEF vars
<1> QED BY <1>1, <1>2, <1>3

\* Steps of p before it is in its slot.
LEMMA PushOutsideLine ==
    ASSUME TypeOK, NEW b \in Tickets, NEW p \in Producers, NEW c \in Consumers, Line(b, p, c),
           PushBegin(p) \/ PushRefuse(p) \/ PushRoom(p) \/ PushRetry(p) \/ PushClaim(p)
    PROVE  Line(b, p, c)'
<1> USE DEF TypeOK, Threads, Goto
<1>0. /\ p \notin Consumers /\ c \notin Producers /\ p # c /\ sent[p] \in Nat
      /\ Len(got[c]) \in Nat /\ Size \in Nat
    BY ThreadAssumption, SizeAssumption
<1>1. /\ UNCHANGED <<tail, states, elements, sent, got>>
      /\ pc'[c] = pc[c] /\ reg'[c] = reg[c]
    BY <1>0 DEF PushBegin, PushRefuse, PushRoom, PushRetry, PushClaim
<1>2. Between(b, p, c)' /\ InOrder(p, c)'
    BY <1>1 DEF Line, Between, InOrder
<1>3. Taken(c)' = Taken(c) /\ Released(c)' = Released(c)
    BY <1>1 DEF Taken, Released
<1>4. Entered(p)' = Entered(p)
    BY <1>1 DEF Entered, PushBegin, PushRefuse, PushRoom, PushRetry, PushClaim
<1>5. head' = Pos(b, Begun(p)') /\ (pc'[p] \in Claiming => reg'[p] = Pos(b, sent[p]))
  <2>1. CASE PushClaim(p)
    <3>1. Begun(p) = sent[p] /\ Begun(p)' = sent[p] + 1
        BY <1>0, <2>1 DEF Begun, Claiming, PushClaim
    <3>2. head = Pos(b, sent[p]) /\ reg'[p] = head /\ head' = Inc(head)
        BY <2>1, <3>1 DEF PushClaim, Line, Standing
    <3> QED BY <1>0, <3>1, <3>2, PosNext
  <2>2. CASE PushBegin(p) \/ PushRefuse(p) \/ PushRoom(p) \/ PushRetry(p)
    <3>1. Begun(p)' = Begun(p) /\ head' = head /\ pc'[p] \notin Claiming
        BY <2>2 DEF Begun, Claiming, PushBegin, PushRefuse, PushRoom, PushRetry
    <3> QED BY <3>1 DEF Line, Standing
  <2> QED BY <2>1, <2>2
<1>6. Standing(b, p, c)'
    BY <1>1, <1>3, <1>4, <1>5 DEF Line, Standing
<1> QED BY <1>2, <1>6 DEF Line

\* Steps of c before it is in its slot.
LEMMA PopOutsideLine ==
    ASSUME TypeOK, NEW b \in Tickets, NEW p \in Producers, NEW c \in Consumers, Line(b, p, c),
           PopBegin(c) \/ PopRefuse(c) \/ PopSome(c) \/ PopRetry(c) \/ PopClaim(c)
    PROVE  Line(b, p, c)'
<1> USE DEF TypeOK, Threads, Goto
<1>0. /\ p \notin Consumers /\ c \notin Producers /\ p # c /\ sent[p] \in Nat
      /\ Len(got[c]) \in Nat /\ Size \in Nat
    BY ThreadAssumption, SizeAssumption
<1>1. /\ UNCHANGED <<head, states, elements, sent, got>>
      /\ pc'[p] = pc[p] /\ reg'[p] = reg[p]
    BY <1>0 DEF PopBegin, PopRefuse, PopSome, PopRetry, PopClaim
<1>2. Between(b, p, c)' /\ InOrder(p, c)'
    BY <1>1 DEF Line, Between, InOrder
<1>3. Begun(p)' = Begun(p) /\ Entered(p)' = Entered(p)
    BY <1>1 DEF Begun, Entered
<1>4. Released(c)' = Released(c) /\ pc'[c] \notin {"popRead", "popRelease"}
    BY <1>1 DEF Released, PopBegin, PopRefuse, PopSome, PopRetry, PopClaim
<1>5. tail' = Pos(b, Taken(c)') /\ (pc'[c] \in Taking => reg'[c] = Pos(b, Len(got[c])))
  <2>1. CASE PopClaim(c)
    <3>1. Taken(c) = Len(got[c]) /\ Taken(c)' = Len(got[c]) + 1
        BY <1>0, <2>1 DEF Taken, Taking, PopClaim
    <3>2. tail = Pos(b, Len(got[c])) /\ reg'[c] = tail /\ tail' = Inc(tail)
        BY <2>1, <3>1 DEF PopClaim, Line, Standing
    <3> QED BY <1>0, <3>1, <3>2, PosNext
  <2>2. CASE PopBegin(c) \/ PopRefuse(c) \/ PopSome(c) \/ PopRetry(c)
    <3>1. Taken(c)' = Taken(c) /\ tail' = tail /\ pc'[c] \notin Taking
        BY <2>2 DEF Taken, Taking, PopBegin, PopRefuse, PopSome, PopRetry
    <3> QED BY <3>1 DEF Line, Standing
  <2> QED BY <2>1, <2>2
<1>6. Standing(b, p, c)'
    BY <1>1, <1>3, <1>4, <1>5 DEF Line, Standing
<1> QED BY <1>2, <1>6 DEF Line

\* The CAS EMPTY -> STORING: the slot a lap ahead is free only when c is done with it.
LEMMA PushSlotLine ==
    ASSUME Inv, NEW b \in Tickets, NEW p \in Producers, NEW c \in Consumers, Line(b, p, c),
           PushSlot(p)
    PROVE  Line(b, p, c)'
<1> USE DEF TypeOK, Threads, Goto
<1>0. /\ TypeOK /\ SlotContents /\ p \notin Consumers /\ c \notin Producers /\ p # c
      /\ Size \in Nat \ {0} /\ MySlot(p) \in Slots /\ c \in Threads
    BY ThreadAssumption, SizeAssumption, SlotRange DEF Inv
<1>1. PICK s \in Nat, g \in Nat : s = sent[p] /\ g = Len(got[c])
    BY <1>0, ThreadAssumption
<1>2. MySlot(p) = Slot(b, s) /\ states[Slot(b, s)] = "EMPTY"
    BY <1>1 DEF PushSlot, MySlot, Slot, Claiming, Line, Standing
<1>3. /\ UNCHANGED <<head, tail, elements, reg, sent, got>> /\ pc'[c] = pc[c]
      /\ pc[p] = "pushSlot" /\ pc'[p] = "pushWrite"
      /\ states' = [states EXCEPT ![Slot(b, s)] = "STORING"]
    BY <1>0, <1>2 DEF PushSlot
<1>4. PICK e \in Int : e = Released(c)
  <2>1. Released(c) = g \/ Released(c) = g - 1
      BY <1>1 DEF Released
  <2> QED BY <2>1
<1>5. s # e + Size
  <2> SUFFICES ASSUME s = e + Size PROVE FALSE
      OBVIOUS
  <2>1. CASE pc[c] = "popRelease"
    <3>1. g > 0 /\ e = g - 1 /\ reg[c] = Pos(b, g - 1)
        BY <1>1, <1>4, <2>1 DEF Line, Standing, Released
    <3>2. states[Slot(b, g - 1)] = "LOADING"
        BY <1>0, <2>1, <3>1 DEF SlotContents, InSlot, MySlot, Slot
    <3>3. e \in Nat /\ Slot(b, e + Size) = Slot(b, e)
        BY <3>1, SlotLap
    <3> QED BY <1>2, <3>1, <3>2, <3>3
  <2>2. CASE pc[c] # "popRelease"
    <3>1. e = g /\ g \in g .. s - 1
        BY <1>0, <1>1, <1>4, <2>2 DEF Released
    <3>2. states[Slot(b, g)] \in {"STORED", "LOADING"}
        BY <1>1, <3>1 DEF Line, Between
    <3>3. Slot(b, g + Size) = Slot(b, g)
        BY SlotLap
    <3> QED BY <1>2, <3>1, <3>2, <3>3
  <2> QED BY <2>1, <2>2
<1>6. Begun(p)' = Begun(p) /\ Taken(c)' = Taken(c) /\ Released(c)' = e
    BY <1>3, <1>4 DEF Begun, Taken, Claiming, Taking, Released
<1>7. Entered(p)' <= e + Size
  <2>1. Entered(p) = s /\ Entered(p)' = s + 1
      BY <1>1, <1>3 DEF Entered
  <2>2. s <= e + Size
      BY <1>4, <2>1 DEF Line, Standing
  <2> QED BY <1>0, <1>5, <2>1, <2>2
<1>8. Standing(b, p, c)'
    BY <1>3, <1>6, <1>7 DEF Line, Standing, Claiming
<1>9. Between(b, p, c)'
  <2>1. Slot(b, s) \in Slots
      BY SlotIs
  <2>2. ASSUME NEW k \in g .. s - 1
        PROVE  elements[Slot(b, k)] = <<p, k + 1>> /\ states'[Slot(b, k)] \in {"STORED", "LOADING"}
    <3>1. elements[Slot(b, k)] = <<p, k + 1>> /\ states[Slot(b, k)] \in {"STORED", "LOADING"}
        BY <1>1 DEF Line, Between
    <3>2. Slot(b, k) \in Slots /\ Slot(b, k) # Slot(b, s)
        BY <1>2, <3>1, SlotIs
    <3> QED BY <1>0, <1>3, <3>1, <3>2
  <2>3. \A i \in Slots : states'[i] = "STORED" => \E k \in g .. s - 1 : i = Slot(b, k)
      BY <1>0, <1>1, <1>3, <2>1 DEF Line, Between
  <2> QED BY <1>1, <1>3, <2>2, <2>3 DEF Between
<1> QED BY <1>3, <1>8, <1>9 DEF Line, InOrder

\* The assignment of the element.
LEMMA PushWriteLine ==
    ASSUME Inv, NEW b \in Tickets, NEW p \in Producers, NEW c \in Consumers, Line(b, p, c),
           PushWrite(p)
    PROVE  Line(b, p, c)'
<1> USE DEF TypeOK, Threads, Goto
<1>0. /\ TypeOK /\ SlotContents /\ p \notin Consumers /\ c \notin Producers /\ p # c
      /\ MySlot(p) \in Slots
    BY ThreadAssumption, SlotRange DEF Inv
<1>1. PICK s \in Nat, g \in Nat : s = sent[p] /\ g = Len(got[c])
    BY <1>0, ThreadAssumption
<1>2. states[MySlot(p)] = "STORING"
    BY <1>0 DEF PushWrite, SlotContents, InSlot
<1>3. /\ UNCHANGED <<head, tail, states, reg, sent, got>> /\ pc'[c] = pc[c]
      /\ pc[p] = "pushWrite" /\ pc'[p] = "pushPublish"
      /\ \A i \in Slots : states[i] # "STORING" => elements'[i] = elements[i]
    BY <1>0, <1>2 DEF PushWrite
<1>4. Begun(p)' = Begun(p) /\ Taken(c)' = Taken(c) /\ Released(c)' = Released(c)
      /\ Entered(p)' = Entered(p)
    BY <1>3 DEF Begun, Taken, Claiming, Taking, Released, Entered
<1>5. Standing(b, p, c)'
    BY <1>3, <1>4 DEF Line, Standing, Claiming
<1>6. Between(b, p, c)'
  <2>1. ASSUME NEW k \in g .. s - 1
        PROVE  elements'[Slot(b, k)] = <<p, k + 1>> /\ states[Slot(b, k)] \in {"STORED", "LOADING"}
    <3>1. elements[Slot(b, k)] = <<p, k + 1>> /\ states[Slot(b, k)] \in {"STORED", "LOADING"}
        BY <1>1 DEF Line, Between
    <3>2. Slot(b, k) \in Slots
        BY SlotIs
    <3> QED BY <1>3, <3>1, <3>2
  <2>2. \A i \in Slots : states[i] = "STORED" => \E k \in g .. s - 1 : i = Slot(b, k)
      BY <1>1 DEF Line, Between
  <2> QED BY <1>1, <1>3, <2>1, <2>2 DEF Between
<1> QED BY <1>3, <1>5, <1>6 DEF Line, InOrder

\* The store of STORED: the line has one message more.
LEMMA PushPublishLine ==
    ASSUME Inv, NEW b \in Tickets, NEW p \in Producers, NEW c \in Consumers, Line(b, p, c),
           PushPublish(p)
    PROVE  Line(b, p, c)'
<1> USE DEF TypeOK, Threads, Goto
<1>0. /\ TypeOK /\ SlotContents /\ p \notin Consumers /\ c \notin Producers /\ p # c
      /\ MySlot(p) \in Slots /\ Size \in Nat
    BY ThreadAssumption, SizeAssumption, SlotRange DEF Inv
<1>1. PICK s \in Nat, g \in Nat : s = sent[p] /\ g = Len(got[c])
    BY <1>0, ThreadAssumption
<1>2. /\ MySlot(p) = Slot(b, s) /\ states[Slot(b, s)] = "STORING"
      /\ elements[Slot(b, s)] = <<p, s + 1>>
  <2>1. MySlot(p) = Slot(b, s)
      BY <1>1 DEF PushPublish, MySlot, Slot, Claiming, Line, Standing
  <2> QED BY <1>0, <1>1, <2>1 DEF PushPublish, SlotContents, InSlot, Item
<1>3. /\ UNCHANGED <<head, tail, elements, reg, got>> /\ pc'[c] = pc[c]
      /\ pc[p] = "pushPublish" /\ pc'[p] = "idle" /\ sent'[p] = s + 1
      /\ states' = [states EXCEPT ![Slot(b, s)] = "STORED"]
    BY <1>0, <1>1, <1>2 DEF PushPublish
<1>4. Begun(p)' = Begun(p) /\ Taken(c)' = Taken(c) /\ Released(c)' = Released(c)
      /\ Entered(p)' = Entered(p)
    BY <1>1, <1>3 DEF Begun, Taken, Claiming, Taking, Released, Entered
<1>5. g <= s
    BY <1>1 DEF Line, Standing
<1>6. Standing(b, p, c)'
  <2>1. Len(got'[c]) = g /\ g <= s + 1 /\ (pc[c] = "popRead" => g < s + 1)
      BY <1>1, <1>3, <1>5
  <2>2. /\ head = Pos(b, Begun(p)) /\ tail = Pos(b, Taken(c))
        /\ pc[c] \in Taking => reg[c] = Pos(b, g)
        /\ pc[c] = "popRelease" => g > 0 /\ reg[c] = Pos(b, g - 1)
        /\ Entered(p) <= Released(c) + Size
      BY <1>1 DEF Line, Standing
  <2> QED BY <1>1, <1>3, <1>4, <2>1, <2>2 DEF Standing, Claiming
<1>7. Between(b, p, c)'
  <2>0. Slot(b, s) \in Slots
      BY SlotIs
  <2>1. ASSUME NEW k \in g .. s
        PROVE  elements[Slot(b, k)] = <<p, k + 1>> /\ states'[Slot(b, k)] \in {"STORED", "LOADING"}
    <3>1. CASE k = s
        BY <1>0, <1>2, <1>3, <2>0, <3>1
    <3>2. CASE k # s
      <4>1. k \in g .. s - 1
          BY <3>2
      <4>2. elements[Slot(b, k)] = <<p, k + 1>> /\ states[Slot(b, k)] \in {"STORED", "LOADING"}
          BY <1>1, <4>1 DEF Line, Between
      <4>3. Slot(b, k) \in Slots /\ Slot(b, k) # Slot(b, s)
          BY <1>2, <4>2, SlotIs
      <4> QED BY <1>0, <1>3, <4>2, <4>3
    <3> QED BY <3>1, <3>2
  <2>2. ASSUME NEW i \in Slots, states'[i] = "STORED" PROVE \E k \in g .. s : i = Slot(b, k)
    <3>1. CASE i = Slot(b, s)
        BY <1>5, <3>1
    <3>2. CASE i # Slot(b, s)
      <4>1. states[i] = "STORED"
          BY <1>0, <1>3, <2>2, <3>2
      <4>2. PICK k \in g .. s - 1 : i = Slot(b, k)
          BY <1>1, <4>1 DEF Line, Between
      <4>3. k \in g .. s
          OBVIOUS
      <4> QED BY <4>2, <4>3
    <3> QED BY <3>1, <3>2
  <2>3. sent'[p] - 1 = s
      BY <1>3
  <2> QED BY <1>1, <1>3, <2>1, <2>2, <2>3 DEF Between
<1> QED BY <1>3, <1>6, <1>7 DEF Line, InOrder

\* The CAS STORED -> LOADING: what c finds STORED is a message it has not read.
LEMMA PopSlotLine ==
    ASSUME Inv, NEW b \in Tickets, NEW p \in Producers, NEW c \in Consumers, Line(b, p, c),
           PopSlot(c)
    PROVE  Line(b, p, c)'
<1> USE DEF TypeOK, Threads, Goto
<1>0. /\ TypeOK /\ p \notin Consumers /\ c \notin Producers /\ p # c /\ MySlot(c) \in Slots
    BY ThreadAssumption, SlotRange DEF Inv
<1>1. PICK s \in Nat, g \in Nat : s = sent[p] /\ g = Len(got[c])
    BY <1>0, ThreadAssumption
<1>2. MySlot(c) = Slot(b, g) /\ states[Slot(b, g)] = "STORED"
    BY <1>1 DEF PopSlot, MySlot, Slot, Taking, Line, Standing
<1>3. /\ UNCHANGED <<head, tail, elements, reg, sent, got>> /\ pc'[p] = pc[p]
      /\ pc[c] = "popSlot" /\ pc'[c] = "popRead"
      /\ states' = [states EXCEPT ![Slot(b, g)] = "LOADING"]
    BY <1>0, <1>2 DEF PopSlot
<1>4. g < s
  <2>1. PICK k \in g .. s - 1 : Slot(b, g) = Slot(b, k)
      BY <1>0, <1>1, <1>2 DEF Line, Between
  <2> QED BY <2>1
<1>5. Begun(p)' = Begun(p) /\ Taken(c)' = Taken(c) /\ Released(c)' = Released(c)
      /\ Entered(p)' = Entered(p)
    BY <1>3 DEF Begun, Taken, Claiming, Taking, Released, Entered
<1>6. Standing(b, p, c)'
    BY <1>1, <1>3, <1>4, <1>5 DEF Line, Standing, Taking
<1>7. Between(b, p, c)'
  <2>1. ASSUME NEW k \in g .. s - 1
        PROVE  elements[Slot(b, k)] = <<p, k + 1>> /\ states'[Slot(b, k)] \in {"STORED", "LOADING"}
    <3>1. elements[Slot(b, k)] = <<p, k + 1>> /\ states[Slot(b, k)] \in {"STORED", "LOADING"}
        BY <1>1 DEF Line, Between
    <3>2. Slot(b, k) \in Slots
        BY SlotIs
    <3> QED BY <1>0, <1>3, <3>1, <3>2
  <2>2. \A i \in Slots : states'[i] = "STORED" => \E k \in g .. s - 1 : i = Slot(b, k)
      BY <1>0, <1>1, <1>2, <1>3 DEF Line, Between
  <2> QED BY <1>1, <1>3, <2>1, <2>2 DEF Between
<1> QED BY <1>3, <1>6, <1>7 DEF Line, InOrder

\* The move out of the slot: c reads the message whose turn it is.
LEMMA PopReadLine ==
    ASSUME Inv, NEW b \in Tickets, NEW p \in Producers, NEW c \in Consumers, Line(b, p, c),
           PopRead(c)
    PROVE  Line(b, p, c)'
<1> USE DEF TypeOK, Threads, Goto
<1>0. /\ TypeOK /\ SlotContents /\ p \notin Consumers /\ c \notin Producers /\ p # c
      /\ MySlot(c) \in Slots /\ Size \in Nat
    BY ThreadAssumption, SizeAssumption, SlotRange DEF Inv
<1>1. PICK s \in Nat, g \in Nat : s = sent[p] /\ g = Len(got[c])
    BY <1>0, ThreadAssumption
<1>2. MySlot(c) = Slot(b, g) /\ reg[c] = Pos(b, g) /\ g < s /\ states[Slot(b, g)] = "LOADING"
  <2>1. MySlot(c) = Slot(b, g) /\ reg[c] = Pos(b, g) /\ g < s
      BY <1>1 DEF PopRead, MySlot, Slot, Taking, Line, Standing
  <2> QED BY <1>0, <2>1 DEF PopRead, SlotContents, InSlot
<1>3. elements[Slot(b, g)] = <<p, g + 1>>
  <2>1. g \in g .. s - 1
      BY <1>2
  <2> QED BY <1>1, <2>1 DEF Line, Between
<1>4. /\ UNCHANGED <<head, tail, states, reg, sent>> /\ pc'[p] = pc[p]
      /\ pc[c] = "popRead" /\ pc'[c] = "popRelease"
      /\ got'[c] = Append(got[c], <<p, g + 1>>)
      /\ elements' = [elements EXCEPT ![Slot(b, g)] = NoItem]
    BY <1>0, <1>2, <1>3 DEF PopRead
<1>5. /\ Len(got'[c]) = g + 1 /\ DOMAIN got'[c] = 1 .. g + 1 /\ DOMAIN got[c] = 1 .. g
      /\ got'[c][g + 1] = <<p, g + 1>>
      /\ \A n \in 1 .. g : got'[c][n] = got[c][n]
  <2>1. got[c] \in Seq(Items \cup {NoItem}) /\ <<p, g + 1>> \in Items \cup {NoItem}
      BY <1>0, <1>2, <1>3
  <2> QED BY <1>1, <1>4, <2>1
<1>6. InOrder(p, c)'
  <2> SUFFICES ASSUME NEW n \in 1 .. g + 1 PROVE got'[c][n] = <<p, n>>
      BY <1>5 DEF InOrder
  <2>1. CASE n = g + 1
      BY <1>5, <2>1
  <2>2. CASE n # g + 1
    <3>1. n \in 1 .. g
        BY <2>2
    <3> QED BY <1>5, <3>1 DEF Line, InOrder
  <2> QED BY <2>1, <2>2
<1>7. /\ Begun(p)' = Begun(p) /\ Taken(c)' = Taken(c)
      /\ Released(c) = g /\ Released(c)' = g /\ Entered(p)' = Entered(p)
  <2>1. Begun(p)' = Begun(p) /\ Entered(p)' = Entered(p)
      BY <1>4 DEF Begun, Entered
  <2>2. Taken(c)' = Taken(c)
      BY <1>1, <1>4, <1>5 DEF Taken, Taking
  <2>3. Released(c) = g /\ Released(c)' = g
      BY <1>1, <1>4, <1>5 DEF Released
  <2> QED BY <2>1, <2>2, <2>3
<1>8. Entered(p) <= g + Size /\ s <= g + Size
  <2>1. Entered(p) <= g + Size
      BY <1>7 DEF Line, Standing
  <2>2. Entered(p) = s \/ Entered(p) = s + 1
      BY <1>1 DEF Entered
  <2> QED BY <1>0, <2>1, <2>2
<1>9. Standing(b, p, c)'
  <2>1. /\ head = Pos(b, Begun(p)) /\ tail = Pos(b, Taken(c))
        /\ pc[p] \in Claiming => reg[p] = Pos(b, s)
      BY <1>1 DEF Line, Standing
  <2>2. Len(got'[c]) > 0 /\ Len(got'[c]) - 1 = g /\ Len(got'[c]) <= s
      BY <1>2, <1>5
  <2> QED BY <1>1, <1>2, <1>4, <1>7, <1>8, <2>1, <2>2 DEF Standing, Taking
<1>a. Between(b, p, c)'
  <2>1. ASSUME NEW k \in g + 1 .. s - 1
        PROVE  elements'[Slot(b, k)] = <<p, k + 1>> /\ states[Slot(b, k)] \in {"STORED", "LOADING"}
    <3>0. k \in Nat /\ k \in g .. s - 1 /\ g <= k /\ k < g + Size /\ k # g
        BY <1>0, <1>8
    <3>1. elements[Slot(b, k)] = <<p, k + 1>> /\ states[Slot(b, k)] \in {"STORED", "LOADING"}
        BY <1>1, <3>0 DEF Line, Between
    <3>2. Slot(b, k) \in Slots /\ Slot(b, k) # Slot(b, g)
        BY <3>0, SlotIs, SlotApart
    <3> QED BY <1>0, <1>4, <3>1, <3>2
  <2>2. ASSUME NEW i \in Slots, states[i] = "STORED" PROVE \E k \in g + 1 .. s - 1 : i = Slot(b, k)
    <3>1. PICK k \in g .. s - 1 : i = Slot(b, k)
        BY <1>1, <2>2 DEF Line, Between
    <3>2. k # g
        BY <1>2, <2>2, <3>1
    <3>3. k \in g + 1 .. s - 1
        BY <3>2
    <3> QED BY <3>1, <3>3
  <2> QED BY <1>1, <1>4, <1>5, <2>1, <2>2 DEF Between
<1> QED BY <1>6, <1>9, <1>a DEF Line

\* The store of EMPTY: the slot p will take a lap later.
LEMMA PopReleaseLine ==
    ASSUME Inv, NEW b \in Tickets, NEW p \in Producers, NEW c \in Consumers, Line(b, p, c),
           PopRelease(c)
    PROVE  Line(b, p, c)'
<1> USE DEF TypeOK, Threads, Goto
<1>0. /\ TypeOK /\ p \notin Consumers /\ c \notin Producers /\ p # c
      /\ MySlot(c) \in Slots /\ Size \in Nat
    BY ThreadAssumption, SizeAssumption, SlotRange DEF Inv
<1>1. PICK s \in Nat, g \in Nat : s = sent[p] /\ g = Len(got[c])
    BY <1>0, ThreadAssumption
<1>2. PICK f \in Nat : f = g - 1 /\ MySlot(c) = Slot(b, f)
  <2>1. g > 0 /\ reg[c] = Pos(b, g - 1)
      BY <1>1 DEF PopRelease, Line, Standing
  <2>2. g - 1 \in Nat
      BY <2>1
  <2> QED BY <2>1, <2>2 DEF MySlot, Slot
<1>3. /\ UNCHANGED <<head, tail, elements, reg, sent, got>> /\ pc'[p] = pc[p]
      /\ pc[c] = "popRelease" /\ pc'[c] = "idle"
      /\ states' = [states EXCEPT ![Slot(b, f)] = "EMPTY"]
    BY <1>0, <1>2 DEF PopRelease
<1>4. /\ Begun(p)' = Begun(p) /\ Taken(c)' = Taken(c)
      /\ Released(c) = f /\ Released(c)' = f + 1 /\ Entered(p)' = Entered(p)
    BY <1>1, <1>2, <1>3 DEF Begun, Taken, Claiming, Taking, Released, Entered
<1>5. Entered(p) <= f + Size /\ s <= f + Size /\ Entered(p) <= (f + 1) + Size
  <2>1. Entered(p) <= f + Size
      BY <1>4 DEF Line, Standing
  <2>2. Entered(p) = s \/ Entered(p) = s + 1
      BY <1>1 DEF Entered
  <2> QED BY <1>0, <2>1, <2>2
<1>6. Standing(b, p, c)'
    BY <1>1, <1>3, <1>4, <1>5 DEF Line, Standing, Taking
<1>7. Between(b, p, c)'
  <2>0. Slot(b, f) \in Slots
      BY SlotIs
  <2>1. ASSUME NEW k \in g .. s - 1
        PROVE  elements[Slot(b, k)] = <<p, k + 1>> /\ states'[Slot(b, k)] \in {"STORED", "LOADING"}
    <3>0. k \in Nat /\ f <= k /\ k < f + Size /\ k # f
        BY <1>0, <1>2, <1>5
    <3>1. elements[Slot(b, k)] = <<p, k + 1>> /\ states[Slot(b, k)] \in {"STORED", "LOADING"}
        BY <1>1 DEF Line, Between
    <3>2. Slot(b, k) \in Slots /\ Slot(b, k) # Slot(b, f)
        BY <3>0, SlotIs, SlotApart
    <3> QED BY <1>0, <1>3, <3>1, <3>2
  <2>2. \A i \in Slots : states'[i] = "STORED" => \E k \in g .. s - 1 : i = Slot(b, k)
      BY <1>0, <1>1, <1>3, <2>0 DEF Line, Between
  <2> QED BY <1>1, <1>3, <2>1, <2>2 DEF Between
<1> QED BY <1>3, <1>6, <1>7 DEF Line, InOrder

\* A new queue is an empty line.
LEMMA OrderInit == Init => OrderInv
<1> SUFFICES ASSUME Init PROVE OrderInv
    OBVIOUS
<1>0. TypeOK /\ Size \in Nat
    BY InitType, SizeAssumption
<1>1. HasRead
    BY DEF Init, HasRead, Threads
<1>2. head \in Tickets /\ tail = head /\ head = Pos(head, 0)
    BY <1>0, PosStart DEF Init, TypeOK
<1>3. ASSUME NEW p \in Producers, NEW c \in Consumers PROVE Line(head, p, c)
  <2>1. /\ sent[p] = 0 /\ got[c] = <<>> /\ Len(got[c]) = 0 /\ pc[p] = "idle" /\ pc[c] = "idle"
        /\ \A i \in Slots : states[i] = "EMPTY"
      BY DEF Init, Threads
  <2>2. Begun(p) = 0 /\ Taken(c) = 0 /\ Released(c) = 0 /\ Entered(p) = 0
      BY <2>1 DEF Begun, Taken, Claiming, Taking, Released, Entered
  <2>3. Standing(head, p, c)
      BY <1>0, <1>2, <2>1, <2>2 DEF Standing, Claiming, Taking
  <2>4. Between(head, p, c) /\ InOrder(p, c)
      BY <2>1 DEF Between, InOrder
  <2> QED BY <2>3, <2>4 DEF Line
<1> QED BY <1>1, <1>2, <1>3 DEF OrderInv

\* OrderInv is inductive.
LEMMA OrderStep ==
    ASSUME Inv, OrderInv, [Next]_vars
    PROVE  OrderInv'
<1>0. TypeOK /\ HasRead
    BY DEF Inv, OrderInv
<1>1. HasRead'
    BY <1>0, HasReadStep
<1>2. PICK b \in Tickets : \A p \in Producers, c \in Consumers : Alone(p, c) => Line(b, p, c)
    BY DEF OrderInv
<1>3. ASSUME NEW p \in Producers, NEW c \in Consumers, Alone(p, c)' PROVE Line(b, p, c)'
  <2>1. Alone(p, c) /\ Line(b, p, c)
      BY <1>0, <1>2, <1>3, AloneBefore
  <2>2. CASE Push(p)
      BY <1>0, <2>1, <2>2, PushOutsideLine, PushSlotLine, PushWriteLine, PushPublishLine DEF Push
  <2>3. CASE Pop(c)
      BY <1>0, <2>1, <2>3, PopOutsideLine, PopSlotLine, PopReadLine, PopReleaseLine DEF Pop
  <2>4. CASE \/ \E q \in Producers \ {p} : Push(q)
             \/ \E d \in Consumers \ {c} : Pop(d)
             \/ UNCHANGED vars
      BY <1>0, <1>3, <2>1, <2>4, OthersLine
  <2> QED BY <2>2, <2>3, <2>4 DEF Next
<1>4. \E a \in Tickets : \A p \in Producers, c \in Consumers : Alone(p, c)' => Line(a, p, c)'
    BY <1>3
<1> QED BY <1>1, <1>4 DEF OrderInv

\* OrderInv holds in every reachable state of the queue.
THEOREM OrderInvariant == Spec => []OrderInv
<1>1. Inv /\ OrderInv /\ [Next]_vars => OrderInv'
    BY OrderStep
<1> QED BY <1>1, OrderInit, Invariance, PTL DEF Spec

\* As long as one thread has pushed and one has popped, messages come out in the
\* order they went in, however many have passed and however often the counters have
\* wrapped: a client's send_queue keeps the order of its conversation.
THEOREM OneLineIsFIFO == Spec => []FirstInFirstOut
<1>1. OrderInv => FirstInFirstOut
    BY DEF OrderInv, FirstInFirstOut, Alone, Line, InOrder
<1> QED BY <1>1, OrderInvariant, PTL

==============================================================================
