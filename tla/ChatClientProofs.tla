--------------------------- MODULE ChatClientProofs ---------------------------
(***************************************************************************)
(* The client program behaves towards the server as Clients says, for any  *)
(* number of lines, any texts and any size of the buffer: whatever its two *)
(* threads do, the server meets no worse a client than the one its own     *)
(* proofs assume.                                                          *)
(***************************************************************************)
EXTENDS ChatClient, FiniteSetTheorems, TLAPS

------------------------------------------------------------------------------
(* What is carried from step to step *)

Actions == LineActions \cup {"INIT_REQ", "INIT_MISFIT", "INIT_DONE", "CL_DISCONNECTED"}
Messages == [action : Actions, id : {0, None}, n : Nat]
Replies == [action : {"INIT_REQ", "HELLO", "UNICAST_REPEATED"}, id : {0, None}, n : {0}]

\* what travelled: the reply comes before anything else the server sends
ConnInv ==
    /\ log \in Seq(Messages) /\ out \in Seq(Replies) /\ read \in 0 .. Len(log)
    /\ init_req \in BOOLEAN /\ init_done \in BOOLEAN /\ stop \in BOOLEAN
    /\ main \in {"start", "lookup", "connect"} => link = "none"
    /\ main = "running" => link # "none"
    /\ out # <<>> => out[1].action = "INIT_REQ"
    /\ wire # <<>> => out # <<>>

\* the receiver confirms once, and only what it has received
RecvInv ==
    /\ id \in {0, None} /\ carry \in {0, None}
    /\ receiver = "got" \/ id = 0 \/ carry = 0 => out # <<>>
    /\ receiver \in {"id", "done", "answer"} => init_req /\ out # <<>>
    /\ receiver \in {"id", "done"} => ~init_done
    /\ receiver \in {"done", "answer"} => id = 0
    /\ receiver = "answer" => init_done
    /\ HasSent("INIT_DONE") => id = 0 /\ init_done /\ receiver # "answer" /\ out # <<>>

\* the sender asks first, leaves last, and has at most one line without the id under
\* way when the confirmation is sent
SendInv ==
    /\ link = "none" => ~init_req /\ sender = "none"
    /\ link = "open" /\ (init_req \/ sender = "flag") => log # <<>>
    /\ log # <<>> => init_req \/ sender = "flag"
    /\ sender \in {"init", "flag"} => ~init_req
    /\ sender \in {"wait", "line", "quit"} => init_req
    /\ sender = "quit" => stop
    /\ HasSent("CL_DISCONNECTED") => stop /\ sender \in {"head", "exited"}
    /\ sender = "line" /\ carry = None =>
          \A d \in DOMAIN log : log[d].action = "INIT_DONE" => d = Len(log)
    /\ typed \in 0 .. MaxLines /\ Said <= typed /\ (sender = "line" => Said < typed)

ClientInv == ConnInv /\ RecvInv /\ SendInv

------------------------------------------------------------------------------
(* A message more *)

\* The log after a send.
LEMMA LogAppended ==
    ASSUME log \in Seq(Messages), NEW m \in Messages, log' = Append(log, m)
    PROVE  /\ log' \in Seq(Messages) /\ log' # <<>> /\ Len(log') = Len(log) + 1
           /\ DOMAIN log' = DOMAIN log \cup {Len(log) + 1} /\ Len(log) + 1 \notin DOMAIN log
           /\ log'[Len(log) + 1] = m /\ \A i \in DOMAIN log : log'[i] = log[i]
           /\ \A a : HasSent(a)' <=> HasSent(a) \/ m.action = a
<1>1. /\ log' \in Seq(Messages) /\ Len(log') = Len(log) + 1 /\ Len(log) \in Nat
      /\ DOMAIN log' = DOMAIN log \cup {Len(log) + 1} /\ Len(log) + 1 \notin DOMAIN log
      /\ log'[Len(log) + 1] = m /\ \A i \in DOMAIN log : log'[i] = log[i]
    OBVIOUS
<1>2. log' # <<>>
  <2>1. Len(<<>>) = 0
      OBVIOUS
  <2> QED BY <1>1, <2>1
<1>3. \A a : HasSent(a)' <=> HasSent(a) \/ m.action = a
    BY <1>1 DEF HasSent
<1> QED BY <1>1, <1>2, <1>3

\* The number of lines is a number.
LEMMA SaidType ==
    ASSUME log \in Seq(Messages)
    PROVE  Said \in Nat /\ IsFiniteSet({i \in DOMAIN log : log[i].action \in LineActions})
<1> DEFINE S == {i \in DOMAIN log : log[i].action \in LineActions}
<1>1. DOMAIN log = 1 .. Len(log) /\ Len(log) \in Int
    OBVIOUS
<1>2. PICK n \in Int : n = Len(log)
    BY <1>1
<1>j. PICK j \in Int : j = 1
    OBVIOUS
<1>3. IsFiniteSet(j .. n)
    BY FS_Interval
<1>4. S \subseteq j .. n
    BY <1>1, <1>2, <1>j
<1>5. IsFiniteSet(S)
    BY <1>3, <1>4, FS_Subset
<1> QED BY <1>5, FS_CardinalityType DEF Said

\* A line counts, nothing else does.
LEMMA SaidAppended ==
    ASSUME log \in Seq(Messages), NEW m \in Messages, log' = Append(log, m)
    PROVE  Said' = IF m.action \in LineActions THEN Said + 1 ELSE Said
<1> DEFINE S == {i \in DOMAIN log : log[i].action \in LineActions}
           T == {i \in DOMAIN log' : log'[i].action \in LineActions}
           x == Len(log) + 1
<1>1. /\ DOMAIN log' = DOMAIN log \cup {x} /\ x \notin DOMAIN log
      /\ log'[x] = m /\ \A i \in DOMAIN log : log'[i] = log[i]
    BY LogAppended
<1>2. IsFiniteSet(S) /\ x \notin S
    BY <1>1, SaidType
<1>3. IF m.action \in LineActions THEN T = S \cup {x} ELSE T = S
  <2> HIDE DEF x
  <2> QED BY <1>1
<1>4. Said = Cardinality(S) /\ Said' = Cardinality(T)
    BY DEF Said
<1> HIDE DEF S, T, x
<1>5. Cardinality(S \cup {x}) = Cardinality(S) + 1
    BY <1>2, FS_AddElement
<1> QED BY <1>3, <1>4, <1>5

\* What the server has not read is one message longer.
LEMMA InboxAppended ==
    ASSUME log \in Seq(Messages), read \in 0 .. Len(log), NEW m \in Messages,
           log' = Append(log, m), read' = read
    PROVE  SubSeq(log', read' + 1, Len(log')) = Append(SubSeq(log, read + 1, Len(log)), m)
<1>1. PICK n \in Nat, k \in Nat : n = Len(log) /\ k = read /\ k <= n
    OBVIOUS
<1>2. SubSeq(log, k + 1, n) = [i \in 1 .. n - k |-> log[k + i]]
    BY <1>1
<1>3. SubSeq(Append(log, m), k + 1, n + 1) = [i \in 1 .. (n - k) + 1 |-> Append(log, m)[k + i]]
    BY <1>1
<1>4. SubSeq(log, k + 1, n) \in Seq(Messages) /\ Len(SubSeq(log, k + 1, n)) = n - k
    BY <1>1, <1>2
<1>5. Append(SubSeq(log, k + 1, n), m) =
         [i \in 1 .. (n - k) + 1 |-> IF i = (n - k) + 1 THEN m ELSE SubSeq(log, k + 1, n)[i]]
    BY <1>4
<1>6. ASSUME NEW i \in 1 .. (n - k) + 1
      PROVE  Append(log, m)[k + i] = IF i = (n - k) + 1 THEN m ELSE SubSeq(log, k + 1, n)[i]
    BY <1>1, <1>2
<1>7. Len(log') = n + 1
    BY <1>1
<1>8. [i \in 1 .. (n - k) + 1 |-> Append(log, m)[k + i]] =
         [i \in 1 .. (n - k) + 1 |-> IF i = (n - k) + 1 THEN m ELSE SubSeq(log, k + 1, n)[i]]
    BY <1>6, Zenon
<1>9. SubSeq(Append(log, m), k + 1, n + 1) = Append(SubSeq(log, k + 1, n), m)
    BY <1>3, <1>5, <1>8, Zenon
<1> QED BY <1>1, <1>7, <1>9, Zenon

------------------------------------------------------------------------------
(* The steps *)

\* Before the threads are started nothing has been sent.
LEMMA InitClient == Init => ClientInv
<1> SUFFICES ASSUME Init PROVE ClientInv
    OBVIOUS
<1>1. log = <<>> /\ out = <<>> /\ wire = <<>> /\ read = 0
    BY DEF Init
<1>2. Said = 0 /\ \A a : ~HasSent(a)
  <2>1. {i \in DOMAIN log : log[i].action \in LineActions} = {}
      BY <1>1
  <2>2. Said = 0
      BY <2>1, FS_EmptySet DEF Said
  <2> QED BY <1>1, <2>2 DEF HasSent
<1>3. ConnInv
  <2>1. log \in Seq(Messages) /\ out \in Seq(Replies) /\ Len(log) = 0
      BY <1>1
  <2>2. init_req \in BOOLEAN /\ init_done \in BOOLEAN /\ stop \in BOOLEAN
      BY DEF Init
  <2>3. read \in 0 .. Len(log)
      BY <1>1, <2>1
  <2> QED BY <1>1, <2>1, <2>2, <2>3 DEF Init, ConnInv
<1>4. RecvInv
    BY <1>2, ClientConstants DEF Init, RecvInv
<1>5. SendInv
    BY <1>1, <1>2, ClientConstants DEF Init, SendInv
<1> QED BY <1>3, <1>4, <1>5 DEF ClientInv

\* Steps that send and receive nothing.
Silent == UNCHANGED <<log, read, out>>

\* They leave what was sent as it is.
LEMMA SilentKeeps ==
    ASSUME Silent
    PROVE  Said' = Said /\ \A a : HasSent(a)' = HasSent(a)
<1> QED BY DEF Silent, Said, HasSent

\* main, up to the start of the threads and when they have ended.
LEMMA MainKeeps ==
    ASSUME ClientInv, CheckArgs \/ GetSvAddr \/ Connect \/ (main = "running" /\ (Leave \/ Die))
    PROVE  ClientInv'
<1> USE DEF netVars, flagVars, recvVars, sendVars
<1>1. Silent
    BY DEF CheckArgs, GetSvAddr, Connect, Leave, Die, Silent
<1>2. Said' = Said /\ \A a : HasSent(a)' = HasSent(a)
    BY <1>1, SilentKeeps
<1>3. CASE Connect
  <2>1. /\ UNCHANGED <<log, read, out, wire, flagVars, carry, typed>>
        /\ \/ main' = "running" /\ link' = "open" /\ sender' = "head" /\ receiver' = "head"
           \/ main' = "failed" /\ UNCHANGED <<link, sender, receiver>>
        /\ link = "none"
      BY <1>3 DEF Connect, ClientInv, ConnInv
  <2>2. ConnInv'
      BY <2>1 DEF ClientInv, ConnInv
  <2>3. RecvInv'
      BY <1>2, <2>1 DEF ClientInv, RecvInv
  <2>4. SendInv'
      BY <1>2, <2>1 DEF ClientInv, SendInv
  <2> QED BY <2>2, <2>3, <2>4 DEF ClientInv
<1>4. CASE CheckArgs \/ GetSvAddr \/ (main = "running" /\ (Leave \/ Die))
  <2>1. /\ UNCHANGED <<netVars, flagVars, recvVars, sendVars>>
        /\ main \in {"start", "lookup", "running"} /\ main' # "running"
        /\ main' \in {"start", "lookup", "connect"} => main \in {"start", "lookup"}
      BY <1>4 DEF CheckArgs, GetSvAddr, Leave, Die
  <2>2. ConnInv'
      BY <2>1 DEF ClientInv, ConnInv
  <2>3. RecvInv'
      BY <1>2, <2>1 DEF ClientInv, RecvInv
  <2>4. SendInv'
      BY <1>2, <2>1 DEF ClientInv, SendInv
  <2> QED BY <2>2, <2>3, <2>4 DEF ClientInv
<1> QED BY <1>3, <1>4

\* The sender, when it sends nothing.
LEMMA SenderKeeps ==
    ASSUME ClientInv, main = "running",
           SendHead \/ SetInitReq \/ SendWoken \/ ReadLine \/ ReadQuit
    PROVE  ClientInv'
<1> USE DEF netVars, flagVars, recvVars, sendVars
<1>1. Silent /\ UNCHANGED <<main, link, wire, receiver, init_done, id>> /\ link # "none"
    BY DEF SendHead, SetInitReq, SendWoken, ReadLine, ReadQuit, Silent, ClientInv, ConnInv
<1>2. Said' = Said /\ \A a : HasSent(a)' = HasSent(a)
    BY <1>1, SilentKeeps
<1>3. ConnInv'
    BY <1>1 DEF SendHead, SetInitReq, SendWoken, ReadLine, ReadQuit, Silent, ClientInv, ConnInv
<1>4. RecvInv'
  <2>1. /\ id \in {0, None} /\ (carry' = carry \/ carry' = id) /\ (init_req => init_req')
      BY DEF SendHead, SetInitReq, SendWoken, ReadLine, ReadQuit, ClientInv, RecvInv
  <2> QED BY <1>1, <1>2, <2>1 DEF Silent, ClientInv, RecvInv
<1>5. SendInv'
  <2>0. Said \in Nat
      BY SaidType DEF ClientInv, ConnInv
  <2>1. CASE SendHead
      BY <1>1, <1>2, <2>1 DEF SendHead, Silent, ClientInv, SendInv
  <2>2. CASE SetInitReq
      BY <1>1, <1>2, <2>2 DEF SetInitReq, Silent, ClientInv, SendInv
  <2>3. CASE SendWoken
      BY <1>1, <1>2, <2>3 DEF SendWoken, Silent, ClientInv, SendInv
  <2>4. CASE ReadLine
    <3>1. carry' = None => \A d \in DOMAIN log : log[d].action # "INIT_DONE"
        BY <2>4, ClientConstants DEF ReadLine, ClientInv, RecvInv, HasSent
    <3>2. /\ typed \in 0 .. MaxLines /\ typed' = typed + 1
          /\ typed' \in 0 .. MaxLines /\ MaxLines \in Nat
        BY <2>4, ClientConstants DEF ReadLine, ClientInv, SendInv
    <3>3. Said <= typed
        BY DEF ClientInv, SendInv
    <3>4. Said <= typed' /\ Said < typed'
        BY <2>0, <3>2, <3>3
    <3> QED BY <1>1, <1>2, <2>4, <3>1, <3>2, <3>4 DEF ReadLine, Silent, ClientInv, SendInv
  <2>5. CASE ReadQuit
      BY <1>1, <1>2, <2>5 DEF ReadQuit, Silent, ClientInv, SendInv
  <2> QED BY <2>1, <2>2, <2>3, <2>4, <2>5
<1> QED BY <1>3, <1>4, <1>5 DEF ClientInv

\* The receiver, when it sends nothing.
LEMMA ReceiverKeeps ==
    ASSUME ClientInv, main = "running",
           \/ ReceiveHead \/ ReceiveBytes \/ ReceiveEnd \/ ReceiveError \/ WakeSender
           \/ Dispatch \/ SetId \/ SetInitDone
    PROVE  ClientInv'
<1> USE DEF netVars, flagVars, recvVars, sendVars
<1>1. /\ Silent /\ UNCHANGED <<main, sender, carry, typed, init_req>> /\ link # "none"
      /\ link' = link \/ (link # "open" /\ link' = "down")
    BY DEF ReceiveHead, ReceiveBytes, ReceiveEnd, ReceiveError, WakeSender, Dispatch, SetId,
           SetInitDone, Silent, ClientInv, ConnInv
<1>2. Said' = Said /\ \A a : HasSent(a)' = HasSent(a)
    BY <1>1, SilentKeeps
<1>3. ConnInv'
  <2>1. /\ wire' = wire \/ wire # <<>>
        /\ init_done' \in BOOLEAN /\ stop' \in BOOLEAN
      BY DEF ReceiveHead, ReceiveBytes, ReceiveEnd, ReceiveError, WakeSender, Dispatch, SetId,
           SetInitDone, ClientInv, ConnInv
  <2> QED BY <1>1, <2>1 DEF Silent, ClientInv, ConnInv
<1>4. RecvInv'
  <2>1. CASE ReceiveHead \/ ReceiveEnd \/ ReceiveError \/ WakeSender
      BY <1>1, <1>2, <2>1
      DEF ReceiveHead, ReceiveEnd, ReceiveError, WakeSender, Silent, ClientInv, RecvInv
  <2>2. CASE ReceiveBytes
      BY <1>1, <1>2, <2>2 DEF ReceiveBytes, Silent, ClientInv, ConnInv, RecvInv
  <2>3. CASE Dispatch
    <3>1. /\ receiver' = "head" \/ (receiver' = "id" /\ init_req /\ ~init_done)
          /\ receiver = "got" /\ UNCHANGED <<init_done, id>>
        BY <2>3 DEF Dispatch
    <3> QED BY <1>1, <1>2, <3>1 DEF Silent, ClientInv, RecvInv
  <2>4. CASE SetId
      BY <1>1, <1>2, <2>4 DEF SetId, Silent, ClientInv, RecvInv
  <2>5. CASE SetInitDone
      BY <1>1, <1>2, <2>5 DEF SetInitDone, Silent, ClientInv, RecvInv
  <2> QED BY <2>1, <2>2, <2>3, <2>4, <2>5
<1>5. SendInv'
  <2>1. stop' = stop \/ stop' = TRUE
      BY DEF ReceiveHead, ReceiveBytes, ReceiveEnd, ReceiveError, WakeSender, Dispatch, SetId,
           SetInitDone
  <2> QED BY <1>1, <1>2, <2>1 DEF Silent, ClientInv, SendInv
<1> QED BY <1>3, <1>4, <1>5 DEF ClientInv

\* SendInitReq, SendTyped and SendInitDone when the server has closed: nothing is sent.
LEMMA LostSendKeeps ==
    ASSUME ClientInv, main = "running", link # "open", SendInitReq \/ SendTyped \/ SendInitDone,
           main' # "killed"
    PROVE  ClientInv' /\ Silent /\ UNCHANGED <<main, wire>> /\ link' \notin {"open", "none"}
<1> USE DEF netVars, flagVars, recvVars, sendVars
<1>1. /\ Silent /\ UNCHANGED <<main, wire, flagVars, carry, typed>> /\ link # "none"
      /\ link' \notin {"open", "none"}
    BY DEF SendInitReq, SendTyped, SendInitDone, SendTaken, SendFails, Die, Silent, ClientInv,
           ConnInv
<1>2. Said' = Said /\ \A a : HasSent(a)' = HasSent(a)
    BY <1>1, SilentKeeps
<1>3. ConnInv'
    BY <1>1 DEF Silent, ClientInv, ConnInv
<1>4. RecvInv'
  <2>1. receiver' = receiver \/ receiver' = "head"
      BY DEF SendInitReq, SendTyped, SendInitDone, Die
  <2> QED BY <1>1, <1>2, <2>1 DEF Silent, ClientInv, RecvInv
<1>5. SendInv'
  <2>1. \/ sender = "init" /\ sender' = "flag"
        \/ sender \in {"line", "quit"} /\ sender' = "head"
        \/ sender' = sender
      BY DEF SendInitReq, SendTyped, SendInitDone, Die
  <2> QED BY <1>1, <1>2, <2>1 DEF Silent, ClientInv, SendInv
<1> QED BY <1>1, <1>3, <1>4, <1>5 DEF ClientInv

\* INIT_REQ is the first message, well formed or not.
LEMMA InitReqKeeps ==
    ASSUME ClientInv, main = "running", link = "open", SendInitReq, main' # "killed"
    PROVE  /\ ClientInv' /\ log = <<>> /\ UNCHANGED <<main, link, read, out, wire>>
           /\ \E a \in {"INIT_REQ", "INIT_MISFIT"} :
                 Msg(a, None, 0) \in Messages /\ log' = Append(log, Msg(a, None, 0))
<1> USE DEF netVars, flagVars, recvVars, sendVars
<1>a. PICK act \in {"INIT_REQ", "INIT_MISFIT"} : SendTaken(Msg(act, None, 0))
    BY DEF SendInitReq, Die
<1>m. PICK m \in Messages : m = Msg(act, None, 0)
    BY DEF Msg, Messages, Actions
<1>1. /\ log' = Append(log, m) /\ sender = "init" /\ sender' = "flag"
      /\ UNCHANGED <<main, link, read, out, wire, flagVars, receiver, carry, typed>>
    BY <1>a, <1>m DEF SendInitReq, SendTaken, Die
<1>2. log \in Seq(Messages) /\ m.action = act /\ m.action \notin LineActions
    BY <1>m DEF ClientInv, ConnInv, Msg, LineActions
<1>3. /\ log' \in Seq(Messages) /\ log' # <<>> /\ Len(log') = Len(log) + 1 /\ Len(log) \in Nat
      /\ \A a : HasSent(a)' <=> HasSent(a) \/ a = act
    BY <1>1, <1>2, LogAppended
<1>4. Said' = Said
    BY <1>1, <1>2, SaidAppended
<1>5. log = <<>>
    BY <1>1 DEF ClientInv, SendInv
<1>6. ConnInv'
    BY <1>1, <1>3 DEF ClientInv, ConnInv
<1>7. RecvInv'
    BY <1>1, <1>3 DEF ClientInv, RecvInv
<1>8. SendInv'
    BY <1>1, <1>3, <1>4 DEF ClientInv, SendInv
<1> QED BY <1>m, <1>1, <1>5, <1>6, <1>7, <1>8 DEF ClientInv

\* A line is sent after INIT_REQ and before CL_DISCONNECTED, and only the one that was
\* composed before the reply lacks the id.
LEMMA LineKeeps ==
    ASSUME ClientInv, main = "running", link = "open", SendTyped, main' # "killed",
           sender = "line"
    PROVE  /\ ClientInv'
           /\ \E m \in Messages :
                 /\ m.action \in LineActions /\ m = Msg(m.action, carry, Said + 1)
                 /\ log' = Append(log, m)
           /\ log # <<>> /\ ~HasSent("CL_DISCONNECTED") /\ Said < MaxLines
           /\ UNCHANGED <<main, link, read, out, wire>>
<1> USE DEF netVars, flagVars, recvVars, sendVars
<1>0. Said \in Nat /\ carry \in {0, None} /\ log \in Seq(Messages)
    BY SaidType DEF ClientInv, ConnInv, RecvInv
<1>1. PICK a \in LineActions :
        /\ log' = Append(log, Msg(a, carry, Said + 1)) /\ sender' = "head"
        /\ UNCHANGED <<main, link, read, out, wire, flagVars, receiver, carry, typed>>
    BY DEF SendTyped, SendTaken, SendFails, SendKills, Die
<1>k. PICK k \in Nat : k = Said + 1
    BY <1>0
<1>m. PICK m \in Messages : m = Msg(a, carry, Said + 1)
    BY <1>0, <1>k DEF Msg, Messages, Actions
<1>2. /\ m.action = a /\ m.action \in LineActions /\ log' = Append(log, m)
      /\ a \notin {"INIT_REQ", "INIT_DONE", "CL_DISCONNECTED"}
    BY <1>1, <1>m DEF Msg, LineActions
<1>3. /\ log' \in Seq(Messages) /\ log' # <<>> /\ Len(log') = Len(log) + 1 /\ Len(log) \in Nat
      /\ \A b : HasSent(b)' <=> HasSent(b) \/ b = a
    BY <1>0, <1>2, LogAppended
<1>4. Said' = Said + 1
    BY <1>0, <1>2, SaidAppended
<1>5. /\ init_req /\ log # <<>> /\ ~HasSent("CL_DISCONNECTED")
      /\ Said < typed /\ typed \in 0 .. MaxLines
    BY DEF ClientInv, SendInv
<1>6. ConnInv'
    BY <1>1, <1>3 DEF ClientInv, ConnInv
<1>7. RecvInv'
    BY <1>1, <1>2, <1>3 DEF ClientInv, RecvInv
<1>8. SendInv'
  <2>1. Said' <= typed'
      BY <1>0, <1>1, <1>4, <1>5, ClientConstants
  <2> QED BY <1>1, <1>2, <1>3, <1>5, <2>1 DEF ClientInv, SendInv
<1>9. Said < MaxLines
    BY <1>0, <1>5, ClientConstants
<1> QED BY <1>1, <1>m, <1>2, <1>5, <1>6, <1>7, <1>8, <1>9 DEF ClientInv

\* CL_DISCONNECTED is sent once, by a sender that ends then.
LEMMA QuitKeeps ==
    ASSUME ClientInv, main = "running", link = "open", SendTyped, main' # "killed",
           sender = "quit"
    PROVE  /\ ClientInv' /\ log' = Append(log, Msg("CL_DISCONNECTED", None, 0))
           /\ Msg("CL_DISCONNECTED", None, 0) \in Messages
           /\ log # <<>> /\ ~HasSent("CL_DISCONNECTED")
           /\ UNCHANGED <<main, link, read, out, wire>>
<1> USE DEF netVars, flagVars, recvVars, sendVars
<1>m. PICK m \in Messages : m = Msg("CL_DISCONNECTED", None, 0)
    BY DEF Msg, Messages, Actions
<1>1. /\ log' = Append(log, m) /\ sender' = "head"
      /\ UNCHANGED <<main, link, read, out, wire, flagVars, receiver, carry, typed>>
    BY <1>m DEF SendTyped, SendTaken, SendFails, SendKills, Die
<1>2. log \in Seq(Messages) /\ m.action = "CL_DISCONNECTED" /\ m.action \notin LineActions
    BY <1>m DEF ClientInv, ConnInv, Msg, LineActions
<1>3. /\ log' \in Seq(Messages) /\ log' # <<>> /\ Len(log') = Len(log) + 1 /\ Len(log) \in Nat
      /\ \A a : HasSent(a)' <=> HasSent(a) \/ a = "CL_DISCONNECTED"
    BY <1>1, <1>2, LogAppended
<1>4. Said' = Said
    BY <1>1, <1>2, SaidAppended
<1>5. init_req /\ stop /\ log # <<>> /\ ~HasSent("CL_DISCONNECTED")
    BY DEF ClientInv, SendInv
<1>6. ConnInv'
    BY <1>1, <1>3 DEF ClientInv, ConnInv
<1>7. RecvInv'
    BY <1>1, <1>3 DEF ClientInv, RecvInv
<1>8. SendInv'
    BY <1>1, <1>3, <1>4, <1>5 DEF ClientInv, SendInv
<1> QED BY <1>m, <1>1, <1>5, <1>6, <1>7, <1>8 DEF ClientInv

\* INIT_DONE is sent once, when the reply has come.
LEMMA InitDoneKeeps ==
    ASSUME ClientInv, main = "running", link = "open", SendInitDone, main' # "killed"
    PROVE  /\ ClientInv' /\ log' = Append(log, Msg("INIT_DONE", None, 0))
           /\ Msg("INIT_DONE", None, 0) \in Messages
           /\ log # <<>> /\ ~HasSent("INIT_DONE") /\ out # <<>>
           /\ UNCHANGED <<main, link, read, out, wire>>
<1> USE DEF netVars, flagVars, recvVars, sendVars
<1>m. PICK m \in Messages : m = Msg("INIT_DONE", None, 0)
    BY DEF Msg, Messages, Actions
<1>1. /\ log' = Append(log, m) /\ receiver = "answer" /\ receiver' = "head"
      /\ UNCHANGED <<main, link, read, out, wire, flagVars, sendVars>>
    BY <1>m DEF SendInitDone, SendTaken, SendFails, SendKills, Die
<1>2. log \in Seq(Messages) /\ m.action = "INIT_DONE" /\ m.action \notin LineActions
    BY <1>m DEF ClientInv, ConnInv, Msg, LineActions
<1>3. /\ log' \in Seq(Messages) /\ log' # <<>> /\ Len(log') = Len(log) + 1 /\ Len(log) \in Nat
      /\ DOMAIN log' = DOMAIN log \cup {Len(log) + 1}
      /\ \A i \in DOMAIN log : log'[i] = log[i]
      /\ \A a : HasSent(a)' <=> HasSent(a) \/ a = "INIT_DONE"
    BY <1>1, <1>2, LogAppended
<1>4. Said' = Said
    BY <1>1, <1>2, SaidAppended
<1>5. init_req /\ id = 0 /\ out # <<>> /\ ~HasSent("INIT_DONE") /\ log # <<>>
    BY <1>1 DEF ClientInv, RecvInv, SendInv
<1>6. ConnInv'
    BY <1>1, <1>3 DEF ClientInv, ConnInv
<1>d. init_done
    BY <1>1 DEF ClientInv, RecvInv
<1>7. RecvInv'
    BY <1>1, <1>3, <1>5, <1>d DEF ClientInv, RecvInv
<1>8. SendInv'
  <2>1. \A d \in DOMAIN log' : log'[d].action = "INIT_DONE" => d = Len(log')
      BY <1>3, <1>5 DEF HasSent
  <2> QED BY <1>1, <1>3, <1>4, <1>5, <2>1 DEF ClientInv, SendInv
<1> QED BY <1>m, <1>1, <1>5, <1>6, <1>7, <1>8 DEF ClientInv

\* The server's steps.
LEMMA ServerKeeps ==
    ASSUME ClientInv, main = "running", ServerSide(SvRead \/ SvReply \/ SvTell \/ SvClose)
    PROVE  ClientInv'
<1> USE DEF netVars, flagVars, recvVars, sendVars
<1>1. UNCHANGED <<main, log, flagVars, receiver, sender, carry, typed>> /\ link = "open"
    BY DEF ServerSide, SvRead, SvReply, SvTell, SvSends, SvClose
<1>2. Said' = Said /\ \A a : HasSent(a)' = HasSent(a)
    BY <1>1 DEF Said, HasSent
<1>3. link' # "none" /\ (link' = "open" => link = "open")
    BY DEF ServerSide, SvRead, SvReply, SvTell, SvSends, SvClose
<1>4. read' \in 0 .. Len(log)
    BY DEF ServerSide, SvRead, SvReply, SvTell, SvSends, SvClose, ClientInv, ConnInv
<1>5. /\ out' \in Seq(Replies) /\ (out # <<>> => out' # <<>>)
      /\ out' # <<>> => out'[1].action = "INIT_REQ"
      /\ wire' # <<>> => out' # <<>>
  <2>1. CASE UNCHANGED <<out, wire>>
      BY <2>1 DEF ClientInv, ConnInv
  <2>2. ASSUME NEW m \in Replies, out' = Append(out, m), out = <<>> => m.action = "INIT_REQ"
        PROVE  /\ out' \in Seq(Replies) /\ out' # <<>>
               /\ out'[1].action = "INIT_REQ"
    <3>0. out \in Seq(Replies)
        BY DEF ClientInv, ConnInv
    <3>1. /\ out' \in Seq(Replies) /\ Len(out') = Len(out) + 1 /\ Len(out) \in Nat
          /\ out'[Len(out) + 1] = m /\ \A i \in 1 .. Len(out) : out'[i] = out[i]
        BY <2>2, <3>0
    <3>2. Len(<<>>) = 0
        OBVIOUS
    <3>3. CASE out = <<>>
        BY <2>2, <3>1, <3>2, <3>3
    <3>4. CASE out # <<>>
      <4>1. Len(out) # 0
          BY <3>0, <3>4
      <4>2. 1 \in 1 .. Len(out)
          BY <3>1, <4>1
      <4> QED BY <3>1, <3>2, <3>4, <4>2 DEF ClientInv, ConnInv
    <3> QED BY <3>3, <3>4
  <2>3. CASE SvReply
    <3>1. PICK m \in Replies : m = Msg("INIT_REQ", 0, 0)
        BY DEF Msg, Replies
    <3>2. out' = Append(out, m) /\ m.action = "INIT_REQ"
        BY <2>3, <3>1 DEF SvReply, SvSends, Msg
    <3> QED BY <2>2, <3>2
  <2>4. CASE SvTell
    <3>1. out # <<>>
      <4>1. HasSent("INIT_DONE")
          BY <2>4 DEF SvTell, HasRead, HasSent, ClientInv, ConnInv
      <4> QED BY <4>1 DEF ClientInv, RecvInv
    <3>2. PICK m \in Replies : out' = Append(out, m)
      <4>1. Msg("HELLO", None, 0) \in Replies /\ Msg("UNICAST_REPEATED", None, 0) \in Replies
          BY DEF Msg, Replies
      <4> QED BY <2>4, <4>1 DEF SvTell, SvSends
    <3> QED BY <2>2, <3>1, <3>2
  <2> QED BY <2>1, <2>3, <2>4 DEF ServerSide, SvRead, SvClose
<1>6. ConnInv'
    BY <1>1, <1>3, <1>4, <1>5 DEF ClientInv, ConnInv
<1>7. RecvInv'
    BY <1>1, <1>2, <1>5 DEF ClientInv, RecvInv
<1>8. SendInv'
    BY <1>1, <1>2, <1>3 DEF ClientInv, SendInv
<1> QED BY <1>6, <1>7, <1>8 DEF ClientInv

\* ClientInv is inductive.
LEMMA ClientStepKeeps == ClientInv /\ [Next]_vars => ClientInv'
<1> SUFFICES ASSUME ClientInv, [Next]_vars PROVE ClientInv'
    OBVIOUS
<1>1. CASE UNCHANGED vars
  <2>1. UNCHANGED <<main, netVars, flagVars, recvVars, sendVars>>
      BY <1>1 DEF vars
  <2>2. Said' = Said /\ \A a : HasSent(a)' = HasSent(a)
      BY <2>1 DEF netVars, Said, HasSent
  <2>3. ConnInv'
      BY <2>1 DEF netVars, flagVars, ClientInv, ConnInv
  <2>4. RecvInv'
      BY <2>1, <2>2 DEF netVars, flagVars, recvVars, sendVars, ClientInv, RecvInv
  <2>5. SendInv'
      BY <2>1, <2>2 DEF netVars, flagVars, sendVars, ClientInv, SendInv
  <2> QED BY <2>3, <2>4, <2>5 DEF ClientInv
<1>2. CASE CheckArgs \/ GetSvAddr \/ Connect \/ (main = "running" /\ (Leave \/ Die))
    BY <1>2, MainKeeps
<1>3. CASE main = "running" /\ (Sender \/ ReadLine \/ ReadQuit \/ Receiver)
  <2>1. CASE SendInitReq \/ SendTyped \/ SendInitDone
    <3>1. CASE main' = "killed"
      <4>1. Die
          BY <1>3, <2>1, <3>1 DEF SendInitReq, SendTyped, SendInitDone
      <4> QED BY <1>3, <4>1, MainKeeps
    <3>2. CASE main' # "killed" /\ link # "open"
        BY <1>3, <2>1, <3>2, LostSendKeeps
    <3>3. CASE main' # "killed" /\ link = "open"
      <4>1. CASE SendTyped
        <5>1. sender \in {"line", "quit"}
            BY <4>1 DEF SendTyped
        <5> QED BY <1>3, <3>3, <4>1, <5>1, LineKeeps, QuitKeeps
      <4> QED BY <1>3, <2>1, <3>3, <4>1, InitReqKeeps, InitDoneKeeps
    <3> QED BY <3>1, <3>2, <3>3
  <2>2. CASE ~(SendInitReq \/ SendTyped \/ SendInitDone)
      BY <1>3, <2>2, SenderKeeps, ReceiverKeeps DEF Sender, Receiver
  <2> QED BY <2>1, <2>2
<1>4. CASE main = "running" /\ ServerSide(SvRead \/ SvReply \/ SvTell \/ SvClose)
    BY <1>4, ServerKeeps
<1> QED BY <1>1, <1>2, <1>3, <1>4 DEF Next

\* ClientInv holds in every reachable state of the client program.
THEOREM ClientInvariant == Spec => []ClientInv
<1> QED BY InitClient, ClientStepKeeps, PTL DEF Spec

------------------------------------------------------------------------------
(* The refinement *)

\* a message follows the confirmation
Followed == \E i \in DOMAIN log, d \in DOMAIN log : log[d].action = "INIT_DONE" /\ d < i

\* The stage goes by what was sent ...
LEMMA StageIs ==
    stageOf = IF log = <<>> THEN "new"
              ELSE IF HasSent("CL_DISCONNECTED")
                   THEN IF HasSent("INIT_DONE") THEN "quit" ELSE "leaving"
              ELSE IF ~HasSent("INIT_DONE") THEN "requested"
              ELSE IF Followed THEN "chatting" ELSE "typing"
<1>1. {i \in DOMAIN log : log[i].action = "INIT_DONE"} = {} <=> ~HasSent("INIT_DONE")
    BY DEF HasSent
<1>2. (\E i \in DOMAIN log, d \in {j \in DOMAIN log : log[j].action = "INIT_DONE"} : d < i)
         <=> Followed
    BY DEF Followed
<1> QED BY <1>1, <1>2 DEF stageOf

\* ... also after a step.
LEMMA StageIsNext ==
    stageOf' = IF log' = <<>> THEN "new"
               ELSE IF HasSent("CL_DISCONNECTED")'
                    THEN IF HasSent("INIT_DONE")' THEN "quit" ELSE "leaving"
               ELSE IF ~HasSent("INIT_DONE")' THEN "requested"
               ELSE IF Followed' THEN "chatting" ELSE "typing"
<1>1. {i \in DOMAIN log' : log'[i].action = "INIT_DONE"} = {} <=> ~HasSent("INIT_DONE")'
    BY DEF HasSent
<1>2. (\E i \in DOMAIN log', d \in {j \in DOMAIN log' : log'[j].action = "INIT_DONE"} : d < i)
         <=> Followed'
    BY DEF Followed
<1> QED BY <1>1, <1>2 DEF stageOf

\* A message that is sent after the confirmation follows it.
LEMMA FollowedAppended ==
    ASSUME log \in Seq(Messages), NEW m \in Messages, log' = Append(log, m)
    PROVE  Followed' <=> HasSent("INIT_DONE")
<1>1. /\ DOMAIN log' = DOMAIN log \cup {Len(log) + 1}
      /\ Len(log) \in Nat /\ DOMAIN log = 1 .. Len(log)
      /\ log'[Len(log) + 1] = m /\ \A i \in DOMAIN log : log'[i] = log[i]
    BY LogAppended
<1>2. ASSUME HasSent("INIT_DONE") PROVE Followed'
  <2>1. PICK d \in DOMAIN log : log[d].action = "INIT_DONE"
      BY <1>2 DEF HasSent
  <2>2. d \in DOMAIN log' /\ Len(log) + 1 \in DOMAIN log' /\ log'[d].action = "INIT_DONE"
      BY <1>1, <2>1
  <2>3. d < Len(log) + 1
      BY <1>1
  <2> QED BY <2>2, <2>3 DEF Followed
<1>3. ASSUME Followed' PROVE HasSent("INIT_DONE")
  <2>1. PICK i \in DOMAIN log', d \in DOMAIN log' : log'[d].action = "INIT_DONE" /\ d < i
      BY <1>3 DEF Followed
  <2>2. d \in DOMAIN log
      BY <1>1, <2>1
  <2> QED BY <1>1, <2>1, <2>2 DEF HasSent
<1> QED BY <1>2, <1>3

absVars == <<absNet, absInbox, absOut, absStage, absSaid>>

\* A step the server cannot tell.
LEMMA Unnoticed ==
    ASSUME UNCHANGED <<log, read, out>>, netOf' = netOf
    PROVE  UNCHANGED absVars
<1>1. stageOf' = stageOf
    BY DEF stageOf, HasSent
<1>2. Said' = Said
    BY DEF Said
<1> QED BY <1>1, <1>2 DEF absVars, absNet, absInbox, absOut, absStage, absSaid

\* The connection while the program runs.
LEMMA NetRunning ==
    /\ main = "running" => netOf = IF link \in {"none", "open"} THEN link ELSE "closed"
    /\ main' = "running" => netOf' = IF link' \in {"none", "open"} THEN link' ELSE "closed"
<1> QED BY DEF netOf

\* The functions of one connection, read and changed at it.
LEMMA AbsAt ==
    /\ absNet[0] = netOf /\ absOut[0] = out /\ absStage[0] = stageOf /\ absSaid[0] = Said
    /\ absInbox[0] = SubSeq(log, read + 1, Len(log))
    /\ \A v : [absNet EXCEPT ![0] = v] = [c \in {0} |-> v]
    /\ \A v : [absInbox EXCEPT ![0] = v] = [c \in {0} |-> v]
    /\ \A v : [absStage EXCEPT ![0] = v] = [c \in {0} |-> v]
    /\ \A v : [absSaid EXCEPT ![0] = v] = [c \in {0} |-> v]
<1> QED BY DEF absNet, absInbox, absOut, absStage, absSaid

\* A message sent, as the server sees it.
LEMMA AbsSent ==
    ASSUME log \in Seq(Messages), read \in 0 .. Len(log), NEW m \in Messages,
           log' = Append(log, m), UNCHANGED <<main, link, read, out>>, main = "running"
    PROVE  /\ absInbox' = [absInbox EXCEPT ![0] = Append(@, m)]
           /\ absStage' = [absStage EXCEPT ![0] = stageOf']
           /\ absSaid' = [absSaid EXCEPT ![0] = Said']
           /\ UNCHANGED <<absNet, absOut>>
<1>1. SubSeq(log', read' + 1, Len(log')) = Append(SubSeq(log, read + 1, Len(log)), m)
    BY InboxAppended
<1>2. absInbox' = [absInbox EXCEPT ![0] = Append(@, m)]
    BY <1>1 DEF absInbox
<1>3. absStage' = [absStage EXCEPT ![0] = stageOf']
    BY DEF absStage
<1>4. absSaid' = [absSaid EXCEPT ![0] = Said']
    BY DEF absSaid
<1>5. netOf' = netOf
    BY NetRunning
<1> QED BY <1>2, <1>3, <1>4, <1>5 DEF absNet, absOut

\* INIT_REQ is RequestInit, of an odd client when the name spoils it.
LEMMA RequestsInit ==
    ASSUME ClientInv, main = "running", link = "open", SendInitReq, main' # "killed"
    PROVE  C!RequestInit(0)
<1>a. PICK act \in {"INIT_REQ", "INIT_MISFIT"} :
          Msg(act, None, 0) \in Messages /\ log' = Append(log, Msg(act, None, 0))
    BY InitReqKeeps
<1>m. PICK m \in Messages : m = Msg(act, None, 0)
    BY <1>a
<1>0. log \in Seq(Messages) /\ read \in 0 .. Len(log)
    BY DEF ClientInv, ConnInv
<1>1. log = <<>> /\ log' = Append(log, m) /\ UNCHANGED <<main, link, read, out>>
    BY <1>a, <1>m, InitReqKeeps
<1>2. /\ absInbox' = [absInbox EXCEPT ![0] = Append(@, m)]
      /\ absStage' = [absStage EXCEPT ![0] = stageOf']
      /\ absSaid' = [absSaid EXCEPT ![0] = Said']
      /\ UNCHANGED <<absNet, absOut>>
    BY <1>0, <1>1, AbsSent
<1>3. \A a : ~HasSent(a)
    BY <1>1 DEF HasSent
<1>4. log' # <<>> /\ \A a : HasSent(a)' <=> m.action = a
    BY <1>0, <1>1, <1>3, LogAppended
<1>5. stageOf = "new" /\ stageOf' = "requested"
    BY <1>m, <1>1, <1>4, StageIs, StageIsNext DEF Msg
<1>6. absSaid' = absSaid
  <2>1. Said' = Said
      BY <1>0, <1>m, <1>1, SaidAppended DEF Msg, LineActions
  <2> QED BY <2>1 DEF absSaid
<1>7. absNet[0] = "open" /\ absStage[0] = "new"
    BY <1>5, NetRunning, AbsAt
<1>8. C!May(0, "init") /\ C!May(0, "odd")
    BY DEF C!May
<1>9. C!ClientSends(0, C!Msg(act, None, 0))
    BY <1>m, <1>2 DEF C!ClientSends, C!Msg, Msg
<1> QED BY <1>2, <1>5, <1>6, <1>7, <1>8, <1>9 DEF C!RequestInit

\* INIT_DONE is FinalizeInit.
LEMMA FinalizesInit ==
    ASSUME ClientInv, main = "running", link = "open", SendInitDone, main' # "killed"
    PROVE  C!FinalizeInit(0)
<1>m. PICK m \in Messages : m = Msg("INIT_DONE", None, 0)
    BY InitDoneKeeps
<1>0. log \in Seq(Messages) /\ read \in 0 .. Len(log) /\ out \in Seq(Replies)
    BY DEF ClientInv, ConnInv
<1>1. /\ log # <<>> /\ ~HasSent("INIT_DONE") /\ out # <<>>
      /\ log' = Append(log, m) /\ UNCHANGED <<main, link, read, out>>
    BY <1>m, InitDoneKeeps
<1>2. /\ absInbox' = [absInbox EXCEPT ![0] = Append(@, m)]
      /\ absStage' = [absStage EXCEPT ![0] = stageOf']
      /\ absSaid' = [absSaid EXCEPT ![0] = Said']
      /\ UNCHANGED <<absNet, absOut>>
    BY <1>0, <1>1, AbsSent
<1>3. log' # <<>> /\ \A a : HasSent(a)' <=> HasSent(a) \/ a = "INIT_DONE"
    BY <1>0, <1>m, <1>1, LogAppended DEF Msg
<1>4. ~Followed'
    BY <1>0, <1>1, FollowedAppended
<1>5. /\ stageOf \in {"requested", "leaving"}
      /\ stageOf' = IF stageOf = "requested" THEN "typing" ELSE "quit"
    BY <1>1, <1>3, <1>4, StageIs, StageIsNext
<1>6. absSaid' = absSaid
  <2>1. Said' = Said
      BY <1>0, <1>m, <1>1, SaidAppended DEF Msg, LineActions
  <2> QED BY <2>1 DEF absSaid
<1>7. absNet[0] = "open" /\ absStage[0] = stageOf /\ absOut[0] = out
    BY NetRunning, AbsAt
<1>8. C!Answered(0)
  <2>1. 1 \in DOMAIN out
      BY <1>0, <1>1
  <2>2. out[1].action = "INIT_REQ"
      BY <1>1 DEF ClientInv, ConnInv
  <2> QED BY <1>7, <2>1, <2>2 DEF C!Answered
<1>9. C!ClientSends(0, C!Msg("INIT_DONE", None, 0))
    BY <1>m, <1>2 DEF C!ClientSends, C!Msg, Msg
<1>a. absStage' = [absStage EXCEPT ![0] = IF @ = "requested" THEN "typing" ELSE "quit"]
    BY <1>2, <1>5, <1>7
<1> QED BY <1>2, <1>5, <1>6, <1>7, <1>8, <1>9, <1>a DEF C!FinalizeInit

\* A line is TypeLine.
LEMMA TypesLine ==
    ASSUME ClientInv, main = "running", link = "open", SendTyped, main' # "killed",
           sender = "line"
    PROVE  C!TypeLine(0)
<1>m. PICK m \in Messages :
        /\ m.action \in LineActions /\ m = Msg(m.action, carry, Said + 1)
        /\ log' = Append(log, m)
    BY LineKeeps
<1>0. /\ log \in Seq(Messages) /\ read \in 0 .. Len(log) /\ out \in Seq(Replies)
      /\ carry \in {0, None} /\ None # 0
    BY ClientConstants DEF ClientInv, ConnInv, RecvInv
<1>1. /\ log # <<>> /\ ~HasSent("CL_DISCONNECTED") /\ Said < MaxLines
      /\ UNCHANGED <<main, link, read, out>>
    BY LineKeeps
<1>2. /\ absInbox' = [absInbox EXCEPT ![0] = Append(@, m)]
      /\ absStage' = [absStage EXCEPT ![0] = stageOf']
      /\ absSaid' = [absSaid EXCEPT ![0] = Said']
      /\ UNCHANGED <<absNet, absOut>>
    BY <1>0, <1>m, <1>1, AbsSent
<1>3. /\ log' # <<>>
      /\ HasSent("CL_DISCONNECTED")' <=> HasSent("CL_DISCONNECTED")
      /\ HasSent("INIT_DONE")' <=> HasSent("INIT_DONE")
    BY <1>0, <1>m, LogAppended DEF LineActions
<1>4. Followed' <=> HasSent("INIT_DONE")
    BY <1>0, <1>m, FollowedAppended
<1>5. /\ stageOf \in {"requested", "typing", "chatting"}
      /\ stageOf' = IF stageOf = "typing" THEN "chatting" ELSE stageOf
    BY <1>1, <1>3, <1>4, StageIs, StageIsNext
<1>6. carry = None => stageOf \in {"requested", "typing"}
  <2> SUFFICES ASSUME carry = None PROVE ~Followed
      BY <1>1, StageIs
  <2>1. \A d \in DOMAIN log : log[d].action = "INIT_DONE" => d = Len(log)
      BY DEF ClientInv, SendInv
  <2>2. DOMAIN log = 1 .. Len(log) /\ Len(log) \in Nat
      BY <1>0
  <2> QED BY <2>1, <2>2 DEF Followed
<1>7. absNet[0] = "open" /\ absStage[0] = stageOf /\ absOut[0] = out /\ absSaid[0] = Said
    BY NetRunning, AbsAt
<1>8. carry = 0 => C!Answered(0)
  <2> SUFFICES ASSUME carry = 0 PROVE C!Answered(0)
      OBVIOUS
  <2>0. out # <<>>
      BY DEF ClientInv, RecvInv
  <2>1. 1 \in DOMAIN out
      BY <1>0, <2>0
  <2>2. out[1].action = "INIT_REQ"
      BY <2>0 DEF ClientInv, ConnInv
  <2> QED BY <1>7, <2>1, <2>2 DEF C!Answered
<1>9. absSaid' = [absSaid EXCEPT ![0] = @ + 1]
  <2>1. Said' = Said + 1
      BY <1>0, <1>m, SaidAppended
  <2> QED BY <1>2, <1>7, <2>1
<1>a. absStage' = [absStage EXCEPT ![0] = IF @ = "typing" THEN "chatting" ELSE @]
    BY <1>2, <1>5, <1>7
<1>b. C!ClientSends(0, C!Msg(m.action, carry, absSaid[0] + 1))
    BY <1>m, <1>2, <1>7 DEF C!ClientSends, C!Msg, Msg
<1>c. \A h \in {"line", "early", "odd"} : C!May(0, h)
    BY DEF C!May
<1>d. \E i \in {0, None}, action \in {"UNICAST_REPEATED", "MISFIT"} :
         /\ i = 0 => /\ C!May(0, "line")
                     /\ \/ absStage[0] \in {"typing", "chatting"}
                        \/ absStage[0] = "requested" /\ C!Answered(0)
         /\ i = None => absStage[0] \in {"requested", "typing"} /\ C!May(0, "early")
         /\ action = "MISFIT" => C!May(0, "odd")
         /\ C!ClientSends(0, C!Msg(action, i, absSaid[0] + 1))
  <2> carry \in {0, None} /\ m.action \in {"UNICAST_REPEATED", "MISFIT"}
      BY <1>0, <1>m DEF LineActions
  <2> WITNESS carry \in {0, None}, m.action \in {"UNICAST_REPEATED", "MISFIT"}
  <2> QED BY <1>5, <1>6, <1>7, <1>8, <1>b, <1>c
<1> QED BY <1>1, <1>2, <1>7, <1>9, <1>a, <1>d DEF C!TypeLine

\* #quit is TypeQuit.
LEMMA TypesQuit ==
    ASSUME ClientInv, main = "running", link = "open", SendTyped, main' # "killed",
           sender = "quit"
    PROVE  C!TypeQuit(0)
<1>m. PICK m \in Messages : m = Msg("CL_DISCONNECTED", None, 0)
    BY QuitKeeps
<1>0. log \in Seq(Messages) /\ read \in 0 .. Len(log)
    BY DEF ClientInv, ConnInv
<1>1. /\ log # <<>> /\ ~HasSent("CL_DISCONNECTED")
      /\ log' = Append(log, m) /\ UNCHANGED <<main, link, read, out>>
    BY <1>m, QuitKeeps
<1>2. /\ absInbox' = [absInbox EXCEPT ![0] = Append(@, m)]
      /\ absStage' = [absStage EXCEPT ![0] = stageOf']
      /\ absSaid' = [absSaid EXCEPT ![0] = Said']
      /\ UNCHANGED <<absNet, absOut>>
    BY <1>0, <1>1, AbsSent
<1>3. log' # <<>> /\ \A a : HasSent(a)' <=> HasSent(a) \/ a = "CL_DISCONNECTED"
    BY <1>0, <1>m, <1>1, LogAppended DEF Msg
<1>4. /\ stageOf \in {"requested", "typing", "chatting"}
      /\ stageOf' = IF stageOf = "requested" THEN "leaving" ELSE "quit"
    BY <1>1, <1>3, StageIs, StageIsNext
<1>5. absSaid' = absSaid
  <2>1. Said' = Said
      BY <1>0, <1>m, <1>1, SaidAppended DEF Msg, LineActions
  <2> QED BY <2>1 DEF absSaid
<1>6. absNet[0] = "open" /\ absStage[0] = stageOf
    BY NetRunning, AbsAt
<1>7. C!May(0, "quit")
    BY DEF C!May
<1>8. C!ClientSends(0, C!Msg("CL_DISCONNECTED", None, 0))
    BY <1>m, <1>2 DEF C!ClientSends, C!Msg, Msg
<1>9. absStage' = [absStage EXCEPT ![0] = IF @ = "requested" THEN "leaving" ELSE "quit"]
    BY <1>2, <1>4, <1>6
<1> QED BY <1>2, <1>4, <1>5, <1>6, <1>7, <1>8, <1>9 DEF C!TypeQuit

\* The end of the program is HangUp, or is not noticed by a server that has closed.
LEMMA HangsUp ==
    ASSUME ClientInv, main = "running", main' \in {"exited", "killed"}, UNCHANGED netVars
    PROVE  C!HangUp(0) \/ UNCHANGED absVars
<1>0. UNCHANGED <<log, read, out, link, wire>> /\ link # "none"
    BY DEF netVars, ClientInv, ConnInv
<1>1. CASE link # "open"
  <2>1. netOf' = netOf
      BY <1>0, <1>1 DEF netOf
  <2> QED BY <1>0, <2>1, Unnoticed
<1>2. CASE link = "open"
  <2>1. netOf = "open" /\ netOf' \in {"fin", "rst"} /\ (netOf' = "rst" => out # <<>>)
      BY <1>0, <1>2 DEF netOf, ClientInv, ConnInv
  <2>2. UNCHANGED <<absInbox, absOut, absStage, absSaid>>
    <3>1. stageOf' = stageOf
        BY <1>0 DEF stageOf, HasSent
    <3>2. Said' = Said
        BY <1>0 DEF Said
    <3> QED BY <1>0, <3>1, <3>2 DEF absInbox, absOut, absStage, absSaid
  <2>3. absNet[0] = "open" /\ absOut[0] = out /\ absNet' = [absNet EXCEPT ![0] = netOf']
      BY <2>1 DEF absNet, absOut
  <2>4. C!May(0, "hangup") /\ C!May(0, "reset")
      BY DEF C!May
  <2> QED BY <2>1, <2>2, <2>3, <2>4 DEF C!HangUp
<1> QED BY <1>1, <1>2

\* The constructor's connect is Connect.
LEMMA Connects ==
    ASSUME ClientInv, Connect
    PROVE  C!Connect(0) \/ UNCHANGED absVars
<1>0. /\ UNCHANGED <<log, read, out>> /\ link = "none" /\ main = "connect"
      /\ \/ main' = "running" /\ link' = "open"
         \/ main' = "failed" /\ link' = link
    BY DEF Connect, ClientInv, ConnInv
<1>1. netOf = "none"
    BY <1>0 DEF netOf
<1>2. CASE main' = "failed"
  <2>1. netOf' = netOf
      BY <1>0, <1>1, <1>2 DEF netOf
  <2> QED BY <1>0, <2>1, Unnoticed
<1>3. CASE main' = "running" /\ link' = "open"
  <2>1. netOf' = "open"
      BY <1>3 DEF netOf
  <2>2. UNCHANGED <<absInbox, absOut, absStage, absSaid>>
    <3>1. stageOf' = stageOf
        BY <1>0 DEF stageOf, HasSent
    <3>2. Said' = Said
        BY <1>0 DEF Said
    <3> QED BY <1>0, <3>1, <3>2 DEF absInbox, absOut, absStage, absSaid
  <2>3. absNet[0] = "none" /\ absNet' = [absNet EXCEPT ![0] = "open"]
      BY <1>1, <2>1 DEF absNet
  <2>4. \A d \in 0 .. 0 - 1 : absNet[d] # "none"
      OBVIOUS
  <2> QED BY <2>2, <2>3, <2>4 DEF C!Connect
<1> QED BY <1>0, <1>2, <1>3

\* What the server does to the connection is what AbsServer allows.
LEMMA ServerServes ==
    ASSUME ClientInv, main = "running", ServerSide(SvRead \/ SvReply \/ SvTell \/ SvClose)
    PROVE  AbsServer
<1>0. /\ log \in Seq(Messages) /\ out \in Seq(Replies) /\ main' = main /\ log' = log
      /\ link = "open"
    BY DEF ServerSide, SvRead, SvReply, SvTell, SvSends, SvClose, ClientInv, ConnInv
<1>1. UNCHANGED <<absStage, absSaid>>
  <2>1. stageOf' = stageOf
      BY <1>0 DEF stageOf, HasSent
  <2>2. Said' = Said
      BY <1>0 DEF Said
  <2> QED BY <2>1, <2>2 DEF absStage, absSaid
<1>2. link' = link => UNCHANGED absNet
    BY <1>0, NetRunning DEF absNet
<1>3. CASE SvRead
  <2>1. absInbox'[0] = <<>>
    <3>1. SubSeq(log, Len(log) + 1, Len(log)) = <<>>
        BY <1>0
    <3> QED BY <1>0, <1>3, <3>1 DEF SvRead, absInbox
  <2> QED BY <1>1, <1>2, <1>3, <2>1 DEF SvRead, AbsServer, absOut
<1>4. CASE SvReply \/ SvTell
  <2>1. PICK m : out' = Append(out, m) /\ UNCHANGED <<link, read>>
      BY <1>4 DEF SvReply, SvTell, SvSends
  <2>2. Len(out') = Len(out) + 1
      BY <1>0, <2>1
  <2>3. UNCHANGED absInbox
      BY <1>0, <2>1 DEF absInbox
  <2> QED BY <1>1, <1>2, <2>1, <2>2, <2>3 DEF AbsServer, absOut
<1>5. CASE SvClose
  <2>1. link' \in {"rst", "fin"} /\ UNCHANGED <<log, read, out>>
      BY <1>5 DEF SvClose
  <2>2. absNet'[0] = "closed"
      BY <1>0, <2>1, NetRunning DEF absNet
  <2> QED BY <1>1, <2>1, <2>2 DEF AbsServer, absOut, absInbox
<1> QED BY <1>3, <1>4, <1>5 DEF ServerSide

\* Every step of the program is a step of Clients, one the server takes, or neither.
LEMMA ClientRefines ==
    ASSUME ClientInv, [Next]_vars
    PROVE  [C!ClientStep(0) \/ AbsServer]_absVars
<1>1. CASE UNCHANGED vars
  <2>1. UNCHANGED <<log, read, out, main, link, wire>>
      BY <1>1 DEF vars, netVars
  <2>2. netOf' = netOf
      BY <2>1 DEF netOf
  <2> QED BY <2>1, <2>2, Unnoticed
<1>2. CASE CheckArgs \/ GetSvAddr
  <2>1. /\ UNCHANGED <<log, read, out, link, wire>>
        /\ main \notin {"exited", "killed"} /\ main' \notin {"exited", "killed"}
      BY <1>2 DEF CheckArgs, GetSvAddr, netVars
  <2>2. netOf' = netOf
      BY <2>1 DEF netOf
  <2> QED BY <2>1, <2>2, Unnoticed
<1>3. CASE Connect
    BY <1>3, Connects DEF C!ClientStep
<1>4. CASE main = "running" /\ (Leave \/ Die)
  <2>1. main' \in {"exited", "killed"} /\ UNCHANGED netVars
      BY <1>4 DEF Leave, Die
  <2> QED BY <1>4, <2>1, HangsUp DEF C!ClientStep
<1>5. CASE main = "running" /\ (SendInitReq \/ SendTyped \/ SendInitDone)
  <2>1. CASE main' = "killed"
    <3>1. UNCHANGED netVars
        BY <1>5, <2>1 DEF SendInitReq, SendTyped, SendInitDone, Die
    <3> QED BY <1>5, <2>1, <3>1, HangsUp DEF C!ClientStep
  <2>2. CASE main' # "killed" /\ link # "open"
    <3>1. UNCHANGED <<log, read, out, main>> /\ link' \notin {"open", "none"}
        BY <1>5, <2>2, LostSendKeeps DEF Silent
    <3>2. link # "none"
        BY <1>5 DEF ClientInv, ConnInv
    <3>3. netOf' = netOf
        BY <1>5, <2>2, <3>1, <3>2, NetRunning
    <3> QED BY <3>1, <3>3, Unnoticed
  <2>3. CASE main' # "killed" /\ link = "open"
    <3>1. CASE SendInitReq
        BY <1>5, <2>3, <3>1, RequestsInit DEF C!ClientStep
    <3>2. CASE SendInitDone
        BY <1>5, <2>3, <3>2, FinalizesInit DEF C!ClientStep
    <3>3. CASE SendTyped
      <4>1. sender \in {"line", "quit"}
          BY <3>3 DEF SendTyped
      <4> QED BY <1>5, <2>3, <3>3, <4>1, TypesLine, TypesQuit DEF C!ClientStep
    <3> QED BY <1>5, <3>1, <3>2, <3>3
  <2> QED BY <2>1, <2>2, <2>3
<1>6. CASE /\ main = "running"
           /\ \/ SendHead \/ SetInitReq \/ SendWoken \/ ReadLine \/ ReadQuit
              \/ ReceiveHead \/ ReceiveBytes \/ ReceiveEnd \/ ReceiveError \/ WakeSender
              \/ Dispatch \/ SetId \/ SetInitDone
  <2>1. /\ UNCHANGED <<log, read, out, main>>
        /\ link' = link \/ (link = "rst" /\ link' = "down")
      BY <1>6 DEF SendHead, SetInitReq, SendWoken, ReadLine, ReadQuit, ReceiveHead, ReceiveBytes,
            ReceiveEnd, ReceiveError, WakeSender, Dispatch, SetId, SetInitDone, netVars
  <2>2. netOf' = netOf
      BY <1>6, <2>1, NetRunning
  <2> QED BY <2>1, <2>2, Unnoticed
<1>7. CASE main = "running" /\ ServerSide(SvRead \/ SvReply \/ SvTell \/ SvClose)
    BY <1>7, ServerServes
<1> QED BY <1>1, <1>2, <1>3, <1>4, <1>5, <1>6, <1>7 DEF Next, Sender, Receiver

\* The client program implements the clients the server's proofs assume: it asks once
\* and first, confirms once and only a reply, sends at most one line without its id
\* after that, and says nothing but a late INIT_DONE after CL_DISCONNECTED.
THEOREM ProgramIsAClient == Spec => ImplementsClients
<1>1. Init => C!ClientsInit
  <2> SUFFICES ASSUME Init PROVE C!ClientsInit
      OBVIOUS
  <2>1. C!Conn = {0}
      BY DEF C!Conn
  <2>2. log = <<>> /\ read = 0 /\ out = <<>> /\ netOf = "none"
      BY DEF Init, netOf
  <2>3. SubSeq(log, read + 1, Len(log)) = <<>>
      BY <2>2
  <2>4. stageOf = "new"
      BY <2>2 DEF stageOf
  <2>5. Said = 0
    <3>1. {i \in DOMAIN log : log[i].action \in LineActions} = {}
        BY <2>2
    <3> QED BY <3>1, FS_EmptySet DEF Said
  <2> QED BY <2>1, <2>2, <2>3, <2>4, <2>5
          DEF C!ClientsInit, absNet, absInbox, absOut, absStage, absSaid
<1>2. ClientInv /\ [Next]_vars => [C!ClientStep(0) \/ AbsServer]_absVars
    BY ClientRefines
<1> QED BY <1>1, <1>2, ClientInvariant, PTL DEF Spec, ImplementsClients, absVars

==============================================================================
