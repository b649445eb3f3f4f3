----------------------------- MODULE ChatClient ------------------------------
(***************************************************************************)
(* One client program (src/Client): main starts it, a sending thread reads *)
(* the console, a receiving thread reads the socket, and both share the    *)
(* handshake flags, the id and the stop source.  The steps are those at    *)
(* which the threads can be interleaved with each other and with the       *)
(* server: INIT_REQ is sent before init_req is set, the id is copied into  *)
(* a line before the line is sent, a #quit stops the loops before it is    *)
(* announced.                                                              *)
(*                                                                         *)
(* The server is the environment.  It answers INIT_REQ, greets, sends      *)
(* notices, and may close the connection at any moment.  A message is sent *)
(* as bytes and received as whatever one recv returns.  Of the fields of a *)
(* message only the thread number (empty), the action and the text are     *)
(* kept; the id in the reply is the client's, 0 here.                      *)
(***************************************************************************)
EXTENDS Framing

CONSTANTS MaxLines,   \* bound: lines the user types
          Texts,      \* bound: the texts the server sends, in order: greeting and notices
          Dirty,      \* the buffer of receive_loop, never initialised, may hold something
          None        \* the empty id

Letters == UNION {{Texts[k][i] : i \in DOMAIN Texts[k]} : k \in DOMAIN Texts}

ASSUME ClientConstants ==
    /\ MaxLines \in Nat
    /\ Texts \in Seq(Seq(Letters))
    /\ split_token \notin Letters /\ NUL \notin Letters
    /\ nr_of_separations = 3     \* the fields kept
    /\ Dirty \in BOOLEAN
    /\ None # 0

VARIABLES main,        \* where main stands
          named,       \* the name typed at the start is not empty
          link,        \* the connection: how the server has ended it, if it has
          log, read,   \* messages sent to the server; how many it has read
          out,         \* messages the server has sent
          wire,        \* their bytes that were not received yet
          frame,       \* msg_frame of start_receive_loop
          init_req, init_done, id,
          stop,        \* client_done_source
          cl_event_fd, \* it is not zero
          sender,      \* pc of start_send_loop
          receiver,    \* pc of start_receive_loop
          carry,       \* id in the line being sent
          typed,       \* lines the user has typed
          shown,       \* texts displayed
          mixed        \* some recv has not returned exactly one message

netVars == <<link, log, read, out, wire>>
flagVars == <<init_req, init_done, id, stop, cl_event_fd>>
recvVars == <<frame, receiver, shown, mixed>>
sendVars == <<sender, carry, typed>>
vars == <<main, named, netVars, flagVars, recvVars, sendVars>>

\* "fin": closed; "finrst": closed, and our data was answered with a reset; "rst":
\* reset, error not reported yet; "down": reset and reported
Links == {"none", "open", "fin", "finrst", "rst", "down"}
Ended == {"failed", "exited", "killed"}

Msg(action, i, n) == [action |-> action, id |-> i, n |-> n]
LineActions == {"UNICAST_REPEATED", "MISFIT"}
Said == Cardinality({i \in DOMAIN log : log[i].action \in LineActions})
HasSent(action) == \E i \in DOMAIN log : log[i].action = action
HasRead(action) == \E i \in 1 .. read : log[i].action = action

\* what an uninitialised buffer may hold
Garbage == {Cleared, [i \in 1 .. MAX_LEN |-> "?"],
            [i \in 1 .. MAX_LEN |-> IF i = MAX_LEN THEN split_token ELSE "?"]}

Init ==
    /\ main = "start" /\ named = FALSE
    /\ link = "none" /\ log = <<>> /\ read = 0 /\ out = <<>> /\ wire = <<>>
    /\ frame \in IF Dirty THEN Garbage ELSE {Cleared}
    /\ init_req = FALSE /\ init_done = FALSE /\ id = None
    /\ stop = FALSE /\ cl_event_fd = FALSE
    /\ sender = "none" /\ receiver = "none"
    /\ carry = None /\ typed = 0 /\ shown = <<>> /\ mixed = FALSE

------------------------------------------------------------------------------
(* Client_main.cpp *)

\* check_argv_1: LOCALHOST, LAN, or a wrong argument
CheckArgs ==
    /\ main = "start"
    /\ main' \in {"connect", "lookup", "failed"}
    /\ UNCHANGED <<named, netVars, flagVars, recvVars, sendVars>>

\* get_sv_addr asks avahi-browse; an answer that does not look like an address,
\* such as none, ends main
GetSvAddr ==
    /\ main = "lookup"
    /\ main' \in {"connect", "failed"}
    /\ UNCHANGED <<named, netVars, flagVars, recvVars, sendVars>>

\* the constructor reads the name and connects; what it throws is caught in main
Connect ==
    /\ main = "connect"
    /\ named' \in BOOLEAN
    /\ \/ /\ main' = "running" /\ link' = "open"
          /\ sender' = "head" /\ receiver' = "head"
       \/ main' = "failed" /\ UNCHANGED <<link, sender, receiver>>
    /\ UNCHANGED <<log, read, out, wire, flagVars, frame, shown, mixed, carry, typed>>

\* both threads were joined and ~Client closes the socket
Leave ==
    /\ main = "running"
    /\ sender = "exited" /\ receiver = "exited"
    /\ main' = "exited"
    /\ UNCHANGED <<named, netVars, flagVars, recvVars, sendVars>>

\* an exception leaves a thread, or a signal ends the program (Ctrl+C, SIGPIPE)
Die ==
    /\ main' = "killed"
    /\ UNCHANGED <<named, netVars, flagVars, recvVars, sendVars>>

------------------------------------------------------------------------------
(* send, as the kernel answers it *)

\* taken; a server that has closed answers with a reset, sooner or later
SendTaken(m) ==
    /\ \/ link = "open" /\ log' = Append(log, m) /\ UNCHANGED link
       \/ link = "fin" /\ link' \in {"fin", "finrst"} /\ UNCHANGED log
    /\ UNCHANGED <<read, out, wire>>

\* the pending error is reported: send_msg throws
SendFails == link = "rst" /\ link' = "down" /\ UNCHANGED <<log, read, out, wire>>

\* SIGPIPE, which nobody handles
SendKills == link \in {"finrst", "down"}

------------------------------------------------------------------------------
(* start_send_loop *)

\* the tests at the head of the loop; without a name it spins there
SendHead ==
    /\ sender = "head"
    /\ stop \/ init_req \/ named
    /\ sender' = IF stop THEN "exited" ELSE IF init_req THEN "wait" ELSE "init"
    /\ UNCHANGED <<main, named, netVars, flagVars, recvVars, carry, typed>>

\* INIT_REQ, which the name may spoil; an exception here leaves the thread
SendInitReq ==
    /\ sender = "init"
    /\ \/ /\ \E a \in {"INIT_REQ", "INIT_MISFIT"} : SendTaken(Msg(a, None, 0))
          /\ sender' = "flag"
          /\ UNCHANGED <<main, named, flagVars, recvVars, carry, typed>>
       \/ (SendKills \/ link = "rst") /\ Die

SetInitReq ==
    /\ sender = "flag"
    /\ init_req' = TRUE
    /\ sender' = "head"
    /\ UNCHANGED <<main, named, netVars, init_done, id, stop, cl_event_fd, recvVars, carry, typed>>

\* epoll_wait returns because of cl_event_fd, which is never read
SendWoken ==
    /\ sender = "wait"
    /\ cl_event_fd
    /\ sender' = "head"
    /\ UNCHANGED <<main, named, netVars, flagVars, recvVars, carry, typed>>

\* send_msg_from_stdin: a line was typed, and the id of this moment goes into it
ReadLine ==
    /\ sender = "wait"
    /\ typed < MaxLines
    /\ typed' = typed + 1
    /\ carry' = id
    /\ sender' = "line"
    /\ UNCHANGED <<main, named, netVars, flagVars, recvVars>>

\* send_msg_from_stdin: #quit
ReadQuit ==
    /\ sender = "wait"
    /\ stop' = TRUE
    /\ sender' = "quit"
    /\ UNCHANGED <<main, named, netVars, init_req, init_done, id, cl_event_fd, recvVars, carry, typed>>

\* the message is sent; what send_msg throws is caught
SendTyped ==
    /\ sender \in {"line", "quit"}
    /\ \/ /\ \/ sender = "line" /\ \E a \in LineActions : SendTaken(Msg(a, carry, Said + 1))
             \/ sender = "quit" /\ SendTaken(Msg("CL_DISCONNECTED", None, 0))
             \/ SendFails
          /\ sender' = "head"
          /\ UNCHANGED <<main, named, flagVars, recvVars, carry, typed>>
       \/ SendKills /\ Die

------------------------------------------------------------------------------
(* start_receive_loop *)

ReceiveHead ==
    /\ receiver = "head"
    /\ receiver' = IF stop THEN "exited" ELSE "wait"
    /\ UNCHANGED <<main, named, netVars, flagVars, frame, shown, mixed, sendVars>>

\* receive_msg: bytes
ReceiveBytes ==
    /\ receiver = "wait"
    /\ wire # <<>>
    /\ LET bytes == Chunk(wire)
       IN  /\ frame' = Received(frame, bytes)
           /\ wire' = SubSeq(wire, Len(bytes) + 1, Len(wire))
           /\ mixed' = (mixed \/ ~ValidFormat(bytes))
    /\ receiver' = "got"
    /\ UNCHANGED <<main, named, link, log, read, out, flagVars, shown, sendVars>>

\* receive_msg: the end of the connection
ReceiveEnd ==
    /\ receiver = "wait"
    /\ wire = <<>>
    /\ link \in {"fin", "finrst", "down"}
    /\ stop' = TRUE
    /\ receiver' = "signal"
    /\ UNCHANGED <<main, named, netVars, init_req, init_done, id, cl_event_fd, frame, shown, mixed,
                   sendVars>>

\* receive_msg throws on a reset, which is caught; the next recv finds the end
ReceiveError ==
    /\ receiver = "wait"
    /\ wire = <<>>
    /\ link = "rst"
    /\ link' = "down"
    /\ receiver' = "head"
    /\ UNCHANGED <<main, named, log, read, out, wire, flagVars, frame, shown, mixed, sendVars>>

\* Mutant of WakeSender: cl_event_fd is not written.
WakeNobody ==
    /\ receiver = "signal"
    /\ receiver' = "head"
    /\ UNCHANGED <<main, named, netVars, flagVars, frame, shown, mixed, sendVars>>

\* the write to cl_event_fd
WakeSender ==
    /\ receiver = "signal"
    /\ cl_event_fd' = TRUE
    /\ receiver' = "head"
    /\ UNCHANGED <<main, named, netVars, init_req, init_done, id, stop, frame, shown, mixed, sendVars>>

\* Mutant of Displayed: whatever was received is displayed.
DisplayedAll(msg) == Append(shown, msg[3])

\* stdout_formatted_msg displays UNICAST_REPEATED
Displayed(msg) == IF msg[2] = <<"U">> THEN Append(shown, msg[3]) ELSE shown

\* Mutant of FrameAfter: the buffer is not cleared after a message.
FrameKept(msg) == frame

\* the buffer once the message was dealt with; a reply is dealt with by finalize_init
FrameAfter(msg) == IF ~init_done /\ msg[2] = <<"R">> THEN frame ELSE Cleared

\* receive_msg_from_sv after recv.  Nothing is taken before init_req is set, and
\* what construct_from_string rejects is left in the buffer.
Dispatch ==
    /\ receiver = "got"
    /\ LET str == CString(frame)
           msg == construct_from_string(str)
       IN  IF ~init_req \/ ~ValidFormat(str)
           THEN receiver' = "head" /\ UNCHANGED <<frame, shown>>
           ELSE /\ receiver' = IF ~init_done /\ msg[2] = <<"R">> THEN "id" ELSE "head"
                /\ frame' = FrameAfter(msg)
                /\ shown' = IF init_done THEN Displayed(msg) ELSE shown
    /\ UNCHANGED <<main, named, netVars, flagVars, mixed, sendVars>>

\* Mutant of SetId: the id is never stored.
SetNothing ==
    /\ receiver = "id"
    /\ receiver' = "done"
    /\ UNCHANGED <<main, named, netVars, flagVars, frame, shown, mixed, sendVars>>

\* finalize_init: the id is assigned, without the mutex
SetId ==
    /\ receiver = "id"
    /\ id' = 0
    /\ receiver' = "done"
    /\ UNCHANGED <<main, named, netVars, init_req, init_done, stop, cl_event_fd, frame, shown, mixed,
                   sendVars>>

SetInitDone ==
    /\ receiver = "done"
    /\ init_done' = TRUE
    /\ receiver' = "answer"
    /\ UNCHANGED <<main, named, netVars, init_req, id, stop, cl_event_fd, frame, shown, mixed, sendVars>>

\* finalize_init: INIT_DONE; when send_msg throws the buffer is not cleared
SendInitDone ==
    /\ receiver = "answer"
    /\ \/ /\ \/ SendTaken(Msg("INIT_DONE", None, 0)) /\ frame' = Cleared
             \/ SendFails /\ UNCHANGED frame
          /\ receiver' = "head"
          /\ UNCHANGED <<main, named, flagVars, shown, mixed, sendVars>>
       \/ SendKills /\ Die

Sender == SendHead \/ SendInitReq \/ SetInitReq \/ SendWoken \/ SendTyped

Receiver ==
    \/ ReceiveHead \/ ReceiveBytes \/ ReceiveEnd \/ ReceiveError \/ WakeSender
    \/ Dispatch \/ SetId \/ SetInitDone \/ SendInitDone

------------------------------------------------------------------------------
(* The server, as far as one client can tell *)

Told == Len(out) - 1      \* texts sent so far, after the reply

SvSends(m, action, text) ==
    /\ out' = Append(out, m)
    /\ wire' = wire \o get_concatenated_msg(<< <<>>, action, text >>)
    /\ UNCHANGED <<link, log, read>>

SvRead ==
    /\ read < Len(log)
    /\ read' = Len(log)
    /\ UNCHANGED <<link, log, out, wire>>

SvReply ==
    /\ HasRead("INIT_REQ") /\ ~HasRead("CL_DISCONNECTED")
    /\ out = <<>>
    /\ SvSends(Msg("INIT_REQ", 0, 0), <<"R">>, <<>>)

\* the greeting, then notices
SvTell ==
    /\ HasRead("INIT_DONE") /\ ~HasRead("CL_DISCONNECTED")
    /\ Told < Len(Texts)
    /\ SvSends(Msg(IF Told = 0 THEN "HELLO" ELSE "UNICAST_REPEATED", None, 0), <<"U">>, Texts[Told + 1])

\* closing with data unread resets the connection
SvClose ==
    /\ link' = IF read < Len(log) THEN "rst" ELSE "fin"
    /\ UNCHANGED <<log, read, out, wire>>

ServerSide(A) ==
    /\ link = "open"
    /\ A
    /\ UNCHANGED <<main, named, flagVars, recvVars, sendVars>>

Next ==
    \/ CheckArgs \/ GetSvAddr \/ Connect
    \/ /\ main = "running"
       /\ \/ Sender \/ ReadLine \/ ReadQuit \/ Receiver \/ Leave \/ Die
          \/ ServerSide(SvRead \/ SvReply \/ SvTell \/ SvClose)

Spec == Init /\ [][Next]_vars

\* The threads go on when they can; the user need not type, nor the server send.
\* A server that was told CL_DISCONNECTED closes the connection in the end.
FairSpec ==
    /\ Spec
    /\ WF_vars(main = "running" /\ Sender)
    /\ WF_vars(main = "running" /\ Receiver)
    /\ WF_vars(Leave)
    /\ WF_vars(main = "running" /\ HasSent("CL_DISCONNECTED") /\ ServerSide(SvClose))

------------------------------------------------------------------------------
(* Correctness *)

Senders == {"none", "head", "init", "flag", "wait", "line", "quit", "exited"}
Receivers == {"none", "head", "wait", "got", "signal", "id", "done", "answer", "exited"}
Bytes == Letters \cup {"R", "U", "?", split_token, NUL}

\* Every variable keeps its type; in particular recv never writes past the buffer.
TypeOK ==
    /\ main \in {"start", "lookup", "connect", "running"} \cup Ended
    /\ link \in Links
    /\ read \in 0 .. Len(log)
    /\ Len(frame) = MAX_LEN /\ \A i \in 1 .. MAX_LEN : frame[i] \in Bytes
    /\ {named, init_req, init_done, stop, cl_event_fd, mixed} \subseteq BOOLEAN
    /\ {id, carry} \subseteq {0, None}
    /\ sender \in Senders /\ receiver \in Receivers
    /\ typed \in 0 .. MaxLines

\* Whatever recv makes of the stream (several messages at once, one cut in two at
\* the end of the buffer, remains of an earlier one behind a shorter one): what is
\* displayed are texts the server has sent, in that order and none twice.
ShownIsReal ==
    \E sent \in [DOMAIN shown -> 1 .. Told] :
        \A i, j \in DOMAIN shown :
            /\ shown[i] = Texts[sent[i]]
            /\ i < j => sent[i] < sent[j]

\* A text is lost only by arriving together with another: as long as every recv has
\* returned one message, an initialised client that has caught up has displayed
\* everything the server has sent it.
AloneIsShown ==
    (init_done /\ ~mixed /\ wire = <<>> /\ receiver \in {"head", "wait"})
        => shown = SubSeq(Texts, 1, Told)

\* When the user quits, or the server ends the connection, both threads and the
\* program end: each thread is woken from whatever it waits for.
LoopsEnd == (stop \/ link \notin {"none", "open"}) ~> main \in Ended

------------------------------------------------------------------------------
(* The program behaves towards the server as Clients says *)

stageOf ==
    LET done == {i \in DOMAIN log : log[i].action = "INIT_DONE"}
    IN  IF log = <<>> THEN "new"
        ELSE IF HasSent("CL_DISCONNECTED") THEN IF done = {} THEN "leaving" ELSE "quit"
        ELSE IF done = {} THEN "requested"
        ELSE IF \E i \in DOMAIN log, d \in done : d < i THEN "chatting" ELSE "typing"

netOf == IF link \notin {"none", "open"} THEN "closed"
         ELSE IF main \notin {"exited", "killed"} THEN link
         ELSE IF wire = <<>> THEN "fin" ELSE "rst"

absNet == [c \in {0} |-> netOf]
absInbox == [c \in {0} |-> SubSeq(log, read + 1, Len(log))]
absOut == [c \in {0} |-> out]
absStage == [c \in {0} |-> stageOf]
absSaid == [c \in {0} |-> Said]

C == INSTANCE Clients
         WITH MaxConns <- 1, Staid <- {},
              Habits <- {"init", "line", "early", "odd", "quit", "hangup", "reset"},
              net <- absNet, inbox <- absInbox, out <- absOut, stage <- absStage, said <- absSaid

\* what the server does to a connection
AbsServer ==
    /\ UNCHANGED <<absStage, absSaid>>
    /\ \/ absInbox'[0] = <<>> /\ UNCHANGED <<absNet, absOut>>
       \/ Len(absOut'[0]) = Len(absOut[0]) + 1 /\ UNCHANGED <<absNet, absInbox>>
       \/ absNet'[0] = "closed" /\ UNCHANGED <<absOut, absInbox>>

\* Whatever its threads do, the program is one of the clients the server's model is
\* checked against: it asks first and confirms once, only the line that was being
\* sent when the reply came lacks the id, and nothing but a late INIT_DONE follows
\* a CL_DISCONNECTED.
ImplementsClients ==
    C!ClientsInit /\ [][C!ClientStep(0) \/ AbsServer]_<<absNet, absInbox, absOut, absStage, absSaid>>

------------------------------------------------------------------------------
(* What the documentation says, and the code does not keep *)

\* A client that has received the server's reply answers it with INIT_DONE.
ConfirmationAnswered ==
    (out # <<>> /\ wire = <<>>) ~> (HasSent("INIT_DONE") \/ stop \/ link # "open" \/ main \in Ended)
==============================================================================
