------------------------------- MODULE Clients -------------------------------
(***************************************************************************)
(* The chat clients and their TCP connections, as the server sees them.    *)
(* A client program connects, sends INIT_REQ, answers the server's reply   *)
(* with INIT_DONE, sends the lines typed by its user, and says             *)
(* CL_DISCONNECTED when the user types #quit; it may also be killed at any *)
(* moment.  The socket is modelled from how the server uses it: what has   *)
(* arrived and was not read yet, what was sent, and how the peer ended.    *)
(*                                                                         *)
(* Connections are numbered in the order they are accepted.  The number    *)
(* stands for the personal_id, which Client_Data takes from a counter: a   *)
(* fresh, larger one for every client (a refused connection uses none).    *)
(***************************************************************************)
EXTENDS Integers, Sequences, FiniteSets

CONSTANTS MaxConns,   \* bound: connections made in one behaviour
          MaxLines,   \* bound: chat lines sent by one client
          Habits,     \* bound: which of AllHabits occur in the behaviours looked at
          Staid,      \* bound: clients that only connect, ask for an id and send lines
          None        \* no client, no worker, no id

Conn == 0 .. MaxConns - 1

\* what may happen besides connecting: the handshake, a line, a line typed before
\* the id is known, a name or a line that makes no well-formed message, #quit, the
\* end of a client (with or without unread data), a client that has stopped
\* reading, #quit on the server's console, and accept4 or fcntl failing
AllHabits == {"init", "line", "early", "odd", "quit", "hangup", "reset", "stall",
              "stop", "fault"}

ASSUME ClientAssumption ==
    /\ MaxConns \in Nat
    /\ MaxLines \in Nat
    /\ Habits \subseteq AllHabits
    /\ Staid \subseteq Conn
    /\ None \notin Int

May(c, habit) == habit \in Habits /\ (c \in Staid => habit \in {"init", "line"})

VARIABLES net,     \* state of each connection, one of NetStates
          inbox,   \* what the client sent and the server has not read
          out,     \* everything the server has sent to the client
          stage,   \* how far the client program has come
          said     \* chat lines the client has sent

clientVars == <<net, inbox, out, stage, said>>

\* "fin": the client closed; "finrst": it closed and has answered data with a
\* reset; "rst": it was reset with data unread; "closed": the server closed.
NetStates == {"none", "open", "fin", "finrst", "rst", "closed"}

\* "typing": initialised, but the line being sent may have been composed before
\* the id was known (send_msg_from_stdin reads the id without a lock);
\* "leaving": #quit was typed before the server's reply was dealt with
Stages == {"new", "requested", "typing", "chatting", "leaving", "quit"}

\* one message: its action, the id in it and, for a chat line, its number
Msg(action, id, n) == [action |-> action, id |-> id, n |-> n]

ClientsInit ==
    /\ net = [c \in Conn |-> "none"]
    /\ inbox = [c \in Conn |-> <<>>]
    /\ out = [c \in Conn |-> <<>>]
    /\ stage = [c \in Conn |-> "new"]
    /\ said = [c \in Conn |-> 0]

Connect(c) ==
    /\ net[c] = "none"
    /\ \A d \in 0 .. c - 1 : net[d] # "none"
    /\ net' = [net EXCEPT ![c] = "open"]
    /\ UNCHANGED <<inbox, out, stage, said>>

ClientSends(c, m) == inbox' = [inbox EXCEPT ![c] = Append(@, m)]

\* start_send_loop: the name is known, ask for an id and a colour.  An
\* "INIT_MISFIT" has a separator in the name or is longer than a MessageFrame.
RequestInit(c) ==
    /\ May(c, "init")
    /\ net[c] = "open"
    /\ stage[c] = "new"
    /\ stage' = [stage EXCEPT ![c] = "requested"]
    /\ \E action \in {"INIT_REQ", "INIT_MISFIT"} :
         /\ action = "INIT_MISFIT" => May(c, "odd")
         /\ ClientSends(c, Msg(action, None, 0))
    /\ UNCHANGED <<net, out, said>>

\* the server has sent its reply to INIT_REQ
Answered(c) == \E i \in DOMAIN out[c] : out[c][i].action = "INIT_REQ"

\* receive_msg_from_sv and finalize_init: the reply is dealt with, also by a client
\* that has just said it leaves
FinalizeInit(c) ==
    /\ net[c] = "open"
    /\ stage[c] \in {"requested", "leaving"}
    /\ Answered(c)
    /\ stage' = [stage EXCEPT ![c] = IF @ = "requested" THEN "typing" ELSE "quit"]
    /\ ClientSends(c, Msg("INIT_DONE", None, 0))
    /\ UNCHANGED <<net, out, said>>

\* send_msg_from_stdin: a line.  Its id is the client's once that is known, which
\* may be before INIT_DONE is sent.  A "MISFIT" has a separator in its text or is
\* longer than a MessageFrame: whatever recv returns of it is not one message.
TypeLine(c) ==
    /\ net[c] = "open"
    /\ said[c] < MaxLines
    /\ \E id \in {c, None}, action \in {"UNICAST_REPEATED", "MISFIT"} :
         /\ id = c => /\ May(c, "line")
                      /\ stage[c] \in {"typing", "chatting"} \/ (stage[c] = "requested" /\ Answered(c))
         /\ id = None => stage[c] \in {"requested", "typing"} /\ May(c, "early")
         /\ action = "MISFIT" => May(c, "odd")
         /\ ClientSends(c, Msg(action, id, said[c] + 1))
    /\ said' = [said EXCEPT ![c] = @ + 1]
    /\ stage' = [stage EXCEPT ![c] = IF @ = "typing" THEN "chatting" ELSE @]
    /\ UNCHANGED <<net, out>>

\* send_msg_from_stdin: #quit
TypeQuit(c) ==
    /\ net[c] = "open"
    /\ May(c, "quit")
    /\ stage[c] \in {"requested", "typing", "chatting"}
    /\ stage' = [stage EXCEPT ![c] = IF @ = "requested" THEN "leaving" ELSE "quit"]
    /\ ClientSends(c, Msg("CL_DISCONNECTED", None, 0))
    /\ UNCHANGED <<net, out, said>>

\* the client program ends; unread data in its socket turns the FIN into a reset
HangUp(c) ==
    /\ net[c] = "open"
    /\ \E how \in {"fin", "rst"} :
         /\ how = "fin" => May(c, "hangup")
         /\ how = "rst" => May(c, "reset") /\ out[c] # <<>>
         /\ net' = [net EXCEPT ![c] = how]
    /\ UNCHANGED <<inbox, out, stage, said>>

ClientStep(c) ==
    \/ Connect(c) \/ RequestInit(c) \/ FinalizeInit(c) \/ TypeLine(c)
    \/ TypeQuit(c) \/ HangUp(c)
==============================================================================
