---------------------------- MODULE ServerProcess ----------------------------
(***************************************************************************)
(* The server as a process (src/Server/Server_main.cpp): main checks its   *)
(* argument, in LAN mode forks the avahi-publish child and records its     *)
(* pid, builds and runs the server, waits for the listener thread, ends    *)
(* the child, and destroys the server.  SIGINT may come at any moment.     *)
(* The listener and the workers are those of ServerThreadManager, and the  *)
(* destruction of the server is its action Destroy.                        *)
(***************************************************************************)
EXTENDS ServerThreadManager

VARIABLES main,        \* where main stands, one of MainPcs
          publisher,   \* the child process: "none", "running" or "gone"
          recorded     \* gl_lan_dns_pid holds the child's pid

mainVars == <<main, publisher, recorded>>
pvars == <<vars, mainVars>>

\* the process has returned from main, with or without success, was ended by the
\* signal handler, or by an exception that left main
Ended == {"exited", "failed", "interrupted", "terminated"}
MainPcs == {"start", "fork", "forked", "build", "serving", "kill", "destroy", "joining"}
               \cup Ended

\* the server object exists and its threads run
Up == {"serving", "kill", "destroy", "joining"}

PInit ==
    /\ Init
    /\ main = "start"
    /\ publisher = "none"
    /\ recorded = FALSE

\* the argument: LOCALHOST, LAN, or a wrong one
MainArgs ==
    /\ main = "start"
    /\ main' \in {"build", "fork", "failed"}
    /\ UNCHANGED <<publisher, recorded>>

\* fork succeeds or fails; the child becomes avahi-publish
MainFork ==
    /\ main = "fork"
    /\ \/ main' = "forked" /\ publisher' = "running"
       \/ main' = "failed" /\ UNCHANGED publisher
    /\ UNCHANGED recorded

MainRecord ==
    /\ main = "forked"
    /\ main' = "build"
    /\ recorded' = TRUE
    /\ UNCHANGED publisher

\* the constructor, listen and the launch of the listener; nothing in main
\* catches what the first two throw (no address, a port in use)
MainBuild ==
    /\ main = "build"
    /\ main' \in {"serving", "terminated"}
    /\ UNCHANGED <<publisher, recorded>>

\* Mutant of MainStopped: waits for the queue to be empty as well.
StoppedDrained ==
    /\ main = "serving"
    /\ ListenerAt("dead")
    /\ q_worker_to_listener = <<>>
    /\ main' = "kill"
    /\ UNCHANGED <<publisher, recorded>>

\* launch_server_loop returns a temporary jthread, which is joined
MainStopped ==
    /\ main = "serving"
    /\ ListenerAt("dead")
    /\ main' = "kill"
    /\ UNCHANGED <<publisher, recorded>>

\* Mutant of Signalled: the test of the recorded pid is the wrong way round.
SignalledUnknown(known) == IF known THEN publisher ELSE "gone"

\* kill_DNS_service: SIGTERM, if a pid was recorded.  The child is never waited
\* for (waitpid stands after a return), so the pid is still its own.
Signalled(known) == IF known /\ publisher = "running" THEN "gone" ELSE publisher

MainKill ==
    /\ main = "kill"
    /\ main' = "destroy"
    /\ publisher' = Signalled(recorded)
    /\ UNCHANGED recorded

\* the end of ~Server: worker_threads is destroyed, which joins every worker
MainJoin ==
    /\ main = "joining"
    /\ \A i \in Occupied : worker[worker_threads[i]].pc = "exited"
    /\ main' = "exited"
    /\ UNCHANGED <<publisher, recorded>>

MainStep ==
    \/ MainArgs \/ MainFork \/ MainRecord \/ MainBuild
    \/ MainStopped \/ MainKill \/ MainJoin

\* ~Server closes the sockets; main goes on to its members
MainDestroy ==
    /\ main = "destroy"
    /\ Destroy
    /\ main' = "joining"
    /\ UNCHANGED <<publisher, recorded>>

\* handle_sigint.  Ctrl+C on the terminal reaches the child too; a signal sent to
\* the server alone does not.
Interrupt ==
    /\ main \notin Ended
    /\ main' = "interrupted"
    /\ \E terminal \in BOOLEAN : publisher' = Signalled(recorded \/ terminal)
    /\ UNCHANGED recorded

\* avahi-publish cannot be executed, or ends by itself
PublisherEnds ==
    /\ publisher = "running"
    /\ publisher' = "gone"
    /\ UNCHANGED <<main, recorded>>

\* the listener, the workers, the clients and the console, while the server is up
Running(A) ==
    /\ main \in Up
    /\ ~crashed
    /\ A
    /\ closed' = closed
    /\ UNCHANGED mainVars

ServerStep == Running(Next)

PNext ==
    \/ ServerStep
    \/ ~crashed /\ MainDestroy
    \/ ~crashed /\ (MainStep \/ Interrupt) /\ UNCHANGED vars
    \/ PublisherEnds /\ UNCHANGED vars

PSpec == PInit /\ [][PNext]_pvars

\* main and the threads go on when they can.  Nothing is assumed of the clients,
\* of the console, of the child or of signals.
PFairSpec ==
    /\ PSpec
    /\ WF_pvars(~crashed /\ ((MainStep /\ UNCHANGED vars) \/ MainDestroy))
    /\ WF_pvars(Running(Listener))
    /\ \A w \in Conn : WF_pvars(Running(Worker(w)))

------------------------------------------------------------------------------
(* Correctness *)

Over == crashed \/ main \in Ended

\* Whichever way the process ends in good order, by itself or by SIGINT, it leaves
\* no avahi-publish behind that it knows of.
PublisherStops ==
    (main \in {"exited", "interrupted"} /\ recorded) => publisher # "running"

\* A worker notices that a client has hung up, and reports it.
HangUpIsReported ==
    \A c \in Conn :
        (net[c] = "fin" /\ Owners(c) # {}) ~> (Owners(c) = {} \/ done \/ closed \/ Over)

\* Once a stop was requested the listener's loop ends, even when it has to join a
\* worker on the way.
StopEndsListener == done ~> (ListenerAt("dead") \/ Over)

\* a worker in epoll_wait, all of whose sockets were closed under it
Stranded ==
    \E w \in Conn : /\ At(w, "wait")
                    /\ ~worker_evfd[w]
                    /\ \A c \in worker[w].own : net[c] = "closed"

\* When the listener's loop has ended, because of #quit or of an exception, the
\* process ends; the one thing that can keep it is a worker that ~Server has left
\* in an epoll_wait with nothing to wait for.
LoopEndEndsProcess == ListenerAt("dead") ~> (Over \/ Stranded)
==============================================================================
