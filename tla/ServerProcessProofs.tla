------------------------- MODULE ServerProcessProofs -------------------------
(***************************************************************************)
(* Theorems about the server process: it runs the thread manager and       *)
(* nothing else, so that what is proved of the threads holds of the        *)
(* process, and it takes its avahi-publish child with it.                  *)
(***************************************************************************)
EXTENDS ServerProcess, StoryProofs

\* Main's own steps, signals and the end of the child leave the threads alone.
LEMMA ProcessStep ==
    ASSUME [PNext]_pvars
    PROVE  [Next]_vars
<1>1. CASE ServerStep
    BY <1>1 DEF ServerStep, Running
<1>2. CASE ~crashed /\ MainDestroy
  <2>1. Destroy
      BY <1>2 DEF MainDestroy
  <2>2. Listener
      BY <2>1 DEF Listener
  <2> QED BY <1>2, <2>2 DEF Next
<1>3. CASE UNCHANGED vars
    BY <1>3
<1>4. CASE UNCHANGED pvars
    BY <1>4 DEF pvars
<1> QED BY <1>1, <1>2, <1>3, <1>4 DEF PNext

\* The process implements the thread manager: its threads do what
\* ServerThreadManager says and ~Server runs once the listener's loop has ended.
THEOREM ProcessRunsServer == PSpec => Spec
<1>1. PInit => Init
    BY DEF PInit
<1> QED BY <1>1, ProcessStep, PTL DEF PSpec, Spec

\* In the whole process, too, the listener only joins threads that exist, whenever
\* SIGINT comes and however far main has got.
THEOREM ProcessJoinsAreSound == PSpec => []JoinsAreSound
<1> QED BY ProcessRunsServer, ListenerJoinsAreSound, PTL

\* And every client of the process is in one hand at most, is greeted before it is told
\* anything, and is told of the others in the order it happened, also while main is
\* ending the publisher, closing the sockets and joining the workers.
THEOREM ProcessKeepsStory == PSpec => [](SoleCustody /\ HandshakeFirst /\ StoryInOrder)
<1> QED BY ProcessRunsServer, CustodyIsSole, HandshakeComesFirst, StoryStaysInOrder, PTL

\* Once the publisher was signalled, or the handler has run, it is not running.
PublisherInv ==
    (recorded /\ main \in {"destroy", "joining", "exited", "interrupted"}) => publisher # "running"

\* PublisherInv is inductive.
LEMMA PublisherStep ==
    ASSUME PublisherInv, [PNext]_pvars
    PROVE  PublisherInv'
<1> USE DEF PublisherInv
<1>1. CASE ServerStep
    BY <1>1 DEF ServerStep, Running, mainVars
<1>2. CASE MainDestroy
    BY <1>2 DEF MainDestroy
<1>3. CASE MainStep
  <2>1. CASE MainArgs
      BY <2>1 DEF MainArgs
  <2>2. CASE MainFork
      BY <2>2 DEF MainFork
  <2>3. CASE MainRecord
      BY <2>3 DEF MainRecord
  <2>4. CASE MainBuild
      BY <2>4 DEF MainBuild
  <2>5. CASE MainStopped
      BY <2>5 DEF MainStopped
  <2>6. CASE MainKill
      BY <2>6 DEF MainKill, Signalled
  <2>7. CASE MainJoin
      BY <2>7 DEF MainJoin
  <2> QED BY <1>3, <2>1, <2>2, <2>3, <2>4, <2>5, <2>6, <2>7 DEF MainStep
<1>4. CASE Interrupt
    BY <1>4 DEF Interrupt, Signalled
<1>5. CASE PublisherEnds
    BY <1>5 DEF PublisherEnds
<1>6. CASE UNCHANGED pvars
    BY <1>6 DEF pvars, mainVars
<1> QED BY <1>1, <1>2, <1>3, <1>4, <1>5, <1>6 DEF PNext

\* A server that returns from main, or is ended by SIGINT, leaves no avahi-publish
\* running whose pid it has recorded.
THEOREM PublisherAlwaysStops == PSpec => []PublisherStops
<1>1. PInit => PublisherInv
    BY DEF PInit, PublisherInv
<1>2. PublisherInv => PublisherStops
    BY DEF PublisherInv, PublisherStops
<1> QED BY <1>1, <1>2, PublisherStep, PTL DEF PSpec
==============================================================================
