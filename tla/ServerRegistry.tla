--------------------------- MODULE ServerRegistry ---------------------------
(***************************************************************************)
(* server.c and its users: one thread_connect per configured server        *)
(* resolves, opens and connects the two sockets, retrying on every failure,*)
(* and then announces the server; main waits for the first announcement,   *)
(* each thread_down for that of its server, and thread_up asks before each *)
(* datagram.  The mutex of struct servers makes each function of server.c  *)
(* one action; pthread_cond_wait is two, going to sleep and returning.     *)
(***************************************************************************)
EXTENDS Naturals, FiniteSets

CONSTANTS
  Servers,    \* the configured servers
  Enabled     \* those with serv_enable, which get a thread_down

ASSUME RegistryAssumption ==
  /\ IsFiniteSet(Servers) /\ Servers # {}
  /\ Enabled \subseteq Servers

VARIABLES
  running,     \* the process has not been aborted and has not called exit
  state,       \* per server, "stopped" or "started"
  connect_pc,  \* where each thread_connect is
  result,      \* its address list: "null", "live", or "freed" but not null
  sock_up,     \* per server, the upstream socket
  sock_down,   \* and the downstream socket
  wait_pc,     \* main: before, in and after servers_wait_one_started
  down_pc,     \* per server, thread_down around server_wait_started
  up_started   \* servers thread_up has seen started

registryVars == <<running, state, connect_pc, result, sock_up, sock_down,
                  wait_pc, down_pc, up_started>>

RegistryInit ==
  /\ running = TRUE
  /\ state = [s \in Servers |-> "stopped"]
  /\ connect_pc = [s \in Servers |-> "top"]
  /\ result = [s \in Servers |-> "null"]
  /\ sock_up = [s \in Servers |-> "none"]
  /\ sock_down = [s \in Servers |-> "none"]
  /\ wait_pc = "call"
  /\ down_pc = [s \in Servers |-> "absent"]
  /\ up_started = {}

Move(s, to) == connect_pc' = [connect_pc EXCEPT ![s] = to]

Set(s, list) == result' = [result EXCEPT ![s] = list]

others == <<state, wait_pc, down_pc, up_started>>

(***************************************************************************)
(* thread_connect.                                                         *)
(***************************************************************************)
\* The head of the retry loop frees the previous address list, if any.
\* Freeing a list twice aborts the process or goes unnoticed.
Retry(s) ==
  /\ running /\ connect_pc[s] = "top"
  /\ Move(s, "resolve_up")
  /\ Set(s, IF result[s] = "null" THEN "null" ELSE "freed")
  /\ running' \in IF result[s] = "freed" THEN BOOLEAN ELSE {TRUE}
  /\ UNCHANGED <<sock_up, sock_down, others>>

\* A name that does not resolve is tried again after five seconds.
ResolveUp(s) ==
  /\ running /\ connect_pc[s] = "resolve_up"
  /\ Set(s, "live")
  /\ Move(s, "open_up")
  /\ UNCHANGED <<running, sock_up, sock_down, others>>

OpenUp(s) ==
  /\ running /\ connect_pc[s] = "open_up"
  /\ \/ sock_up' = [sock_up EXCEPT ![s] = "open"] /\ Move(s, "connect_up")
     \/ sock_up' = [sock_up EXCEPT ![s] = "none"] /\ Move(s, "top")
  /\ UNCHANGED <<running, result, sock_down, others>>

ConnectUp(s) ==
  /\ running /\ connect_pc[s] = "connect_up"
  /\ \/ /\ sock_up' = [sock_up EXCEPT ![s] = "connected"]
        /\ Set(s, "freed")
        /\ Move(s, "resolve_down")
     \/ Move(s, "top") /\ UNCHANGED <<sock_up, result>>
  /\ UNCHANGED <<running, sock_down, others>>

\* On failure result keeps the address freed by ConnectUp.
ResolveDown(s) ==
  /\ running /\ connect_pc[s] = "resolve_down"
  /\ \/ Set(s, "live") /\ Move(s, "open_down") /\ UNCHANGED sock_up
     \/ /\ sock_up' = [sock_up EXCEPT ![s] = "shut"]
        /\ Move(s, "top") /\ UNCHANGED result
  /\ UNCHANGED <<running, sock_down, others>>

OpenDown(s) ==
  /\ running /\ connect_pc[s] = "open_down"
  /\ \/ /\ sock_down' = [sock_down EXCEPT ![s] = "open"]
        /\ Move(s, "connect_down") /\ UNCHANGED sock_up
     \/ /\ sock_down' = [sock_down EXCEPT ![s] = "none"]
        /\ sock_up' = [sock_up EXCEPT ![s] = "shut"]
        /\ Move(s, "top")
  /\ UNCHANGED <<running, result, others>>

ConnectDown(s) ==
  /\ running /\ connect_pc[s] = "connect_down"
  /\ \/ /\ sock_down' = [sock_down EXCEPT ![s] = "connected"]
        /\ Set(s, "freed")
        /\ Move(s, "announce") /\ UNCHANGED sock_up
     \/ /\ sock_up' = [sock_up EXCEPT ![s] = "shut"]
        /\ Move(s, "top") /\ UNCHANGED <<sock_down, result>>
  /\ UNCHANGED <<running, others>>

\* Mutant of SetStarted: only main is woken.
SetStartedMainOnly(s) ==
  /\ running /\ connect_pc[s] = "announce"
  /\ state' = [state EXCEPT ![s] = "started"]
  /\ wait_pc' = IF wait_pc = "asleep" THEN "call" ELSE wait_pc
  /\ Move(s, "done")
  /\ UNCHANGED <<running, result, sock_up, sock_down, down_pc, up_started>>

\* server_set_started: mark the server, wake its thread_down and main.
SetStarted(s) ==
  /\ running /\ connect_pc[s] = "announce"
  /\ state' = [state EXCEPT ![s] = "started"]
  /\ down_pc' = [down_pc EXCEPT ![s] = IF @ = "asleep" THEN "woken" ELSE @]
  /\ wait_pc' = IF wait_pc = "asleep" THEN "call" ELSE wait_pc
  /\ Move(s, "done")
  /\ UNCHANGED <<running, result, sock_up, sock_down, up_started>>

ThreadConnect(s) ==
  \/ Retry(s) \/ ResolveUp(s) \/ OpenUp(s) \/ ConnectUp(s)
  \/ ResolveDown(s) \/ OpenDown(s) \/ ConnectDown(s) \/ SetStarted(s)

connectVars == <<connect_pc, result, sock_up, sock_down>>

(***************************************************************************)
(* main: servers_wait_one_started tests every server and sleeps in a loop, *)
(* and the threads of enabled servers are created when it returns.         *)
(***************************************************************************)
AnyStarted == \E s \in Servers : state[s] = "started"

WaitOneStarted ==
  /\ running /\ wait_pc = "call"
  /\ IF AnyStarted
     THEN /\ wait_pc' = "running"
          /\ down_pc' = [s \in Servers |-> IF s \in Enabled THEN "call"
                                           ELSE "absent"]
     ELSE wait_pc' = "asleep" /\ UNCHANGED down_pc
  /\ UNCHANGED <<running, state, connectVars, up_started>>

MainWakesSpuriously ==
  /\ running /\ wait_pc = "asleep"
  /\ wait_pc' = "call"
  /\ UNCHANGED <<running, state, connectVars, down_pc, up_started>>

(***************************************************************************)
(* thread_down: server_wait_started tests once and sleeps at most once.    *)
(***************************************************************************)
ToDown(s, to) == down_pc' = [down_pc EXCEPT ![s] = to]

\* Mutant of WaitStarted: the state of the server is not looked at.
WaitStartedBlindly(s) ==
  /\ running /\ down_pc[s] = "call"
  /\ ToDown(s, "active")
  /\ UNCHANGED <<running, state, connectVars, wait_pc, up_started>>

WaitStarted(s) ==
  /\ running /\ down_pc[s] = "call"
  /\ ToDown(s, IF state[s] = "started" THEN "active" ELSE "asleep")
  /\ UNCHANGED <<running, state, connectVars, wait_pc, up_started>>

DownWakesSpuriously(s) ==
  /\ running /\ down_pc[s] = "asleep"
  /\ ToDown(s, "stray")
  /\ UNCHANGED <<running, state, connectVars, wait_pc, up_started>>

\* The state is not tested again.  "astray" is "active" without a broadcast.
ReturnFromWait(s) ==
  /\ running
  /\ \/ down_pc[s] = "woken" /\ ToDown(s, "active")
     \/ down_pc[s] = "stray" /\ ToDown(s, "astray")
  /\ UNCHANGED <<running, state, connectVars, wait_pc, up_started>>

ThreadDown(s) == WaitStarted(s) \/ ReturnFromWait(s)

\* thread_up, before each datagram: server_is_started, then setsockopt.
UpNotices(s) ==
  /\ running /\ wait_pc = "running"
  /\ s \notin up_started /\ state[s] = "started"
  /\ up_started' = up_started \cup {s}
  /\ UNCHANGED <<running, state, connectVars, wait_pc, down_pc>>

RegistryNext ==
  \/ \E s \in Servers : \/ ThreadConnect(s) \/ ThreadDown(s)
                        \/ DownWakesSpuriously(s) \/ UpNotices(s)
  \/ WaitOneStarted \/ MainWakesSpuriously

RegistrySpec == RegistryInit /\ [][RegistryNext]_registryVars

\* Runnable threads run.  Nothing obliges the network to let thread_connect
\* succeed.
RegistryFairness ==
  /\ WF_registryVars(WaitOneStarted)
  /\ \A s \in Servers :
       WF_registryVars(ThreadDown(s)) /\ WF_registryVars(SetStarted(s))

FairRegistrySpec == RegistrySpec /\ RegistryFairness
-----------------------------------------------------------------------------
RegistryTypeOK ==
  /\ running \in BOOLEAN
  /\ state \in [Servers -> {"stopped", "started"}]
  /\ connect_pc \in [Servers -> {"top", "resolve_up", "open_up",
                                 "connect_up", "resolve_down", "open_down",
                                 "connect_down", "announce", "done"}]
  /\ result \in [Servers -> {"null", "live", "freed"}]
  /\ sock_up \in [Servers -> {"none", "open", "connected", "shut"}]
  /\ sock_down \in [Servers -> {"none", "open", "connected"}]
  /\ wait_pc \in {"call", "asleep", "running"}
  /\ down_pc \in [Servers -> {"absent", "call", "asleep", "woken", "stray",
                              "active", "astray"}]
  /\ up_started \subseteq Servers

\* A server thread_up uses has both its sockets connected, however often the
\* connection failed before, and so has one whose thread_down goes on because
\* of a test or a broadcast, although it does not test again on waking: only
\* a complete connection is announced.
UsedIsConnected ==
  \A s \in Servers :
    s \in up_started \/ state[s] = "started" \/ down_pc[s] = "active" =>
      sock_up[s] = "connected" /\ sock_down[s] = "connected"

\* An announcement is lost neither on main, whose wait ends with the first,
\* nor on the server's own thread_down.
WaitersAreReleased ==
  /\ AnyStarted ~> (wait_pc = "running" \/ ~running)
  /\ \A s \in Enabled :
       state[s] = "started" ~> (down_pc[s] \in {"active", "astray"} \/ ~running)
=============================================================================
