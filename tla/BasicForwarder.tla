--------------------------- MODULE BasicForwarder ---------------------------
(***************************************************************************)
(* The life of basic_pkt_fwd.c: main reads the configuration, connects to  *)
(* its one server, starts the concentrator and two threads, takes          *)
(* statistics until it is told to stop, joins thread_up, cancels           *)
(* thread_down and stops the concentrator.                                 *)
(*                                                                         *)
(* Cancellation is deferred: thread_down ends at its next cancellation     *)
(* point, none of which lies where it holds a mutex (lgw_send is taken to  *)
(* have none), and until then it runs beside main.  Any thread may end the *)
(* process with exit.  The counters are left out, their mutexes are not.   *)
(***************************************************************************)
EXTENDS Integers

CONSTANTS
  NB_PKT_MAX,          \* packets per fetch
  autoquit_threshold   \* unanswered PULL_DATA that end the program, 0: never

ASSUME BasicAssumption ==
  /\ NB_PKT_MAX \in Nat \ {0}
  /\ autoquit_threshold \in Nat

VARIABLES
  process,        \* "running", or how it ended
  hal,            \* the concentrator: "off", "on", "failed" to stop
  handlers,       \* sigaction has been called
  exit_sig, quit_sig,
  interrupted,    \* history: SIGINT, SIGTERM or autoquit, in time for main
  silent,         \* the server does not answer any more
  main_pc,        \* where main is
  cycles,         \* history: fetches since main left its loop, at most 2
  up_pc,          \* where thread_up is
  rxpkt,          \* packets fetched and not looked at yet
  pkt_in_dgram,   \* packets in the datagram being composed
  tries,          \* recv calls left for its PUSH_ACK
  down_pc,        \* where thread_down is
  cancelled,      \* main has called pthread_cancel
  req_ack,        \* the latest PULL_DATA has been acknowledged
  autoquit_cnt,   \* PULL_DATA since the latest PULL_ACK
  mx_concent, mx_meas_up, mx_meas_dw   \* holders of the mutexes

upVars   == <<up_pc, rxpkt, pkt_in_dgram, tries, cycles>>
downVars == <<down_pc, req_ack, autoquit_cnt>>
sigVars  == <<exit_sig, quit_sig, interrupted>>
envVars  == <<handlers, silent>>
mutexes  == <<mx_concent, mx_meas_up, mx_meas_dw>>
mainVars == <<main_pc, hal, cancelled>>
vars == <<process, mainVars, sigVars, envVars, upVars, downVars, mutexes>>

stop == exit_sig \/ quit_sig

Running == process = "running"

\* main has not yet decided whether to stop the concentrator.
Undecided == main_pc \notin {"stop", "exit"}

Init ==
  /\ process = "running" /\ hal = "off"
  /\ handlers = FALSE /\ exit_sig = FALSE /\ quit_sig = FALSE
  /\ interrupted = FALSE /\ silent = FALSE
  /\ main_pc = "config" /\ cycles = 0
  /\ up_pc = "none" /\ rxpkt = 0 /\ pkt_in_dgram = 0 /\ tries = 0
  /\ down_pc = "none" /\ cancelled = FALSE
  /\ req_ack = FALSE /\ autoquit_cnt = 0
  /\ mx_concent = "free" /\ mx_meas_up = "free" /\ mx_meas_dw = "free"

Exit(status) ==
  /\ process' = status
  /\ UNCHANGED <<mainVars, sigVars, envVars, upVars, downVars, mutexes>>

(***************************************************************************)
(* Signals.  Until the handlers are installed each of them kills.          *)
(***************************************************************************)
Kill == Running /\ ~handlers /\ Exit("killed")

\* Mutant of Interrupt: it sets the flag of SIGQUIT.
InterruptQuits ==
  /\ Running /\ handlers
  /\ exit_sig' = exit_sig
  /\ quit_sig' = TRUE
  /\ interrupted' = (interrupted \/ Undecided)
  /\ UNCHANGED <<process, mainVars, envVars, upVars, downVars, mutexes>>

\* SIGINT or SIGTERM.
Interrupt ==
  /\ Running /\ handlers
  /\ exit_sig' = TRUE
  /\ interrupted' = (interrupted \/ Undecided)
  /\ UNCHANGED <<process, mainVars, quit_sig, envVars, upVars, downVars,
                 mutexes>>

Quit ==
  /\ Running /\ handlers
  /\ quit_sig' = TRUE
  /\ UNCHANGED <<process, mainVars, exit_sig, interrupted, envVars, upVars,
                 downVars, mutexes>>

FallSilent ==
  /\ silent' = TRUE
  /\ UNCHANGED <<process, mainVars, sigVars, handlers, upVars, downVars,
                 mutexes>>

(***************************************************************************)
(* main: starting.  Each step may fail and end the process.                *)
(***************************************************************************)
Startup == {"config", "connect", "start", "spawn_up", "spawn_down"}

Fails == Running /\ main_pc \in Startup /\ Exit("failure")

\* From the debug file alone, or the global file and then the local one, or
\* the local file.
Configure ==
  /\ Running /\ main_pc = "config"
  /\ main_pc' = "connect"
  /\ UNCHANGED <<process, hal, cancelled, sigVars, envVars, upVars, downVars,
                 mutexes>>

\* Look-up, socket and connect for the upstream, then the downstream port.
Connect ==
  /\ Running /\ main_pc = "connect"
  /\ main_pc' = "start"
  /\ UNCHANGED <<process, hal, cancelled, sigVars, envVars, upVars, downVars,
                 mutexes>>

\* Mutant of StartConcentrator: the result of lgw_start is not looked at.
StartAnyway ==
  /\ Running /\ main_pc = "start"
  /\ hal' \in {"off", "on"}
  /\ main_pc' = "spawn_up"
  /\ UNCHANGED <<process, cancelled, sigVars, envVars, upVars, downVars,
                 mutexes>>

StartConcentrator ==
  /\ Running /\ main_pc = "start"
  /\ hal' = "on"
  /\ main_pc' = "spawn_up"
  /\ UNCHANGED <<process, cancelled, sigVars, envVars, upVars, downVars,
                 mutexes>>

SpawnUp ==
  /\ Running /\ main_pc = "spawn_up"
  /\ up_pc' = "setup"
  /\ main_pc' = "spawn_down"
  /\ UNCHANGED <<process, hal, cancelled, sigVars, envVars, rxpkt,
                 pkt_in_dgram, tries, cycles, downVars, mutexes>>

SpawnDown ==
  /\ Running /\ main_pc = "spawn_down"
  /\ down_pc' = "setup"
  /\ main_pc' = "signals"
  /\ UNCHANGED <<process, hal, cancelled, sigVars, envVars, upVars, req_ack,
                 autoquit_cnt, mutexes>>

InstallHandlers ==
  /\ Running /\ main_pc = "signals"
  /\ handlers' = TRUE
  /\ main_pc' = IF stop THEN "join" ELSE "wait"
  /\ UNCHANGED <<process, hal, cancelled, sigVars, silent, upVars, downVars,
                 mutexes>>

(***************************************************************************)
(* main: statistics.  Each copy and reset is one critical section.         *)
(***************************************************************************)
MainGoes(from, to) ==
  /\ Running /\ main_pc = from
  /\ main_pc' = to
  /\ UNCHANGED <<process, hal, cancelled, sigVars, envVars, upVars, downVars,
                 mutexes>>

Interval == MainGoes("wait", "snap_up")

SnapshotUp == mx_meas_up = "free" /\ MainGoes("snap_up", "snap_dw")

\* A signal is noticed only now, at the end of the interval.
SnapshotDown ==
  /\ mx_meas_dw = "free"
  /\ MainGoes("snap_dw", IF stop THEN "join" ELSE "wait")

(***************************************************************************)
(* main: stopping.                                                         *)
(***************************************************************************)
\* Mutant of JoinUp: thread_up is not waited for.
JoinNobody == MainGoes("join", "cancel")

JoinUp == up_pc = "ended" /\ MainGoes("join", "cancel")

\* pthread_cancel, which does not wait; then exit_sig is looked at.
CancelDown ==
  /\ Running /\ main_pc = "cancel"
  /\ cancelled' = TRUE
  /\ main_pc' = IF exit_sig THEN "stop" ELSE "exit"
  /\ UNCHANGED <<process, hal, sigVars, envVars, upVars, downVars, mutexes>>

\* shutdown of the sockets, and lgw_stop without mx_concent.
StopConcentrator ==
  /\ Running /\ main_pc = "stop"
  /\ hal' \in {"off", "failed"}
  /\ main_pc' = "exit"
  /\ UNCHANGED <<process, cancelled, sigVars, envVars, upVars, downVars,
                 mutexes>>

Leave == Running /\ main_pc = "exit" /\ Exit("success")

(***************************************************************************)
(* thread_up.                                                              *)
(***************************************************************************)
UpSetup(ok) ==
  /\ Running /\ up_pc = "setup"
  /\ IF ok THEN up_pc' = "top" /\ UNCHANGED process
           ELSE process' = "failure" /\ UNCHANGED up_pc
  /\ UNCHANGED <<mainVars, sigVars, envVars, rxpkt, pkt_in_dgram, tries,
                 cycles, downVars, mutexes>>

\* Mutant of UpTop: SIGQUIT is not looked at.
UpTopExitOnly ==
  /\ Running /\ up_pc = "top"
  /\ up_pc' = IF exit_sig THEN "ended" ELSE "lock"
  /\ UNCHANGED <<process, mainVars, sigVars, envVars, rxpkt, pkt_in_dgram,
                 tries, cycles, downVars, mutexes>>

UpTop ==
  /\ Running /\ up_pc = "top"
  /\ up_pc' = IF stop THEN "ended" ELSE "lock"
  /\ UNCHANGED <<process, mainVars, sigVars, envVars, rxpkt, pkt_in_dgram,
                 tries, cycles, downVars, mutexes>>

BeginFetch ==
  /\ Running /\ up_pc = "lock"
  /\ mx_concent = "free"
  /\ mx_concent' = "up"
  /\ up_pc' = "fetch"
  /\ cycles' = IF main_pc = "join" /\ cycles < 2 THEN cycles + 1 ELSE cycles
  /\ UNCHANGED <<process, mainVars, sigVars, envVars, rxpkt, pkt_in_dgram,
                 tries, downVars, mx_meas_up, mx_meas_dw>>

\* lgw_receive returns n packets; with none thread_up sleeps.
EndFetch(n) ==
  /\ Running /\ up_pc = "fetch"
  /\ mx_concent' = "free"
  /\ rxpkt' = n
  /\ up_pc' = IF n = 0 THEN "top" ELSE "filter"
  /\ UNCHANGED <<process, mainVars, sigVars, envVars, pkt_in_dgram, tries,
                 cycles, downVars, mx_meas_up, mx_meas_dw>>

FetchError ==
  /\ Running /\ up_pc = "fetch"
  /\ process' = "failure"
  /\ mx_concent' = "free"
  /\ UNCHANGED <<mainVars, sigVars, envVars, upVars, downVars, mx_meas_up,
                 mx_meas_dw>>

\* One packet: by its status it is counted and skipped or forwarded.
Filter(forward) ==
  /\ Running /\ up_pc = "filter" /\ rxpkt > 0
  /\ mx_meas_up = "free"
  /\ rxpkt' = rxpkt - 1
  /\ pkt_in_dgram' = IF forward THEN pkt_in_dgram + 1 ELSE pkt_in_dgram
  /\ UNCHANGED <<process, mainVars, sigVars, envVars, up_pc, tries, cycles,
                 downVars, mutexes>>

\* A packet of unknown datarate, bandwidth, coding rate or modulation, or
\* one that does not fit its buffer, ends the process.
Unserialisable ==
  /\ up_pc = "filter" /\ rxpkt > 0
  /\ mx_meas_up = "free"
  /\ Running /\ Exit("failure")

\* Mutant of Push: the packets of the datagram sent count for the next one.
PushKeepsCount ==
  /\ Running /\ up_pc = "filter" /\ rxpkt = 0
  /\ up_pc' = IF pkt_in_dgram = 0 THEN "top" ELSE "count"
  /\ UNCHANGED <<process, mainVars, sigVars, envVars, rxpkt, pkt_in_dgram,
                 tries, cycles, downVars, mutexes>>

\* The datagram goes to the server, unless every packet was skipped.
Push ==
  /\ Running /\ up_pc = "filter" /\ rxpkt = 0
  /\ pkt_in_dgram' = 0
  /\ up_pc' = IF pkt_in_dgram = 0 THEN "top" ELSE "count"
  /\ UNCHANGED <<process, mainVars, sigVars, envVars, rxpkt, tries, cycles,
                 downVars, mutexes>>

CountPush ==
  /\ Running /\ up_pc = "count"
  /\ mx_meas_up = "free"
  /\ mx_meas_up' = "up"
  /\ tries' = 2
  /\ up_pc' = "ack"
  /\ UNCHANGED <<process, mainVars, sigVars, envVars, rxpkt, pkt_in_dgram,
                 cycles, downVars, mx_concent, mx_meas_dw>>

\* A timeout, or something that is not the PUSH_ACK waited for.
RecvOther ==
  /\ Running /\ up_pc = "ack" /\ tries > 0
  /\ tries' = tries - 1
  /\ UNCHANGED <<process, mainVars, sigVars, envVars, up_pc, rxpkt,
                 pkt_in_dgram, cycles, downVars, mutexes>>

\* The PUSH_ACK, a socket error, or no recv left.
EndPush ==
  /\ Running /\ up_pc = "ack"
  /\ mx_meas_up' = "free"
  /\ tries' = 0
  /\ up_pc' = "top"
  /\ UNCHANGED <<process, mainVars, sigVars, envVars, rxpkt, pkt_in_dgram,
                 cycles, downVars, mx_concent, mx_meas_dw>>

ThreadUp ==
  \/ \E ok \in BOOLEAN : UpSetup(ok)
  \/ UpTop \/ BeginFetch \/ (\E n \in 0 .. NB_PKT_MAX : EndFetch(n))
  \/ FetchError \/ (\E forward \in BOOLEAN : Filter(forward))
  \/ Unserialisable \/ Push \/ CountPush \/ RecvOther \/ EndPush

(***************************************************************************)
(* thread_down.                                                            *)
(***************************************************************************)
DownSetup(ok) ==
  /\ Running /\ down_pc = "setup"
  /\ IF ok THEN down_pc' = "top" /\ UNCHANGED process
           ELSE process' = "failure" /\ UNCHANGED down_pc
  /\ UNCHANGED <<mainVars, sigVars, envVars, upVars, req_ack, autoquit_cnt,
                 mutexes>>

DownGoes(from, to) ==
  /\ Running /\ down_pc = from
  /\ down_pc' = to
  /\ UNCHANGED <<process, mainVars, sigVars, envVars, upVars, req_ack,
                 autoquit_cnt, mutexes>>

Silence == autoquit_threshold > 0 /\ autoquit_cnt >= autoquit_threshold

DownEnds == stop /\ DownGoes("top", "ended")

\* Mutant of Autoquit: the thread ends, the program does not.
AutoquitAlone == ~stop /\ Silence /\ DownGoes("top", "ended")

Autoquit ==
  /\ Running /\ down_pc = "top"
  /\ ~stop /\ Silence
  /\ exit_sig' = TRUE
  /\ interrupted' = (interrupted \/ Undecided)
  /\ down_pc' = "ended"
  /\ UNCHANGED <<process, mainVars, quit_sig, envVars, upVars, req_ack,
                 autoquit_cnt, mutexes>>

SendPull == ~stop /\ ~Silence /\ DownGoes("top", "sent")

\* autoquit_cnt is compared with the threshold only if there is one.
CountPull ==
  /\ Running /\ down_pc = "sent"
  /\ mx_meas_dw = "free"
  /\ req_ack' = FALSE
  /\ autoquit_cnt' = IF autoquit_threshold > 0 THEN autoquit_cnt + 1 ELSE 0
  /\ down_pc' = "listen"
  /\ UNCHANGED <<process, mainVars, sigVars, envVars, upVars, mutexes>>

\* keepalive_time has passed.
Elapsed == DownGoes("listen", "top")

\* A PULL_ACK with the token of the latest PULL_DATA, the first time.
RecvPullAck ==
  /\ Running /\ down_pc = "listen"
  /\ ~silent /\ ~req_ack
  /\ req_ack' = TRUE
  /\ autoquit_cnt' = 0
  /\ down_pc' = "acked"
  /\ UNCHANGED <<process, mainVars, sigVars, envVars, upVars, mutexes>>

CountPullAck == mx_meas_dw = "free" /\ DownGoes("acked", "listen")

\* A PULL_RESP whose txpk has every mandatory field in a known form; one
\* that has not changes nothing.
RecvResp == ~silent /\ DownGoes("listen", "resp")

\* b64_to_bin exits on a character outside its alphabet.
FatalResp ==
  /\ down_pc = "listen" /\ ~silent
  /\ Running /\ Exit("failure")

CountResp ==
  /\ Running /\ down_pc = "resp"
  /\ mx_meas_dw = "free"
  /\ mx_meas_dw' = "down"
  /\ down_pc' = "concent"
  /\ UNCHANGED <<process, mainVars, sigVars, envVars, upVars, req_ack,
                 autoquit_cnt, mx_concent, mx_meas_up>>

LockConcent ==
  /\ Running /\ down_pc = "concent"
  /\ mx_concent = "free"
  /\ mx_concent' = "down"
  /\ down_pc' = "tx"
  /\ UNCHANGED <<process, mainVars, sigVars, envVars, upVars, req_ack,
                 autoquit_cnt, mx_meas_up, mx_meas_dw>>

\* lgw_send, whatever it returns.
Transmit ==
  /\ Running /\ down_pc = "tx"
  /\ mx_concent' = "free" /\ mx_meas_dw' = "free"
  /\ down_pc' = "listen"
  /\ UNCHANGED <<process, mainVars, sigVars, envVars, upVars, req_ack,
                 autoquit_cnt, mx_meas_up>>

\* The cancellation is acted upon at a send, a recv or a printf.
Cancelled ==
  /\ cancelled
  /\ \E at \in {"setup", "top", "sent", "listen", "acked", "resp"} :
       DownGoes(at, "ended")

ThreadDown ==
  \/ \E ok \in BOOLEAN : DownSetup(ok)
  \/ DownEnds \/ Autoquit \/ SendPull \/ CountPull \/ Elapsed
  \/ RecvPullAck \/ CountPullAck \/ RecvResp \/ FatalResp \/ CountResp
  \/ LockConcent \/ Transmit \/ Cancelled

Main ==
  \/ Fails \/ Configure \/ Connect \/ StartConcentrator \/ SpawnUp
  \/ SpawnDown \/ InstallHandlers \/ Interval \/ SnapshotUp \/ SnapshotDown
  \/ JoinUp \/ CancelDown \/ StopConcentrator \/ Leave

Next ==
  \/ Main \/ ThreadUp \/ ThreadDown
  \/ Kill \/ Interrupt \/ Quit \/ FallSilent

Spec == Init /\ [][Next]_vars

\* Threads keep running, HAL calls and sleeps end, the clock passes
\* keepalive_time, and who waits for a mutex that is released over and over
\* gets it in the end.  No other step ever finds its mutex taken.
Fairness ==
  /\ WF_vars(Main) /\ SF_vars(SnapshotUp) /\ SF_vars(SnapshotDown)
  /\ WF_vars(ThreadUp) /\ SF_vars(BeginFetch)
  /\ WF_vars(ThreadDown) /\ SF_vars(Elapsed) /\ SF_vars(LockConcent)

FairSpec == Spec /\ Fairness
-----------------------------------------------------------------------------
TypeOK ==
  /\ process \in {"running", "success", "failure", "killed"}
  /\ hal \in {"off", "on", "failed"}
  /\ handlers \in BOOLEAN /\ silent \in BOOLEAN
  /\ exit_sig \in BOOLEAN /\ quit_sig \in BOOLEAN
  /\ interrupted \in BOOLEAN /\ cancelled \in BOOLEAN /\ req_ack \in BOOLEAN
  /\ main_pc \in Startup \cup {"signals", "wait", "snap_up", "snap_dw",
                                "join", "cancel", "stop", "exit"}
  /\ up_pc \in {"none", "setup", "top", "lock", "fetch", "filter", "count",
                "ack", "ended"}
  /\ cycles \in 0 .. 2 /\ tries \in 0 .. 2
  /\ rxpkt \in Nat /\ pkt_in_dgram \in Nat
  /\ rxpkt + pkt_in_dgram <= NB_PKT_MAX
  /\ down_pc \in {"none", "setup", "top", "sent", "listen", "acked", "resp",
                  "concent", "tx", "ended"}
  /\ autoquit_cnt \in 0 .. autoquit_threshold
  /\ mx_concent \in {"free", "up", "down"}
  /\ mx_meas_up \in {"free", "up"}
  /\ mx_meas_dw \in {"free", "down"}

\* thread_up is in lgw_receive only between lgw_start and lgw_stop, though
\* main calls both without mx_concent: the order of starting and joining is
\* what keeps it so.
ReceiveWhileStarted == up_pc = "fetch" => hal = "on"

\* Whatever signal arrived when, a program that ends in order has sent every
\* packet that it fetched and did not filter out.
NothingAbandoned == process = "success" => rxpkt = 0 /\ pkt_in_dgram = 0

\* "wait for upstream thread to finish (1 fetch cycle max)"
\* (basic_pkt_fwd.c:845): so short is the wait for thread_up.
OneFetchAtMost == cycles <= 1

\* "if an exit signal was received, try to quit properly" (849): a program
\* interrupted in time, or by autoquit, does not end in order without having
\* called lgw_stop.
InterruptStopsRadio == process = "success" /\ interrupted => hal # "on"

\* A stop signal, or a server gone silent while autoquit is on, ends the
\* program, whatever the threads are waiting for.
ProgramEnds ==
  (handlers /\ (stop \/ (silent /\ autoquit_threshold > 0)))
    ~> process # "running"
=============================================================================
