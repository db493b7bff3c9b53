---------------------------- MODULE GpsForwarder ----------------------------
(***************************************************************************)
(* The life of gps_pkt_fwd.c: the single-server forwarder with a status    *)
(* report that thread_up sends, alone or after packets, and with a GPS     *)
(* receiver, whose two threads keep the time reference that both packet    *)
(* threads copy.  It is shown to implement BasicForwarder, whose           *)
(* properties it thereby has.                                              *)
(*                                                                         *)
(* The contents of packets and reports are those of Rxpk and Txpk; mutexes *)
(* held over statements that neither block nor end the process make one    *)
(* action of these.                                                        *)
(***************************************************************************)
EXTENDS Integers

CONSTANTS
  NB_PKT_MAX,          \* packets per fetch
  autoquit_threshold   \* unanswered PULL_DATA that end the program, 0: never

ASSUME GpsAssumption ==
  /\ NB_PKT_MAX \in Nat \ {0}
  /\ autoquit_threshold \in Nat

VARIABLES
  process,        \* "running", or how it ended
  hal,            \* the concentrator: "off", "on", "failed" to stop
  handlers,       \* sigaction has been called
  exit_sig, quit_sig,
  interrupted,    \* history: SIGINT, SIGTERM or autoquit, in time for main
  silent,         \* the server does not answer any more
  main_pc,        \* where main is
  cancelled,      \* main has called pthread_cancel
  receiver,       \* the GPS receiver could be opened
  gps_fake_enable,
  gps_enabled,
  reference,      \* time_reference_gps: "unset", "recent" or "old"
  gps_ref_valid,
  gps_threads,    \* thread_gps and thread_valid have been created
  report_ready,   \* a status report waits for thread_up
  up_pc,          \* where thread_up is
  rxpkt,          \* packets fetched and not looked at yet
  pkt_in_dgram,   \* packets in the datagram being composed
  send_report,    \* the datagram takes a report
  stamp,          \* origin of the reference copied, "none" for no stamps
  tries,          \* recv calls left for its PUSH_ACK
  cycles,         \* history: fetches since main left its loop, at most 2
  down_pc,        \* where thread_down is
  tx_ref,         \* origin of that a transmission is timed by, or "none"
  req_ack,        \* the latest PULL_DATA has been acknowledged
  autoquit_cnt,   \* PULL_DATA since the latest PULL_ACK
  mx_concent, mx_meas_up, mx_meas_dw   \* holders of the mutexes

sigVars  == <<handlers, exit_sig, quit_sig, interrupted, silent>>
mainVars == <<main_pc, hal, cancelled, receiver, gps_fake_enable>>
gpsVars  == <<reference, gps_ref_valid, gps_threads>>
upVars   == <<up_pc, rxpkt, pkt_in_dgram, send_report, stamp, tries, cycles>>
downVars == <<down_pc, tx_ref, req_ack, autoquit_cnt>>
mutexes  == <<mx_concent, mx_meas_up, mx_meas_dw>>
vars == <<process, sigVars, mainVars, gps_enabled, gpsVars, report_ready,
          upVars, downVars, mutexes>>

Init ==
  /\ process = "running" /\ hal = "off"
  /\ handlers = FALSE /\ exit_sig = FALSE /\ quit_sig = FALSE
  /\ interrupted = FALSE /\ silent = FALSE
  /\ main_pc = "config" /\ cancelled = FALSE
  /\ receiver = FALSE /\ gps_fake_enable = FALSE /\ gps_enabled = FALSE
  /\ reference = "unset" /\ gps_ref_valid = FALSE
  /\ gps_threads = FALSE
  /\ report_ready = FALSE
  /\ up_pc = "none" /\ rxpkt = 0 /\ pkt_in_dgram = 0
  /\ send_report = FALSE /\ stamp = "none" /\ tries = 0 /\ cycles = 0
  /\ down_pc = "none" /\ tx_ref = "none" /\ req_ack = FALSE
  /\ autoquit_cnt = 0
  /\ mx_concent = "free" /\ mx_meas_up = "free" /\ mx_meas_dw = "free"

Running == process = "running"
stop == exit_sig \/ quit_sig

Exit(status) ==
  /\ Running /\ process' = status
  /\ UNCHANGED <<sigVars, mainVars, gps_enabled, gpsVars, report_ready,
                 upVars, downVars, mutexes>>

(***************************************************************************)
(* Signals, and the server.                                                *)
(***************************************************************************)
Kill == ~handlers /\ Exit("killed")

OnlySignals ==
  /\ Running
  /\ UNCHANGED <<process, handlers, mainVars, gps_enabled, gpsVars,
                 report_ready, upVars, downVars, mutexes>>

Interrupt ==
  /\ handlers /\ OnlySignals
  /\ exit_sig' = TRUE
  /\ interrupted' = (interrupted \/ main_pc \notin {"stop", "exit"})
  /\ UNCHANGED <<quit_sig, silent>>

Quit ==
  /\ handlers /\ OnlySignals
  /\ quit_sig' = TRUE
  /\ UNCHANGED <<exit_sig, interrupted, silent>>

FallSilent ==
  /\ OnlySignals
  /\ silent' = TRUE
  /\ UNCHANGED <<exit_sig, quit_sig, interrupted>>

(***************************************************************************)
(* main.                                                                   *)
(***************************************************************************)
Startup == {"config", "connect", "start", "spawn_up", "spawn_down"}

Fails == main_pc \in Startup /\ Exit("failure")

\* One of the GPS threads cannot be created.
GpsFails == main_pc = "spawn_gps" /\ Exit("gps_failure")

Moves(from, to) == Running /\ main_pc = from /\ main_pc' = to

\* The configuration, which may ask for fake coordinates, and then the
\* receiver: without one the program goes on.
Configure ==
  /\ Moves("config", "connect")
  /\ gps_fake_enable' \in BOOLEAN
  /\ receiver' \in BOOLEAN
  /\ gps_enabled' = receiver'
  /\ gps_ref_valid' = FALSE
  /\ UNCHANGED <<process, sigVars, hal, cancelled, reference, gps_threads,
                 report_ready, upVars, downVars, mutexes>>

MainGoes(from, to) ==
  /\ Moves(from, to)
  /\ UNCHANGED <<process, sigVars, hal, cancelled, receiver, gps_fake_enable,
                 gps_enabled, gpsVars, report_ready, upVars, downVars,
                 mutexes>>

Connect == MainGoes("connect", "start")

StartConcentrator ==
  /\ Moves("start", "spawn_up")
  /\ hal' = "on"
  /\ UNCHANGED <<process, sigVars, cancelled, receiver, gps_fake_enable,
                 gps_enabled, gpsVars, report_ready, upVars, downVars,
                 mutexes>>

others == <<process, hal, cancelled, receiver, gps_fake_enable, gps_enabled,
            report_ready, mutexes>>

SpawnUp ==
  /\ Moves("spawn_up", "spawn_down")
  /\ up_pc' = "setup"
  /\ UNCHANGED <<others, sigVars, gpsVars, rxpkt, pkt_in_dgram, send_report,
                 stamp, tries, cycles, downVars>>

SpawnDown ==
  /\ Moves("spawn_down", "spawn_gps")
  /\ down_pc' = "setup"
  /\ UNCHANGED <<others, sigVars, gpsVars, upVars, tx_ref, req_ack,
                 autoquit_cnt>>

\* thread_gps and thread_valid, if the receiver is open.
SpawnGps ==
  /\ Moves("spawn_gps", "signals")
  /\ gps_threads' = gps_enabled
  /\ UNCHANGED <<others, sigVars, reference, gps_ref_valid, upVars, downVars>>

InstallHandlers ==
  /\ Moves("signals", IF stop THEN "join" ELSE "wait")
  /\ handlers' = TRUE
  /\ UNCHANGED <<others, exit_sig, quit_sig, interrupted, silent, gpsVars,
                 upVars, downVars>>

Interval == MainGoes("wait", "snap_up")
SnapshotUp == mx_meas_up = "free" /\ MainGoes("snap_up", "snap_dw")

\* The downstream counters, and then the report, with fake coordinates as if
\* from a receiver: main then takes the GPS for enabled, and so do the packet
\* threads.
SnapshotDown ==
  /\ mx_meas_dw = "free"
  /\ Moves("snap_dw", IF stop THEN "join" ELSE "wait")
  /\ gps_enabled' = (gps_enabled \/ gps_fake_enable)
  /\ report_ready' = TRUE
  /\ UNCHANGED <<process, sigVars, hal, cancelled, receiver, gps_fake_enable,
                 gpsVars, upVars, downVars, mutexes>>

\* Mutant of JoinUp: thread_up is not waited for.
JoinNobody == MainGoes("join", "cancel")

JoinUp == up_pc = "ended" /\ MainGoes("join", "cancel")

\* pthread_cancel of three threads, and a look at exit_sig.
Cancel ==
  /\ Moves("cancel", IF exit_sig THEN "stop" ELSE "exit")
  /\ cancelled' = TRUE
  /\ UNCHANGED <<process, sigVars, hal, receiver, gps_fake_enable,
                 gps_enabled, gpsVars, report_ready, upVars, downVars,
                 mutexes>>

\* Without a receiver thrid_gps and thrid_valid were never set: what
\* pthread_cancel makes of them may end the process.
CancelNothing == main_pc = "cancel" /\ ~gps_threads /\ Exit("crashed")

StopConcentrator ==
  /\ Moves("stop", "exit")
  /\ hal' \in {"off", "failed"}
  /\ UNCHANGED <<process, sigVars, cancelled, receiver, gps_fake_enable,
                 gps_enabled, gpsVars, report_ready, upVars, downVars,
                 mutexes>>

Leave == main_pc = "exit" /\ Exit("success")

Main ==
  \/ Fails \/ GpsFails \/ Configure \/ Connect \/ StartConcentrator
  \/ SpawnUp \/ SpawnDown \/ SpawnGps \/ InstallHandlers \/ Interval
  \/ SnapshotUp \/ SnapshotDown \/ JoinUp \/ Cancel
  \/ CancelNothing \/ StopConcentrator \/ Leave

(***************************************************************************)
(* thread_up.                                                              *)
(***************************************************************************)
UpMoves(from, to) ==
  /\ Running /\ up_pc = from /\ up_pc' = to
  /\ UNCHANGED <<process, sigVars, mainVars, gps_enabled, gpsVars, downVars,
                 mx_meas_dw>>

UpSetup ==
  /\ UpMoves("setup", "top")
  /\ UNCHANGED <<report_ready, rxpkt, pkt_in_dgram, send_report, stamp, tries,
                 cycles, mx_concent, mx_meas_up>>

\* setsockopt fails, or a packet cannot be put into words.
UpFails ==
  /\ up_pc = "setup" \/ (up_pc = "filter" /\ rxpkt > 0)
  /\ up_pc = "filter" => mx_meas_up = "free"
  /\ Exit("failure")

FetchError ==
  /\ Running /\ up_pc = "fetch"
  /\ process' = "failure"
  /\ mx_concent' = "free"
  /\ UNCHANGED <<sigVars, mainVars, gps_enabled, gpsVars, report_ready,
                 upVars, downVars, mx_meas_up, mx_meas_dw>>

UpTop ==
  /\ UpMoves("top", IF stop THEN "ended" ELSE "lock")
  /\ UNCHANGED <<report_ready, rxpkt, pkt_in_dgram, send_report, stamp, tries,
                 cycles, mx_concent, mx_meas_up>>

BeginFetch ==
  /\ mx_concent = "free"
  /\ UpMoves("lock", "fetch")
  /\ mx_concent' = "up"
  /\ cycles' = IF main_pc = "join" /\ cycles < 2 THEN cycles + 1 ELSE cycles
  /\ UNCHANGED <<report_ready, rxpkt, pkt_in_dgram, send_report, stamp, tries,
                 mx_meas_up>>

\* lgw_receive returns n packets; report_ready is read without its mutex.
EndFetch(n) ==
  /\ UpMoves("fetch", CASE n > 0 -> "ref"
                        [] n = 0 /\ report_ready -> "report"
                        [] OTHER -> "top")
  /\ mx_concent' = "free"
  /\ rxpkt' = n
  /\ send_report' = report_ready
  /\ UNCHANGED <<report_ready, pkt_in_dgram, stamp, tries, cycles, mx_meas_up>>

\* Whether the receiver ever gave the reference that is copied.
Origin == IF reference = "unset" THEN "unset" ELSE "given"

\* Mutant of CopyReference: the reference is used whether or not it is valid.
CopyAnyReference ==
  /\ UpMoves("ref", "filter")
  /\ stamp' = IF gps_enabled THEN Origin ELSE "none"
  /\ UNCHANGED <<report_ready, rxpkt, pkt_in_dgram, send_report, tries,
                 cycles, mx_concent, mx_meas_up>>

\* gps_ref_valid and the reference, under mx_timeref.
CopyReference ==
  /\ UpMoves("ref", "filter")
  /\ stamp' = IF gps_enabled /\ gps_ref_valid THEN Origin ELSE "none"
  /\ UNCHANGED <<report_ready, rxpkt, pkt_in_dgram, send_report, tries,
                 cycles, mx_concent, mx_meas_up>>

Filter(forward) ==
  /\ rxpkt > 0 /\ mx_meas_up = "free"
  /\ UpMoves("filter", "filter")
  /\ rxpkt' = rxpkt - 1
  /\ pkt_in_dgram' = IF forward THEN pkt_in_dgram + 1 ELSE pkt_in_dgram
  /\ UNCHANGED <<report_ready, send_report, stamp, tries, cycles, mx_concent,
                 mx_meas_up>>

\* Nothing is sent if every packet was skipped and there is no report.  The
\* report taken is the latest, and is taken once.
Push ==
  /\ rxpkt = 0
  /\ \E at \in {"filter", "report"} :
       UpMoves(at, IF pkt_in_dgram = 0 /\ ~send_report THEN "top" ELSE "count")
  /\ report_ready' = (report_ready /\ ~send_report)
  /\ stamp' = "none"
  /\ UNCHANGED <<rxpkt, pkt_in_dgram, send_report, tries, cycles, mx_concent,
                 mx_meas_up>>

CountPush ==
  /\ mx_meas_up = "free"
  /\ UpMoves("count", "ack")
  /\ mx_meas_up' = "up"
  /\ tries' = 2
  /\ UNCHANGED <<report_ready, rxpkt, pkt_in_dgram, send_report, stamp,
                 cycles, mx_concent>>

\* A timeout, or something that is not the PUSH_ACK waited for.
RecvOther ==
  /\ tries > 0
  /\ UpMoves("ack", "ack")
  /\ tries' = tries - 1
  /\ UNCHANGED <<report_ready, rxpkt, pkt_in_dgram, send_report, stamp,
                 cycles, mx_concent, mx_meas_up>>

\* The PUSH_ACK, a socket error, or no recv left.
EndPush ==
  /\ UpMoves("ack", "top")
  /\ mx_meas_up' = "free"
  /\ tries' = 0
  /\ pkt_in_dgram' = 0
  /\ send_report' = FALSE
  /\ UNCHANGED <<report_ready, rxpkt, stamp, cycles, mx_concent>>

ThreadUp ==
  \/ UpSetup \/ UpFails \/ FetchError \/ UpTop \/ BeginFetch
  \/ (\E n \in 0 .. NB_PKT_MAX : EndFetch(n)) \/ CopyReference
  \/ (\E forward \in BOOLEAN : Filter(forward))
  \/ Push \/ CountPush \/ RecvOther \/ EndPush

(***************************************************************************)
(* thread_down.                                                            *)
(***************************************************************************)
DownMoves(from, to) ==
  /\ Running /\ down_pc = from /\ down_pc' = to
  /\ UNCHANGED <<process, handlers, quit_sig, silent, mainVars, gps_enabled,
                 gpsVars, report_ready, upVars, mx_meas_up>>

DownGoes(from, to) ==
  /\ DownMoves(from, to)
  /\ UNCHANGED <<exit_sig, interrupted, tx_ref, req_ack, autoquit_cnt,
                 mx_concent, mx_meas_dw>>

\* setsockopt fails, or b64_to_bin does not know a character.
DownFails ==
  /\ down_pc = "setup" \/ (down_pc = "listen" /\ ~silent)
  /\ Exit("failure")

DownSetup == DownGoes("setup", "top")

Silence == autoquit_threshold > 0 /\ autoquit_cnt >= autoquit_threshold

DownEnds == stop /\ DownGoes("top", "ended")

Autoquit ==
  /\ ~stop /\ Silence
  /\ DownMoves("top", "ended")
  /\ exit_sig' = TRUE
  /\ interrupted' = (interrupted \/ main_pc \notin {"stop", "exit"})
  /\ UNCHANGED <<tx_ref, req_ack, autoquit_cnt, mx_concent, mx_meas_dw>>

SendPull == ~stop /\ ~Silence /\ DownGoes("top", "sent")

\* autoquit_cnt is compared with the threshold only if there is one.
CountPull ==
  /\ mx_meas_dw = "free"
  /\ DownMoves("sent", "listen")
  /\ req_ack' = FALSE
  /\ autoquit_cnt' = IF autoquit_threshold > 0 THEN autoquit_cnt + 1 ELSE 0
  /\ UNCHANGED <<exit_sig, interrupted, tx_ref, mx_concent, mx_meas_dw>>

Elapsed == DownGoes("listen", "top")

RecvPullAck ==
  /\ ~silent /\ ~req_ack
  /\ DownMoves("listen", "acked")
  /\ req_ack' = TRUE
  /\ autoquit_cnt' = 0
  /\ UNCHANGED <<exit_sig, interrupted, tx_ref, mx_concent, mx_meas_dw>>

CountPullAck == mx_meas_dw = "free" /\ DownGoes("acked", "listen")

\* A PULL_RESP to be sent at once or at a given count, or at a UTC time,
\* which needs a valid reference; without one it is dropped.
RecvResp(timed) ==
  /\ ~silent
  /\ timed => gps_enabled /\ gps_ref_valid
  /\ DownMoves("listen", "resp")
  /\ tx_ref' = IF timed THEN Origin ELSE "none"
  /\ UNCHANGED <<exit_sig, interrupted, req_ack, autoquit_cnt, mx_concent,
                 mx_meas_dw>>

CountResp ==
  /\ mx_meas_dw = "free"
  /\ DownMoves("resp", "concent")
  /\ mx_meas_dw' = "down"
  /\ UNCHANGED <<exit_sig, interrupted, tx_ref, req_ack, autoquit_cnt,
                 mx_concent>>

LockConcent ==
  /\ mx_concent = "free"
  /\ DownMoves("concent", "tx")
  /\ mx_concent' = "down"
  /\ UNCHANGED <<exit_sig, interrupted, tx_ref, req_ack, autoquit_cnt,
                 mx_meas_dw>>

\* lgw_send, whatever it returns.
Transmit ==
  /\ DownMoves("tx", "listen")
  /\ mx_concent' = "free" /\ mx_meas_dw' = "free"
  /\ tx_ref' = "none"
  /\ UNCHANGED <<exit_sig, interrupted, req_ack, autoquit_cnt>>

\* The cancellation is acted upon at a send, a recv or a printf.
Cancelled ==
  /\ cancelled
  /\ \E at \in {"setup", "top", "sent", "listen", "acked", "resp"} :
       DownGoes(at, "ended")

ThreadDown ==
  \/ DownSetup \/ DownFails \/ DownEnds \/ Autoquit \/ SendPull \/ CountPull
  \/ Elapsed \/ RecvPullAck \/ CountPullAck
  \/ (\E timed \in BOOLEAN : RecvResp(timed))
  \/ CountResp \/ LockConcent \/ Transmit \/ Cancelled

(***************************************************************************)
(* thread_gps and thread_valid.  They end at some time after a stop signal *)
(* or pthread_cancel: one that has ended is one that takes no more turns.  *)
(***************************************************************************)
OnlyGps ==
  /\ Running
  /\ UNCHANGED <<process, sigVars, mainVars, gps_enabled, report_ready,
                 upVars, downVars, mutexes>>

\* An RMC sentence: the time of the pulse is read under mx_concent, and the
\* reference becomes a new one unless the receiver is out of sync.  Other
\* sentences, and failures, change nothing.
ThreadGps ==
  /\ gps_threads /\ OnlyGps
  /\ mx_concent = "free"
  /\ reference' = "recent"
  /\ UNCHANGED <<gps_ref_valid, gps_threads>>

\* Once a second the age of the reference is looked at; time_reference_gps
\* starts as one of 1970.
ThreadValid ==
  /\ gps_threads /\ OnlyGps
  /\ gps_ref_valid' = (reference = "recent")
  /\ UNCHANGED <<reference, gps_threads>>

\* GPS_REF_MAX_AGE seconds without a new reference.
Age ==
  /\ reference = "recent" /\ OnlyGps
  /\ reference' = "old"
  /\ UNCHANGED <<gps_ref_valid, gps_threads>>

Next ==
  \/ Main \/ ThreadUp \/ ThreadDown \/ ThreadGps \/ ThreadValid \/ Age
  \/ Kill \/ Interrupt \/ Quit \/ FallSilent

Spec == Init /\ [][Next]_vars
-----------------------------------------------------------------------------
TypeOK ==
  /\ process \in {"running", "success", "failure", "gps_failure", "killed",
                  "crashed"}
  /\ hal \in {"off", "on", "failed"}
  /\ {handlers, exit_sig, quit_sig, interrupted, silent, cancelled, receiver,
      gps_fake_enable, gps_enabled, gps_ref_valid, gps_threads, report_ready,
      send_report, req_ack} \subseteq BOOLEAN
  /\ main_pc \in Startup \cup {"spawn_gps", "signals", "wait", "snap_up",
                                "snap_dw", "join", "cancel", "stop",
                                "exit"}
  /\ reference \in {"unset", "recent", "old"}
  /\ up_pc \in {"none", "setup", "top", "lock", "fetch", "ref", "filter",
                "report", "count", "ack", "ended"}
  /\ {stamp, tx_ref} \subseteq {"none", "unset", "given"}
  /\ cycles \in 0 .. 2 /\ tries \in 0 .. 2
  /\ rxpkt \in Nat /\ pkt_in_dgram \in Nat
  /\ rxpkt + pkt_in_dgram <= NB_PKT_MAX
  /\ down_pc \in {"none", "setup", "top", "sent", "listen", "acked", "resp",
                  "concent", "tx", "ended"}
  /\ autoquit_cnt \in 0 .. autoquit_threshold
  /\ mx_concent \in {"free", "up", "down"}
  /\ mx_meas_up \in {"free", "up"}
  /\ mx_meas_dw \in {"free", "down"}

\* No packet is stamped and none is timed by a reference the receiver never
\* gave, although main takes the GPS for enabled when the coordinates are
\* fake, and the reference is copied while its threads come and go.
TimedByReceiver ==
  stamp # "none" \/ tx_ref # "none" =>
    /\ receiver
    /\ stamp # "unset" /\ tx_ref # "unset"

\* A datagram without packets, for its report alone, is no datagram to the
\* basic forwarder: its mutex and its wait are hidden.
pushing == up_pc \in {"count", "ack"}
reportOnly == up_pc = "report" \/ (pushing /\ pkt_in_dgram = 0)

Basic == INSTANCE BasicForwarder WITH
  process <- IF process \in {"gps_failure", "crashed"} THEN "running"
             ELSE process,
  main_pc <- IF main_pc = "spawn_gps" THEN "signals" ELSE main_pc,
  up_pc <- CASE reportOnly -> "top"
             [] up_pc = "ref" -> "filter"
             [] OTHER -> up_pc,
  pkt_in_dgram <- IF pushing THEN 0 ELSE pkt_in_dgram,
  tries <- IF reportOnly THEN 0 ELSE tries,
  mx_meas_up <- IF reportOnly THEN "free" ELSE mx_meas_up

\* The forwarder with GPS behaves as the basic one: packets are fetched,
\* sent and acknowledged, and the radio is started and stopped, in the same
\* orders.  A crash at the end is a basic forwarder that gets no further.
ImplementsBasic == Basic!Spec
=============================================================================
