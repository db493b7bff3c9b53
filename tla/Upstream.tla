------------------------------ MODULE Upstream ------------------------------
(***************************************************************************)
(* thread_up of poly_pkt_fwd.c and the part of main's statistics loop it   *)
(* shares data with.  thread_up fetches packets, filters and counts them,  *)
(* composes one PUSH_DATA datagram, adds a pending status report and sends *)
(* the datagram to every started server in turn, waiting for each PUSH_ACK *)
(* with mx_meas_up held.  main takes snapshots of the counters and leaves  *)
(* status reports in a mailbox of one place.                               *)
(*                                                                         *)
(* A critical section that touches nothing another thread can see half     *)
(* done is one action; those that span several actions hold the mutex      *)
(* variable.  Byte counters and the JSON text are left out.                *)
(***************************************************************************)
EXTENDS Integers, Sequences, FiniteSets

CONSTANTS
  NumServers,     \* gtw_conf.serv_count
  Packets,        \* the kinds of packets that can be received
  NB_PKT_MAX,     \* packets per fetch
  FwdStatus,      \* the packet statuses the configuration forwards
  Ghosts,         \* gtw_conf.ghoststream_enabled
  MaxPackets,     \* bound: packets fetched in a run
  MaxReports      \* bound: status reports generated in a run

Serv == 1 .. NumServers

\* p->status; "odd" is any value the switch does not name.
Known    == {"ok", "bad", "nocrc"}
Statuses == Known \cup {"odd"}

\* A packet is its CRC status, and whether thread_up can serialise it (an
\* unknown datarate or a payload bin_to_b64 refuses makes it exit).
ASSUME UpstreamAssumption ==
  /\ NumServers \in Nat \ {0}
  /\ Packets \subseteq [status : Statuses, fits : BOOLEAN]
  /\ NB_PKT_MAX \in Nat \ {0}
  /\ FwdStatus \subseteq Known
  /\ Ghosts \in BOOLEAN
  /\ MaxPackets \in Nat
  /\ MaxReports \in Nat

\* The meas_ counters: packets received, by status, forwarded; datagrams
\* sent and acknowledged.
Counters == Known \cup {"rcv", "fwd", "sent", "ack"}

Torn == -1   \* a status report that is being written

VARIABLES
  alive,          \* the process has not called exit
  stop,           \* exit_sig or quit_sig
  up_pc,          \* where thread_up is
  rxpkt,          \* fetched packets not filtered yet
  pkt_in_dgram,   \* packets in the datagram being composed
  send_report,    \* thread_up's copy of report_ready
  dgram,          \* the report in the datagram being composed, 0 if none
  ic,             \* the server thread_up is at
  tries,          \* recv calls left for this server's PUSH_ACK
  started,        \* servers whose sockets are connected
  noticed,        \* those thread_up has seen so: its own started[]
  main_pc,        \* where main is in its statistics loop
  mx_meas_up,     \* holder of the mutex on the counters
  mx_stat_rep,    \* holder of the mutex on the status report
  meas,           \* the meas_ counters
  report_ready,   \* the mailbox is full
  status_report,  \* the report in it, by number
  fetched,        \* history: packets fetched
  owed,           \* history: what was counted and is in no snapshot of main
  cp,             \* main's last snapshot
  rep_no,         \* history: reports generated
  taken,          \* history: the last report put into a datagram
  delivered       \* history: that report was sent to some server

upVars   == <<up_pc, rxpkt, pkt_in_dgram, send_report, dgram, ic, tries>>
mainVars == <<main_pc, cp, rep_no>>
mailbox  == <<report_ready, status_report, mx_stat_rep>>
counts   == <<meas, owed, mx_meas_up>>
vars == <<alive, stop, started, noticed, fetched, taken, delivered,
          upVars, mainVars, mailbox, counts>>

Zero == [c \in Counters |-> 0]

Bump(f, S) == [c \in Counters |-> IF c \in S THEN f[c] + 1 ELSE f[c]]

Count(S) == meas' = Bump(meas, S) /\ owed' = Bump(owed, S)

\* Mutant of Init: main does not wait for a server.
InitNoServer ==
  /\ alive = TRUE /\ stop = FALSE
  /\ up_pc = "fetch" /\ rxpkt = <<>> /\ pkt_in_dgram = 0
  /\ send_report = FALSE
  /\ dgram = 0
  /\ ic = 1 /\ tries = 0
  /\ started = {} /\ noticed = {}
  /\ main_pc = "wait" /\ mx_meas_up = "free" /\ mx_stat_rep = "free"
  /\ meas = Zero /\ owed = Zero /\ cp = Zero
  /\ report_ready = FALSE /\ status_report = 0 /\ rep_no = 0
  /\ fetched = 0 /\ taken = 0
  /\ delivered = FALSE

\* main starts the threads once servers_wait_one_started has returned.
Init ==
  /\ alive = TRUE /\ stop = FALSE
  /\ up_pc = "fetch" /\ rxpkt = <<>> /\ pkt_in_dgram = 0
  /\ send_report = FALSE
  /\ dgram = 0
  /\ ic = 1 /\ tries = 0
  /\ started \in (SUBSET Serv) \ {{}} /\ noticed = {}
  /\ main_pc = "wait" /\ mx_meas_up = "free" /\ mx_stat_rep = "free"
  /\ meas = Zero /\ owed = Zero /\ cp = Zero
  /\ report_ready = FALSE /\ status_report = 0 /\ rep_no = 0
  /\ fetched = 0 /\ taken = 0
  /\ delivered = FALSE

(***************************************************************************)
(* The environment: a signal, and thread_connect reaching one more server. *)
(***************************************************************************)
Signal ==
  /\ alive /\ ~stop
  /\ stop' = TRUE
  /\ UNCHANGED <<alive, started, noticed, fetched, taken, delivered,
                 upVars, mainVars, mailbox, counts>>

ServerStarts(s) ==
  /\ alive /\ s \notin started
  /\ started' = started \cup {s}
  /\ UNCHANGED <<alive, stop, noticed, fetched, taken, delivered,
                 upVars, mainVars, mailbox, counts>>

Exit ==
  /\ alive' = FALSE
  /\ UNCHANGED <<stop, started, noticed, taken, delivered,
                 upVars, mainVars, mailbox, counts>>

(***************************************************************************)
(* thread_up: fetching.                                                    *)
(***************************************************************************)
Fetched(batch) ==
  /\ fetched + Len(batch) <= MaxPackets
  /\ fetched' = fetched + Len(batch)
  /\ rxpkt' = batch
  /\ up_pc' = "poll"
  /\ UNCHANGED <<alive, stop, started, noticed, taken, delivered,
                 pkt_in_dgram, send_report, dgram, ic, tries,
                 mainVars, mailbox, counts>>

\* lgw_receive and ghost_get together fill at most NB_PKT_MAX places.
Fetch(batch) ==
  /\ alive /\ ~stop /\ up_pc = "fetch"
  /\ Len(batch) <= NB_PKT_MAX
  /\ Fetched(batch)

\* nb_pkt = -1 from the HAL is added to the number of ghost packets before
\* it is compared with LGW_HAL_ERROR, so one ghost packet hides the error.
FetchError(ghosts) ==
  /\ alive /\ ~stop /\ up_pc = "fetch"
  /\ Len(ghosts) <= IF Ghosts THEN NB_PKT_MAX + 1 ELSE 0
  /\ IF ghosts = <<>> THEN Exit /\ UNCHANGED fetched ELSE Fetched(Tail(ghosts))

\* send_report is an unlocked read.
Poll ==
  /\ alive /\ up_pc = "poll"
  /\ send_report' = report_ready
  /\ IF rxpkt = <<>> /\ ~report_ready
     THEN up_pc' = "fetch" ELSE up_pc' = "filter"
  /\ UNCHANGED <<alive, stop, started, noticed, fetched, taken, delivered,
                 rxpkt, pkt_in_dgram, dgram, ic, tries, mainVars,
                 mailbox, counts>>

(***************************************************************************)
(* thread_up: filtering and serialising one packet.                        *)
(***************************************************************************)
Filter ==
  /\ alive /\ up_pc = "filter" /\ rxpkt # <<>>
  /\ mx_meas_up = "free"
  /\ LET s == Head(rxpkt).status
         forward == s \in FwdStatus IN
     /\ Count({"rcv"} \cup ({s} \cap Known)
                      \cup (IF forward THEN {"fwd"} ELSE {}))
     /\ IF forward /\ ~Head(rxpkt).fits
        THEN alive' = FALSE /\ UNCHANGED <<rxpkt, pkt_in_dgram>>
        ELSE /\ rxpkt' = Tail(rxpkt)
             /\ pkt_in_dgram' = IF forward THEN pkt_in_dgram + 1
                                ELSE pkt_in_dgram
             /\ UNCHANGED alive
  /\ UNCHANGED <<stop, started, noticed, fetched, taken, delivered,
                 up_pc, send_report, dgram, ic, tries,
                 mx_meas_up, mainVars, mailbox>>

\* Mutant of Compose: a report alone does not make a datagram.
ComposePacketsOnly ==
  /\ alive /\ up_pc = "filter" /\ rxpkt = <<>>
  /\ pkt_in_dgram' = 0
  /\ \/ pkt_in_dgram > 0 /\ send_report /\ up_pc' = "report"
     \/ pkt_in_dgram > 0 /\ ~send_report /\ up_pc' = "send"
     \/ pkt_in_dgram = 0 /\ up_pc' = "fetch"
  /\ UNCHANGED <<alive, stop, started, noticed, fetched, taken, delivered,
                 rxpkt, send_report, dgram, ic, tries, mainVars,
                 mailbox, counts>>

\* All packets filtered out and no report: restart without sending.
Compose ==
  /\ alive /\ up_pc = "filter" /\ rxpkt = <<>>
  /\ pkt_in_dgram' = 0
  /\ \/ send_report /\ up_pc' = "report"
     \/ ~send_report /\ pkt_in_dgram > 0 /\ up_pc' = "send"
     \/ ~send_report /\ pkt_in_dgram = 0 /\ up_pc' = "fetch"
  /\ UNCHANGED <<alive, stop, started, noticed, fetched, taken, delivered,
                 rxpkt, send_report, dgram, ic, tries, mainVars,
                 mailbox, counts>>

TakeReport ==
  /\ alive /\ up_pc = "report"
  /\ mx_stat_rep = "free"
  /\ report_ready' = FALSE
  /\ dgram' = status_report
  /\ taken' = status_report
  /\ delivered' = FALSE
  /\ up_pc' = "send"
  /\ UNCHANGED <<alive, stop, started, noticed, fetched,
                 rxpkt, pkt_in_dgram, send_report, ic, tries,
                 status_report, mx_stat_rep, mainVars, counts>>

(***************************************************************************)
(* thread_up: sending to the servers one after the other.                  *)
(***************************************************************************)
SkipServer ==
  /\ alive /\ up_pc = "send" /\ ic \in Serv \ started
  /\ ic' = ic + 1
  /\ UNCHANGED <<alive, stop, started, noticed, fetched, taken, delivered,
                 up_pc, rxpkt, pkt_in_dgram, send_report, dgram,
                 tries, mainVars, mailbox, counts>>

\* The first datagram to a server sets the timeout of its socket.
SockoptFails ==
  /\ alive /\ up_pc = "send" /\ ic \in started \ noticed
  /\ Exit /\ UNCHANGED fetched

Send ==
  /\ alive /\ up_pc = "send" /\ ic \in started
  /\ noticed' = noticed \cup {ic}
  /\ delivered' = (delivered \/ dgram # 0)
  /\ up_pc' = "count"
  /\ UNCHANGED <<alive, stop, started, fetched, taken, rxpkt,
                 pkt_in_dgram, send_report, dgram, ic, tries, mainVars,
                 mailbox, counts>>

\* Mutant of CountSent: the lock is released before the wait for PUSH_ACK.
CountSentUnlock ==
  /\ alive /\ up_pc = "count"
  /\ mx_meas_up = "free"
  /\ Count({"sent"})
  /\ tries' = 2
  /\ up_pc' = "ack"
  /\ UNCHANGED <<alive, stop, started, noticed, fetched, taken, delivered,
                 rxpkt, pkt_in_dgram, send_report, dgram, ic,
                 mx_meas_up, mainVars, mailbox>>

\* The lock taken here is kept until the last recv for this server.
CountSent ==
  /\ alive /\ up_pc = "count"
  /\ mx_meas_up = "free"
  /\ mx_meas_up' = "up"
  /\ Count({"sent"})
  /\ tries' = 2
  /\ up_pc' = "ack"
  /\ UNCHANGED <<alive, stop, started, noticed, fetched, taken, delivered,
                 rxpkt, pkt_in_dgram, send_report, dgram, ic,
                 mainVars, mailbox>>

AckVars == <<alive, stop, started, noticed, fetched, taken, delivered,
             rxpkt, pkt_in_dgram, send_report, dgram,
             mainVars, mailbox>>

NextServer ==
  /\ mx_meas_up' = "free"
  /\ ic' = ic + 1
  /\ up_pc' = "send"
  /\ tries' = 0

\* A PUSH_ACK with the token of the datagram, be it the answer to it or a
\* late one to an earlier datagram with the same random token.
RecvAck ==
  /\ alive /\ up_pc = "ack" /\ tries > 0
  /\ Count({"ack"})
  /\ NextServer
  /\ UNCHANGED AckVars

\* A timeout, a PUSH_ACK with another token, or no PUSH_ACK at all.
RecvOther ==
  /\ alive /\ up_pc = "ack" /\ tries > 0
  /\ tries' = tries - 1
  /\ UNCHANGED <<AckVars, up_pc, ic, counts>>

\* Both recv calls are used up, or the socket reported an error.
GiveUpAck ==
  /\ alive /\ up_pc = "ack"
  /\ NextServer
  /\ UNCHANGED <<AckVars, meas, owed>>

EndRound ==
  /\ alive /\ up_pc = "send" /\ ic > NumServers
  /\ up_pc' = "fetch"
  /\ ic' = 1
  /\ dgram' = 0
  /\ send_report' = FALSE
  /\ UNCHANGED <<alive, stop, started, noticed, fetched, taken, delivered,
                 rxpkt, pkt_in_dgram, tries, mainVars, mailbox,
                 counts>>

ThreadUp ==
  \/ \E n \in 0 .. NB_PKT_MAX : \E b \in [1 .. n -> Packets] : Fetch(b)
  \/ \E n \in 0 .. (NB_PKT_MAX + 1) : \E b \in [1 .. n -> Packets] :
       FetchError(b)
  \/ Poll \/ Filter \/ Compose \/ TakeReport
  \/ SkipServer \/ SockoptFails \/ Send \/ CountSent
  \/ RecvAck \/ RecvOther \/ GiveUpAck \/ EndRound

(***************************************************************************)
(* main's statistics loop, as far as it touches upstream data.             *)
(***************************************************************************)
StatsCopy ==
  /\ alive /\ main_pc = "wait"
  /\ rep_no < MaxReports
  /\ mx_meas_up = "free"
  /\ mx_meas_up' = "main"
  /\ cp' = meas
  /\ owed' = [c \in Counters |-> owed[c] - meas[c]]
  /\ main_pc' = "reset"
  /\ UNCHANGED <<alive, stop, started, noticed, fetched, taken, delivered,
                 upVars, rep_no, mailbox, meas>>

\* Mutant of StatsReset: one counter is not reset.
StatsResetPartly ==
  /\ alive /\ main_pc = "reset"
  /\ meas' = [Zero EXCEPT !["nocrc"] = meas["nocrc"]]
  /\ mx_meas_up' = "free"
  /\ main_pc' = "report"
  /\ UNCHANGED <<alive, stop, started, noticed, fetched, taken, delivered,
                 upVars, cp, rep_no, mailbox, owed>>

StatsReset ==
  /\ alive /\ main_pc = "reset"
  /\ meas' = Zero
  /\ mx_meas_up' = "free"
  /\ main_pc' = "report"
  /\ UNCHANGED <<alive, stop, started, noticed, fetched, taken, delivered,
                 upVars, cp, rep_no, mailbox, owed>>

ReportBegin ==
  /\ alive /\ main_pc = "report"
  /\ mx_stat_rep = "free"
  /\ mx_stat_rep' = "main"
  /\ status_report' = Torn
  /\ main_pc' = "write"
  /\ UNCHANGED <<alive, stop, started, noticed, fetched, taken, delivered,
                 upVars, cp, rep_no, report_ready, counts>>

ReportEnd ==
  /\ alive /\ main_pc = "write"
  /\ rep_no' = rep_no + 1
  /\ status_report' = rep_no + 1
  /\ report_ready' = TRUE
  /\ mx_stat_rep' = "free"
  /\ main_pc' = "trigcnt"
  /\ cp' = Zero   \* main's copies are dead from here on
  /\ UNCHANGED <<alive, stop, started, noticed, fetched, taken, delivered,
                 upVars, counts>>

\* An unintended reset of the SX1301 terminates the forwarder.  At the head
\* of the loop main looks at the signals.
CheckReset ==
  /\ alive /\ main_pc = "trigcnt"
  /\ main_pc' = IF stop THEN "join" ELSE "wait"
  /\ alive' \in BOOLEAN
  /\ UNCHANGED <<stop, started, noticed, fetched, taken, delivered,
                 upVars, cp, rep_no, mailbox, counts>>

\* main waits for thread_up to leave its loop, and exits.
JoinUp ==
  /\ alive /\ main_pc = "join"
  /\ stop /\ up_pc = "fetch"
  /\ alive' = FALSE
  /\ UNCHANGED <<stop, started, noticed, fetched, taken, delivered,
                 upVars, mainVars, mailbox, counts>>

Main == StatsCopy \/ StatsReset \/ ReportBegin \/ ReportEnd \/ CheckReset
        \/ JoinUp

Next ==
  \/ Signal
  \/ \E s \in Serv : ServerStarts(s)
  \/ ThreadUp
  \/ Main

Spec == Init /\ [][Next]_vars

\* Each thread keeps running.  A thread waiting for a mutex gets it in the
\* end: main sleeps stat_interval between two of its uses, thread_up releases
\* mx_meas_up between servers.
Fairness ==
  /\ WF_vars(ThreadUp) /\ WF_vars(Main)
  /\ SF_vars(Filter) /\ SF_vars(CountSent) /\ SF_vars(TakeReport)
  /\ SF_vars(StatsCopy) /\ SF_vars(ReportBegin)

FairSpec == Spec /\ Fairness
-----------------------------------------------------------------------------
TypeOK ==
  /\ alive \in BOOLEAN /\ stop \in BOOLEAN
  /\ up_pc \in {"fetch", "poll", "filter", "report", "send", "count", "ack"}
  /\ rxpkt \in Seq(Packets)
  /\ pkt_in_dgram \in Nat
  /\ send_report \in BOOLEAN
  /\ dgram \in Int
  /\ ic \in 1 .. (NumServers + 1)
  /\ tries \in 0 .. 2
  /\ {started, noticed} \subseteq SUBSET Serv
  /\ main_pc \in {"wait", "reset", "report", "write", "trigcnt", "join"}
  /\ mx_meas_up \in {"free", "up", "main"}
  /\ mx_stat_rep \in {"free", "main"}
  /\ {meas, owed, cp} \subseteq [Counters -> Nat]
  /\ report_ready \in BOOLEAN
  /\ status_report \in Int /\ taken \in Int /\ rep_no \in Nat
  /\ delivered \in BOOLEAN
  /\ fetched \in Nat

\* Nothing is lost or counted twice across main's snapshots: outside main's
\* critical section the counters hold exactly what no snapshot has had.
CountersConserved == mx_meas_up # "main" => meas = owed

\* The ratios main derives from a snapshot stay within 100%: an
\* acknowledgement is counted in the snapshot of its datagram, and a CRC
\* status in that of its packet.
RatiosSound ==
  /\ cp["ack"] <= cp["sent"]
  /\ cp["ok"] + cp["bad"] + cp["nocrc"] <= cp["rcv"]
  /\ cp["fwd"] <= cp["rcv"]

\* A report taken out of the mailbox has gone to some server by the time
\* thread_up starts its next round: main starts it with a server connected.
NoReportDropped ==
  up_pc = "fetch" /\ taken # 0 => delivered

\* A report in the mailbox is sent, unless the forwarder ends first.
ReportGetsSent == report_ready ~> (~report_ready \/ stop \/ ~alive)
=============================================================================
