----------------------------- MODULE Downstream -----------------------------
(***************************************************************************)
(* thread_down of poly_pkt_fwd.c, one per server: it polls the server with *)
(* PULL_DATA, matches PULL_ACK by token, hands the packets of PULL_RESP to *)
(* the concentrator and ends the program when a server stays silent.  The  *)
(* threads share the downstream counters with main and the concentrator    *)
(* with thread_up and main.                                                *)
(*                                                                         *)
(* UDP may lose, delay, reorder and duplicate: a server may acknowledge    *)
(* any PULL_DATA it was sent, at any time and repeatedly.  The beacon part *)
(* of thread_down and the parsing of PULL_RESP are left out;               *)
(* keepalive_time is positive.                                             *)
(***************************************************************************)
EXTENDS Integers, FiniteSets

CONSTANTS
  Servers,              \* servers with serv_enable, one thread each
  Tokens,               \* values of the random two-byte token
  autoquit_threshold,   \* gtw_conf.autoquit_threshold
  MayFallSilent,        \* servers that may stop answering for good
  Wrap,                 \* the counters are unsigned: modulo 2^32 in the code
  MaxPulls,             \* bound: PULL_DATA per server (none if Wrap is not larger)
  MaxResps              \* bound: PULL_RESP handled (likewise)

ASSUME DownstreamAssumption ==
  /\ "free" \notin Servers /\ "main" \notin Servers /\ "up" \notin Servers
  /\ Tokens # {}
  /\ MayFallSilent \subseteq Servers
  /\ autoquit_threshold \in Nat
  /\ Wrap \in Nat \ {0}
  /\ MaxPulls \in Nat /\ MaxResps \in Nat

\* meas_dw_pull_sent, meas_dw_ack_rcv, meas_dw_dgram_rcv, meas_nb_tx_ok and
\* meas_nb_tx_fail.
Counters == {"sent", "ack", "dgram", "ok", "fail"}

VARIABLES
  alive,         \* the process has not called exit
  exit_sig,      \* SIGINT, SIGTERM or autoquit
  quit_sig,      \* SIGQUIT
  quitter,       \* history: the server whose thread raised exit_sig
  pc,            \* where each thread_down is
  token,         \* token of the latest PULL_DATA
  req_ack,       \* it has been acknowledged
  autoquit_cnt,  \* PULL_DATA sent since the latest accepted PULL_ACK
  missed,        \* history: polls in a row that ended without PULL_ACK
  pulled,        \* tokens of the PULL_DATA sent to each server
  silent,        \* servers that send nothing any more
  mx_meas_dw,    \* holder of the mutex on the counters
  mx_concent,    \* holder of the mutex on the concentrator
  meas,          \* the counters
  cp,            \* main's snapshot, while it uses it
  main_pc,       \* where main is
  pulls,         \* PULL_DATA sent to each server
  resps          \* PULL_RESP handled

threadVars == <<pc, token, req_ack, autoquit_cnt, missed, pulled, pulls,
                resps>>
sigs       == <<exit_sig, quit_sig>>
flags      == <<alive, sigs, quitter, silent>>
mainVars   == <<cp, main_pc>>
vars == <<flags, threadVars, mainVars, mx_meas_dw, mx_concent, meas>>

stop == exit_sig \/ quit_sig

Inc(n) == (n + 1) % Wrap

Zero == [c \in Counters |-> 0]

Count(c) == meas' = [meas EXCEPT ![c] = Inc(@)]

Init ==
  /\ alive = TRUE /\ exit_sig = FALSE /\ quit_sig = FALSE /\ quitter = {} /\ silent = {}
  /\ pc = [s \in Servers |-> "wait"]
  /\ token \in [Servers -> Tokens]
  /\ req_ack = [s \in Servers |-> FALSE]
  /\ autoquit_cnt = [s \in Servers |-> 0]
  /\ missed = [s \in Servers |-> 0]
  /\ pulled = [s \in Servers |-> {}]
  /\ pulls = [s \in Servers |-> 0]
  /\ resps = 0
  /\ mx_meas_dw = "free" /\ mx_concent = "free"
  /\ meas = Zero /\ cp = Zero /\ main_pc = "wait"

Goto(s, label) == pc' = [pc EXCEPT ![s] = label]

(***************************************************************************)
(* The environment.                                                        *)
(***************************************************************************)
Signal ==
  /\ alive
  /\ \/ exit_sig' = TRUE /\ UNCHANGED quit_sig
     \/ quit_sig' = TRUE /\ UNCHANGED exit_sig
  /\ UNCHANGED <<alive, quitter, silent, threadVars, mainVars, mx_meas_dw,
                 mx_concent, meas>>

FallSilent(s) ==
  /\ s \in MayFallSilent \ silent
  /\ silent' = silent \cup {s}
  /\ UNCHANGED <<alive, sigs, quitter, threadVars, mainVars, mx_meas_dw,
                 mx_concent, meas>>

(***************************************************************************)
(* Polling.  Activate is the return of server_wait_started.                *)
(***************************************************************************)
Activate(s) ==
  /\ alive /\ pc[s] = "wait"
  /\ Goto(s, "top")
  /\ UNCHANGED <<flags, token, req_ack, autoquit_cnt, missed, pulled,
                 pulls, resps, mainVars, mx_meas_dw, mx_concent, meas>>

\* setsockopt on the connected socket may fail, and ends the process.
SockoptFails(s) ==
  /\ alive /\ pc[s] = "wait"
  /\ alive' = FALSE
  /\ UNCHANGED <<sigs, quitter, silent, threadVars, mainVars, mx_meas_dw,
                 mx_concent, meas>>

Silence(s) == autoquit_threshold > 0 /\ autoquit_cnt[s] >= autoquit_threshold

Ended(s) ==
  /\ alive /\ pc[s] = "top" /\ stop
  /\ Goto(s, "ended")
  /\ UNCHANGED <<flags, token, req_ack, autoquit_cnt, missed, pulled,
                 pulls, resps, mainVars, mx_meas_dw, mx_concent, meas>>

Autoquit(s) ==
  /\ alive /\ pc[s] = "top" /\ ~stop
  /\ Silence(s)
  /\ exit_sig' = TRUE
  /\ quitter' = {s}
  /\ Goto(s, "ended")
  /\ UNCHANGED <<alive, quit_sig, silent, token, req_ack, autoquit_cnt, missed,
                 pulled, pulls, resps, mainVars, mx_meas_dw, mx_concent, meas>>

SendPull(s, t) ==
  /\ alive /\ pc[s] = "top" /\ ~stop
  /\ ~Silence(s)
  /\ pulls[s] < MaxPulls
  /\ token' = [token EXCEPT ![s] = t]
  /\ pulled' = [pulled EXCEPT ![s] = @ \cup {t}]
  /\ Goto(s, "sent")
  /\ UNCHANGED <<flags, req_ack, autoquit_cnt, missed, pulls, resps,
                 mainVars, mx_meas_dw, mx_concent, meas>>

\* Mutant of CountPull: unanswered polls are not counted.
CountPullOnly(s) ==
  /\ alive /\ pc[s] = "sent"
  /\ mx_meas_dw = "free"
  /\ Count("sent")
  /\ req_ack' = [req_ack EXCEPT ![s] = FALSE]
  /\ pulls' = [pulls EXCEPT ![s] = Inc(@)]
  /\ Goto(s, "listen")
  /\ UNCHANGED <<flags, token, autoquit_cnt, missed, pulled, resps,
                 mainVars, mx_meas_dw, mx_concent>>

CountPull(s) ==
  /\ alive /\ pc[s] = "sent"
  /\ mx_meas_dw = "free"
  /\ Count("sent")
  /\ req_ack' = [req_ack EXCEPT ![s] = FALSE]
  /\ autoquit_cnt' = [autoquit_cnt EXCEPT ![s] =
                        IF autoquit_threshold > 0 THEN @ + 1 ELSE Inc(@)]
  /\ pulls' = [pulls EXCEPT ![s] = Inc(@)]
  /\ Goto(s, "listen")
  /\ UNCHANGED <<flags, token, missed, pulled, resps, mainVars,
                 mx_meas_dw, mx_concent>>

\* recv has returned and keepalive_time has passed: poll again.
Elapsed(s) ==
  /\ alive /\ pc[s] = "listen"
  /\ Goto(s, "top")
  /\ missed' = [missed EXCEPT ![s] =
                  IF req_ack[s] THEN 0
                  ELSE IF @ < autoquit_threshold THEN @ + 1 ELSE @]
  /\ UNCHANGED <<flags, token, req_ack, autoquit_cnt, pulled, pulls,
                 resps, mainVars, mx_meas_dw, mx_concent, meas>>

(***************************************************************************)
(* PULL_ACK: only the token of the latest PULL_DATA counts, and only once. *)
(***************************************************************************)
Accepts(s, t) == t = token[s] /\ ~req_ack[s]

\* Mutant of RecvAck: an accepted PULL_ACK does not reset the count.
RecvAckKeep(s, t) ==
  /\ alive /\ pc[s] = "listen" /\ s \notin silent
  /\ t \in pulled[s]
  /\ IF Accepts(s, t)
     THEN /\ req_ack' = [req_ack EXCEPT ![s] = TRUE]
          /\ Goto(s, "acked")
     ELSE UNCHANGED <<req_ack, pc>>
  /\ UNCHANGED <<flags, token, autoquit_cnt, missed, pulled, pulls, resps,
                 mainVars, mx_meas_dw, mx_concent, meas>>

RecvAck(s, t) ==
  /\ alive /\ pc[s] = "listen" /\ s \notin silent
  /\ t \in pulled[s]
  /\ IF Accepts(s, t)
     THEN /\ req_ack' = [req_ack EXCEPT ![s] = TRUE]
          /\ autoquit_cnt' = [autoquit_cnt EXCEPT ![s] = 0]
          /\ Goto(s, "acked")
     ELSE UNCHANGED <<req_ack, autoquit_cnt, pc>>
  /\ UNCHANGED <<flags, token, missed, pulled, pulls, resps, mainVars,
                 mx_meas_dw, mx_concent, meas>>

CountAck(s) ==
  /\ alive /\ pc[s] = "acked"
  /\ mx_meas_dw = "free"
  /\ Count("ack")
  /\ Goto(s, "listen")
  /\ UNCHANGED <<flags, token, req_ack, autoquit_cnt, missed, pulled,
                 pulls, resps, mainVars, mx_meas_dw, mx_concent>>

(***************************************************************************)
(* PULL_RESP with a txpk that parses; one that does not changes nothing.   *)
(* mx_meas_dw is held while the thread waits for the concentrator.         *)
(***************************************************************************)
RecvResp(s) ==
  /\ alive /\ pc[s] = "listen" /\ s \notin silent
  /\ resps < MaxResps
  /\ resps' = Inc(resps)
  /\ Goto(s, "resp")
  /\ UNCHANGED <<flags, token, req_ack, autoquit_cnt, missed, pulled,
                 pulls, mainVars, mx_meas_dw, mx_concent, meas>>

\* A payload with a character outside the base64 alphabet ends the process.
FatalResp(s) ==
  /\ alive /\ pc[s] = "listen" /\ s \notin silent
  /\ alive' = FALSE
  /\ UNCHANGED <<sigs, quitter, silent, threadVars, mainVars, mx_meas_dw,
                 mx_concent, meas>>

\* Mutant of CountResp: the counters are unlocked before the transmission.
CountRespUnlock(s) ==
  /\ alive /\ pc[s] = "resp"
  /\ mx_meas_dw = "free"
  /\ Count("dgram")
  /\ Goto(s, "concent")
  /\ UNCHANGED <<flags, token, req_ack, autoquit_cnt, missed, pulled,
                 pulls, resps, mainVars, mx_meas_dw, mx_concent>>

CountResp(s) ==
  /\ alive /\ pc[s] = "resp"
  /\ mx_meas_dw = "free"
  /\ mx_meas_dw' = s
  /\ Count("dgram")
  /\ Goto(s, "concent")
  /\ UNCHANGED <<flags, token, req_ack, autoquit_cnt, missed, pulled,
                 pulls, resps, mainVars, mx_concent>>

LockConcent(s) ==
  /\ alive /\ pc[s] = "concent"
  /\ mx_concent = "free"
  /\ mx_concent' = s
  /\ Goto(s, "tx")
  /\ UNCHANGED <<flags, token, req_ack, autoquit_cnt, missed, pulled,
                 pulls, resps, mainVars, mx_meas_dw, meas>>

\* Mutant of Transmit: the failing path leaves the concentrator locked.
TransmitNoUnlock(s, result) ==
  /\ alive /\ pc[s] = "tx"
  /\ Count(result)
  /\ mx_concent' = IF result = "ok" THEN "free" ELSE s
  /\ mx_meas_dw' = "free"
  /\ Goto(s, "listen")
  /\ UNCHANGED <<flags, token, req_ack, autoquit_cnt, missed, pulled,
                 pulls, resps, mainVars>>

\* lgw_send either takes the packet or fails; then both mutexes are free.
Transmit(s, result) ==
  /\ alive /\ pc[s] = "tx"
  /\ Count(result)
  /\ mx_concent' = "free"
  /\ mx_meas_dw' = "free"
  /\ Goto(s, "listen")
  /\ UNCHANGED <<flags, token, req_ack, autoquit_cnt, missed, pulled,
                 pulls, resps, mainVars>>

ThreadDown(s) ==
  \/ Ended(s) \/ Autoquit(s)
  \/ \E t \in Tokens : SendPull(s, t)
  \/ CountPull(s) \/ Elapsed(s)
  \/ \E t \in Tokens : RecvAck(s, t)
  \/ CountAck(s) \/ RecvResp(s) \/ FatalResp(s) \/ CountResp(s)
  \/ LockConcent(s) \/ Transmit(s, "ok") \/ Transmit(s, "fail")

(***************************************************************************)
(* The other users of the two mutexes: main's snapshot and its reset       *)
(* check, and thread_up's fetch.                                           *)
(***************************************************************************)
StatsCopy ==
  /\ alive /\ main_pc = "wait"
  /\ mx_meas_dw = "free"
  /\ mx_meas_dw' = "main"
  /\ cp' = meas
  /\ main_pc' = "reset"
  /\ UNCHANGED <<flags, threadVars, mx_concent, meas>>

StatsReset ==
  /\ alive /\ main_pc = "reset"
  /\ meas' = Zero
  /\ mx_meas_dw' = "free"
  /\ main_pc' = "trigcnt"
  /\ UNCHANGED <<flags, threadVars, cp, mx_concent>>

BeginTrigcnt ==
  /\ alive /\ main_pc = "trigcnt"
  /\ mx_concent = "free"
  /\ mx_concent' = "main"
  /\ cp' = Zero
  /\ main_pc' = "trig"
  /\ UNCHANGED <<flags, threadVars, mx_meas_dw, meas>>

\* An unintended reset of the SX1301 ends the program.  Otherwise main looks
\* at the loop condition next.
EndTrigcnt ==
  /\ alive /\ main_pc = "trig"
  /\ mx_concent' = "free"
  /\ main_pc' \in {"exit", IF stop THEN "join" ELSE "wait"}
  /\ UNCHANGED <<flags, threadVars, cp, mx_meas_dw, meas>>

BeginFetch ==
  /\ alive /\ ~stop /\ mx_concent = "free"
  /\ mx_concent' = "up"
  /\ UNCHANGED <<flags, threadVars, mainVars, mx_meas_dw, meas>>

EndFetch ==
  /\ alive /\ mx_concent = "up"
  /\ mx_concent' = "free"
  /\ UNCHANGED <<flags, threadVars, mainVars, mx_meas_dw, meas>>

\* After the loop main joins thread_up.  It joins no thread_down, for it
\* asks serv_live, which is never set; then it stops the concentrator without
\* taking mx_concent, unless the program was quit by SIGQUIT alone.
JoinUp ==
  /\ alive /\ main_pc = "join"
  /\ mx_concent # "up"
  /\ main_pc' = IF exit_sig THEN "halt" ELSE "exit"
  /\ UNCHANGED <<flags, threadVars, cp, mx_meas_dw, mx_concent, meas>>

\* lgw_stop has returned.
Halted ==
  /\ alive /\ main_pc = "halt"
  /\ main_pc' = "exit"
  /\ UNCHANGED <<flags, threadVars, cp, mx_meas_dw, mx_concent, meas>>

Exit ==
  /\ alive /\ main_pc = "exit"
  /\ alive' = FALSE
  /\ UNCHANGED <<sigs, quitter, silent, threadVars, mainVars, mx_meas_dw,
                 mx_concent, meas>>

Main == StatsCopy \/ StatsReset \/ BeginTrigcnt \/ EndTrigcnt
        \/ JoinUp \/ Halted \/ Exit

Next ==
  \/ Signal
  \/ \E s \in Servers : FallSilent(s) \/ Activate(s) \/ SockoptFails(s)
                       \/ ThreadDown(s)
  \/ Main
  \/ BeginFetch \/ EndFetch

Spec == Init /\ [][Next]_vars

\* Threads keep running, the clock passes keepalive_time, HAL calls return,
\* and a thread waiting for a mutex gets it in the end: thread_up sleeps
\* between fetches and main between reports.
Fairness ==
  /\ \A s \in Servers :
       /\ WF_vars(Ended(s) \/ Autoquit(s) \/ \E t \in Tokens : SendPull(s, t))
       /\ SF_vars(Elapsed(s))
       /\ SF_vars(CountPull(s)) /\ SF_vars(CountAck(s))
       /\ SF_vars(CountResp(s)) /\ SF_vars(LockConcent(s))
       /\ WF_vars(Transmit(s, "ok") \/ Transmit(s, "fail"))
  /\ WF_vars(StatsReset) /\ SF_vars(BeginTrigcnt) /\ WF_vars(EndTrigcnt)
  /\ WF_vars(EndFetch)

FairSpec == Spec /\ Fairness
-----------------------------------------------------------------------------
TypeOK ==
  /\ {alive, exit_sig, quit_sig} \subseteq BOOLEAN
  /\ quitter \subseteq Servers /\ silent \subseteq Servers
  /\ pc \in [Servers -> {"wait", "top", "sent", "listen", "acked", "resp",
                         "concent", "tx", "ended"}]
  /\ token \in [Servers -> Tokens]
  /\ req_ack \in [Servers -> BOOLEAN]
  /\ autoquit_cnt \in [Servers -> Nat]
  /\ missed \in [Servers -> Nat]
  /\ pulled \in [Servers -> SUBSET Tokens]
  /\ pulls \in [Servers -> Nat] /\ resps \in Nat
  /\ mx_meas_dw \in Servers \cup {"free", "main"}
  /\ mx_concent \in Servers \cup {"free", "main", "up"}
  /\ meas \in [Counters -> 0 .. (Wrap - 1)]
  /\ cp \in [Counters -> 0 .. (Wrap - 1)]
  /\ main_pc \in {"wait", "reset", "trigcnt", "trig", "join",
                 "halt", "exit"}

\* A snapshot never splits a transmission: it holds a PULL_RESP exactly when
\* it holds the verdict of lgw_send on it, although the thread waits for the
\* concentrator in between.
TxAccounted == cp["dgram"] = (cp["ok"] + cp["fail"]) % Wrap

\* The forwarder quits on its own only after autoquit_threshold polls in a
\* row of one server ended without an accepted PULL_ACK, whatever was lost,
\* delayed or duplicated.
AutoquitJustified ==
  \A s \in quitter : missed[s] >= autoquit_threshold

\* A server that has gone silent ends the forwarder.
SilenceIsNoticed ==
  \A s \in Servers :
    s \in silent /\ pc[s] # "wait" /\ autoquit_threshold > 0
      ~> (stop \/ ~alive)

\* A packet accepted for transmission reaches lgw_send: the nested mutexes
\* never lock the threads up.
ResponseIsSent ==
  \A s \in Servers : pc[s] = "resp" ~> (pc[s] = "tx" \/ ~alive)
=============================================================================
