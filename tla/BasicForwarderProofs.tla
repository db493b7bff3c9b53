------------------------ MODULE BasicForwarderProofs ------------------------
(***************************************************************************)
(* Proofs about BasicForwarder.  The invariant says how far thread_up can  *)
(* be at each point of main, and what it still owes there.                 *)
(***************************************************************************)
EXTENDS BasicForwarder, TLAPS

\* thread_up exists from the start of the concentrator on, and is over once
\* main has joined it.
UpPhase ==
  /\ main_pc \in {"config", "connect", "start", "spawn_up"} => up_pc = "none"
  /\ main_pc \in {"cancel", "stop", "exit"} => up_pc = "ended"
  /\ main_pc \notin {"config", "connect", "start", "stop", "exit"}
       => hal = "on"

\* thread_up holds packets only while it composes a datagram.
Holding == up_pc # "filter" => rxpkt = 0 /\ pkt_in_dgram = 0

\* Once main joins, a stop is pending, and the one fetch that thread_up may
\* have decided upon before it is not followed by another.
Joining ==
  /\ main_pc \in {"join", "cancel", "stop", "exit"} => stop
  /\ main_pc \in Startup \cup {"signals", "wait", "snap_up", "snap_dw"}
       => cycles = 0
  /\ cycles # 0 => cycles = 1 /\ up_pc # "lock"

Polling ==
  down_pc = "sent" /\ autoquit_threshold > 0
    => autoquit_cnt < autoquit_threshold

\* An interrupt that main knows of leads it through lgw_stop.
Interrupted ==
  /\ interrupted => exit_sig
  /\ main_pc = "exit" /\ interrupted => hal # "on"
  /\ process = "success" => main_pc = "exit"

IInv ==
  /\ TypeOK /\ UpPhase /\ Holding /\ Joining /\ Polling /\ Interrupted
-----------------------------------------------------------------------------
LEMMA InitIInv == Init => IInv
<1> SUFFICES ASSUME Init PROVE IInv
  OBVIOUS
<1> USE BasicAssumption DEF Init
<1>1. autoquit_cnt \in 0 .. autoquit_threshold /\ rxpkt + pkt_in_dgram <= NB_PKT_MAX
  OBVIOUS
<1>2. /\ handlers \in BOOLEAN /\ silent \in BOOLEAN /\ exit_sig \in BOOLEAN
      /\ quit_sig \in BOOLEAN /\ interrupted \in BOOLEAN
      /\ cancelled \in BOOLEAN /\ req_ack \in BOOLEAN
  BY Zenon
<1>3. cycles \in 0 .. 2 /\ tries \in 0 .. 2 /\ rxpkt \in Nat /\ pkt_in_dgram \in Nat
  BY SMT
<1>4. TypeOK
  BY <1>1, <1>2, <1>3, Zenon DEF TypeOK, Startup
<1>5. UpPhase /\ Holding /\ Joining /\ Polling /\ Interrupted
  BY DEF UpPhase, Holding, Joining, Polling, Interrupted, Startup, stop
<1> QED BY <1>4, <1>5 DEF IInv

LEMMA MainKeeps == IInv /\ Main => IInv'
<1> SUFFICES ASSUME IInv, Main PROVE IInv'
  OBVIOUS
<1> USE BasicAssumption DEF IInv, TypeOK, UpPhase, Holding, Joining, Polling,
      Interrupted, Startup, stop, Running, upVars, downVars, sigVars, envVars,
      mutexes, mainVars
<1>1. CASE Configure
  BY <1>1 DEF Configure
<1>2. CASE Connect
  BY <1>2 DEF Connect
<1>3. CASE StartConcentrator
  BY <1>3 DEF StartConcentrator
<1>4. CASE SpawnUp
  BY <1>4 DEF SpawnUp
<1>5. CASE SpawnDown
  BY <1>5 DEF SpawnDown
<1>6. CASE InstallHandlers
  BY <1>6 DEF InstallHandlers
<1>7. CASE Interval
  BY <1>7 DEF Interval, MainGoes
<1>8. CASE SnapshotUp
  BY <1>8 DEF SnapshotUp, MainGoes
<1>9. CASE SnapshotDown
  BY <1>9 DEF SnapshotDown, MainGoes
<1>10. CASE JoinUp
  BY <1>10 DEF JoinUp, MainGoes
<1>11. CASE CancelDown
  BY <1>11 DEF CancelDown
<1>12. CASE StopConcentrator
  BY <1>12 DEF StopConcentrator
<1>13. CASE Leave
  BY <1>13 DEF Leave, Exit
<1>14. CASE Fails
  BY <1>14 DEF Fails, Exit
<1> QED
  BY <1>1, <1>2, <1>3, <1>4, <1>5, <1>6, <1>7, <1>8, <1>9, <1>10, <1>11, <1>12, <1>13, <1>14 DEF Main

LEMMA UpKeeps == IInv /\ ThreadUp => IInv'
<1> SUFFICES ASSUME IInv, ThreadUp PROVE IInv'
  OBVIOUS
<1> USE BasicAssumption DEF IInv, TypeOK, UpPhase, Holding, Joining, Polling,
      Interrupted, Startup, stop, Running, upVars, downVars, sigVars, envVars,
      mutexes, mainVars
<1>1. ASSUME NEW ok \in BOOLEAN, UpSetup(ok) PROVE IInv'
  BY <1>1 DEF UpSetup
<1>2. CASE UpTop
  BY <1>2 DEF UpTop
<1>3. CASE BeginFetch
  BY <1>3 DEF BeginFetch
<1>4. ASSUME NEW n \in 0 .. NB_PKT_MAX, EndFetch(n) PROVE IInv'
  BY <1>4 DEF EndFetch
<1>5. CASE FetchError
  BY <1>5 DEF FetchError
<1>6. ASSUME NEW forward \in BOOLEAN, Filter(forward) PROVE IInv'
  BY <1>6 DEF Filter
<1>7. CASE Unserialisable
  BY <1>7 DEF Unserialisable, Exit
<1>8. CASE Push
  BY <1>8 DEF Push
<1>9. CASE CountPush
  BY <1>9 DEF CountPush
<1>10. CASE RecvOther
  BY <1>10 DEF RecvOther
<1>11. CASE EndPush
  BY <1>11 DEF EndPush
<1> QED
  BY <1>1, <1>2, <1>3, <1>4, <1>5, <1>6, <1>7, <1>8, <1>9, <1>10, <1>11 DEF ThreadUp

LEMMA DownKeeps == IInv /\ ThreadDown => IInv'
<1> SUFFICES ASSUME IInv, ThreadDown PROVE IInv'
  OBVIOUS
<1> USE BasicAssumption DEF IInv, TypeOK, UpPhase, Holding, Joining, Polling,
      Interrupted, Startup, stop, Running, upVars, downVars, sigVars, envVars,
      mutexes, mainVars
<1>1. ASSUME NEW ok \in BOOLEAN, DownSetup(ok) PROVE IInv'
  BY <1>1 DEF DownSetup
<1>2. CASE DownEnds
  BY <1>2 DEF DownEnds, DownGoes
<1>3. CASE Autoquit
  BY <1>3 DEF Autoquit, Undecided
<1>4. CASE SendPull
  BY <1>4 DEF SendPull, DownGoes, Silence
<1>5. CASE CountPull
  <2>1. autoquit_cnt' \in 0 .. autoquit_threshold
    BY <1>5 DEF CountPull
  <2>2. /\ UNCHANGED <<process, hal, cancelled, main_pc, interrupted, exit_sig>>
        /\ UNCHANGED <<quit_sig, handlers, silent, mx_concent, mx_meas_up>>
        /\ UNCHANGED <<up_pc, rxpkt, pkt_in_dgram, tries, cycles>>
        /\ req_ack' = FALSE /\ down_pc' = "listen" /\ mx_meas_dw' = "free"
    BY <1>5 DEF CountPull
  <2>3. /\ req_ack' \in BOOLEAN /\ mx_meas_dw' \in {"free", "down"}
        /\ down_pc' \in {"none", "setup", "top", "sent", "listen", "acked", "resp",
                        "concent", "tx", "ended"}
    BY <2>2, Zenon
  <2>4. rxpkt' + pkt_in_dgram' <= NB_PKT_MAX
    BY <2>2
  <2>5. TypeOK'
    BY <2>1, <2>2, <2>3, <2>4, SMTT(60)
  <2>6. Polling'
    BY <2>2
  <2> QED BY <2>2, <2>5, <2>6
<1>6. CASE Elapsed
  BY <1>6 DEF Elapsed, DownGoes
<1>7. CASE RecvPullAck
  BY <1>7 DEF RecvPullAck
<1>8. CASE CountPullAck
  BY <1>8 DEF CountPullAck, DownGoes
<1>9. CASE RecvResp
  BY <1>9 DEF RecvResp, DownGoes
<1>10. CASE FatalResp
  BY <1>10 DEF FatalResp, Exit
<1>11. CASE CountResp
  BY <1>11 DEF CountResp
<1>12. CASE LockConcent
  BY <1>12 DEF LockConcent
<1>13. CASE Transmit
  BY <1>13 DEF Transmit
<1>14. CASE Cancelled
  BY <1>14 DEF Cancelled, DownGoes
<1> QED
  BY <1>1, <1>2, <1>3, <1>4, <1>5, <1>6, <1>7, <1>8, <1>9, <1>10, <1>11, <1>12, <1>13, <1>14 DEF ThreadDown

LEMMA NextIInv == IInv /\ [Next]_vars => IInv'
<1> SUFFICES ASSUME IInv, [Next]_vars PROVE IInv'
  OBVIOUS
<1>1. CASE Main \/ ThreadUp \/ ThreadDown
  BY <1>1, MainKeeps, UpKeeps, DownKeeps
<1> USE BasicAssumption DEF IInv, TypeOK, UpPhase, Holding, Joining, Polling,
      Interrupted, Startup, stop, Running, upVars, downVars, sigVars, envVars,
      mutexes, mainVars
<1>2. CASE Kill
  BY <1>2 DEF Kill, Exit
<1>3. CASE Interrupt
  BY <1>3 DEF Interrupt, Undecided
<1>4. CASE Quit
  BY <1>4 DEF Quit
<1>5. CASE FallSilent
  BY <1>5 DEF FallSilent
<1>6. CASE UNCHANGED vars
  BY <1>6 DEF vars
<1> QED
  BY <1>1, <1>2, <1>3, <1>4, <1>5, <1>6 DEF Next

LEMMA SpecIInv == Spec => []IInv
  BY InitIInv, NextIInv, PTL DEF Spec
-----------------------------------------------------------------------------
\* Every variable keeps its type, the packets fit NB_PKT_MAX, and
\* autoquit_cnt never passes the threshold.
THEOREM SpecTypeOK == Spec => []TypeOK
<1>1. IInv => TypeOK
  BY DEF IInv
<1> QED BY <1>1, SpecIInv, PTL

\* thread_up calls lgw_receive between lgw_start and lgw_stop only.
THEOREM SpecReceiveWhileStarted == Spec => []ReceiveWhileStarted
<1>1. IInv => ReceiveWhileStarted
  BY DEF IInv, UpPhase, Startup, TypeOK, ReceiveWhileStarted
<1> QED BY <1>1, SpecIInv, PTL

\* A program that ends in order has sent what it fetched and let pass.
THEOREM SpecNothingAbandoned == Spec => []NothingAbandoned
<1>1. IInv => NothingAbandoned
  BY DEF IInv, UpPhase, Holding, Interrupted, NothingAbandoned
<1> QED BY <1>1, SpecIInv, PTL

\* main waits for one fetch cycle at most (basic_pkt_fwd.c:845).
THEOREM SpecOneFetchAtMost == Spec => []OneFetchAtMost
<1>1. IInv => OneFetchAtMost
  BY DEF IInv, Joining, TypeOK, OneFetchAtMost
<1> QED BY <1>1, SpecIInv, PTL

\* An interrupt in time leads through lgw_stop (basic_pkt_fwd.c:849).
THEOREM SpecInterruptStopsRadio == Spec => []InterruptStopsRadio
<1>1. IInv => InterruptStopsRadio
  BY DEF IInv, Interrupted, InterruptStopsRadio
<1> QED BY <1>1, SpecIInv, PTL
=============================================================================
