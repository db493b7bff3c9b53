------------------------- MODULE GpsForwarderProofs -------------------------
(***************************************************************************)
(* Proofs about GpsForwarder: its invariant, where its time comes from,    *)
(* and that it implements BasicForwarder.                                  *)
(***************************************************************************)
EXTENDS GpsForwarder, TLAPS

Flags ==
  /\ handlers \in BOOLEAN /\ exit_sig \in BOOLEAN /\ quit_sig \in BOOLEAN
  /\ interrupted \in BOOLEAN /\ silent \in BOOLEAN /\ cancelled \in BOOLEAN
  /\ receiver \in BOOLEAN /\ gps_fake_enable \in BOOLEAN
  /\ gps_enabled \in BOOLEAN /\ gps_ref_valid \in BOOLEAN
  /\ gps_threads \in BOOLEAN /\ report_ready \in BOOLEAN
  /\ send_report \in BOOLEAN /\ req_ack \in BOOLEAN

\* TypeOK without the flags.
Typed ==
  /\ process \in {"running", "success", "failure", "gps_failure", "killed",
                  "crashed"}
  /\ hal \in {"off", "on", "failed"}
  /\ main_pc \in Startup \cup {"spawn_gps", "signals", "wait", "snap_up",
                                "snap_dw", "join", "cancel", "stop",
                                "exit"}
  /\ reference \in {"unset", "recent", "old"}
  /\ up_pc \in {"none", "setup", "top", "lock", "fetch", "ref", "filter",
                "report", "count", "ack", "ended"}
  /\ stamp \in {"none", "unset", "given"}
  /\ tx_ref \in {"none", "unset", "given"}
  /\ cycles \in 0 .. 2 /\ tries \in 0 .. 2
  /\ rxpkt \in Nat /\ pkt_in_dgram \in Nat
  /\ rxpkt + pkt_in_dgram <= NB_PKT_MAX
  /\ down_pc \in {"none", "setup", "top", "sent", "listen", "acked", "resp",
                  "concent", "tx", "ended"}
  /\ autoquit_cnt \in 0 .. autoquit_threshold
  /\ mx_concent \in {"free", "up", "down"}
  /\ mx_meas_up \in {"free", "up"}
  /\ mx_meas_dw \in {"free", "down"}

\* What thread_up holds at each of its points: packets while it composes,
\* the rest of a datagram until it is acknowledged, recv calls and the mutex
\* of the counters while it waits for that.
Holding ==
  /\ up_pc \notin {"ref", "filter"} => rxpkt = 0
  /\ up_pc \notin {"filter", "count", "ack"} => pkt_in_dgram = 0
  /\ up_pc # "ack" => tries = 0 /\ mx_meas_up = "free"

\* A PULL_DATA is sent only while there is patience left.
Polling ==
  down_pc = "sent" /\ autoquit_threshold > 0
    => autoquit_cnt < autoquit_threshold

\* Until the packet threads are created nothing is timed, and until the GPS
\* threads are the GPS is enabled by a receiver alone.
Spawning ==
  /\ main_pc \in {"config", "connect", "start", "spawn_up"} =>
       up_pc = "none" /\ down_pc = "none"
  /\ main_pc = "spawn_down" => down_pc = "none"
  /\ main_pc \in Startup \cup {"spawn_gps"} =>
       gps_enabled = receiver /\ ~gps_threads
  /\ up_pc = "none" => stamp = "none"
  /\ down_pc = "none" => tx_ref = "none"

\* The reference is taken for valid only after the receiver gave one.
Timing ==
  /\ gps_threads => receiver
  /\ gps_ref_valid => gps_threads /\ reference # "unset"
  /\ stamp # "none" => receiver /\ stamp = "given"
  /\ tx_ref # "none" => receiver /\ tx_ref = "given"

Core == Typed /\ Holding /\ Polling /\ Spawning /\ Timing

IInv == Flags /\ Core
-----------------------------------------------------------------------------
LEMMA FlagsAndTyped == Flags /\ Typed => TypeOK
<1> SUFFICES ASSUME Flags, Typed PROVE TypeOK
  OBVIOUS
<1>1. {handlers, exit_sig, quit_sig, interrupted, silent, cancelled, receiver,
       gps_fake_enable, gps_enabled, gps_ref_valid, gps_threads, report_ready,
       send_report, req_ack} \subseteq BOOLEAN
  BY SMT DEF Flags
<1>2. {stamp, tx_ref} \subseteq {"none", "unset", "given"}
  BY DEF Typed
<1> QED BY <1>1, <1>2, Zenon DEF TypeOK, Typed

LEMMA InitIInv == Init => IInv
<1> SUFFICES ASSUME Init PROVE IInv
  OBVIOUS
<1>1. Flags
  BY Zenon DEF Init, Flags
<1>2. Typed
  BY GpsAssumption DEF Init, Typed, Startup
<1>3. Holding /\ Polling /\ Spawning /\ Timing
  BY DEF Init, Holding, Polling, Spawning, Timing, Startup
<1> QED BY <1>1, <1>2, <1>3 DEF IInv, Core

LEMMA MainFlags == IInv /\ Main => Flags'
<1> SUFFICES ASSUME Flags, Main PROVE Flags'
  BY DEF IInv
<1> USE DEF Flags, Exit, Moves, MainGoes, UpMoves, DownMoves, DownGoes,
      OnlySignals, OnlyGps, others, sigVars, mainVars, gpsVars, upVars,
      downVars, mutexes
<1>1. CASE Fails
  BY <1>1 DEF Fails
<1>2. CASE GpsFails
  BY <1>2 DEF GpsFails
<1>3. CASE Configure
  BY <1>3 DEF Configure
<1>4. CASE Connect
  BY <1>4 DEF Connect
<1>5. CASE StartConcentrator
  BY <1>5 DEF StartConcentrator
<1>6. CASE SpawnUp
  BY <1>6 DEF SpawnUp
<1>7. CASE SpawnDown
  BY <1>7 DEF SpawnDown
<1>8. CASE SpawnGps
  BY <1>8 DEF SpawnGps
<1>9. CASE InstallHandlers
  BY <1>9 DEF InstallHandlers
<1>10. CASE Interval
  BY <1>10 DEF Interval
<1>11. CASE SnapshotUp
  BY <1>11 DEF SnapshotUp
<1>12. CASE SnapshotDown
  BY <1>12 DEF SnapshotDown
<1>13. CASE JoinUp
  BY <1>13 DEF JoinUp
<1>14. CASE Cancel
  BY <1>14 DEF Cancel
<1>15. CASE CancelNothing
  BY <1>15 DEF CancelNothing
<1>16. CASE StopConcentrator
  BY <1>16 DEF StopConcentrator
<1>17. CASE Leave
  BY <1>17 DEF Leave
<1> QED
  BY <1>1, <1>2, <1>3, <1>4, <1>5, <1>6, <1>7, <1>8, <1>9, <1>10, <1>11,
     <1>12, <1>13, <1>14, <1>15, <1>16, <1>17 DEF Main

LEMMA UpFlags == IInv /\ ThreadUp => Flags'
<1> SUFFICES ASSUME Flags, ThreadUp PROVE Flags'
  BY DEF IInv
<1> USE DEF Flags, Exit, Moves, MainGoes, UpMoves, DownMoves, DownGoes,
      OnlySignals, OnlyGps, others, sigVars, mainVars, gpsVars, upVars,
      downVars, mutexes
<1>1. CASE UpSetup
  BY <1>1 DEF UpSetup
<1>2. CASE UpFails
  BY <1>2 DEF UpFails
<1>3. CASE FetchError
  BY <1>3 DEF FetchError
<1>4. CASE UpTop
  BY <1>4 DEF UpTop
<1>5. CASE BeginFetch
  BY <1>5 DEF BeginFetch
<1>6. ASSUME NEW n \in 0 .. NB_PKT_MAX, EndFetch(n) PROVE Flags'
  BY <1>6 DEF EndFetch
<1>7. CASE CopyReference
  BY <1>7 DEF CopyReference
<1>8. ASSUME NEW forward \in BOOLEAN, Filter(forward) PROVE Flags'
  BY <1>8 DEF Filter
<1>9. CASE Push
  BY <1>9 DEF Push
<1>10. CASE CountPush
  BY <1>10 DEF CountPush
<1>11. CASE RecvOther
  BY <1>11 DEF RecvOther
<1>12. CASE EndPush
  <2>1. send_report' = FALSE
    BY <1>12 DEF EndPush
  <2>2. send_report' \in BOOLEAN
    BY <2>1, Zenon
  <2> QED BY <1>12, <2>2, SMT DEF EndPush
<1> QED
  BY <1>1, <1>2, <1>3, <1>4, <1>5, <1>6, <1>7, <1>8, <1>9, <1>10, <1>11, <1>12
     DEF ThreadUp

LEMMA DownFlags == IInv /\ ThreadDown => Flags'
<1> SUFFICES ASSUME Flags, ThreadDown PROVE Flags'
  BY DEF IInv
<1> USE DEF Flags, Exit, Moves, MainGoes, UpMoves, DownMoves, DownGoes,
      OnlySignals, OnlyGps, others, sigVars, mainVars, gpsVars, upVars,
      downVars, mutexes
<1>1. CASE DownSetup
  BY <1>1 DEF DownSetup
<1>2. CASE DownFails
  BY <1>2 DEF DownFails
<1>3. CASE DownEnds
  BY <1>3 DEF DownEnds
<1>4. CASE Autoquit
  BY <1>4 DEF Autoquit
<1>5. CASE SendPull
  BY <1>5 DEF SendPull
<1>6. CASE CountPull
  <2>1. req_ack' = FALSE
    BY <1>6 DEF CountPull
  <2>2. req_ack' \in BOOLEAN
    BY <2>1, Zenon
  <2> QED BY <1>6, <2>2, SMT DEF CountPull
<1>7. CASE Elapsed
  BY <1>7 DEF Elapsed
<1>8. CASE RecvPullAck
  BY <1>8 DEF RecvPullAck
<1>9. CASE CountPullAck
  BY <1>9 DEF CountPullAck
<1>10. ASSUME NEW timed \in BOOLEAN, RecvResp(timed) PROVE Flags'
  BY <1>10 DEF RecvResp
<1>11. CASE CountResp
  BY <1>11 DEF CountResp
<1>12. CASE LockConcent
  BY <1>12 DEF LockConcent
<1>13. CASE Transmit
  BY <1>13 DEF Transmit
<1>14. CASE Cancelled
  BY <1>14 DEF Cancelled
<1> QED
  BY <1>1, <1>2, <1>3, <1>4, <1>5, <1>6, <1>7, <1>8, <1>9, <1>10, <1>11,
     <1>12, <1>13, <1>14 DEF ThreadDown

LEMMA FlagsKeep == IInv /\ [Next]_vars => Flags'
<1> SUFFICES ASSUME IInv, [Next]_vars PROVE Flags'
  OBVIOUS
<1>1. CASE Main \/ ThreadUp \/ ThreadDown
  BY <1>1, MainFlags, UpFlags, DownFlags
<1> USE DEF IInv, Flags, Exit, OnlySignals, OnlyGps, sigVars, mainVars, gpsVars,
      upVars, downVars, mutexes
<1>2. CASE ThreadGps
  BY <1>2 DEF ThreadGps
<1>3. CASE ThreadValid
  BY <1>3 DEF ThreadValid
<1>4. CASE Age
  BY <1>4 DEF Age
<1>5. CASE Kill
  BY <1>5 DEF Kill
<1>6. CASE Interrupt
  BY <1>6 DEF Interrupt
<1>7. CASE Quit
  BY <1>7 DEF Quit
<1>8. CASE FallSilent
  BY <1>8 DEF FallSilent
<1>9. CASE UNCHANGED vars
  BY <1>9 DEF vars
<1> QED
  BY <1>1, <1>2, <1>3, <1>4, <1>5, <1>6, <1>7, <1>8, <1>9 DEF Next

LEMMA MainCore == IInv /\ Main => Core'
<1> SUFFICES ASSUME Core, Main PROVE Core'
  BY DEF IInv
<1> USE GpsAssumption DEF Core, Typed, Holding, Polling, Spawning, Timing,
      Startup, Running, Exit, Moves, MainGoes, UpMoves, DownMoves, DownGoes,
      OnlySignals, OnlyGps, others, sigVars, mainVars, gpsVars, upVars,
      downVars, mutexes
<1>1. CASE Fails
  BY <1>1 DEF Fails
<1>2. CASE GpsFails
  BY <1>2 DEF GpsFails
<1>3. CASE Configure
  BY <1>3 DEF Configure
<1>4. CASE Connect
  BY <1>4 DEF Connect
<1>5. CASE StartConcentrator
  BY <1>5 DEF StartConcentrator
<1>6. CASE SpawnUp
  BY <1>6 DEF SpawnUp
<1>7. CASE SpawnDown
  BY <1>7 DEF SpawnDown
<1>8. CASE SpawnGps
  BY <1>8 DEF SpawnGps
<1>9. CASE InstallHandlers
  BY <1>9 DEF InstallHandlers
<1>10. CASE Interval
  BY <1>10 DEF Interval
<1>11. CASE SnapshotUp
  BY <1>11 DEF SnapshotUp
<1>12. CASE SnapshotDown
  BY <1>12 DEF SnapshotDown
<1>13. CASE JoinUp
  BY <1>13 DEF JoinUp
<1>14. CASE Cancel
  BY <1>14 DEF Cancel
<1>15. CASE CancelNothing
  BY <1>15 DEF CancelNothing
<1>16. CASE StopConcentrator
  BY <1>16 DEF StopConcentrator
<1>17. CASE Leave
  BY <1>17 DEF Leave
<1> QED
  BY <1>1, <1>2, <1>3, <1>4, <1>5, <1>6, <1>7, <1>8, <1>9, <1>10, <1>11,
     <1>12, <1>13, <1>14, <1>15, <1>16, <1>17 DEF Main

LEMMA UpCore == IInv /\ ThreadUp => Core'
<1> SUFFICES ASSUME Core, ThreadUp PROVE Core'
  BY DEF IInv
<1> USE GpsAssumption DEF Core, Typed, Holding, Polling, Spawning, Timing,
      Startup, Running, Exit, Moves, MainGoes, UpMoves, DownMoves, DownGoes,
      OnlySignals, OnlyGps, others, sigVars, mainVars, gpsVars, upVars,
      downVars, mutexes
<1>1. CASE UpSetup
  BY <1>1 DEF UpSetup
<1>2. CASE UpFails
  BY <1>2 DEF UpFails
<1>3. CASE FetchError
  BY <1>3 DEF FetchError
<1>4. CASE UpTop
  BY <1>4 DEF UpTop
<1>5. CASE BeginFetch
  BY <1>5 DEF BeginFetch
<1>6. ASSUME NEW n \in 0 .. NB_PKT_MAX, EndFetch(n) PROVE Core'
  BY <1>6 DEF EndFetch
<1>7. CASE CopyReference
  <2>1. stamp' # "none" => receiver /\ stamp' = "given"
    BY <1>7 DEF CopyReference, Origin
  <2>2. stamp' \in {"none", "unset", "given"}
    BY <1>7 DEF CopyReference, Origin
  <2> QED BY <1>7, <2>1, <2>2 DEF CopyReference
<1>8. ASSUME NEW forward \in BOOLEAN, Filter(forward) PROVE Core'
  BY <1>8 DEF Filter
<1>9. CASE Push
  BY <1>9 DEF Push
<1>10. CASE CountPush
  BY <1>10 DEF CountPush
<1>11. CASE RecvOther
  BY <1>11 DEF RecvOther
<1>12. CASE EndPush
  BY <1>12 DEF EndPush
<1> QED
  BY <1>1, <1>2, <1>3, <1>4, <1>5, <1>6, <1>7, <1>8, <1>9, <1>10, <1>11, <1>12
     DEF ThreadUp

LEMMA DownCore == IInv /\ ThreadDown => Core'
<1> SUFFICES ASSUME Core, ThreadDown PROVE Core'
  BY DEF IInv
<1> USE GpsAssumption DEF Core, Typed, Holding, Polling, Spawning, Timing,
      Startup, Running, Exit, Moves, MainGoes, UpMoves, DownMoves, DownGoes,
      OnlySignals, OnlyGps, others, sigVars, mainVars, gpsVars, upVars,
      downVars, mutexes
<1>1. CASE DownSetup
  BY <1>1 DEF DownSetup
<1>2. CASE DownFails
  BY <1>2 DEF DownFails
<1>3. CASE DownEnds
  BY <1>3 DEF DownEnds
<1>4. CASE Autoquit
  BY <1>4 DEF Autoquit
<1>5. CASE SendPull
  BY <1>5 DEF SendPull, Silence
<1>6. CASE CountPull
  BY <1>6 DEF CountPull
<1>7. CASE Elapsed
  BY <1>7 DEF Elapsed
<1>8. CASE RecvPullAck
  BY <1>8 DEF RecvPullAck
<1>9. CASE CountPullAck
  BY <1>9 DEF CountPullAck
<1>10. ASSUME NEW timed \in BOOLEAN, RecvResp(timed) PROVE Core'
  <2>1. tx_ref' # "none" => receiver /\ tx_ref' = "given"
    BY <1>10 DEF RecvResp, Origin
  <2>2. tx_ref' \in {"none", "unset", "given"}
    BY <1>10 DEF RecvResp, Origin
  <2> QED BY <1>10, <2>1, <2>2 DEF RecvResp
<1>11. CASE CountResp
  BY <1>11 DEF CountResp
<1>12. CASE LockConcent
  BY <1>12 DEF LockConcent
<1>13. CASE Transmit
  BY <1>13 DEF Transmit
<1>14. CASE Cancelled
  BY <1>14 DEF Cancelled
<1> QED
  BY <1>1, <1>2, <1>3, <1>4, <1>5, <1>6, <1>7, <1>8, <1>9, <1>10, <1>11,
     <1>12, <1>13, <1>14 DEF ThreadDown

LEMMA CoreKeeps == IInv /\ [Next]_vars => Core'
<1> SUFFICES ASSUME IInv, [Next]_vars PROVE Core'
  OBVIOUS
<1>1. CASE Main \/ ThreadUp \/ ThreadDown
  BY <1>1, MainCore, UpCore, DownCore
<1> USE DEF IInv, Core, Typed, Holding, Polling, Spawning, Timing, Startup,
      Exit, OnlySignals, OnlyGps, sigVars, mainVars, gpsVars, upVars,
      downVars, mutexes
<1>2. CASE ThreadGps
  BY <1>2 DEF ThreadGps
<1>3. CASE ThreadValid
  <2>1. gps_ref_valid' => gps_threads' /\ reference' # "unset"
    BY <1>3, Zenon DEF ThreadValid
  <2> QED BY <1>3, <2>1 DEF ThreadValid
<1>4. CASE Age
  BY <1>4 DEF Age
<1>5. CASE Kill
  BY <1>5 DEF Kill
<1>6. CASE Interrupt
  BY <1>6 DEF Interrupt
<1>7. CASE Quit
  BY <1>7 DEF Quit
<1>8. CASE FallSilent
  BY <1>8 DEF FallSilent
<1>9. CASE UNCHANGED vars
  BY <1>9 DEF vars
<1> QED
  BY <1>1, <1>2, <1>3, <1>4, <1>5, <1>6, <1>7, <1>8, <1>9 DEF Next

LEMMA SpecIInv == Spec => []IInv
<1>1. IInv /\ [Next]_vars => IInv'
  BY FlagsKeep, CoreKeeps DEF IInv
<1> QED BY InitIInv, <1>1, PTL DEF Spec
-----------------------------------------------------------------------------
\* Every variable keeps its type: the packets fit NB_PKT_MAX, autoquit_cnt
\* never passes the threshold, and a PUSH_ACK is waited for twice at most.
THEOREM SpecTypeOK == Spec => []TypeOK
<1>1. IInv => TypeOK
  BY FlagsAndTyped DEF IInv, Core
<1> QED BY <1>1, SpecIInv, PTL

\* No packet is stamped and none is timed by a reference that the receiver
\* never gave, with fake coordinates or without.
THEOREM SpecTimedByReceiver == Spec => []TimedByReceiver
<1>1. IInv => TimedByReceiver
  BY DEF IInv, Core, Timing, TimedByReceiver
<1> QED BY <1>1, SpecIInv, PTL
-----------------------------------------------------------------------------
LEMMA InitBasic == Init => Basic!Init
  BY DEF Init, Basic!Init, pushing, reportOnly

LEMMA MainBasic == IInv /\ Main => [Basic!Next]_(Basic!vars)
<1> SUFFICES ASSUME IInv, Main PROVE [Basic!Next]_(Basic!vars)
  OBVIOUS
<1> USE DEF IInv, Core, Typed, Holding, Startup, Running, stop, Exit, Moves,
      MainGoes, UpMoves, DownMoves, DownGoes, OnlySignals, OnlyGps, others,
      sigVars, mainVars, gpsVars, upVars, downVars, mutexes, pushing,
      reportOnly, Basic!Startup, Basic!Running, Basic!stop, Basic!Exit,
      Basic!MainGoes, Basic!DownGoes, Basic!upVars, Basic!downVars,
      Basic!sigVars, Basic!envVars, Basic!mutexes, Basic!mainVars
<1>1. ASSUME Fails PROVE Basic!Fails
  BY <1>1 DEF Fails, Basic!Fails
<1>2. ASSUME GpsFails PROVE UNCHANGED Basic!vars
  BY <1>2 DEF GpsFails, Basic!vars
<1>3. ASSUME Configure PROVE Basic!Configure
  BY <1>3 DEF Configure, Basic!Configure
<1>4. ASSUME Connect PROVE Basic!Connect
  BY <1>4 DEF Connect, Basic!Connect
<1>5. ASSUME StartConcentrator PROVE Basic!StartConcentrator
  BY <1>5 DEF StartConcentrator, Basic!StartConcentrator
<1>6. ASSUME SpawnUp PROVE Basic!SpawnUp
  BY <1>6 DEF SpawnUp, Basic!SpawnUp, Spawning
<1>7. ASSUME SpawnDown PROVE Basic!SpawnDown
  BY <1>7 DEF SpawnDown, Basic!SpawnDown
<1>8. ASSUME SpawnGps PROVE UNCHANGED Basic!vars
  BY <1>8 DEF SpawnGps, Basic!vars
<1>9. ASSUME InstallHandlers PROVE Basic!InstallHandlers
  BY <1>9 DEF InstallHandlers, Basic!InstallHandlers
<1>10. ASSUME Interval PROVE Basic!Interval
  BY <1>10 DEF Interval, Basic!Interval
<1>11. ASSUME SnapshotUp PROVE Basic!SnapshotUp
  BY <1>11 DEF SnapshotUp, Basic!SnapshotUp
<1>12. ASSUME SnapshotDown PROVE Basic!SnapshotDown
  BY <1>12 DEF SnapshotDown, Basic!SnapshotDown
<1>13. ASSUME JoinUp PROVE Basic!JoinUp
  BY <1>13 DEF JoinUp, Basic!JoinUp
<1>14. ASSUME Cancel PROVE Basic!CancelDown
  BY <1>14 DEF Cancel, Basic!CancelDown
<1>15. ASSUME CancelNothing PROVE UNCHANGED Basic!vars
  BY <1>15 DEF CancelNothing, Basic!vars
<1>16. ASSUME StopConcentrator PROVE Basic!StopConcentrator
  BY <1>16 DEF StopConcentrator, Basic!StopConcentrator
<1>17. ASSUME Leave PROVE Basic!Leave
  BY <1>17 DEF Leave, Basic!Leave
<1> QED
  BY <1>1, <1>2, <1>3, <1>4, <1>5, <1>6, <1>7, <1>8, <1>9, <1>10, <1>11,
     <1>12, <1>13, <1>14, <1>15, <1>16, <1>17 DEF Main, Basic!Next, Basic!Main

LEMMA UpBasic == IInv /\ ThreadUp => [Basic!Next]_(Basic!vars)
<1> SUFFICES ASSUME IInv, ThreadUp PROVE [Basic!Next]_(Basic!vars)
  OBVIOUS
<1> USE DEF IInv, Core, Typed, Holding, Startup, Running, stop, Exit, Moves,
      MainGoes, UpMoves, DownMoves, DownGoes, OnlySignals, OnlyGps, others,
      sigVars, mainVars, gpsVars, upVars, downVars, mutexes, pushing,
      reportOnly, Basic!Startup, Basic!Running, Basic!stop, Basic!Exit,
      Basic!MainGoes, Basic!DownGoes, Basic!upVars, Basic!downVars,
      Basic!sigVars, Basic!envVars, Basic!mutexes, Basic!mainVars
<1>1. ASSUME UpSetup PROVE Basic!UpSetup(TRUE)
  BY <1>1 DEF UpSetup, Basic!UpSetup
<1>2. ASSUME UpFails PROVE Basic!UpSetup(FALSE) \/ Basic!Unserialisable
  BY <1>2 DEF UpFails, Basic!UpSetup, Basic!Unserialisable
<1>3. ASSUME FetchError PROVE Basic!FetchError
  BY <1>3 DEF FetchError, Basic!FetchError
<1>4. ASSUME UpTop PROVE Basic!UpTop
  BY <1>4 DEF UpTop, Basic!UpTop
<1>5. ASSUME BeginFetch PROVE Basic!BeginFetch
  BY <1>5 DEF BeginFetch, Basic!BeginFetch
<1>6. ASSUME NEW n \in 0 .. NB_PKT_MAX, EndFetch(n) PROVE Basic!EndFetch(n)
  BY <1>6 DEF EndFetch, Basic!EndFetch
<1>7. ASSUME CopyReference PROVE UNCHANGED Basic!vars
  BY <1>7 DEF CopyReference, Basic!vars
<1>8. ASSUME NEW forward \in BOOLEAN, Filter(forward) PROVE Basic!Filter(forward)
  BY <1>8 DEF Filter, Basic!Filter
<1>9. ASSUME Push PROVE Basic!Push \/ UNCHANGED Basic!vars
  <2>1. CASE up_pc = "filter"
    BY <1>9, <2>1 DEF Push, Basic!Push
  <2>2. CASE up_pc = "report"
    BY <1>9, <2>2 DEF Push, Basic!vars
  <2> QED BY <1>9, <2>1, <2>2 DEF Push
<1>10. ASSUME CountPush PROVE Basic!CountPush \/ UNCHANGED Basic!vars
  <2>1. CASE pkt_in_dgram = 0
    BY <1>10, <2>1 DEF CountPush, Basic!vars
  <2>2. CASE pkt_in_dgram # 0
    BY <1>10, <2>2 DEF CountPush, Basic!CountPush
  <2> QED BY <2>1, <2>2
<1>11. ASSUME RecvOther PROVE Basic!RecvOther \/ UNCHANGED Basic!vars
  <2>1. CASE pkt_in_dgram = 0
    BY <1>11, <2>1 DEF RecvOther, Basic!vars
  <2>2. CASE pkt_in_dgram # 0
    BY <1>11, <2>2 DEF RecvOther, Basic!RecvOther
  <2> QED BY <2>1, <2>2
<1>12. ASSUME EndPush PROVE Basic!EndPush \/ UNCHANGED Basic!vars
  <2>1. CASE pkt_in_dgram = 0
    BY <1>12, <2>1 DEF EndPush, Basic!vars
  <2>2. CASE pkt_in_dgram # 0
    BY <1>12, <2>2 DEF EndPush, Basic!EndPush
  <2> QED BY <2>1, <2>2
<1> QED
  BY <1>1, <1>2, <1>3, <1>4, <1>5, <1>6, <1>7, <1>8, <1>9, <1>10, <1>11, <1>12
     DEF ThreadUp, Basic!Next, Basic!ThreadUp

LEMMA DownBasic == IInv /\ ThreadDown => [Basic!Next]_(Basic!vars)
<1> SUFFICES ASSUME IInv, ThreadDown PROVE [Basic!Next]_(Basic!vars)
  OBVIOUS
<1> USE DEF IInv, Core, Typed, Holding, Startup, Running, stop, Exit, Moves,
      MainGoes, UpMoves, DownMoves, DownGoes, OnlySignals, OnlyGps, others,
      sigVars, mainVars, gpsVars, upVars, downVars, mutexes, pushing,
      reportOnly, Basic!Startup, Basic!Running, Basic!stop, Basic!Exit,
      Basic!MainGoes, Basic!DownGoes, Basic!upVars, Basic!downVars,
      Basic!sigVars, Basic!envVars, Basic!mutexes, Basic!mainVars
<1>1. ASSUME DownSetup PROVE Basic!DownSetup(TRUE)
  BY <1>1 DEF DownSetup, Basic!DownSetup
<1>2. ASSUME DownFails PROVE Basic!DownSetup(FALSE) \/ Basic!FatalResp
  BY <1>2 DEF DownFails, Basic!DownSetup, Basic!FatalResp
<1>3. ASSUME DownEnds PROVE Basic!DownEnds
  BY <1>3 DEF DownEnds, Basic!DownEnds
<1>4. ASSUME Autoquit PROVE Basic!Autoquit
  BY <1>4 DEF Autoquit, Basic!Autoquit, Silence, Basic!Silence, Basic!Undecided
<1>5. ASSUME SendPull PROVE Basic!SendPull
  BY <1>5 DEF SendPull, Basic!SendPull, Silence, Basic!Silence
<1>6. ASSUME CountPull PROVE Basic!CountPull
  BY <1>6 DEF CountPull, Basic!CountPull
<1>7. ASSUME Elapsed PROVE Basic!Elapsed
  BY <1>7 DEF Elapsed, Basic!Elapsed
<1>8. ASSUME RecvPullAck PROVE Basic!RecvPullAck
  BY <1>8 DEF RecvPullAck, Basic!RecvPullAck
<1>9. ASSUME CountPullAck PROVE Basic!CountPullAck
  BY <1>9 DEF CountPullAck, Basic!CountPullAck
<1>10. ASSUME NEW timed \in BOOLEAN, RecvResp(timed) PROVE Basic!RecvResp
  BY <1>10 DEF RecvResp, Basic!RecvResp
<1>11. ASSUME CountResp PROVE Basic!CountResp
  BY <1>11 DEF CountResp, Basic!CountResp
<1>12. ASSUME LockConcent PROVE Basic!LockConcent
  BY <1>12 DEF LockConcent, Basic!LockConcent
<1>13. ASSUME Transmit PROVE Basic!Transmit
  BY <1>13 DEF Transmit, Basic!Transmit
<1>14. ASSUME Cancelled PROVE Basic!Cancelled
  BY <1>14 DEF Cancelled, Basic!Cancelled
<1> QED
  BY <1>1, <1>2, <1>3, <1>4, <1>5, <1>6, <1>7, <1>8, <1>9, <1>10, <1>11,
     <1>12, <1>13, <1>14 DEF ThreadDown, Basic!Next, Basic!ThreadDown

LEMMA NextBasic == IInv /\ [Next]_vars => [Basic!Next]_(Basic!vars)
<1> SUFFICES ASSUME IInv, [Next]_vars PROVE [Basic!Next]_(Basic!vars)
  OBVIOUS
<1> USE DEF IInv, Core, Typed, Holding, Startup, Running, stop, Exit, Moves,
      MainGoes, UpMoves, DownMoves, DownGoes, OnlySignals, OnlyGps, others,
      sigVars, mainVars, gpsVars, upVars, downVars, mutexes, pushing,
      reportOnly, Basic!Startup, Basic!Running, Basic!stop, Basic!Exit,
      Basic!MainGoes, Basic!DownGoes, Basic!upVars, Basic!downVars,
      Basic!sigVars, Basic!envVars, Basic!mutexes, Basic!mainVars
<1>1. ASSUME ThreadGps PROVE UNCHANGED Basic!vars
  BY <1>1 DEF ThreadGps, Basic!vars
<1>2. ASSUME ThreadValid PROVE UNCHANGED Basic!vars
  BY <1>2 DEF ThreadValid, Basic!vars
<1>3. ASSUME Age PROVE UNCHANGED Basic!vars
  BY <1>3 DEF Age, Basic!vars
<1>4. ASSUME Kill PROVE Basic!Kill
  BY <1>4 DEF Kill, Basic!Kill
<1>5. ASSUME Interrupt PROVE Basic!Interrupt
  BY <1>5 DEF Interrupt, Basic!Interrupt, Basic!Undecided
<1>6. ASSUME Quit PROVE Basic!Quit
  BY <1>6 DEF Quit, Basic!Quit
<1>7. ASSUME FallSilent PROVE Basic!FallSilent
  BY <1>7 DEF FallSilent, Basic!FallSilent
<1>8. CASE UNCHANGED vars
  BY <1>8 DEF vars, Basic!vars
<1> QED
  BY <1>1, <1>2, <1>3, <1>4, <1>5, <1>6, <1>7, <1>8, MainBasic, UpBasic,
     DownBasic DEF Next, Basic!Next

\* gps_pkt_fwd implements the basic forwarder: with a receiver and reports or
\* without, packets are fetched, sent and acknowledged, and the radio is
\* started and stopped, in the orders of basic_pkt_fwd.
THEOREM SpecImplementsBasic == Spec => ImplementsBasic
<1>1. Spec => [][Basic!Next]_(Basic!vars)
  BY SpecIInv, NextBasic, PTL DEF Spec
<1> QED BY InitBasic, <1>1, PTL DEF Spec, Basic!Spec, ImplementsBasic
-----------------------------------------------------------------------------
(***************************************************************************)
(* What is proved of the basic forwarder holds of the one with GPS.  The   *)
(* instance of the proofs is under the mapping of the instance Basic.      *)
(***************************************************************************)
BasicP == INSTANCE BasicForwarderProofs WITH
  process <- IF process \in {"gps_failure", "crashed"} THEN "running"
             ELSE process,
  main_pc <- IF main_pc = "spawn_gps" THEN "signals" ELSE main_pc,
  up_pc <- CASE reportOnly -> "top"
             [] up_pc = "ref" -> "filter"
             [] OTHER -> up_pc,
  pkt_in_dgram <- IF pushing THEN 0 ELSE pkt_in_dgram,
  tries <- IF reportOnly THEN 0 ELSE tries,
  mx_meas_up <- IF reportOnly THEN "free" ELSE mx_meas_up

LEMMA SameInit == Basic!Init <=> BasicP!Init
  BY DEF Basic!Init, BasicP!Init

LEMMA SameNext ==
  [Basic!Next]_(Basic!vars) <=> [BasicP!Next]_(BasicP!vars)
  BY DEF Basic!Main, Basic!ThreadUp, Basic!ThreadDown, Basic!Kill,
     Basic!Interrupt, Basic!Quit, Basic!FallSilent, Basic!Fails,
     Basic!Configure, Basic!Connect, Basic!StartConcentrator, Basic!SpawnUp,
     Basic!SpawnDown, Basic!InstallHandlers, Basic!Interval,
     Basic!SnapshotUp, Basic!SnapshotDown, Basic!JoinUp, Basic!CancelDown,
     Basic!StopConcentrator, Basic!Leave, Basic!UpSetup, Basic!UpTop,
     Basic!BeginFetch, Basic!EndFetch, Basic!FetchError, Basic!Filter,
     Basic!Unserialisable, Basic!Push, Basic!CountPush, Basic!RecvOther,
     Basic!EndPush, Basic!DownSetup, Basic!DownEnds, Basic!Autoquit,
     Basic!SendPull, Basic!CountPull, Basic!Elapsed, Basic!RecvPullAck,
     Basic!CountPullAck, Basic!RecvResp, Basic!FatalResp, Basic!CountResp,
     Basic!LockConcent, Basic!Transmit, Basic!Cancelled, Basic!Exit,
     Basic!MainGoes, Basic!DownGoes, Basic!stop, Basic!Running,
     Basic!Undecided, Basic!Silence, Basic!Startup, Basic!mainVars,
     Basic!sigVars, Basic!envVars, Basic!upVars, Basic!downVars,
     Basic!mutexes, Basic!vars, Basic!Next, BasicP!Main, BasicP!ThreadUp,
     BasicP!ThreadDown, BasicP!Kill, BasicP!Interrupt, BasicP!Quit,
     BasicP!FallSilent, BasicP!Fails, BasicP!Configure, BasicP!Connect,
     BasicP!StartConcentrator, BasicP!SpawnUp, BasicP!SpawnDown,
     BasicP!InstallHandlers, BasicP!Interval, BasicP!SnapshotUp,
     BasicP!SnapshotDown, BasicP!JoinUp, BasicP!CancelDown,
     BasicP!StopConcentrator, BasicP!Leave, BasicP!UpSetup, BasicP!UpTop,
     BasicP!BeginFetch, BasicP!EndFetch, BasicP!FetchError, BasicP!Filter,
     BasicP!Unserialisable, BasicP!Push, BasicP!CountPush, BasicP!RecvOther,
     BasicP!EndPush, BasicP!DownSetup, BasicP!DownEnds, BasicP!Autoquit,
     BasicP!SendPull, BasicP!CountPull, BasicP!Elapsed, BasicP!RecvPullAck,
     BasicP!CountPullAck, BasicP!RecvResp, BasicP!FatalResp,
     BasicP!CountResp, BasicP!LockConcent, BasicP!Transmit,
     BasicP!Cancelled, BasicP!Exit, BasicP!MainGoes, BasicP!DownGoes,
     BasicP!stop, BasicP!Running, BasicP!Undecided, BasicP!Silence,
     BasicP!Startup, BasicP!mainVars, BasicP!sigVars, BasicP!envVars,
     BasicP!upVars, BasicP!downVars, BasicP!mutexes, BasicP!vars,
     BasicP!Next

LEMMA SpecBasicP == Spec => BasicP!Spec
  BY SpecImplementsBasic, SameInit, SameNext, PTL
     DEF ImplementsBasic, Basic!Spec, BasicP!Spec

\* thread_up of gps_pkt_fwd, too, calls lgw_receive between lgw_start and
\* lgw_stop only.
THEOREM SpecReceiveWhileStarted == Spec => [](up_pc = "fetch" => hal = "on")
<1>1. BasicP!Spec => []BasicP!ReceiveWhileStarted
  BY BasicP!SpecReceiveWhileStarted, GpsAssumption
<1>2. BasicP!ReceiveWhileStarted => (up_pc = "fetch" => hal = "on")
  BY DEF BasicP!ReceiveWhileStarted, reportOnly, pushing
<1> QED BY <1>1, <1>2, SpecBasicP, PTL

\* After gps_pkt_fwd has ended in order nothing that it fetched and let pass
\* is left unsent.
THEOREM SpecNothingAbandoned ==
  Spec => [](process = "success" => rxpkt = 0 /\ pkt_in_dgram = 0)
<1>1. BasicP!Spec => []BasicP!IInv
  BY BasicP!SpecIInv, GpsAssumption
<1>2. BasicP!IInv => (process = "success" => up_pc = "ended")
  BY DEF BasicP!IInv, BasicP!UpPhase, BasicP!Interrupted, reportOnly, pushing
<1>3. IInv => (up_pc = "ended" => rxpkt = 0 /\ pkt_in_dgram = 0)
  BY DEF IInv, Core, Holding
<1> QED BY <1>1, <1>2, <1>3, SpecBasicP, SpecIInv, PTL

\* "wait for upstream thread to finish (1 fetch cycle max)"
\* (gps_pkt_fwd.c:992).
THEOREM SpecOneFetchAtMost == Spec => [](cycles <= 1)
<1>1. BasicP!Spec => []BasicP!OneFetchAtMost
  BY BasicP!SpecOneFetchAtMost, GpsAssumption
<1>2. BasicP!OneFetchAtMost => cycles <= 1
  BY DEF BasicP!OneFetchAtMost
<1> QED BY <1>1, <1>2, SpecBasicP, PTL

\* "if an exit signal was received, try to quit properly"
\* (gps_pkt_fwd.c:998): an interrupt in time leads through lgw_stop.
THEOREM SpecInterruptStopsRadio ==
  Spec => [](process = "success" /\ interrupted => hal # "on")
<1>1. BasicP!Spec => []BasicP!InterruptStopsRadio
  BY BasicP!SpecInterruptStopsRadio, GpsAssumption
<1>2. BasicP!InterruptStopsRadio =>
        (process = "success" /\ interrupted => hal # "on")
  BY DEF BasicP!InterruptStopsRadio
<1> QED BY <1>1, <1>2, SpecBasicP, PTL
=============================================================================
