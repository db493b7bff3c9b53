--------------------------- MODULE UpstreamProofs ---------------------------
(***************************************************************************)
(* Proofs about thread_up and main's statistics, for every number of       *)
(* servers, packets per fetch and kinds of packet: no count is lost, the   *)
(* ratios of a snapshot are sound and no status report is dropped.  At the *)
(* end those about ServerRegistry, with which Upstream shares the servers. *)
(***************************************************************************)
EXTENDS Upstream, ServerRegistry, SequenceTheorems, TLAPS

\* TypeOK in two parts, for provers that are good at one of them.
Flags ==
  /\ alive \in BOOLEAN /\ stop \in BOOLEAN /\ send_report \in BOOLEAN
  /\ report_ready \in BOOLEAN /\ delivered \in BOOLEAN

Typed ==
  /\ up_pc \in {"fetch", "poll", "filter", "report", "send", "count", "ack"}
  /\ rxpkt \in Seq(Packets) /\ pkt_in_dgram \in Nat
  /\ dgram \in Int /\ status_report \in Int /\ taken \in Int
  /\ ic \in 1 .. (NumServers + 1) /\ tries \in 0 .. 2
  /\ {started, noticed} \subseteq SUBSET Serv
  /\ main_pc \in {"wait", "reset", "report", "write", "trigcnt", "join"}
  /\ mx_meas_up \in {"free", "up", "main"}
  /\ mx_stat_rep \in {"free", "main"}
  /\ {meas, owed, cp} \subseteq [Counters -> Nat]
  /\ rep_no \in Nat /\ fetched \in Nat

\* Who holds which mutex.
Locks ==
  /\ mx_meas_up = "up" <=> up_pc = "ack"
  /\ mx_meas_up = "main" <=> main_pc = "reset"
  /\ mx_stat_rep = "main" <=> main_pc = "write"

\* CountersConserved, and what it leaves open: a snapshot has taken all.
Conserved == owed = IF mx_meas_up = "main" THEN Zero ELSE meas

\* What the ratios need of the counters themselves.  While thread_up waits
\* for a PUSH_ACK, with the lock, there is a datagram that is not answered.
Ratios(f) ==
  /\ f["ack"] <= f["sent"]
  /\ f["ok"] + f["bad"] + f["nocrc"] <= f["rcv"]
  /\ f["fwd"] <= f["rcv"]

MeasSound == Ratios(meas) /\ (up_pc = "ack" => meas["ack"] < meas["sent"])

\* A report that no server has had yet is in the datagram being sent, and
\* there is a started server still to come.
InHand ==
  taken # 0 /\ ~delivered =>
    up_pc = "send" /\ dgram = taken /\ \E s \in started : ic <= s

\* Every round starts with the first server, and waits for none but one of
\* the servers.
Rounds ==
  /\ up_pc \notin {"send", "count", "ack"} => ic = 1
  /\ up_pc \in {"count", "ack"} => ic \in 1 .. NumServers

\* The mailbox shows a half written report to main only.
ReportWhole ==
  /\ status_report = Torn => main_pc = "write"
  /\ taken # Torn

\* All of the invariant that is more than the type of a flag.
Core ==
  /\ Typed /\ Locks /\ Conserved /\ MeasSound /\ Ratios(cp)
  /\ started # {} /\ InHand /\ Rounds /\ ReportWhole

IInv == Flags /\ Core
-----------------------------------------------------------------------------
LEMMA BumpIs ==
  ASSUME NEW f \in [Counters -> Nat], NEW S
  PROVE  /\ Bump(f, S) \in [Counters -> Nat]
         /\ \A c \in Counters : Bump(f, S)[c] = IF c \in S THEN f[c] + 1 ELSE f[c]
  BY DEF Bump, Counters, Known

LEMMA ZeroIs == Zero \in [Counters -> Nat] /\ Ratios(Zero)
  BY DEF Zero, Counters, Known, Ratios

LEMMA TypeOKParts == TypeOK <=> Flags /\ Typed
  BY DEF TypeOK, Flags, Typed

LEMMA InitIInv == Init => IInv
<1> SUFFICES ASSUME Init PROVE IInv
  OBVIOUS
<1>1. Flags
  BY Zenon DEF Init, Flags
<1>2. Typed
  <2>1. <<>> \in Seq(Packets) /\ ic \in 1 .. (NumServers + 1)
    BY UpstreamAssumption DEF Init
  <2> QED
    BY <2>1, ZeroIs DEF Init, Typed
<1>3. Conserved /\ MeasSound /\ Ratios(cp)
  BY ZeroIs DEF Init, Conserved, MeasSound, Ratios
<1>4. Locks /\ InHand /\ Rounds /\ ReportWhole /\ started # {}
  BY DEF Init, Locks, InHand, Rounds, ReportWhole, Torn
<1> QED
  BY <1>1, <1>2, <1>3, <1>4 DEF IInv, Core

\* Every Boolean variable is assigned a Boolean.
LEMMA NextFlags == Flags /\ [Next]_vars => Flags'
<1> SUFFICES ASSUME Flags, [Next]_vars PROVE Flags'
  OBVIOUS
<1> USE DEF Flags, upVars, mainVars, mailbox, counts, AckVars
<1>1. CASE ThreadUp
  <2>1. ASSUME NEW b, Fetch(b) \/ FetchError(b) PROVE Flags'
    BY <2>1, Zenon DEF Fetch, FetchError, Fetched, Exit
  <2>2. CASE Poll \/ Filter \/ Compose
    BY <2>2, Zenon DEF Poll, Filter, Compose
  <2>3. CASE TakeReport \/ SkipServer \/ SockoptFails \/ Send \/ CountSent
    BY <2>3, Zenon DEF TakeReport, SkipServer, SockoptFails, Exit, Send, CountSent
  <2>4. CASE RecvAck \/ RecvOther \/ GiveUpAck \/ EndRound
    BY <2>4, Zenon DEF RecvAck, RecvOther, GiveUpAck, EndRound
  <2> QED
    BY <1>1, <2>1, <2>2, <2>3, <2>4, Zenon DEF ThreadUp
<1>2. CASE Main
  BY <1>2, Zenon DEF Main, StatsCopy, StatsReset, ReportBegin, ReportEnd,
                     CheckReset, JoinUp
<1>3. CASE Signal \/ \E s \in Serv : ServerStarts(s)
  BY <1>3, Zenon DEF Signal, ServerStarts
<1>4. CASE UNCHANGED vars
  BY <1>4, Zenon DEF vars
<1> QED
  BY <1>1, <1>2, <1>3, <1>4 DEF Next

LEMMA FetchedCore ==
  ASSUME Core, up_pc = "fetch", NEW b \in Seq(Packets), Fetched(b)
  PROVE  Core'
<1> USE DEF Fetched, upVars, mainVars, mailbox, counts
<1>1. Typed'
  <2>1. Len(b) \in Nat
    OBVIOUS
  <2> QED
    BY <2>1 DEF Core, Typed
<1>2. (Locks /\ Conserved /\ MeasSound /\ Ratios(cp))'
  BY DEF Core, Locks, Conserved, MeasSound, Ratios
<1>3. (InHand /\ Rounds /\ ReportWhole /\ started # {})'
  BY DEF Core, InHand, Rounds, ReportWhole
<1> QED
  BY <1>1, <1>2, <1>3 DEF Core

\* The end of the process changes nothing else.
LEMMA StandsCore ==
  ASSUME Core, UNCHANGED <<started, noticed, fetched, taken, delivered, upVars,
                           mainVars, mailbox, counts>>
  PROVE  Core'
<1> USE DEF upVars, mainVars, mailbox, counts
<1>1. (Typed /\ started # {})'
  BY DEF Core, Typed
<1>2. (Locks /\ Conserved /\ MeasSound /\ Ratios(cp))'
  BY DEF Core, Locks, Conserved, MeasSound, Ratios
<1>3. (InHand /\ Rounds /\ ReportWhole)'
  BY DEF Core, InHand, Rounds, ReportWhole
<1> QED
  BY <1>1, <1>2, <1>3 DEF Core

LEMMA FetchCore ==
  ASSUME Core, NEW n \in 0 .. (NB_PKT_MAX + 1), NEW b \in [1 .. n -> Packets],
         Fetch(b) \/ FetchError(b)
  PROVE  Core'
<1>1. n \in Nat /\ b \in Seq(Packets)
  BY UpstreamAssumption
<1>2. CASE Fetch(b)
  BY <1>1, <1>2, FetchedCore DEF Fetch
<1>3. CASE FetchError(b) /\ b # <<>>
  <2>1. Tail(b) \in Seq(Packets)
    BY <1>1, <1>3
  <2> QED
    BY <1>3, <2>1, FetchedCore DEF FetchError
<1>4. CASE FetchError(b) /\ b = <<>>
  BY <1>4, StandsCore DEF FetchError, Exit
<1> QED
  BY <1>2, <1>3, <1>4

LEMMA FilterCore ==
  ASSUME Core, Filter
  PROVE  Core'
<1> DEFINE s == Head(rxpkt).status
           S == {"rcv"} \cup ({s} \cap Known)
                        \cup (IF s \in FwdStatus THEN {"fwd"} ELSE {})
<1> USE DEF mainVars, mailbox
<1>1. meas' = Bump(meas, S) /\ owed' = Bump(owed, S)
  BY DEF Filter, Count
<1>2. meas \in [Counters -> Nat] /\ owed = meas
  BY DEF Core, Typed, Conserved, Filter
<1> HIDE DEF S
<1>3. /\ meas' \in [Counters -> Nat] /\ owed' = meas'
      /\ \A c \in Counters : meas'[c] = IF c \in S THEN meas[c] + 1 ELSE meas[c]
  BY <1>1, <1>2, BumpIs
<1>4. rxpkt' \in Seq(Packets) /\ pkt_in_dgram' \in Nat
  <2>1. rxpkt \in Seq(Packets) /\ rxpkt # <<>> /\ pkt_in_dgram \in Nat
    BY DEF Core, Typed, Filter
  <2>2. Tail(rxpkt) \in Seq(Packets)
    BY <2>1
  <2>3. \/ UNCHANGED <<rxpkt, pkt_in_dgram>>
        \/ rxpkt' = Tail(rxpkt) /\ pkt_in_dgram' \in {pkt_in_dgram, pkt_in_dgram + 1}
    BY DEF Filter
  <2> QED
    BY <2>1, <2>2, <2>3
<1>5. Typed'
  BY <1>3, <1>4 DEF Core, Typed, Filter
<1>6. MeasSound'
  <2>1. /\ {"sent", "ack", "rcv", "fwd", "ok", "bad", "nocrc"} \subseteq Counters
        /\ "sent" \notin S /\ "ack" \notin S /\ "rcv" \in S
        /\ S \cap Known \subseteq {s}
    BY UpstreamAssumption DEF Counters, Known, S
  <2>2. meas'["ok"] + meas'["bad"] + meas'["nocrc"]
          <= meas["ok"] + meas["bad"] + meas["nocrc"] + 1
    BY <1>2, <1>3, <2>1 DEF Known
  <2>3. up_pc' = "filter" /\ Ratios(meas)
    BY DEF Core, MeasSound, Filter
  <2>4. \A c \in Counters : meas[c] \in Nat /\ meas'[c] \in Nat
    BY <1>2, <1>3
  <2> QED
    BY <1>3, <2>1, <2>2, <2>3, <2>4 DEF MeasSound, Ratios
<1>7. (Locks /\ Conserved /\ Ratios(cp))'
  BY <1>3 DEF Core, Locks, Conserved, Ratios, Filter
<1>8. (InHand /\ Rounds /\ ReportWhole /\ started # {})'
  BY DEF Core, InHand, Rounds, ReportWhole, Filter
<1> QED
  BY <1>5, <1>6, <1>7, <1>8 DEF Core

\* Steps of thread_up that leave the counters and their lock alone.
LEMMA RoundCore ==
  ASSUME Core, Poll \/ Compose \/ TakeReport \/ SkipServer \/ Send \/ EndRound
               \/ RecvOther
  PROVE  Core'
<1> USE DEF upVars, mainVars, mailbox, counts, AckVars
<1>1. UNCHANGED <<started, counts, mainVars, fetched>>
      /\ ("ack" \in {up_pc, up_pc'} => up_pc' = up_pc)
  BY DEF Poll, Compose, TakeReport, SkipServer, Send, EndRound, RecvOther
<1>2. (Conserved /\ MeasSound /\ Ratios(cp) /\ started # {})'
  BY <1>1 DEF Core, Conserved, MeasSound, Ratios
<1>3. CASE Poll \/ Compose
  BY <1>2, <1>3, SMTT(30)
  DEF Core, Typed, Locks, InHand, Rounds, ReportWhole, Poll, Compose
<1>4. CASE TakeReport
  <2>1. PICK s \in started : s \in 1 .. NumServers
    BY DEF Core, Typed, Serv
  <2> QED
    BY <1>2, <1>4, <2>1 DEF Core, Typed, Locks, InHand, Rounds,
                            ReportWhole, TakeReport
<1>5. CASE SkipServer
  BY <1>2, <1>5, UpstreamAssumption
  DEF Core, Typed, Locks, InHand, Rounds, ReportWhole, SkipServer, Serv
<1>6. CASE Send
  BY <1>2, <1>6 DEF Core, Typed, Serv, Locks, InHand, Rounds, ReportWhole,
                    Send
<1>7. CASE EndRound
  BY <1>2, <1>7, UpstreamAssumption
  DEF Core, Typed, Locks, InHand, Rounds, ReportWhole, EndRound, Serv
<1>8. CASE RecvOther
  BY <1>2, <1>8 DEF Core, Typed, Locks, InHand, Rounds, ReportWhole,
                    RecvOther
<1> QED
  BY <1>3, <1>4, <1>5, <1>6, <1>7, <1>8
\* The wait for a PUSH_ACK, from the count of the datagram to that of the
\* answer or to its end.
LEMMA AckCore ==
  ASSUME Core, CountSent \/ RecvAck \/ GiveUpAck
  PROVE  Core'
<1> USE DEF mainVars, mailbox, AckVars
<1> DEFINE S == IF CountSent THEN {"sent"} ELSE IF RecvAck THEN {"ack"} ELSE {}
<1>1. meas \in [Counters -> Nat] /\ owed = meas
  BY DEF Core, Typed, Locks, Conserved, CountSent, RecvAck, GiveUpAck
<1>2. /\ meas' \in [Counters -> Nat] /\ owed' = meas'
      /\ \A c \in Counters : meas'[c] = IF c \in S THEN meas[c] + 1 ELSE meas[c]
  <2>1. CASE CountSent
    BY <1>1, <2>1, BumpIs DEF CountSent, Count
  <2>2. CASE RecvAck
    BY <1>1, <2>2, BumpIs DEF RecvAck, CountSent, Count
  <2>3. CASE GiveUpAck /\ ~CountSent /\ ~RecvAck
    BY <1>1, <2>3 DEF GiveUpAck
  <2> QED
    BY <2>1, <2>2, <2>3
<1>3. Typed' /\ (started # {})'
  BY <1>2, UpstreamAssumption, SMTT(30)
  DEF Core, Typed, Rounds, CountSent, RecvAck, GiveUpAck, NextServer
<1>4. MeasSound'
  BY <1>1, <1>2 DEF Core, MeasSound, Ratios, CountSent, RecvAck, GiveUpAck,
                    NextServer, Counters, Known
<1>5. (Locks /\ Conserved /\ Ratios(cp))'
  BY <1>2 DEF Core, Typed, Locks, Conserved, Ratios, CountSent, RecvAck,
              GiveUpAck, NextServer
<1>6. (InHand /\ Rounds /\ ReportWhole)'
  BY DEF Core, InHand, Rounds, ReportWhole, CountSent, RecvAck, GiveUpAck,
         NextServer
<1> QED
  BY <1>3, <1>4, <1>5, <1>6 DEF Core

LEMMA MainCore ==
  ASSUME Core, Main
  PROVE  Core'
<1> USE DEF upVars, mailbox, counts
<1>1. CASE StatsCopy
  <2>1. owed = meas /\ \A c \in Counters : meas[c] \in Nat
    BY <1>1 DEF Core, Typed, Conserved, StatsCopy
  <2>2. owed' = Zero
    BY <1>1, <2>1 DEF StatsCopy, Zero
  <2>3. (Typed /\ started # {})'
    BY <1>1, <2>2, ZeroIs DEF Core, Typed, StatsCopy
  <2>4. (Locks /\ Conserved /\ MeasSound /\ Ratios(cp))'
    BY <1>1, <2>2 DEF Core, Typed, Locks, Conserved, MeasSound, Ratios, StatsCopy
  <2>5. (InHand /\ Rounds /\ ReportWhole)'
    BY <1>1 DEF Core, InHand, Rounds, ReportWhole, StatsCopy
  <2> QED
    BY <2>3, <2>4, <2>5 DEF Core
<1>2. CASE StatsReset
  <2>1. (Typed /\ started # {})'
    BY <1>2, ZeroIs DEF Core, Typed, StatsReset
  <2>2. up_pc # "ack"
    BY <1>2 DEF Core, Locks, StatsReset
  <2>3. (Locks /\ Conserved /\ MeasSound /\ Ratios(cp))'
    BY <1>2, <2>2, ZeroIs
    DEF Core, Typed, Locks, Conserved, MeasSound, Ratios, StatsReset
  <2>4. (InHand /\ Rounds /\ ReportWhole)'
    BY <1>2 DEF Core, InHand, Rounds, ReportWhole, StatsReset
  <2> QED
    BY <2>1, <2>3, <2>4 DEF Core
<1>3. CASE ReportBegin \/ ReportEnd
  <2>1. (Typed /\ started # {})'
    <3>1. CASE ReportBegin
      BY <3>1 DEF Core, Typed, ReportBegin, Torn
    <3>2. CASE ReportEnd
      BY <3>2, ZeroIs DEF Core, Typed, ReportEnd
    <3> QED
      BY <1>3, <3>1, <3>2
  <2>2. (Locks /\ Conserved /\ MeasSound /\ Ratios(cp))'
    BY <1>3, ZeroIs DEF Core, Typed, Locks, Conserved, MeasSound, Ratios,
                        ReportBegin, ReportEnd
  <2>3. (InHand /\ Rounds /\ ReportWhole)'
    BY <1>3 DEF Core, Typed, InHand, Rounds, ReportWhole, ReportBegin,
                ReportEnd, Torn
  <2> QED
    BY <2>1, <2>2, <2>3 DEF Core
<1>4. CASE CheckReset
  <2>1. (Typed /\ started # {})'
    BY <1>4 DEF Core, Typed, CheckReset
  <2>2. (Locks /\ Conserved /\ MeasSound /\ Ratios(cp))'
    BY <1>4 DEF Core, Locks, Conserved, MeasSound, Ratios, CheckReset
  <2>3. (InHand /\ Rounds /\ ReportWhole)'
    BY <1>4 DEF Core, InHand, Rounds, ReportWhole, CheckReset
  <2> QED
    BY <2>1, <2>2, <2>3 DEF Core
<1>5. CASE JoinUp
  BY <1>5, StandsCore DEF JoinUp
<1> QED
  BY <1>1, <1>2, <1>3, <1>4, <1>5 DEF Main

LEMMA NextIInv == IInv /\ [Next]_vars => IInv'
<1> SUFFICES ASSUME Flags, Core, [Next]_vars PROVE Core'
  BY NextFlags DEF IInv
<1>1. CASE ThreadUp
  <2>1. ASSUME NEW n \in 0 .. NB_PKT_MAX, NEW b \in [1 .. n -> Packets], Fetch(b)
        PROVE  Core'
    BY <2>1, FetchCore, UpstreamAssumption
  <2>2. CASE SockoptFails
    BY <2>2, StandsCore DEF SockoptFails, Exit
  <2> QED
    BY <1>1, <2>1, <2>2, FetchCore, FilterCore, RoundCore, AckCore DEF ThreadUp
<1>2. CASE Signal
  BY <1>2, StandsCore DEF Signal
<1>3. ASSUME NEW s \in Serv, ServerStarts(s) PROVE Core'
  <2> USE DEF upVars, mainVars, mailbox, counts
  <2>1. (Typed /\ started # {})'
    BY <1>3 DEF Core, Typed, ServerStarts
  <2>2. (Locks /\ Conserved /\ MeasSound /\ Ratios(cp))'
    BY <1>3 DEF Core, Locks, Conserved, MeasSound, Ratios, ServerStarts
  <2>3. (InHand /\ Rounds /\ ReportWhole)'
    BY <1>3 DEF Core, InHand, Rounds, ReportWhole, ServerStarts
  <2> QED
    BY <2>1, <2>2, <2>3 DEF Core
<1>4. CASE UNCHANGED vars
  BY <1>4, StandsCore DEF vars
<1> QED
  BY <1>1, <1>2, <1>3, <1>4, MainCore DEF Next

LEMMA SpecIInv == Spec => []IInv
  BY InitIInv, NextIInv, PTL DEF Spec
-----------------------------------------------------------------------------
\* The variables of thread_up and main keep their types.
THEOREM SpecTypeOK == Spec => []TypeOK
<1>1. IInv => TypeOK
  BY TypeOKParts DEF IInv, Core
<1> QED
  BY <1>1, SpecIInv, PTL

\* Whatever the two threads do between a snapshot and its reset, no count of
\* a packet, a datagram or an acknowledgement is lost or reported twice.
THEOREM SpecCountersConserved == Spec => []CountersConserved
<1>1. IInv => CountersConserved
  BY DEF IInv, Core, Conserved, CountersConserved
<1> QED
  BY <1>1, SpecIInv, PTL

\* No snapshot of main shows more acknowledgements than datagrams, or more
\* packets of a kind than packets.
THEOREM SpecRatiosSound == Spec => []RatiosSound
<1>1. IInv => RatiosSound
  BY DEF IInv, Core, Ratios, RatiosSound
<1> QED
  BY <1>1, SpecIInv, PTL

\* A status report that thread_up takes goes to a server in that round, since
\* at any time one that is connected is still to come.
THEOREM SpecNoReportDropped == Spec => []NoReportDropped
<1>1. IInv => NoReportDropped
  BY DEF IInv, Core, InHand, NoReportDropped
<1> QED
  BY <1>1, SpecIInv, PTL

\* thread_up never sends a status report that main is still writing.
THEOREM SpecReportWhole == Spec => [](taken # Torn)
<1>1. IInv => taken # Torn
  BY DEF IInv, Core, ReportWhole
<1> QED
  BY <1>1, SpecIInv, PTL
-----------------------------------------------------------------------------
(***************************************************************************)
(* What Upstream takes for granted of the servers, proved of the registry  *)
(* for its servers: there is one when thread_up starts, further ones are   *)
(* announced one by one and none is withdrawn, and each that is announced  *)
(* has both its sockets connected.                                         *)
(***************************************************************************)
\* thread_connect on its way: what is connected when, and that it announces
\* the server last and never goes back after it.
OnTheWay ==
  \A s \in Servers :
    /\ connect_pc[s] \in {"resolve_down", "open_down", "connect_down",
                          "announce", "done"} => sock_up[s] = "connected"
    /\ connect_pc[s] \in {"announce", "done"} => sock_down[s] = "connected"
    /\ state[s] = "started" <=> connect_pc[s] = "done"

\* Those who use a server know that it was announced: by a test, or because
\* a broadcast woke them.
Informed ==
  \A s \in Servers :
    s \in up_started \/ down_pc[s] \in {"woken", "active"} => state[s] = "started"

Announced == {s \in Servers : state[s] = "started"}

\* main runs on, and creates the other threads, with a server to use.
RunningHasServer ==
  /\ wait_pc = "running" => Announced # {}
  /\ wait_pc # "running" =>
       up_started = {} /\ \A s \in Servers : down_pc[s] = "absent"

RegistryIInv == RegistryTypeOK /\ OnTheWay /\ Informed /\ RunningHasServer

LEMMA RegistryStarts == RegistryInit => RegistryIInv
<1> SUFFICES ASSUME RegistryInit PROVE RegistryIInv
  OBVIOUS
<1>1. running \in BOOLEAN
  BY Zenon DEF RegistryInit
<1> QED
  BY <1>1 DEF RegistryInit, RegistryIInv, RegistryTypeOK, OnTheWay, Informed,
              RunningHasServer

\* A connection on its way leaves everyone else alone, until it is announced.
LEMMA RegistryConnects ==
  ASSUME RegistryIInv, NEW s \in Servers, ThreadConnect(s)
  PROVE  RegistryIInv' /\ Announced' \in {Announced, Announced \cup {s}}
<1> USE DEF Move, Set, others
<1>1. running' \in BOOLEAN
  BY Zenon DEF RegistryIInv, RegistryTypeOK, ThreadConnect, Retry, ResolveUp,
               OpenUp, ConnectUp, ResolveDown, OpenDown, ConnectDown, SetStarted
<1>2. CASE /\ UNCHANGED others
           /\ connect_pc[s] \notin {"announce", "done"}
           /\ ~SetStarted(s)
  <2>1. (RegistryTypeOK /\ OnTheWay)'
    <3> USE <1>1, <1>2 DEF RegistryIInv, RegistryTypeOK, OnTheWay
    <3>1. CASE Retry(s)
      BY <3>1 DEF Retry
    <3>2. CASE ResolveUp(s)
      BY <3>2 DEF ResolveUp
    <3>3. CASE OpenUp(s)
      BY <3>3 DEF OpenUp
    <3>4. CASE ConnectUp(s)
      BY <3>4 DEF ConnectUp
    <3>5. CASE ResolveDown(s)
      BY <3>5 DEF ResolveDown
    <3>6. CASE OpenDown(s)
      BY <3>6 DEF OpenDown
    <3>7. CASE ConnectDown(s)
      BY <3>7 DEF ConnectDown
    <3> QED
      BY <3>1, <3>2, <3>3, <3>4, <3>5, <3>6, <3>7 DEF ThreadConnect
  <2>2. (Informed /\ RunningHasServer)' /\ Announced' = Announced
    BY <1>2 DEF RegistryIInv, Informed, RunningHasServer, Announced
  <2> QED
    BY <2>1, <2>2 DEF RegistryIInv
<1>3. CASE SetStarted(s)
  <2>1. (RegistryTypeOK /\ OnTheWay)'
    BY <1>1, <1>3 DEF RegistryIInv, RegistryTypeOK, OnTheWay, SetStarted
  <2>2. Announced' = Announced \cup {s}
    BY <1>3 DEF RegistryIInv, RegistryTypeOK, Announced, SetStarted
  <2>3. (Informed /\ RunningHasServer)'
    BY <1>3, <2>2 DEF RegistryIInv, RegistryTypeOK, Informed,
                      RunningHasServer, SetStarted
  <2> QED
    BY <2>1, <2>2, <2>3 DEF RegistryIInv
<1> QED
  BY <1>2, <1>3
  DEF ThreadConnect, Retry, ResolveUp, OpenUp, ConnectUp, ResolveDown,
      OpenDown, ConnectDown

\* main and the users of the servers leave the connections alone.
LEMMA RegistryIsUsed ==
  ASSUME RegistryIInv,
         \/ \E s \in Servers :
              ThreadDown(s) \/ DownWakesSpuriously(s) \/ UpNotices(s)
         \/ WaitOneStarted \/ MainWakesSpuriously
  PROVE  RegistryIInv' /\ Announced' = Announced
<1> USE DEF connectVars, ToDown, ThreadDown
<1>1. UNCHANGED <<running, state, connect_pc, sock_up, sock_down, result>>
  BY Zenon
  DEF DownWakesSpuriously, UpNotices, WaitOneStarted, MainWakesSpuriously,
      WaitStarted, ReturnFromWait
<1>2. OnTheWay' /\ Announced' = Announced
  BY <1>1 DEF RegistryIInv, OnTheWay, Announced
<1>3. ASSUME NEW s \in Servers, ThreadDown(s) \/ DownWakesSpuriously(s)
      PROVE  RegistryIInv'
  <2>1. RegistryTypeOK'
    BY <1>1, <1>3 DEF RegistryIInv, RegistryTypeOK, WaitStarted,
                      DownWakesSpuriously, ReturnFromWait
  <2>2. (Informed /\ RunningHasServer)'
    BY <1>1, <1>2, <1>3
    DEF RegistryIInv, RegistryTypeOK, Informed, RunningHasServer,
        DownWakesSpuriously, WaitStarted, ReturnFromWait
  <2> QED
    BY <1>2, <2>1, <2>2 DEF RegistryIInv
<1>4. ASSUME NEW s \in Servers, UpNotices(s) PROVE RegistryIInv'
  BY <1>1, <1>2, <1>4 DEF RegistryIInv, RegistryTypeOK, Informed,
                          RunningHasServer, UpNotices
<1>5. CASE WaitOneStarted \/ MainWakesSpuriously
  <2>1. RegistryTypeOK'
    BY <1>1, <1>5 DEF RegistryIInv, RegistryTypeOK, WaitOneStarted,
                      MainWakesSpuriously
  <2>2. (Informed /\ RunningHasServer)'
    BY <1>1, <1>2, <1>5
    DEF RegistryIInv, RegistryTypeOK, Informed, RunningHasServer, Announced,
        AnyStarted, WaitOneStarted, MainWakesSpuriously
  <2> QED
    BY <1>2, <2>1, <2>2 DEF RegistryIInv
<1> QED
  BY <1>2, <1>3, <1>4, <1>5

LEMMA RegistryGoes ==
  ASSUME RegistryIInv, [RegistryNext]_registryVars
  PROVE  /\ RegistryIInv'
         /\ \E s \in Servers : Announced' \in {Announced, Announced \cup {s}}
<1>1. CASE UNCHANGED registryVars
  <2>1. Servers # {}
    BY RegistryAssumption
  <2> QED
    BY <1>1, <2>1 DEF registryVars, RegistryIInv, RegistryTypeOK, OnTheWay,
                      Informed, RunningHasServer, Announced
<1>2. CASE \E s \in Servers : ThreadConnect(s)
  BY <1>2, RegistryConnects
<1>3. CASE ~\E s \in Servers : ThreadConnect(s)
  <2>1. Servers # {}
    BY RegistryAssumption
  <2> QED
    BY <1>1, <1>3, <2>1, RegistryIsUsed DEF RegistryNext
<1> QED
  BY <1>2, <1>3

LEMMA SpecRegistryIInv == RegistrySpec => []RegistryIInv
  BY RegistryStarts, RegistryGoes, PTL DEF RegistrySpec

\* The variables of server.c and of its users keep their types.
THEOREM RegistrySpecTypeOK == RegistrySpec => []RegistryTypeOK
  BY SpecRegistryIInv, PTL DEF RegistryIInv

\* A server that is announced, or used by thread_up or by a thread_down that
\* was told of it, is connected both ways.
THEOREM RegistrySpecUsedIsConnected == RegistrySpec => []UsedIsConnected
<1>1. RegistryIInv => UsedIsConnected
  BY DEF RegistryIInv, OnTheWay, Informed, UsedIsConnected
<1> QED
  BY <1>1, SpecRegistryIInv, PTL

\* main creates thread_up and the thread_downs when some server is announced:
\* what Upstream takes for granted of its initial states.
THEOREM RegistrySpecRunningHasServer == RegistrySpec => []RunningHasServer
  BY SpecRegistryIInv, PTL DEF RegistryIInv

\* After that servers are announced one at a time and none is withdrawn, as
\* by ServerStarts of Upstream.
THEOREM RegistrySpecAnnounces ==
  RegistrySpec =>
    [][\E s \in Servers \ Announced : Announced' = Announced \cup {s}]_Announced
<1>1. RegistryIInv /\ [RegistryNext]_registryVars =>
        [\E s \in Servers \ Announced : Announced' = Announced \cup {s}]_Announced
  BY RegistryGoes
<1> QED
  BY <1>1, SpecRegistryIInv, PTL DEF RegistrySpec
=============================================================================
