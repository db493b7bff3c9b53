-------------------------- MODULE PolyStartProofs --------------------------
(***************************************************************************)
(* Proofs about the monitor and about main around its loop.  No tunnel     *)
(* escapes its close command and the SSH port has one tunnel, for every    *)
(* set of process ids, and under the main that starts and stops it.  Any   *)
(* configuration files are laid over each other as documented: servers,    *)
(* parameters and commands; and main ends only threads that it started.    *)
(***************************************************************************)
EXTENDS PolyStart, FiniteSetTheorems, SequenceTheorems, TLAPS
-----------------------------------------------------------------------------
(* The monitor alone.                                                      *)

\* ssh and ngrok are never both recorded: Open looks at either.
Exclusive == pid["ssh"] = 0 \/ pid["ngrok"] = 0

IInv == TypeOK /\ NoTunnelLost /\ Exclusive

\* A recorded id that is not positive is 0, and one that is was given out.
LEMMA NoneRecorded ==
  ASSUME TypeOK, NEW k \in Tunnels
  PROVE  IF pid[k] > 0 THEN pid[k] \in Pids ELSE pid[k] = 0
<1>1. pid[k] \in Pids \cup {0}
  BY DEF TypeOK
<1>2. \A p \in Pids : p \in Nat /\ p # 0
  BY MonitorAssumption
<1> QED
  BY <1>1, <1>2

LEMMA InitIInv == Init => IInv
  BY DEF Init, IInv, TypeOK, NoTunnelLost, Exclusive, Tunnels

LEMMA NextIInv == IInv /\ [Next]_vars => IInv'
<1> SUFFICES ASSUME IInv, [Next]_vars PROVE IInv'
  OBVIOUS
<1> USE MonitorAssumption DEF IInv, TypeOK, NoTunnelLost, Exclusive, Tunnels
<1>1. ASSUME NEW k \in Tunnels, Open(k) PROVE IInv'
  <2>1. PICK p \in Pids : /\ proc[p] = "none"
                          /\ proc' = [proc EXCEPT ![p] = k]
                          /\ pid' = [pid EXCEPT ![k] = p]
    BY <1>1 DEF Open
  <2>2. \A r \in Rivals(k) : pid[r] = 0
    <3> SUFFICES ASSUME NEW r \in Rivals(k) PROVE pid[r] = 0
      OBVIOUS
    <3>1. r \in Tunnels
      BY DEF Rivals
    <3>2. ~(pid[r] > 0)
      BY <1>1 DEF Open, Busy
    <3> QED
      BY <3>1, <3>2, NoneRecorded
  <2>3. Exclusive'
    <3>1. CASE k = "web"
      BY <2>1, <3>1
    <3>2. CASE k = "ssh"
      BY <2>1, <2>2, <3>2 DEF Rivals
    <3>3. CASE k = "ngrok"
      BY <2>1, <2>2, <3>3 DEF Rivals
    <3> QED
      BY <3>1, <3>2, <3>3
  <2>4. pid[k] = 0 /\ 0 \notin Pids
    BY <2>2 DEF Rivals
  <2>5. NoTunnelLost'
    BY <1>1, <2>1, <2>4 DEF Open
  <2> QED
    BY <1>1, <2>1, <2>3, <2>5 DEF Open
<1>2. ASSUME NEW k \in Tunnels, Close(k) PROVE IInv'
  <2>1. pid[k] \in Pids
    BY <1>2, NoneRecorded DEF Close
  <2>2. 0 \notin Pids
    OBVIOUS
  <2>3. CASE proc[pid[k]] = "other"
    <3>1. /\ proc' = [proc EXCEPT ![pid[k]] = "none"]
          /\ pid' = [pid EXCEPT ![k] = 0] /\ UNCHANGED <<monitor_run, told>>
      BY <1>2, <2>3 DEF Close
    <3>2. TypeOK' /\ Exclusive'
      BY <3>1
    <3>3. NoTunnelLost'
      <4> SUFFICES ASSUME NEW q \in Pids, proc'[q] \in Tunnels, q \notin told'
                   PROVE  pid'[proc'[q]] = q
        OBVIOUS
      <4>1. proc'[q] = proc[q] /\ pid[proc[q]] = q /\ q # pid[k]
        BY <2>1, <3>1
      <4> QED BY <3>1, <4>1
    <3> QED BY <3>2, <3>3
  <2>4. CASE proc[pid[k]] # "other"
    BY <1>2, <2>1, <2>2, <2>4 DEF Close
  <2> QED
    BY <2>3, <2>4
<1>3. CASE Start \/ Stop
  BY <1>3 DEF Start, Stop
<1>4. ASSUME NEW p \in Pids, Ends(p) PROVE IInv'
  BY <1>4 DEF Ends
<1>5. ASSUME NEW p \in Pids, OtherStarts(p) PROVE IInv'
  BY <1>5 DEF OtherStarts
<1>6. CASE UNCHANGED vars
  BY <1>6 DEF vars
<1> QED
  BY <1>1, <1>2, <1>3, <1>4, <1>5, <1>6 DEF Next, Command

LEMMA SpecIInv == Spec => []IInv
  BY InitIInv, NextIInv, PTL DEF Spec

\* The process ids of monitor.c, and the processes they name, keep their types.
THEOREM SpecTypeOK == Spec => []TypeOK
  BY SpecIInv, PTL DEF IInv

\* Every tunnel that was not told to end is the one a close command reaches.
THEOREM SpecNoTunnelLost == Spec => []NoTunnelLost
  BY SpecIInv, PTL DEF IInv

\* At most one tunnel not told to end leads to the SSH port.
THEOREM SpecOneSshTunnel == Spec => []OneSshTunnel
<1>1. IInv => OneSshTunnel
  BY MonitorAssumption
  DEF IInv, TypeOK, NoTunnelLost, Exclusive, OneSshTunnel, Tunnels
<1> QED
  BY SpecIInv, <1>1, PTL
-----------------------------------------------------------------------------
(* The monitor under main.                                                 *)

LEMMA MainMonitor == [MainNext]_allVars => [Next]_vars
<1> SUFFICES ASSUME [MainNext]_allVars PROVE [Next]_vars
  OBVIOUS
<1>1. CASE Begin \/ ShellCommand
  BY <1>1 DEF Begin, ShellCommand
<1>2. CASE SpawnMonitor
  BY <1>2 DEF SpawnMonitor, Next
<1>3. CASE Leave
  BY <1>3 DEF Leave, Next
<1>4. CASE TunnelCommand
  BY <1>4 DEF TunnelCommand, Next
<1>5. CASE UNCHANGED allVars
  BY <1>5 DEF allVars
<1> QED BY <1>1, <1>2, <1>3, <1>4, <1>5 DEF MainNext

\* main starts and stops the monitor, and the monitor takes commands, only as
\* Monitor specifies.
THEOREM MainRunsMonitor == MainSpec => Spec
  BY MainMonitor, PTL DEF MainSpec, MainInit, Spec

\* No tunnel escapes its close command, whatever main was configured to do.
THEOREM MainNoTunnelLost == MainSpec => []NoTunnelLost
  BY MainRunsMonitor, SpecNoTunnelLost, PTL

\* The SSH port has one tunnel, whatever main was configured to do.
THEOREM MainOneSshTunnel == MainSpec => []OneSshTunnel
  BY MainRunsMonitor, SpecOneSshTunnel, PTL
-----------------------------------------------------------------------------
(* The loop over the array of servers, turn by turn: FoldLeft folds over   *)
(* sets of places, and the set of all numbers of turns is inductive.       *)

\* Induction over the numbers of a set.
LEMMA NatSetInduction ==
  ASSUME NEW T, 0 \in T, \A n \in Nat : n \in T => n + 1 \in T
  PROVE  Nat \subseteq T
<1> SUFFICES ASSUME Nat \ T # {} PROVE FALSE
  OBVIOUS
<1>1. PICK m \in Nat \ T : \A k \in Nat \ T : ~ (<<k, m>> \in OpToRel(<, Nat))
  <2>1. Nat \ T \subseteq Nat
    OBVIOUS
  <2> QED BY <2>1, NatLessThanWellFounded, WFMin
<1>2. \A k \in Nat \ T : ~ (k < m)
  BY <1>1 DEF OpToRel
<1>3. m - 1 \in Nat /\ m - 1 < m /\ (m - 1) + 1 = m
  OBVIOUS
<1>4. m - 1 \in T
  BY <1>2, <1>3
<1> QED BY <1>3, <1>4

\* The greatest number of an interval, with or without others.
LEMMA MaxIs ==
  ASSUME NEW n \in Nat, NEW t \in SUBSET (1 .. n), n \in t
  PROVE  Max(t) = n
<1>1. \A x \in t : x \in Nat /\ x <= n
  OBVIOUS
<1>2. \A x \in t : (\A y \in t : x >= y) => x = n
  BY <1>1
<1>3. Max(t) \in t /\ \A y \in t : Max(t) >= y
  BY <1>1, Zenon DEF Max
<1> QED BY <1>2, <1>3

\* What MapThenFoldSet computes: the fold over each set of places.
Sums(s, base, g, n) ==
  g = [t \in SUBSET (1 .. n) |->
         IF t = {} THEN base ELSE Entry(g[t \ {Max(t)}], s[Max(t)])]

LEMMA FoldExists ==
  ASSUME NEW s, NEW base
  PROVE  \A n \in Nat : \E g : Sums(s, base, g, n)
<1> DEFINE T == {n \in Nat : \E g : Sums(s, base, g, n)}
<1>1. 0 \in T
  <2> DEFINE g == [t \in SUBSET (1 .. 0) |-> base]
  <2>1. \A t \in SUBSET (1 .. 0) : t = {}
    OBVIOUS
  <2>2. Sums(s, base, g, 0)
    BY <2>1, Zenon DEF Sums
  <2> QED BY <2>2
<1>2. ASSUME NEW n \in Nat, n \in T PROVE n + 1 \in T
  <2>1. PICK g : Sums(s, base, g, n)
    BY <1>2
  <2> DEFINE h == [t \in SUBSET (1 .. n + 1) |->
                     IF n + 1 \in t THEN Entry(g[t \ {n + 1}], s[n + 1])
                     ELSE g[t]]
  <2>2. ASSUME NEW t \in SUBSET (1 .. n + 1)
        PROVE  h[t] = IF t = {} THEN base
                      ELSE Entry(h[t \ {Max(t)}], s[Max(t)])
    <3>1. CASE n + 1 \in t
      <4>1. Max(t) = n + 1
        BY <3>1, MaxIs
      <4>2. t \ {n + 1} \in SUBSET (1 .. n + 1) /\ n + 1 \notin t \ {n + 1}
        OBVIOUS
      <4>3. h[t \ {n + 1}] = g[t \ {n + 1}]
        BY <4>2
      <4>4. h[t] = Entry(g[t \ {n + 1}], s[n + 1])
        BY <3>1
      <4> HIDE DEF h
      <4> QED BY <3>1, <4>1, <4>3, <4>4
    <3>2. CASE n + 1 \notin t
      <4>1. t \in SUBSET (1 .. n)
        BY <3>2
      <4>2. t \ {Max(t)} \in SUBSET (1 .. n + 1) /\ n + 1 \notin t \ {Max(t)}
        BY <3>2
      <4>3. h[t] = g[t] /\ h[t \ {Max(t)}] = g[t \ {Max(t)}]
        BY <3>2, <4>2
      <4>4. g[t] = IF t = {} THEN base
                   ELSE Entry(g[t \ {Max(t)}], s[Max(t)])
        BY <2>1, <4>1, Zenon DEF Sums
      <4> HIDE DEF h
      <4> QED BY <4>3, <4>4
    <3> QED BY <3>1, <3>2
  <2>3. Sums(s, base, h, n + 1)
    BY <2>2, Zenon DEF Sums
  <2> QED BY <2>3
<1> HIDE DEF T
<1>3. Nat \subseteq T
  BY <1>1, <1>2, NatSetInduction
<1> QED BY <1>3 DEF T

\* The loop as FoldLeft has it, and as one turn after the other.
Turned(base, s) == FoldLeft(Entry, base, s)

Turns(f, base, s, n) ==
  /\ f[0] = base
  /\ \A i \in 1 .. n : f[i] = Entry(f[i - 1], s[i])
  /\ Turned(base, s) = f[n]

LEMMA FoldIs ==
  ASSUME NEW s, NEW base, NEW n \in Nat, DOMAIN s = 1 .. n
  PROVE  \E f : Turns(f, base, s, n)
<1> DEFINE iter == CHOOSE g : Sums(s, base, g, n)
           f == [i \in 0 .. n |-> iter[1 .. i]]
<1>1. Sums(s, base, iter, n)
  BY FoldExists
<1>2. Turned(base, s) = iter[1 .. n]
  BY DEF Turned, FoldLeft, MapThenFoldSet, Sums
<1> HIDE DEF iter
<1>3. f[0] = base
  BY <1>1 DEF Sums
<1>4. ASSUME NEW i \in 1 .. n PROVE f[i] = Entry(f[i - 1], s[i])
  <2>1. 1 .. i \in SUBSET (1 .. n) /\ i \in 1 .. i /\ 1 .. i # {}
    OBVIOUS
  <2>2. Max(1 .. i) = i
    BY <2>1, MaxIs
  <2>3. (1 .. i) \ {i} = 1 .. (i - 1)
    OBVIOUS
  <2>4. iter[1 .. i] = Entry(iter[(1 .. i) \ {i}], s[i])
    BY <1>1, <2>1, <2>2, Zenon DEF Sums
  <2>5. i \in 0 .. n /\ i - 1 \in 0 .. n
    OBVIOUS
  <2>6. f[i] = iter[1 .. i] /\ f[i - 1] = iter[1 .. (i - 1)]
    BY <2>5
  <2> HIDE DEF f
  <2> QED BY <2>3, <2>4, <2>6
<1>5. Turned(base, s) = f[n]
  BY <1>2
<1> HIDE DEF f
<1> QED BY <1>3, <1>4, <1>5 DEF Turns
-----------------------------------------------------------------------------
(* One section of a configuration file laid over the configuration.        *)

\* What is kept of the configuration by every turn and section.
Conf(c) ==
  /\ c = [serv_count |-> c.serv_count, serv_enable |-> c.serv_enable,
          serv_live |-> c.serv_live, serv |-> c.serv,
          mntr_sys_count |-> c.mntr_sys_count,
          mntr_sys_list |-> c.mntr_sys_list, values |-> c.values,
          flags |-> c.flags, gps_fake_enable |-> c.gps_fake_enable]
  /\ c.serv_count \in 0 .. MAX_SERVERS
  /\ c.serv_enable \in [Slots -> BOOLEAN]
  /\ c.serv_live \in [Slots -> BOOLEAN]
  /\ DOMAIN c.serv = Slots

\* A flag of serv_live is raised only past the end of a whole serv_enable.
LiveIsEnabled(c) ==
  (\E k \in Slots : c.serv_live[k]) => \A j \in Slots : c.serv_enable[j]

\* Nothing but servers was touched.
SameRest(c, d) ==
  /\ c.mntr_sys_count = d.mntr_sys_count
  /\ c.mntr_sys_list = d.mntr_sys_list
  /\ c.values = d.values /\ c.flags = d.flags
  /\ c.gps_fake_enable = d.gps_fake_enable

LEMMA SlotsAre ==
  Slots \subseteq Nat /\ 0 \in Slots /\ MAX_SERVERS \in Nat \ {0}
  BY ConfigAssumption DEF Slots

LEMMA StoreKeeps ==
  ASSUME NEW c, NEW ic \in Slots, NEW e, Conf(c), LiveIsEnabled(c)
  PROVE  LET d == Store(c, ic, e)
         IN  /\ Conf(d) /\ LiveIsEnabled(d) /\ SameRest(d, c)
             /\ d.serv_enable = c.serv_enable /\ d.serv_live = c.serv_live
             /\ d.serv_count = c.serv_count
             /\ \A j \in Slots : j # ic => d.serv[j] = c.serv[j]
             /\ \A f \in ServerFields :
                  Has(e, f) => d.serv[ic][f] = Cast(f, e[f])
<1> DEFINE x == [f \in ServerFields |-> IF Has(e, f) THEN Cast(f, e[f])
                                       ELSE c.serv[ic][f]]
           sv == [c.serv EXCEPT ![ic] = x]
           d == Store(c, ic, e)
<1>1. \A f \in ServerFields : Has(e, f) => x[f] = Cast(f, e[f])
  OBVIOUS
<1> HIDE DEF x
<1>2. /\ DOMAIN sv = Slots /\ sv[ic] = x
      /\ \A j \in Slots : j # ic => sv[j] = c.serv[j]
  BY DEF Conf
<1> HIDE DEF sv
<1>3. d = [c EXCEPT !.serv = sv]
  BY DEF Store, sv, x
<1> HIDE DEF d
<1>4. /\ Conf(d) /\ LiveIsEnabled(d) /\ SameRest(d, c) /\ d.serv = sv
      /\ d.serv_enable = c.serv_enable /\ d.serv_live = c.serv_live
      /\ d.serv_count = c.serv_count
  BY <1>2, <1>3 DEF Conf, LiveIsEnabled, SameRest
<1> QED BY <1>1, <1>2, <1>4 DEF d

\* The fields that no flag of an entry is written over.
PortFields == ServerFields \ {"server_address"}

\* What the flag of entry i leaves alone of every server.
Safe(i) == IF i < 2 * MAX_SERVERS THEN ServerFields ELSE PortFields

LEMMA EnableKeeps ==
  ASSUME NEW c, NEW i \in Nat, Conf(c), LiveIsEnabled(c),
         \A j \in Slots : j < i => c.serv_enable[j]
  PROVE  LET d == Enable(c, i)
         IN  /\ Conf(d) /\ LiveIsEnabled(d) /\ SameRest(d, c)
             /\ \A k \in Slots, f \in Safe(i) : d.serv[k][f] = c.serv[k][f]
             /\ \A j \in Slots : j < i + 1 => d.serv_enable[j]
<1> DEFINE d == Enable(c, i)
<1>1. CASE i < MAX_SERVERS
  <2>1. i \in Slots
    BY <1>1, SlotsAre DEF Slots
  <2> DEFINE en == [c.serv_enable EXCEPT ![i] = TRUE]
  <2>2. en \in [Slots -> BOOLEAN]
    BY <2>1, Zenon DEF Conf
  <2>3. \A j \in Slots : j < i + 1 => en[j]
    <3> SUFFICES ASSUME NEW j \in Slots, j < i + 1 PROVE en[j]
      OBVIOUS
    <3>1. j < i \/ j = i
      BY SlotsAre
    <3> QED BY <2>1, <3>1, Zenon DEF Conf
  <2>4. \A j \in Slots : c.serv_enable[j] => en[j]
    BY <2>1 DEF Conf
  <2> HIDE DEF en
  <2>5. d = [c EXCEPT !.serv_enable = en]
    BY <1>1 DEF Enable, en
  <2> HIDE DEF d
  <2>6. /\ d.serv_enable = en /\ d.serv_live = c.serv_live
        /\ d.serv = c.serv /\ SameRest(d, c)
    BY <2>5 DEF Conf, SameRest
  <2>7. Conf(d)
    BY <2>2, <2>5 DEF Conf
  <2>8. LiveIsEnabled(d)
    BY <2>4, <2>6 DEF LiveIsEnabled
  <2> QED BY <2>3, <2>6, <2>7, <2>8 DEF d
<1>2. ASSUME ~(i < MAX_SERVERS) PROVE \A j \in Slots : j < i
  BY <1>2, SlotsAre DEF Slots
<1>3. CASE ~(i < MAX_SERVERS) /\ i < 2 * MAX_SERVERS
  <2> DEFINE lv == [c.serv_live EXCEPT ![i - MAX_SERVERS] = TRUE]
  <2>1. lv \in [Slots -> BOOLEAN]
    BY Zenon DEF Conf
  <2> HIDE DEF lv
  <2>2. d = [c EXCEPT !.serv_live = lv]
    BY <1>3 DEF Enable, lv
  <2> HIDE DEF d
  <2>3. /\ d.serv_enable = c.serv_enable /\ d.serv_live = lv
        /\ d.serv = c.serv /\ SameRest(d, c)
    BY <2>2 DEF Conf, SameRest
  <2>4. Conf(d)
    BY <2>1, <2>2 DEF Conf
  <2>5. LiveIsEnabled(d)
    BY <1>2, <1>3, <2>3 DEF LiveIsEnabled
  <2> QED BY <1>2, <1>3, <2>3, <2>4, <2>5 DEF d
<1>4. CASE ~(i < MAX_SERVERS) /\ ~(i < 2 * MAX_SERVERS)
  <2> DEFINE k == (i - 2 * MAX_SERVERS) \div ADDR_SIZE
             x == [f \in ServerFields |-> IF f = "server_address" THEN "spoilt"
                                          ELSE c.serv[k][f]]
             sv == [c.serv EXCEPT ![k] = x]
  <2>1. d = [c EXCEPT !.serv = sv]
    BY <1>4 DEF Enable
  <2>2. \A f \in PortFields : x[f] = c.serv[k][f]
    BY DEF PortFields
  <2> HIDE DEF k, x, d
  <2>3. /\ DOMAIN sv = Slots
        /\ \A j \in Slots, f \in PortFields : sv[j][f] = c.serv[j][f]
    <3>1. DOMAIN sv = Slots
      BY DEF Conf
    <3>2. \A j \in Slots : sv[j] = IF j = k THEN x ELSE c.serv[j]
      BY DEF Conf
    <3> HIDE DEF sv
    <3> QED BY <2>2, <3>1, <3>2
  <2> HIDE DEF sv
  <2>4. /\ d.serv_enable = c.serv_enable /\ d.serv_live = c.serv_live
        /\ d.serv = sv /\ SameRest(d, c)
    BY <2>1 DEF Conf, SameRest
  <2>5. Conf(d)
    BY <2>1, <2>3 DEF Conf
  <2>6. LiveIsEnabled(d)
    BY <2>4 DEF LiveIsEnabled
  <2>7. \A j \in Slots, f \in Safe(i) : d.serv[j][f] = c.serv[j][f]
    BY <1>4, <2>3, <2>4 DEF Safe
  <2> QED BY <1>2, <1>4, <2>4, <2>5, <2>6, <2>7 DEF d
<1> QED BY <1>1, <1>3, <1>4

\* serv_live[k] = false.
ClearLive(c, k) == [c EXCEPT !.serv_live[k] = FALSE]

LEMMA ClearKeeps ==
  ASSUME NEW c, NEW k, Conf(c), LiveIsEnabled(c)
  PROVE  LET d == ClearLive(c, k)
         IN  /\ Conf(d) /\ LiveIsEnabled(d) /\ SameRest(d, c)
             /\ d.serv_enable = c.serv_enable /\ d.serv_count = c.serv_count
             /\ d.serv = c.serv
<1> DEFINE lv == [c.serv_live EXCEPT ![k] = FALSE]
           d == ClearLive(c, k)
<1>1. lv \in [Slots -> BOOLEAN]
  BY Zenon DEF Conf
<1>2. \A j \in Slots : lv[j] => c.serv_live[j]
  BY Zenon DEF Conf
<1> HIDE DEF lv
<1>3. d = [c EXCEPT !.serv_live = lv]
  BY DEF ClearLive, lv
<1> HIDE DEF d
<1>4. /\ d.serv_enable = c.serv_enable /\ d.serv_live = lv /\ SameRest(d, c)
      /\ d.serv_count = c.serv_count
      /\ d.serv = c.serv
  BY <1>3 DEF Conf, SameRest
<1>5. Conf(d)
  BY <1>1, <1>3 DEF Conf
<1>6. LiveIsEnabled(d)
  BY <1>2, <1>4 DEF LiveIsEnabled
<1> QED BY <1>4, <1>5, <1>6 DEF d

\* Where the loop over the array of servers is.
Turn(a, c) ==
  /\ a = [conf |-> a.conf, i |-> a.i, ic |-> a.ic]
  /\ a.i \in Nat /\ a.ic \in 0 .. MAX_SERVERS
  /\ Conf(a.conf) /\ LiveIsEnabled(a.conf) /\ SameRest(a.conf, c)
  /\ \A j \in Slots : j < a.i => a.conf.serv_enable[j]

\* The fields of the servers of an array that stay as they are stored.
Lasting(s) == IF Roomy(s) THEN ServerFields ELSE PortFields

\* The complete entries among the first ones fill the slots in order.
Fills(a, s, i) ==
  LET b == Cardinality(Before(s, i + 1))
  IN  /\ a.ic = IF b <= MAX_SERVERS THEN b ELSE MAX_SERVERS
      /\ a.i <= i
      /\ \A n \in 1 .. a.ic, f \in Lasting(s) :
           a.conf.serv[n - 1][f] = Stored(s[Place(s, n)])[f]

LEMMA BeforeFinite ==
  ASSUME NEW s, NEW m \in Nat, DOMAIN s = 1 .. m, NEW k
  PROVE  IsFiniteSet(Before(s, k)) /\ Cardinality(Before(s, k)) \in Nat
<1>1. IsFiniteSet(1 .. m)
  BY FS_Interval
<1>2. Before(s, k) \subseteq 1 .. m
  BY DEF Before
<1> QED BY <1>1, <1>2, FS_Subset, FS_CardinalityType

\* Of two complete entries the later one has more before it.
LEMMA BeforeGrows ==
  ASSUME NEW s, NEW m \in Nat, DOMAIN s = 1 .. m,
         NEW j \in 1 .. m, NEW k \in 1 .. m, j < k, Complete(s[j])
  PROVE  Cardinality(Before(s, j)) < Cardinality(Before(s, k))
<1>1. Before(s, j) \subseteq Before(s, k) /\ Before(s, j) # Before(s, k)
  BY DEF Before
<1> QED BY <1>1, BeforeFinite, FS_Subset

LEMMA PlaceIs ==
  ASSUME NEW s, NEW m \in Nat, DOMAIN s = 1 .. m, NEW k \in 1 .. m,
         Complete(s[k]), NEW n \in Nat, Cardinality(Before(s, k)) = n - 1
  PROVE  Place(s, n) = k
<1>1. ASSUME NEW j \in 1 .. m, Complete(s[j]),
             Cardinality(Before(s, j)) = n - 1
      PROVE  j = k
  BY <1>1, BeforeGrows
<1> QED BY <1>1, Zenon DEF Place

\* One more entry: the places before the next one.
LEMMA BeforeNext ==
  ASSUME NEW s, NEW m \in Nat, DOMAIN s = 1 .. m, NEW i \in Nat, i + 1 <= m
  PROVE  Cardinality(Before(s, i + 2)) =
           IF Complete(s[i + 1]) THEN Cardinality(Before(s, i + 1)) + 1
           ELSE Cardinality(Before(s, i + 1))
<1>1. CASE Complete(s[i + 1])
  <2>1. Before(s, i + 2) = Before(s, i + 1) \cup {i + 1}
    BY <1>1 DEF Before
  <2>2. i + 1 \notin Before(s, i + 1)
    BY DEF Before
  <2> QED BY <1>1, <2>1, <2>2, BeforeFinite, FS_AddElement
<1>2. CASE ~Complete(s[i + 1])
  <2>1. Before(s, i + 2) = Before(s, i + 1)
    BY <1>2 DEF Before
  <2> QED BY <1>2, <2>1
<1> QED BY <1>1, <1>2

\* What the loop keeps is what the reference calls complete.
LEMMA SurvivesIsComplete == \A e : Survives(e) <=> Complete(e)
  BY DEF Survives, Complete, Flag, Has

\* What a turn, from a to r, does with the entry e.
Takes(r, a, e) ==
  IF a.ic = MAX_SERVERS THEN r = a
  ELSE /\ r.ic = IF Survives(e) THEN a.ic + 1 ELSE a.ic
       /\ r.i = a.i + 1
       /\ \A j \in Slots, f \in Safe(a.i) :
            j # a.ic => r.conf.serv[j][f] = a.conf.serv[j][f]
       /\ \A f \in ServerFields :
            Has(e, f) => r.conf.serv[a.ic][f] = Cast(f, e[f])

LEMMA EntryTurns ==
  ASSUME NEW c, NEW a, NEW e, Turn(a, c)
  PROVE  Turn(Entry(a, e), c) /\ Takes(Entry(a, e), a, e)
<1> DEFINE en == Enable(a.conf, a.i)
           st == Store(en, a.ic, e)
           cl == ClearLive(st, a.ic)
           r == Entry(a, e)
<1>1. CASE a.ic = MAX_SERVERS
  BY <1>1 DEF Entry, Takes
<1>2. CASE a.ic # MAX_SERVERS
  <2> DEFINE yes == [conf |-> cl, i |-> a.i + 1, ic |-> a.ic + 1]
             no == [conf |-> st, i |-> a.i + 1, ic |-> a.ic]
  <2>1. /\ Conf(en) /\ LiveIsEnabled(en) /\ SameRest(en, a.conf)
        /\ \A j \in Slots : j < a.i + 1 => en.serv_enable[j]
        /\ \A j \in Slots, f \in Safe(a.i) :
             en.serv[j][f] = a.conf.serv[j][f]
    BY EnableKeeps DEF Turn
  <2> HIDE DEF en
  <2>2. a.ic \in Slots
    BY <1>2, SlotsAre DEF Turn, Slots
  <2>3. /\ Conf(st) /\ LiveIsEnabled(st) /\ SameRest(st, en)
        /\ st.serv_enable = en.serv_enable
        /\ \A j \in Slots : j # a.ic => st.serv[j] = en.serv[j]
        /\ \A f \in ServerFields :
             Has(e, f) => st.serv[a.ic][f] = Cast(f, e[f])
    BY <2>2, <2>1, StoreKeeps
  <2> HIDE DEF st
  <2>4. /\ Conf(cl) /\ LiveIsEnabled(cl) /\ SameRest(cl, st)
        /\ cl.serv_enable = st.serv_enable /\ cl.serv = st.serv
    BY <2>3, ClearKeeps
  <2>5. SameRest(st, c) /\ SameRest(cl, c)
    BY <2>1, <2>3, <2>4 DEF Turn, SameRest
  <2>6. r = IF Survives(e) THEN yes ELSE no
    BY <1>2, Zenon DEF Entry, ClearLive, st, en
  <2> HIDE DEF cl
  <2>7. a.i + 1 \in Nat /\ a.ic + 1 \in 0 .. MAX_SERVERS
    BY <1>2, SlotsAre DEF Turn
  <2>8. a.i \in Nat /\ a.ic \in 0 .. MAX_SERVERS
    BY DEF Turn
  <2>9. Turn(yes, c) /\ Turn(no, c)
    BY <2>1, <2>3, <2>4, <2>5, <2>7, <2>8 DEF Turn
  <2>10. Takes(r, a, e)
    <3>1. r.conf.serv = st.serv
      BY <2>4, <2>6
    <3>2. /\ r.ic = IF Survives(e) THEN a.ic + 1 ELSE a.ic
          /\ r.i = a.i + 1
      BY <2>6
    <3> HIDE DEF r
    <3> QED BY <1>2, <2>1, <2>3, <3>1, <3>2 DEF Takes
  <2>11. Turn(r, c)
    <3> HIDE DEF yes, no
    <3> QED BY <2>6, <2>9
  <2> QED BY <2>10, <2>11
<1> QED BY <1>1, <1>2

\* While a slot is free, an array that leaves room is within it.
LEMMA RoomyYet ==
  ASSUME NEW s, NEW m \in Nat, DOMAIN s = 1 .. m, Len(s) = m, Roomy(s),
         NEW i \in Nat, i + 1 <= m,
         Cardinality(Before(s, i + 1)) < MAX_SERVERS
  PROVE  i < 2 * MAX_SERVERS
<1> DEFINE k == 2 * MAX_SERVERS
<1>1. k \in Nat
  BY SlotsAre
<1> SUFFICES ASSUME ~(i < k) PROVE FALSE
  OBVIOUS
<1>2. Cardinality(Before(s, k + 1)) >= MAX_SERVERS
  <2>1. ~(m <= k)
    BY <1>1
  <2> QED BY <2>1 DEF Roomy
<1> HIDE DEF k
<1>3. Before(s, k + 1) \subseteq Before(s, i + 1)
  BY <1>1 DEF Before
<1>4. Cardinality(Before(s, k + 1)) <= Cardinality(Before(s, i + 1))
  BY <1>3, BeforeFinite, FS_Subset
<1>5. /\ Cardinality(Before(s, k + 1)) \in Nat
      /\ Cardinality(Before(s, i + 1)) \in Nat
  BY BeforeFinite
<1> QED BY <1>2, <1>4, <1>5, SlotsAre

\* A turn fills the next slot with the next complete entry, whole.
LEMMA EntryFills ==
  ASSUME NEW c, NEW a, NEW s, NEW m \in Nat, DOMAIN s = 1 .. m, Len(s) = m,
         NEW i \in Nat, i + 1 <= m, Turn(a, c), Fills(a, s, i)
  PROVE  Fills(Entry(a, s[i + 1]), s, i + 1)
<1> DEFINE e == s[i + 1]
           r == Entry(a, e)
           b == Cardinality(Before(s, i + 1))
           b2 == Cardinality(Before(s, i + 2))
<1>1. /\ b \in Nat /\ i + 1 \in 1 .. m /\ (i + 1) + 1 = i + 2
      /\ b2 = IF Complete(e) THEN b + 1 ELSE b
  BY BeforeFinite, BeforeNext
<1>2. /\ a.ic = (IF b <= MAX_SERVERS THEN b ELSE MAX_SERVERS)
      /\ a.ic \in Nat /\ a.i \in Nat /\ a.i <= i
      /\ \A n \in 1 .. a.ic, f \in Lasting(s) :
           a.conf.serv[n - 1][f] = Stored(s[Place(s, n)])[f]
  BY DEF Fills, Turn
<1>3. Takes(r, a, e)
  BY EntryTurns
<1> SUFFICES
      /\ r.ic = (IF b2 <= MAX_SERVERS THEN b2 ELSE MAX_SERVERS)
      /\ r.i <= i + 1
      /\ \A n \in 1 .. r.ic, f \in Lasting(s) :
           r.conf.serv[n - 1][f] = Stored(s[Place(s, n)])[f]
  BY <1>1 DEF Fills
<1> HIDE DEF r
<1>4. CASE a.ic = MAX_SERVERS
  <2> HIDE DEF b, b2
  <2> QED BY <1>1, <1>2, <1>3, <1>4, SlotsAre DEF Takes
<1>5. CASE a.ic # MAX_SERVERS
  <2>1. /\ a.ic = b /\ b < MAX_SERVERS
        /\ \A n \in 1 .. a.ic : n - 1 \in Slots /\ n - 1 # a.ic
    <3> HIDE DEF b, b2
    <3> QED BY <1>1, <1>2, <1>5, SlotsAre DEF Slots
  <2>2. Lasting(s) \subseteq Safe(a.i)
    <3>1. CASE Roomy(s)
      <4>1. i < 2 * MAX_SERVERS
        BY <2>1, <3>1, RoomyYet
      <4>2. a.i < 2 * MAX_SERVERS
        BY <1>2, <4>1, SlotsAre
      <4> QED BY <4>2 DEF Lasting, Safe, PortFields
    <3>2. CASE ~Roomy(s)
      BY <3>2 DEF Lasting, Safe, PortFields
    <3> QED BY <3>1, <3>2
  <2> HIDE DEF b, b2
  <2>3. /\ r.ic = (IF b2 <= MAX_SERVERS THEN b2 ELSE MAX_SERVERS)
        /\ r.i <= i + 1
    BY <1>1, <1>2, <1>3, <1>5, <2>1, SlotsAre, SurvivesIsComplete DEF Takes
  <2>4. \A n \in 1 .. a.ic, f \in Lasting(s) :
          r.conf.serv[n - 1][f] = Stored(s[Place(s, n)])[f]
    BY <1>2, <1>3, <1>5, <2>1, <2>2 DEF Takes
  <2>5. CASE Complete(e)
    <3>1. /\ a.ic + 1 \in Nat /\ Complete(s[i + 1])
          /\ Cardinality(Before(s, i + 1)) = (a.ic + 1) - 1
      <4>1. a.ic + 1 \in Nat /\ b = (a.ic + 1) - 1
        BY <1>1, <2>1
      <4> QED BY <2>5, <4>1 DEF b
    <3>2. Place(s, a.ic + 1) = i + 1
      BY <1>1, <3>1, PlaceIs
    <3>3. \A f \in ServerFields : Has(e, f) /\ Stored(e)[f] = Cast(f, e[f])
      BY <2>5 DEF Complete, Has, Stored
    <3>4. \A f \in ServerFields : r.conf.serv[a.ic][f] = Stored(e)[f]
      BY <1>3, <1>5, <3>3 DEF Takes
    <3>5. r.ic = a.ic + 1 /\ Lasting(s) \subseteq ServerFields
      BY <1>3, <1>5, <2>5, SurvivesIsComplete DEF Takes, Lasting, PortFields
    <3>6. ASSUME NEW n \in 1 .. r.ic, NEW f \in Lasting(s)
          PROVE  r.conf.serv[n - 1][f] = Stored(s[Place(s, n)])[f]
      <4>1. CASE n \in 1 .. a.ic
        BY <2>4, <4>1
      <4>2. CASE n = a.ic + 1
        <5>1. n - 1 = a.ic /\ Place(s, n) = i + 1
          BY <1>2, <3>2, <4>2
        <5> QED BY <3>4, <3>5, <5>1
      <4> QED BY <1>2, <3>5, <4>1, <4>2
    <3> QED BY <2>3, <3>6
  <2>6. CASE ~Complete(e)
    BY <1>3, <1>5, <2>3, <2>4, <2>6, SurvivesIsComplete DEF Takes
  <2> QED BY <2>5, <2>6
<1> QED BY <1>4, <1>5

\* d is c with other servers.
Keeps(d, c) == Conf(d) /\ LiveIsEnabled(d) /\ SameRest(d, c)

\* The configuration has these servers and no others, as far as these fields.
Talks(c, s, fields) ==
  /\ c.serv_count = Len(s)
  /\ \A n \in 1 .. Len(s), f \in fields : c.serv[n - 1][f] = s[n][f]

LEMMA ListedIs ==
  ASSUME NEW o, IsArray(o.servers)
  PROVE  Len(Listed(o)) \in Nat /\ DOMAIN Listed(o) = 1 .. Len(Listed(o))
<1> DEFINE S == {o.servers[k] : k \in DOMAIN o.servers}
           m == Len(o.servers) % UINT8
<1>1. o.servers \in Seq(S)
  BY DEF IsArray
<1> HIDE DEF S
<1>2. Len(o.servers) \in Nat /\ UINT8 = 256
  BY <1>1 DEF UINT8
<1>3. m \in Nat /\ m <= Len(o.servers)
  <2> DEFINE l == Len(o.servers)
  <2> HIDE DEF l
  <2>1. l \in Nat
    BY <1>2 DEF l
  <2>2. l % 256 \in 0 .. 255
    BY <2>1
  <2>3. l < 256 => l % 256 = l
    BY <2>1
  <2>4. l % 256 <= l
    BY <2>1, <2>2, <2>3
  <2>5. m = l % 256
    BY <1>2 DEF l
  <2> HIDE DEF m
  <2>6. m \in Nat /\ m <= l
    BY <2>2, <2>4, <2>5
  <2> QED BY <2>6 DEF l
<1> HIDE DEF m
<1>4. SubSeq(o.servers, 1, m) \in Seq(S)
  <2>1. \A k \in 1 .. m : o.servers[k] \in S
    BY <1>1, <1>3
  <2> QED BY <1>1, <1>3, <2>1, SubSeqProperties
<1> QED BY <1>4 DEF Listed, m

\* What an array defines is a sequence, as long as there are slots.
LEMMA DefinedLen ==
  ASSUME NEW o, Has(o, "servers"), IsArray(o.servers)
  PROVE  LET s == Listed(o)
             b == Cardinality(Before(s, Len(s) + 1))
         IN  /\ Len(Defined(o)) = IF b <= MAX_SERVERS THEN b ELSE MAX_SERVERS
             /\ Len(Defined(o)) \in Nat
             /\ Defined(o) = <<>> <=> Len(Defined(o)) = 0
             /\ \A n \in 1 .. Len(Defined(o)) :
                  Defined(o)[n] = Stored(s[Place(s, n)])
<1> DEFINE s == Listed(o)
           b == Cardinality(Before(s, Len(s) + 1))
           m == IF b <= MAX_SERVERS THEN b ELSE MAX_SERVERS
           d == [n \in 1 .. m |-> Stored(s[Place(s, n)])]
           S == {d[n] : n \in 1 .. m}
<1>1. Len(s) \in Nat /\ DOMAIN s = 1 .. Len(s)
  BY ListedIs
<1> HIDE DEF s
<1>2. b \in Nat /\ m \in Nat
  BY <1>1, BeforeFinite, SlotsAre
<1>3. Defined(o) = d
  BY DEF Defined, s
<1>4. \A n \in 1 .. m : d[n] = Stored(s[Place(s, n)])
  OBVIOUS
<1>5. d \in [1 .. m -> S] /\ DOMAIN d = 1 .. m
  OBVIOUS
<1> HIDE DEF b, m, d, S
<1>6. d \in Seq(S) /\ Len(d) = m
  BY <1>2, <1>5
<1>7. d = <<>> <=> Len(d) = 0
  BY <1>6, EmptySeq
<1> QED BY <1>2, <1>3, <1>4, <1>6, <1>7 DEF b, m, s

\* The whole loop: what the array defines, and nothing else changed.
LEMMA ServersKeep ==
  ASSUME NEW c, NEW o, Conf(c), LiveIsEnabled(c),
         Has(o, "servers"), IsArray(o.servers)
  PROVE  /\ Keeps(Servers(c, o), c)
         /\ Talks(Servers(c, o), Defined(o), Spared(o))
<1> DEFINE base == [conf |-> c, i |-> 0, ic |-> 0]
           s == Listed(o)
           n == Len(s)
<1>1. n \in Nat /\ DOMAIN s = 1 .. n
  BY ListedIs
<1> HIDE DEF n
<1>2. PICK f : Turns(f, base, s, n)
  <2> HIDE DEF base, s
  <2> QED BY <1>1, FoldIs, Zenon
<1> DEFINE T == {i \in Nat : i <= n => Turn(f[i], c) /\ Fills(f[i], s, i)}
<1>3. 0 \in T
  <2>1. SameRest(c, c) /\ 0 \in 0 .. MAX_SERVERS /\ \A j \in Slots : ~(j < 0)
    BY SlotsAre DEF SameRest
  <2>2. /\ base.conf = c /\ base.i = 0 /\ base.ic = 0
        /\ base = [conf |-> base.conf, i |-> base.i, ic |-> base.ic]
    OBVIOUS
  <2> HIDE DEF base
  <2>3. Turn(base, c)
    BY <2>1, <2>2 DEF Turn
  <2>4. Before(s, 0 + 1) = {}
    BY <1>1 DEF Before
  <2>5. Fills(base, s, 0)
    BY <2>2, <2>4, FS_EmptySet, SlotsAre DEF Fills
  <2> QED BY <1>2, <2>3, <2>5 DEF Turns
<1>4. ASSUME NEW i \in Nat, i \in T PROVE i + 1 \in T
  <2> SUFFICES ASSUME i + 1 <= n
               PROVE  Turn(f[i + 1], c) /\ Fills(f[i + 1], s, i + 1)
    OBVIOUS
  <2>1. i + 1 \in 1 .. n /\ (i + 1) - 1 = i /\ i <= n
    BY <1>1
  <2>2. f[i + 1] = Entry(f[i], s[i + 1])
    BY <1>2, <2>1 DEF Turns
  <2>3. Turn(f[i], c) /\ Fills(f[i], s, i) /\ Len(s) = n
    BY <1>1, <1>4, <2>1 DEF n
  <2> HIDE DEF s
  <2>4. Turn(f[i + 1], c)
    BY <2>2, <2>3, EntryTurns
  <2>5. Fills(f[i + 1], s, i + 1)
    BY <1>1, <2>2, <2>3, EntryFills
  <2> QED BY <2>4, <2>5
<1> HIDE DEF T
<1>5. Nat \subseteq T
  BY <1>3, <1>4, NatSetInduction
<1>6. Turn(f[n], c) /\ Fills(f[n], s, n)
  BY <1>1, <1>5 DEF T
<1> DEFINE d == f[n].conf
<1>7. Servers(c, o) = [d EXCEPT !.serv_count = f[n].ic]
  <2>1. Servers(c, o) = [Turned(base, s).conf EXCEPT
                            !.serv_count = Turned(base, s).ic]
    BY DEF Servers, Turned
  <2> QED BY <1>2, <2>1 DEF Turns
<1>8. /\ Conf(d) /\ LiveIsEnabled(d) /\ SameRest(d, c)
      /\ f[n].ic \in 0 .. MAX_SERVERS
  BY <1>6 DEF Turn
<1>9. /\ f[n].ic = Len(Defined(o))
      /\ \A k \in 1 .. Len(Defined(o)), g \in Spared(o) :
           d.serv[k - 1][g] = Defined(o)[k][g]
  <2>1. Spared(o) = Lasting(s)
    BY DEF Spared, Lasting, PortFields
  <2> QED BY <1>6, <2>1, DefinedLen DEF Fills, n
<1> HIDE DEF d
<1>10. /\ Servers(c, o).serv = d.serv /\ Servers(c, o).serv_count = f[n].ic
  BY <1>7, <1>8 DEF Conf
<1>11. Keeps(Servers(c, o), c)
  BY <1>7, <1>8 DEF Keeps, Conf, LiveIsEnabled, SameRest
<1> QED BY <1>9, <1>10, <1>11 DEF Talks

\* What a section says of the parameters that are not about servers.
Laid(d, c, o) ==
  /\ d.values = Scalars(c, o).values
  /\ d.flags = [f \in Flags |-> Flag(o, f, c.flags[f])]
  /\ d.mntr_sys_count = SystemCalls(c, o).mntr_sys_count
  /\ d.mntr_sys_list = SystemCalls(c, o).mntr_sys_list

LEMMA SingleKeeps ==
  ASSUME NEW c, NEW o, Conf(c), LiveIsEnabled(c)
  PROVE  /\ Keeps(Single(c, o), c)
         /\ IF ServerFields \subseteq DOMAIN o
            THEN Talks(Single(c, o), <<Stored(o)>>, ServerFields)
            ELSE Single(c, o) = c
<1> DEFINE s == Store(c, 0, o)
           l == ClearLive(s, 0)
           d == [l EXCEPT !.serv_count = 1]
<1>1. /\ Conf(s) /\ LiveIsEnabled(s) /\ SameRest(s, c)
      /\ \A f \in ServerFields : Has(o, f) => s.serv[0][f] = Cast(f, o[f])
  BY SlotsAre, StoreKeeps
<1> HIDE DEF s
<1>2. Conf(l) /\ LiveIsEnabled(l) /\ SameRest(l, s) /\ l.serv = s.serv
  BY <1>1, ClearKeeps
<1>3. Single(c, o) = IF ServerFields \subseteq DOMAIN o THEN d ELSE c
  BY <1>1 DEF Single, s, ClearLive, Conf
<1> HIDE DEF l
<1>4. Keeps(d, c) /\ d.serv = l.serv /\ d.serv_count = 1
  BY <1>1, <1>2, SlotsAre DEF Keeps, Conf, LiveIsEnabled, SameRest
<1>5. Keeps(c, c)
  BY DEF Keeps, SameRest
<1> HIDE DEF d
<1>6. ASSUME ServerFields \subseteq DOMAIN o
      PROVE  Talks(d, <<Stored(o)>>, ServerFields)
  <2> DEFINE v == Stored(o)
  <2>1. \A f \in ServerFields : v[f] = Cast(f, o[f]) /\ Has(o, f)
    BY <1>6 DEF Has, Stored
  <2> HIDE DEF v
  <2>2. \A f \in ServerFields : d.serv[0][f] = v[f]
    BY <1>1, <1>2, <1>4, <2>1
  <2>3. Len(<<v>>) = 1 /\ <<v>>[1] = v
    OBVIOUS
  <2>4. Talks(d, <<v>>, ServerFields)
    BY <1>4, <2>2, <2>3 DEF Talks
  <2> QED BY <2>4 DEF v
<1> QED BY <1>3, <1>4, <1>5, <1>6

LEMMA DefaultsKeep ==
  ASSUME NEW c, Conf(c), LiveIsEnabled(c)
  PROVE  /\ Keeps(Defaults(c), c)
         /\ IF c.serv_count = 0
            THEN Talks(Defaults(c), <<Default>>, ServerFields)
            ELSE Defaults(c) = c
<1> DEFINE l == ClearLive(c, 0)
           sv == [c.serv EXCEPT ![0] = Default]
           m == [l EXCEPT !.serv_count = 1]
           d == [m EXCEPT !.serv = sv]
<1>1. Conf(l) /\ LiveIsEnabled(l) /\ SameRest(l, c)
  BY ClearKeeps
<1>2. Defaults(c) = IF c.serv_count = 0 THEN d ELSE c
  BY DEF Defaults, ClearLive, Conf
<1>3. DOMAIN sv = Slots /\ l.serv = c.serv /\ sv[0] = Default
  BY ClearKeeps, SlotsAre DEF Conf
<1> HIDE DEF l, sv
<1>4. /\ Conf(m) /\ LiveIsEnabled(m) /\ SameRest(m, c) /\ m.serv_count = 1
  BY <1>1, SlotsAre DEF Conf, LiveIsEnabled, SameRest
<1> HIDE DEF m
<1>5. Keeps(d, c) /\ d.serv = sv /\ d.serv_count = 1
  BY <1>1, <1>3, <1>4 DEF Keeps, Conf, LiveIsEnabled, SameRest
<1>6. Keeps(c, c)
  BY DEF Keeps, SameRest
<1> HIDE DEF d
<1>7. Talks(d, <<Default>>, ServerFields)
  <2>1. Len(<<Default>>) = 1 /\ <<Default>>[1] = Default
    OBVIOUS
  <2> QED BY <1>3, <1>5, <2>1 DEF Talks
<1> QED BY <1>2, <1>5, <1>6, <1>7

LEMMA RestKeeps ==
  ASSUME NEW c, NEW o, Conf(c), LiveIsEnabled(c)
  PROVE  LET d == Switches(Scalars(SystemCalls(c, o), o), o)
         IN  /\ Conf(d) /\ LiveIsEnabled(d) /\ Laid(d, c, o)
             /\ d.serv = c.serv /\ d.serv_count = c.serv_count
<1> DEFINE s == SystemCalls(c, o)
           v == Scalars(s, o)
           d == Switches(v, o)
<1>1. /\ Conf(s) /\ LiveIsEnabled(s)
      /\ s.values = c.values /\ s.flags = c.flags
      /\ s.serv = c.serv /\ s.serv_count = c.serv_count
  BY DEF SystemCalls, Conf, LiveIsEnabled
<1> HIDE DEF s
<1>2. /\ Conf(v) /\ LiveIsEnabled(v)
      /\ v.values = Scalars(c, o).values /\ v.flags = s.flags
      /\ v.mntr_sys_count = s.mntr_sys_count
      /\ v.mntr_sys_list = s.mntr_sys_list
      /\ v.serv = s.serv /\ v.serv_count = s.serv_count
  BY <1>1 DEF Scalars, Conf, LiveIsEnabled
<1> HIDE DEF v
<1> DEFINE fl == [f \in Flags |-> Flag(o, f, v.flags[f])]
           gf == IF fl["gps"] THEN Flag(o, "fake_gps", v.gps_fake_enable)
                 ELSE v.gps_fake_enable
<1>3. d = [v EXCEPT !.flags = fl, !.gps_fake_enable = gf]
  BY <1>2 DEF Switches, Conf
<1> HIDE DEF d, fl, gf
<1>4. /\ Conf(d) /\ LiveIsEnabled(d)
      /\ d.values = v.values
      /\ d.flags = fl
      /\ d.mntr_sys_count = v.mntr_sys_count
      /\ d.mntr_sys_list = v.mntr_sys_list
      /\ d.serv = v.serv /\ d.serv_count = v.serv_count
  BY <1>2, <1>3 DEF Conf, LiveIsEnabled
<1>5. s = SystemCalls(c, o) /\ fl = [f \in Flags |-> Flag(o, f, c.flags[f])]
  BY <1>1, <1>2 DEF s, fl
<1> QED BY <1>1, <1>2, <1>4, <1>5 DEF Laid, s, v, d

\* A section that defines servers, be it none, decides; another one leaves
\* what there is, and sees to it that there is one.
Decides(o) == Has(o, "servers") \/ Defined(o) # <<>>

Served(d, c, o) ==
  IF Decides(o) THEN Talks(d, OrDefault(Defined(o)), Spared(o))
  ELSE IF c.serv_count = 0 THEN Talks(d, <<Default>>, ServerFields)
  ELSE d.serv = c.serv /\ d.serv_count = c.serv_count

\* What holds of all fields holds of those that are spared.
LEMMA TalksAll ==
  ASSUME NEW c, NEW s, NEW o, Talks(c, s, ServerFields)
  PROVE  Talks(c, s, Spared(o))
<1>1. Spared(o) \subseteq ServerFields
  BY DEF Spared
<1> QED BY <1>1 DEF Talks

LEMMA ServersServed ==
  ASSUME NEW c, NEW o, Conf(c), LiveIsEnabled(c),
         Has(o, "servers") => IsArray(o.servers)
  PROVE  LET s == IF Has(o, "servers") THEN Servers(c, o) ELSE Single(c, o)
         IN  Keeps(Defaults(s), c) /\ Served(Defaults(s), c, o)
<1> DEFINE s == IF Has(o, "servers") THEN Servers(c, o) ELSE Single(c, o)
           e == Defaults(s)
<1>1. Keeps(s, c)
  BY ServersKeep, SingleKeeps
<1>2. ASSUME Has(o, "servers") PROVE Served(e, c, o)
  <2>1. Talks(s, Defined(o), Spared(o))
    BY <1>2, ServersKeep
  <2>2. /\ s.serv_count = Len(Defined(o))
        /\ Defined(o) = <<>> <=> Len(Defined(o)) = 0
    BY <1>2, <2>1, DefinedLen DEF Talks
  <2> HIDE DEF s
  <2>3. IF s.serv_count = 0 THEN Talks(e, <<Default>>, ServerFields)
        ELSE e = s
    BY <1>1, DefaultsKeep DEF Keeps
  <2> HIDE DEF e
  <2>4. IF s.serv_count = 0 THEN Talks(e, <<Default>>, Spared(o)) ELSE e = s
    BY <2>3, TalksAll
  <2> QED BY <1>2, <2>1, <2>2, <2>4 DEF Served, Decides, OrDefault
<1>3. ASSUME ~Has(o, "servers") PROVE Served(e, c, o)
  <2> DEFINE v == Stored(o)
  <2>1. /\ Defined(o) = IF ServerFields \subseteq DOMAIN o THEN <<v>> ELSE <<>>
        /\ Spared(o) = ServerFields
    BY <1>3 DEF Defined, Spared
  <2>2. IF ServerFields \subseteq DOMAIN o THEN Talks(s, <<v>>, ServerFields)
        ELSE s = c
    BY <1>3, SingleKeeps
  <2> HIDE DEF s, v
  <2>3. IF s.serv_count = 0 THEN Talks(e, <<Default>>, ServerFields)
        ELSE e = s
    BY <1>1, DefaultsKeep DEF Keeps
  <2> HIDE DEF e
  <2>4. Len(<<v>>) = 1 /\ <<v>> # <<>>
    OBVIOUS
  <2>5. CASE ServerFields \subseteq DOMAIN o
    <3>1. s.serv_count = 1 /\ Defined(o) = <<v>>
      BY <2>1, <2>2, <2>4, <2>5 DEF Talks
    <3> QED BY <2>1, <2>2, <2>3, <2>4, <2>5, <3>1
            DEF Served, Decides, OrDefault
  <2>6. CASE ~(ServerFields \subseteq DOMAIN o)
    BY <1>3, <2>1, <2>2, <2>3, <2>6 DEF Served, Decides
  <2> QED BY <2>5, <2>6
<1>4. Keeps(e, c)
  <2> HIDE DEF s
  <2> QED BY <1>1, DefaultsKeep DEF Keeps, SameRest
<1> QED BY <1>2, <1>3, <1>4

\* A whole section.
LEMMA SectionLaid ==
  ASSUME NEW c, NEW o, Conf(c), LiveIsEnabled(c),
         Has(o, "servers") => IsArray(o.servers)
  PROVE  LET d == parse_gateway_configuration(c, o)
         IN  /\ Conf(d) /\ LiveIsEnabled(d)
             /\ Laid(d, c, o) /\ Served(d, c, o)
<1> DEFINE s == IF Has(o, "servers") THEN Servers(c, o) ELSE Single(c, o)
           e == Defaults(s)
           d == Switches(Scalars(SystemCalls(e, o), o), o)
<1>1. Keeps(e, c) /\ Served(e, c, o)
  BY ServersServed
<1>2. parse_gateway_configuration(c, o) = d
  BY DEF parse_gateway_configuration
<1> HIDE DEF e
<1>3. /\ Conf(d) /\ LiveIsEnabled(d) /\ Laid(d, e, o)
      /\ d.serv = e.serv /\ d.serv_count = e.serv_count
  BY <1>1, RestKeeps DEF Keeps
<1> HIDE DEF d
<1>4. Laid(d, c, o)
  BY <1>1, <1>3 DEF Keeps, Laid, SameRest, Scalars, SystemCalls, Conf
<1>5. Served(d, c, o)
  BY <1>1, <1>3 DEF Served, Talks
<1> QED BY <1>2, <1>3, <1>4, <1>5
-----------------------------------------------------------------------------
(* The invariant of main.                                                  *)

\* The files there may be.
AllFiles == UNION {{d[n] : n \in DOMAIN d} : d \in Directories}

\* Every file is one that some directory holds.
FilesOK == left \in Seq(AllFiles) /\ parsed \in Seq(AllFiles)

\* The configuration at any time.
ConfOK == Conf(gtw_conf) /\ LiveIsEnabled(gtw_conf)

\* The servers that the files so far define, and no server before the first.
ServersKept ==
  IF Gateways = {} THEN gtw_conf.serv_count = 0
  ELSE /\ gtw_conf.serv_count # 0
       /\ Talks(gtw_conf, OrDefault(LastDefined), LastSpared)

\* The last list of commands there is, whole or as far as there is room.
ListKept ==
  IF Listing = {} THEN gtw_conf.mntr_sys_count = 0
  ELSE /\ gtw_conf.mntr_sys_count = Len(LastList)
       /\ \A n \in 1 .. MNTR_SYS_MAX :
            n <= Len(LastList) => gtw_conf.mntr_sys_list[n] = LastList[n]

\* Nothing runs, and no command is taken, while the files are parsed.
FilesFirst == pc = "files" => ~monitor_run /\ executed = None

\* What has been started by the time main is where it is.
UpStarted == On("upstream") => "up" \in threads
DownStarted ==
  down_threads = {ic \in Counted : On("downstream")
                                   /\ gtw_conf.serv_enable[ic]}
GpsStarted == gps_active => {"gps", "valid"} \subseteq threads
GhostStarted == On("ghoststream") => "ghost" \in threads
MonitorStarted == On("monitor") => "monitor" \in threads

Phases ==
  /\ pc \in {"down", "gps_threads", "ghost", "monitor", "loop"} => UpStarted
  /\ pc \in {"gps_threads", "ghost", "monitor", "loop"} => DownStarted
  /\ pc \in {"ghost", "monitor", "loop"} => GpsStarted
  /\ pc \in {"monitor", "loop"} => GhostStarted
  /\ pc = "loop" => MonitorStarted

MainIInv == /\ FilesOK /\ ConfOK /\ ServersKept /\ ListKept
            /\ ParametersAsLastGiven /\ FilesFirst /\ Phases /\ CommandAsListed
-----------------------------------------------------------------------------
(* One more file.                                                          *)

\* A set of places in a sequence has a last one.
LEMMA LatestIn ==
  ASSUME NEW n \in Nat, NEW ks \in SUBSET (1 .. n), ks # {}
  PROVE  Latest(ks) \in ks
<1> DEFINE back == {m \in Nat : n - m \in ks}
<1>1. back # {}
  <2>1. PICK k \in ks : TRUE
    OBVIOUS
  <2>2. n - k \in Nat /\ n - (n - k) = k
    OBVIOUS
  <2> QED BY <2>1, <2>2
<1>2. PICK m \in back : \A i \in back : ~ (<<i, m>> \in OpToRel(<, Nat))
  <2>1. back \subseteq Nat
    OBVIOUS
  <2> HIDE DEF back
  <2> QED BY <1>1, <2>1, NatLessThanWellFounded, WFMin
<1>3. \A j \in ks : j <= n - m
  <2> SUFFICES ASSUME NEW j \in ks, ~(j <= n - m) PROVE FALSE
    OBVIOUS
  <2>1. n - j \in back /\ n - j < m
    OBVIOUS
  <2> QED BY <1>2, <2>1 DEF OpToRel
<1>4. n - m \in ks
  OBVIOUS
<1> QED BY <1>3, <1>4, Zenon DEF Latest

\* The place of what is appended is the last of any places it is among.
LEMMA LatestNew ==
  ASSUME NEW n \in Nat, NEW ks \in SUBSET (1 .. n + 1), n + 1 \in ks
  PROVE  Latest(ks) = n + 1
<1>1. \A j \in ks : j <= n + 1
  OBVIOUS
<1>2. \A k \in ks : (\A j \in ks : j <= k) => k = n + 1
  BY <1>1
<1>3. Latest(ks) \in ks /\ \A j \in ks : j <= Latest(ks)
  BY <1>1, Zenon DEF Latest
<1> QED BY <1>2, <1>3

LEMMA FilesReadable == \A file \in AllFiles : Readable(file)
  BY DirectoriesAssumption DEF AllFiles

LEMMA ChosenFiles ==
  ASSUME NEW d \in Directories
  PROVE  Chosen(d) \in Seq(AllFiles)
<1> DEFINE Given(n) == IF n \in DOMAIN d THEN <<d[n]>> ELSE <<>>
<1>1. \A n : Given(n) \in Seq(AllFiles)
  <2>1. \A n \in DOMAIN d : d[n] \in AllFiles
    BY DEF AllFiles
  <2> QED BY <2>1
<1>2. Chosen(d) = IF "debug_conf.json" \in DOMAIN d
                  THEN Given("debug_conf.json")
                  ELSE Given("global_conf.json") \o Given("local_conf.json")
  BY DEF Chosen
<1> HIDE DEF Given
<1>3. Given("global_conf.json") \o Given("local_conf.json") \in Seq(AllFiles)
  BY <1>1
<1> QED BY <1>1, <1>2, <1>3

LEMMA MainInitIInv == MainInit => MainIInv
<1> SUFFICES ASSUME MainInit PROVE MainIInv
  OBVIOUS
<1>1. FilesOK
  BY ChosenFiles DEF MainInit, FilesOK
<1>2. ConfOK
  <2>1. 0 \in 0 .. MAX_SERVERS
    BY SlotsAre
  <2> DEFINE off == [i \in Slots |-> FALSE]
  <2>2. off \in [Slots -> BOOLEAN] /\ \A i \in Slots : ~off[i]
    BY Zenon
  <2>3. /\ gtw_conf.serv_enable = off /\ gtw_conf.serv_live = off
        /\ gtw_conf.serv_count = 0 /\ DOMAIN gtw_conf.serv = Slots
    BY DEF MainInit, GATEWAY_CONF_INITIALIZER
  <2>4. gtw_conf = [serv_count |-> gtw_conf.serv_count,
          serv_enable |-> gtw_conf.serv_enable,
          serv_live |-> gtw_conf.serv_live, serv |-> gtw_conf.serv,
          mntr_sys_count |-> gtw_conf.mntr_sys_count,
          mntr_sys_list |-> gtw_conf.mntr_sys_list,
          values |-> gtw_conf.values, flags |-> gtw_conf.flags,
          gps_fake_enable |-> gtw_conf.gps_fake_enable]
    BY DEF MainInit, GATEWAY_CONF_INITIALIZER
  <2> HIDE DEF off
  <2> QED BY <2>1, <2>2, <2>3, <2>4 DEF ConfOK, Conf, LiveIsEnabled
<1>3. Gateways = {}
  BY DEF MainInit, Gateways
<1>4. ListKept
  BY <1>3 DEF MainInit, ListKept, Listing, GATEWAY_CONF_INITIALIZER
<1>5. ParametersAsLastGiven
  <2>1. \A f \in Values : gtw_conf.values[f] = "initial"
    BY DEF MainInit, GATEWAY_CONF_INITIALIZER
  <2>2. \A f \in Flags : gtw_conf.flags[f] = (f \in InitiallyOn)
    BY DEF MainInit, GATEWAY_CONF_INITIALIZER
  <2> QED BY <1>3, <2>1, <2>2, Zenon DEF ParametersAsLastGiven
<1>6. ServersKept
  BY <1>3 DEF MainInit, ServersKept, GATEWAY_CONF_INITIALIZER
<1>7. FilesFirst /\ Phases /\ CommandAsListed
  BY DEF MainInit, Init, FilesFirst, Phases, CommandAsListed
<1> QED BY <1>1, <1>2, <1>4, <1>5, <1>7, <1>6 DEF MainIInv

\* The places that say something, when one more file may say it too.
LEMMA Grown ==
  ASSUME NEW n \in Nat, NEW ks \in SUBSET (1 .. n),
         NEW ls \in SUBSET (1 .. n + 1),
         \A k \in 1 .. n : k \in ls <=> k \in ks
  PROVE  IF n + 1 \in ls THEN ls # {} /\ Latest(ls) = n + 1
         ELSE /\ ls = ks
              /\ ks # {} => Latest(ls) \in ks /\ Latest(ls) = Latest(ks)
<1>1. CASE n + 1 \in ls
  BY <1>1, LatestNew
<1>2. CASE n + 1 \notin ls
  <2>1. \A x \in ls : x \in 1 .. n
    BY <1>2
  <2>2. \A x \in ks : x \in 1 .. n
    OBVIOUS
  <2>3. ls = ks
    BY <2>1, <2>2, Zenon
  <2> QED BY <1>2, <2>3, LatestIn
<1> QED BY <1>1, <1>2

LEMMA ReadableSection ==
  ASSUME NEW file, Readable(file), Has(file, "gateway_conf")
  PROVE  Has(file.gateway_conf, "servers")
           => IsArray(file.gateway_conf.servers)
<1> SUFFICES ASSUME Has(file.gateway_conf, "servers")
             PROVE  IsArray(file.gateway_conf.servers)
  OBVIOUS
<1>1. \A f \in {"servers", "system_calls"} :
        Has(file.gateway_conf, f) => IsArray(file.gateway_conf[f])
  BY Zenon DEF Readable
<1>2. "servers" \in {"servers", "system_calls"}
  OBVIOUS
<1> QED BY <1>1, <1>2

\* One more file, and what the gateway's section of it is laid over.
LEMMA OneMore ==
  ASSUME FilesOK, ConfOK, ParseFile
  PROVE  LET file == Head(left)
             n == Len(parsed)
         IN  /\ FilesOK' /\ ConfOK'
             /\ n \in Nat /\ Gateways \in SUBSET (1 .. n)
             /\ Gateways' \in SUBSET (1 .. n + 1)
             /\ \A k \in 1 .. n : /\ k \in Gateways' <=> k \in Gateways
                                  /\ parsed'[k] = parsed[k]
             /\ parsed'[n + 1] = file
             /\ n + 1 \in Gateways' <=> Has(file, "gateway_conf")
             /\ IF Has(file, "gateway_conf")
                THEN /\ Laid(gtw_conf', gtw_conf, file.gateway_conf)
                     /\ Served(gtw_conf', gtw_conf, file.gateway_conf)
                     /\ Has(file.gateway_conf, "servers")
                          => IsArray(file.gateway_conf.servers)
                ELSE gtw_conf' = gtw_conf
<1> DEFINE file == Head(left)
           n == Len(parsed)
<1>1. /\ file \in AllFiles /\ left' \in Seq(AllFiles)
      /\ parsed' = Append(parsed, file) /\ parsed' \in Seq(AllFiles)
  BY DEF FilesOK, ParseFile
<1>2. /\ n \in Nat /\ DOMAIN parsed = 1 .. n /\ DOMAIN parsed' = 1 .. n + 1
      /\ \A k \in 1 .. n : parsed'[k] = parsed[k]
      /\ parsed'[n + 1] = file
  BY <1>1 DEF FilesOK
<1>3. Readable(file)
  BY <1>1, FilesReadable
<1>4. gtw_conf' = IF Has(file, "gateway_conf")
                  THEN parse_gateway_configuration(gtw_conf, file.gateway_conf)
                  ELSE gtw_conf
  BY DEF ParseFile
<1> HIDE DEF file, n
<1>5. /\ ConfOK'
      /\ IF Has(file, "gateway_conf")
         THEN /\ Laid(gtw_conf', gtw_conf, file.gateway_conf)
              /\ Served(gtw_conf', gtw_conf, file.gateway_conf)
              /\ Has(file.gateway_conf, "servers")
                   => IsArray(file.gateway_conf.servers)
         ELSE gtw_conf' = gtw_conf
  <2>1. CASE Has(file, "gateway_conf")
    <3> DEFINE o == file.gateway_conf
    <3>1. Has(o, "servers") => IsArray(o.servers)
      BY <1>3, <2>1, ReadableSection
    <3> HIDE DEF o
    <3>2. gtw_conf' = parse_gateway_configuration(gtw_conf, o)
      BY <1>4, <2>1 DEF o
    <3>3. /\ Conf(gtw_conf') /\ LiveIsEnabled(gtw_conf')
          /\ Laid(gtw_conf', gtw_conf, o) /\ Served(gtw_conf', gtw_conf, o)
      BY <3>1, <3>2, SectionLaid DEF ConfOK
    <3> QED BY <2>1, <3>1, <3>3 DEF ConfOK, o
  <2>2. CASE ~Has(file, "gateway_conf")
    BY <1>4, <2>2 DEF ConfOK
  <2> QED BY <2>1, <2>2
<1>6. /\ Gateways \in SUBSET (1 .. n) /\ Gateways' \in SUBSET (1 .. n + 1)
      /\ \A k \in 1 .. n : k \in Gateways' <=> k \in Gateways
      /\ n + 1 \in Gateways' <=> Has(file, "gateway_conf")
  BY <1>2 DEF Gateways
<1> QED BY <1>1, <1>2, <1>3, <1>5, <1>6 DEF FilesOK, file, n

LEMMA SomeServer ==
  ASSUME NEW o, Has(o, "servers") => IsArray(o.servers)
  PROVE  Len(OrDefault(Defined(o))) # 0
<1>1. CASE Has(o, "servers")
  BY <1>1, DefinedLen DEF OrDefault
<1>2. CASE ~Has(o, "servers")
  BY <1>2 DEF Defined, OrDefault
<1> QED BY <1>1, <1>2

\* Servers, commands and parameters with one more file.
LEMMA ParseKeepsServers ==
  ASSUME FilesOK, ConfOK, ServersKept, ParseFile
  PROVE  ServersKept'
<1> DEFINE o == Head(left).gateway_conf
           n == Len(parsed)
           ks == Serving
           ls == Serving'
<1>1. /\ n \in Nat /\ Gateways \in SUBSET (1 .. n)
      /\ Gateways' \in SUBSET (1 .. n + 1)
      /\ \A k \in 1 .. n : /\ k \in Gateways' <=> k \in Gateways
                           /\ parsed'[k] = parsed[k]
      /\ parsed'[n + 1].gateway_conf = o
      /\ IF n + 1 \in Gateways'
         THEN /\ Served(gtw_conf', gtw_conf, o)
              /\ Has(o, "servers") => IsArray(o.servers)
         ELSE gtw_conf' = gtw_conf
  BY OneMore
<1> HIDE DEF o, n
<1>2. /\ ks \in SUBSET (1 .. n) /\ ls \in SUBSET (1 .. n + 1)
      /\ \A k \in 1 .. n : k \in ls <=> k \in ks
      /\ n + 1 \in ls <=> n + 1 \in Gateways' /\ Decides(o)
  BY <1>1 DEF Serving, Gw, Decides
<1>3. CASE n + 1 \in ls
  <2>1. ls # {} /\ Latest(ls) = n + 1
    <3> HIDE DEF ks, ls
    <3> QED BY <1>1, <1>2, <1>3, Grown
  <2>2. LastDefined' = Defined(o) /\ LastSpared' = Spared(o)
    BY <1>1, <2>1, Zenon DEF LastDefined, LastSpared, Gw
  <2>3. Talks(gtw_conf', OrDefault(LastDefined'), LastSpared')
    BY <1>1, <1>2, <1>3, <2>2 DEF Served
  <2>4. Len(OrDefault(Defined(o))) # 0
    BY <1>1, <1>2, <1>3, SomeServer
  <2> QED BY <1>2, <1>3, <2>2, <2>3, <2>4 DEF ServersKept, Talks
<1>4. CASE n + 1 \notin ls
  <2>1. /\ ls = ks
        /\ ks # {} => Latest(ls) \in ks /\ Latest(ls) = Latest(ks)
    <3> HIDE DEF ks, ls
    <3> QED BY <1>1, <1>2, <1>4, Grown
  <2>2. ks # {} => parsed'[Latest(ls)] = parsed[Latest(ks)]
    BY <1>1, <1>2, <2>1
  <2>3. LastDefined' = LastDefined /\ LastSpared' = LastSpared
    BY <2>1, <2>2, Zenon DEF LastDefined, LastSpared, Gw
  <2>4. CASE n + 1 \notin Gateways'
    <3>1. Gateways' = Gateways /\ gtw_conf' = gtw_conf
      BY <1>1, <2>4, Grown
    <3> QED BY <2>3, <3>1 DEF ServersKept
  <2>5. CASE n + 1 \in Gateways'
    <3>1. ~Decides(o) /\ Served(gtw_conf', gtw_conf, o)
      BY <1>1, <1>2, <1>4, <2>5
    <3>2. CASE Gateways = {}
      <4>1. Serving = {}
        BY <3>2 DEF Serving
      <4>2. /\ OrDefault(LastDefined) = <<Default>> /\ Len(<<Default>>) = 1
            /\ LastSpared = ServerFields
        BY <4>1 DEF OrDefault, LastDefined, LastSpared
      <4>3. Talks(gtw_conf', <<Default>>, ServerFields)
        BY <3>1, <3>2 DEF Served, ServersKept
      <4> QED BY <2>3, <2>5, <4>2, <4>3 DEF ServersKept, Talks
    <3>3. CASE Gateways # {}
      <4>1. /\ gtw_conf.serv_count # 0
            /\ Talks(gtw_conf, OrDefault(LastDefined), LastSpared)
        BY <3>3 DEF ServersKept
      <4>2. /\ gtw_conf.serv' = gtw_conf.serv
            /\ gtw_conf.serv_count' = gtw_conf.serv_count
        BY <3>1, <4>1 DEF Served
      <4> QED BY <2>3, <2>5, <4>1, <4>2 DEF ServersKept, Talks
    <3> QED BY <3>2, <3>3
  <2> QED BY <2>4, <2>5
<1> QED BY <1>3, <1>4

LEMMA ParseKeepsList ==
  ASSUME FilesOK, ConfOK, ListKept, ParseFile
  PROVE  ListKept'
<1> DEFINE o == Head(left).gateway_conf
           n == Len(parsed)
<1>1. /\ n \in Nat /\ Gateways \in SUBSET (1 .. n)
      /\ Gateways' \in SUBSET (1 .. n + 1)
      /\ \A k \in 1 .. n : /\ k \in Gateways' <=> k \in Gateways
                           /\ parsed'[k] = parsed[k]
      /\ parsed'[n + 1].gateway_conf = o
      /\ IF n + 1 \in Gateways' THEN Laid(gtw_conf', gtw_conf, o)
         ELSE gtw_conf' = gtw_conf
  BY OneMore
<1> HIDE DEF o, n
<1>2. /\ Listing \in SUBSET (1 .. n) /\ Listing' \in SUBSET (1 .. n + 1)
      /\ \A k \in 1 .. n : k \in Listing' <=> k \in Listing
      /\ n + 1 \in Listing' <=> n + 1 \in Gateways' /\ Has(o, "system_calls")
  BY <1>1 DEF Listing, Gw
<1>3. CASE n + 1 \in Listing'
  <2>1. Listing' # {} /\ Latest(Listing') = n + 1
    BY <1>1, <1>2, <1>3, Grown
  <2>2. LastList' = o.system_calls
    BY <1>1, <2>1, Zenon DEF LastList, Gw
  <2>3. /\ gtw_conf.mntr_sys_count' = Len(o.system_calls)
        /\ \A m \in 1 .. MNTR_SYS_MAX :
             m <= Len(o.system_calls)
               => gtw_conf.mntr_sys_list'[m] = o.system_calls[m]
    BY <1>1, <1>2, <1>3 DEF Laid, SystemCalls, ConfOK, Conf
  <2> QED BY <2>1, <2>2, <2>3, Zenon DEF ListKept
<1>4. CASE n + 1 \notin Listing'
  <2>1. /\ Listing' = Listing
        /\ Listing # {} => /\ Latest(Listing') \in Listing
                           /\ Latest(Listing') = Latest(Listing)
    BY <1>1, <1>2, <1>4, Grown
  <2>2. /\ gtw_conf.mntr_sys_count' = gtw_conf.mntr_sys_count
        /\ gtw_conf.mntr_sys_list' = gtw_conf.mntr_sys_list
    BY <1>1, <1>2, <1>4 DEF Laid, SystemCalls
  <2>3. Listing # {} => parsed'[Latest(Listing')] = parsed[Latest(Listing)]
    BY <1>1, <1>2, <2>1
  <2>4. Listing # {} => LastList' = LastList
    BY <2>3, Zenon DEF LastList, Gw
  <2> QED BY <2>1, <2>2, <2>4, Zenon DEF ListKept
<1> QED BY <1>3, <1>4

\* The files that give a parameter, and that throw a switch.
Giving(f) == {k \in Gateways : Gives(Gw(k), f)}
Throwing(f) == {k \in Gateways : Has(Gw(k), f)
                                  /\ Gw(k)[f] \in {"true", "false"}}

ValueGiven(f) ==
  gtw_conf.values[f] = IF Giving(f) = {} THEN "initial"
                       ELSE Cast(f, Gw(Latest(Giving(f)))[f])
FlagGiven(f) ==
  gtw_conf.flags[f] = IF Throwing(f) = {} THEN f \in InitiallyOn
                      ELSE Gw(Latest(Throwing(f)))[f] = "true"

LEMMA ParametersAre ==
  ParametersAsLastGiven <=> /\ \A f \in Values : ValueGiven(f)
                            /\ \A f \in Flags : FlagGiven(f)
  BY Zenon DEF ParametersAsLastGiven, ValueGiven, FlagGiven, Giving, Throwing

LEMMA ScalarsSay ==
  ASSUME NEW c, NEW o, NEW f \in Values, Conf(c)
  PROVE  Scalars(c, o).values[f] =
           IF Gives(o, f) THEN Cast(f, o[f]) ELSE c.values[f]
<1> DEFINE vs == [g \in Values |->
                    IF Gives(o, g) THEN Cast(g, o[g]) ELSE c.values[g]]
<1>1. Scalars(c, o).values = vs
  BY DEF Scalars, Conf
<1> QED BY <1>1, Zenon

LEMMA ParseKeepsValue ==
  ASSUME FilesOK, ConfOK, ParseFile, NEW f \in Values, ValueGiven(f)
  PROVE  ValueGiven(f)'
<1> DEFINE o == Head(left).gateway_conf
           n == Len(parsed)
           ks == Giving(f)
           ls == Giving(f)'
<1>1. /\ n \in Nat /\ Gateways \in SUBSET (1 .. n)
      /\ Gateways' \in SUBSET (1 .. n + 1)
      /\ \A k \in 1 .. n : /\ k \in Gateways' <=> k \in Gateways
                           /\ parsed'[k] = parsed[k]
      /\ parsed'[n + 1].gateway_conf = o
      /\ IF n + 1 \in Gateways'
         THEN Laid(gtw_conf', gtw_conf, o)
         ELSE gtw_conf' = gtw_conf
  BY OneMore
<1> HIDE DEF o, n
<1>2. /\ ks \in SUBSET (1 .. n) /\ ls \in SUBSET (1 .. n + 1)
      /\ \A k \in 1 .. n : k \in ls <=> k \in ks
      /\ n + 1 \in ls <=> n + 1 \in Gateways' /\ Gives(o, f)
  BY <1>1 DEF Giving, Gw
<1>3. IF n + 1 \in ls THEN ls # {} /\ Latest(ls) = n + 1
      ELSE /\ ls = ks
           /\ ks # {} => Latest(ls) \in ks /\ Latest(ls) = Latest(ks)
  <2>1. /\ n \in Nat /\ ks \in SUBSET (1 .. n) /\ ls \in SUBSET (1 .. n + 1)
        /\ \A k \in 1 .. n : k \in ls <=> k \in ks
    BY <1>1, <1>2
  <2> HIDE DEF ks, ls
  <2> QED BY <2>1, Grown
<1>4. CASE n + 1 \in ls
  <2>1. ls # {} /\ Latest(ls) = n + 1
    BY <1>3, <1>4
  <2>2. parsed'[Latest(ls)].gateway_conf[f] = o[f]
    BY <1>1, <2>1
  <2>3. gtw_conf.values'[f] = Cast(f, o[f])
    BY <1>1, <1>2, <1>4, ScalarsSay DEF Laid, ConfOK
  <2> QED BY <2>1, <2>2, <2>3, Zenon DEF ValueGiven, Gw
<1>5. CASE n + 1 \notin ls
  <2>1. /\ ls = ks
        /\ ks # {} => Latest(ls) \in ks /\ Latest(ls) = Latest(ks)
    BY <1>3, <1>5
  <2>2. gtw_conf.values'[f] = gtw_conf.values[f]
    BY <1>1, <1>2, <1>5, ScalarsSay DEF Laid, ConfOK
  <2>3. ks # {} => parsed'[Latest(ls)] = parsed[Latest(ks)]
    BY <1>1, <1>2, <2>1
  <2> QED BY <2>1, <2>2, <2>3, Zenon DEF ValueGiven, Gw
<1> QED BY <1>4, <1>5

LEMMA ParseKeepsFlag ==
  ASSUME FilesOK, ConfOK, ParseFile, NEW f \in Flags, FlagGiven(f)
  PROVE  FlagGiven(f)'
<1> DEFINE o == Head(left).gateway_conf
           n == Len(parsed)
           ks == Throwing(f)
           ls == Throwing(f)'
<1>1. /\ n \in Nat /\ Gateways \in SUBSET (1 .. n)
      /\ Gateways' \in SUBSET (1 .. n + 1)
      /\ \A k \in 1 .. n : /\ k \in Gateways' <=> k \in Gateways
                           /\ parsed'[k] = parsed[k]
      /\ parsed'[n + 1].gateway_conf = o
      /\ IF n + 1 \in Gateways' THEN Laid(gtw_conf', gtw_conf, o)
         ELSE gtw_conf' = gtw_conf
  BY OneMore
<1> HIDE DEF o, n
<1>2. /\ ks \in SUBSET (1 .. n) /\ ls \in SUBSET (1 .. n + 1)
      /\ \A k \in 1 .. n : k \in ls <=> k \in ks
      /\ n + 1 \in ls <=> /\ n + 1 \in Gateways' /\ Has(o, f)
                          /\ o[f] \in {"true", "false"}
  BY <1>1 DEF Throwing, Gw
<1>3. CASE n + 1 \in ls
  <2>1. ls # {} /\ Latest(ls) = n + 1
    <3> HIDE DEF ks, ls
    <3> QED BY <1>1, <1>2, <1>3, Grown
  <2>2. parsed'[Latest(ls)].gateway_conf[f] = o[f]
    BY <1>1, <2>1
  <2>3. gtw_conf.flags'[f] = (o[f] = "true")
    BY <1>1, <1>2, <1>3, Zenon DEF Laid, Flag
  <2> QED BY <2>1, <2>2, <2>3, Zenon DEF FlagGiven, Gw
<1>4. CASE n + 1 \notin ls
  <2>1. /\ ls = ks
        /\ ks # {} => Latest(ls) \in ks /\ Latest(ls) = Latest(ks)
    <3> HIDE DEF ks, ls
    <3> QED BY <1>1, <1>2, <1>4, Grown
  <2>2. gtw_conf.flags'[f] = gtw_conf.flags[f]
    BY <1>1, <1>2, <1>4, Zenon DEF Laid, Flag
  <2>3. ks # {} => parsed'[Latest(ls)] = parsed[Latest(ks)]
    BY <1>1, <1>2, <2>1
  <2> QED BY <2>1, <2>2, <2>3, Zenon DEF FlagGiven, Gw
<1> QED BY <1>3, <1>4

LEMMA ParseKeepsParameters ==
  ASSUME FilesOK, ConfOK, ParametersAsLastGiven, ParseFile
  PROVE  ParametersAsLastGiven'
<1>1. \A f \in Values : ValueGiven(f)'
  BY ParametersAre, ParseKeepsValue
<1>2. \A f \in Flags : FlagGiven(f)'
  BY ParametersAre, ParseKeepsFlag
<1>3. (/\ \A f \in Values : ValueGiven(f)
       /\ \A f \in Flags : FlagGiven(f))'
  BY <1>1, <1>2
<1> QED BY <1>3, ParametersAre, PTL
-----------------------------------------------------------------------------
(* Every step of main.                                                     *)

\* Once the files are parsed, what they said stays.
LEMMA Settled ==
  ASSUME FilesOK, ConfOK, ServersKept, ListKept, ParametersAsLastGiven,
         UNCHANGED <<left, parsed, gtw_conf>>
  PROVE  /\ FilesOK' /\ ConfOK' /\ ServersKept' /\ ListKept'
         /\ ParametersAsLastGiven'
<1>1. FilesOK' /\ ConfOK'
  BY DEF FilesOK, ConfOK
<1>2. ServersKept'
  BY Zenon DEF ServersKept, LastDefined, LastSpared, Serving, Gateways, Gw
<1>3. ListKept'
  BY Zenon DEF ListKept, LastList, Listing, Gateways, Gw
<1>4. Gateways' = Gateways /\ \A k : Gw(k)' = Gw(k)
  BY DEF Gateways, Gw
<1>5. ASSUME NEW f \in Values PROVE ValueGiven(f)'
  <2>1. ValueGiven(f)
    BY ParametersAre
  <2> QED BY <1>4, <2>1, Zenon DEF ValueGiven, Giving
<1>6. ASSUME NEW f \in Flags PROVE FlagGiven(f)'
  <2>1. FlagGiven(f)
    BY ParametersAre
  <2> QED BY <1>4, <2>1, Zenon DEF FlagGiven, Throwing
<1>7. (/\ \A f \in Values : ValueGiven(f)
       /\ \A f \in Flags : FlagGiven(f))'
  BY <1>5, <1>6
<1>8. ParametersAsLastGiven'
  BY <1>7, ParametersAre, PTL
<1> QED BY <1>1, <1>3, <1>8, <1>2

LEMMA CommandStays ==
  ASSUME CommandAsListed, UNCHANGED <<parsed, executed>>
  PROVE  CommandAsListed'
  BY Zenon DEF CommandAsListed, LastList, Listing, Gateways, Gw

\* No step of the start but the end of the program loses what was started.
LEMMA BeginKeepsPhases ==
  ASSUME Phases, Begin
  PROVE  Phases'
<1> USE DEF Phases, UpStarted, DownStarted, GpsStarted, GhostStarted,
            MonitorStarted, On, Counted
<1>1. CASE ParseFile
  BY <1>1 DEF ParseFile
<1>2. CASE NoConfiguration
  BY <1>2 DEF NoConfiguration, Exit
<1>3. CASE OpenGps
  BY <1>3 DEF OpenGps, configured
<1>4. CASE Fails
  BY <1>4 DEF Fails, Exit, configured
<1>5. CASE Connect
  BY <1>5 DEF Connect, configured
<1>6. CASE StartRadio
  BY <1>6 DEF StartRadio, configured
<1>7. CASE SpawnUp
  BY <1>7 DEF SpawnUp, Spawn, configured
<1>8. CASE SpawnDown
  BY <1>8 DEF SpawnDown, configured
<1>9. CASE SpawnGps
  BY <1>9 DEF SpawnGps, Spawn, configured
<1>10. CASE SpawnGhost
  BY <1>10 DEF SpawnGhost, Spawn, configured
<1> QED BY <1>1, <1>2, <1>3, <1>4, <1>5, <1>6, <1>7, <1>8, <1>9, <1>10
        DEF Begin

\* Only ParseFile reads configuration.
LEMMA BeginSettled ==
  ASSUME Begin, ~ParseFile
  PROVE  UNCHANGED <<left, parsed, gtw_conf>> /\ pc' # "files"
  BY DEF Begin, NoConfiguration, OpenGps, Fails, Connect, StartRadio, SpawnUp,
         SpawnDown, SpawnGps, SpawnGhost, Spawn, Exit, configured

\* A command that fits its row is executed alone.
LEMMA CommandAlone ==
  ASSUME NEW n \in 1 .. MNTR_SYS_MAX, Row(n) \notin TooLong
  PROVE  CommandAt(n) = <<Row(n)>>
<1> DEFINE ends == {k \in n .. n + MNTR_SYS_MAX : Terminated(k)}
<1>1. n \in Nat /\ MNTR_SYS_MAX \in Nat
  BY ConfigAssumption
<1>2. n \in ends /\ \A k \in ends : k \in Nat /\ n <= k
  BY <1>1 DEF Terminated
<1> HIDE DEF ends
<1>3. Min(ends) = n
  <2>1. \A x \in ends : (\A k \in ends : x <= k) => x = n
    BY <1>1, <1>2
  <2>2. Min(ends) \in ends /\ \A k \in ends : Min(ends) <= k
    BY <1>2, Zenon DEF Min
  <2> QED BY <2>1, <2>2
<1>4. CommandAt(n) = [k \in 1 .. n - n + 1 |-> Row(n + k - 1)]
  BY <1>3, Zenon DEF CommandAt, ends
<1>5. 1 .. n - n + 1 = 1 .. 1 /\ n + 1 - 1 = n
  BY <1>1
<1>6. CommandAt(n) = [k \in 1 .. 1 |-> Row(n)]
  BY <1>1, <1>4, <1>5
<1> QED BY <1>6

LEMMA MainNextIInv == MainIInv /\ [MainNext]_allVars => MainIInv'
<1> SUFFICES ASSUME MainIInv, [MainNext]_allVars PROVE MainIInv'
  OBVIOUS
<1> USE DEF MainIInv
<1>1. CASE Begin
  <2>1. /\ FilesOK' /\ ConfOK' /\ ServersKept' /\ ListKept'
        /\ ParametersAsLastGiven'
    <3>1. CASE ParseFile
      BY <3>1, OneMore, ParseKeepsServers, ParseKeepsList,
         ParseKeepsParameters
    <3>2. CASE ~ParseFile
      BY <1>1, <3>2, BeginSettled, Settled
    <3> QED BY <3>1, <3>2
  <2>2. FilesFirst'
    <3>1. CASE ParseFile
      BY <1>1, <3>1 DEF FilesFirst, Begin, vars, ParseFile
    <3>2. CASE ~ParseFile
      BY <1>1, <3>2, BeginSettled DEF FilesFirst
    <3> QED BY <3>1, <3>2
  <2>3. CommandAsListed'
    <3>1. CASE ParseFile
      <4>1. executed' = None
        BY <1>1, <3>1 DEF Begin, ParseFile, FilesFirst
      <4> QED BY <4>1 DEF CommandAsListed, None
    <3>2. CASE ~ParseFile
      BY <1>1, <3>2, BeginSettled, CommandStays DEF Begin
    <3> QED BY <3>1, <3>2
  <2> QED BY <1>1, <2>1, <2>2, <2>3, BeginKeepsPhases
<1>2. CASE SpawnMonitor
  <2>1. /\ pc = "monitor" /\ pc' = "loop"
        /\ UNCHANGED <<left, parsed, gtw_conf, gps_active, down_threads>>
        /\ threads' = threads \cup (IF On("monitor") THEN {"monitor"} ELSE {})
        /\ UNCHANGED executed
    BY <1>2 DEF SpawnMonitor, Spawn, configured
  <2>2. Phases'
    BY <2>1 DEF Phases, UpStarted, DownStarted, GpsStarted, GhostStarted,
                MonitorStarted, On, Counted
  <2>3. FilesFirst'
    BY <2>1 DEF FilesFirst
  <2> QED BY <2>1, <2>2, <2>3, Settled, CommandStays
<1>3. CASE Leave
  <2>1. /\ pc' = "exited"
        /\ UNCHANGED <<left, parsed, gtw_conf, executed>>
    BY <1>3 DEF Leave, Exit, configured
  <2>2. Phases' /\ FilesFirst'
    BY <2>1 DEF Phases, FilesFirst
  <2> QED BY <2>1, <2>2, Settled, CommandStays
<1>4. CASE ShellCommand
  <2>1. /\ monitor_run /\ UNCHANGED <<left, parsed, gtw_conf, gps_active>>
        /\ UNCHANGED <<pc, threads, down_threads, monitor_run>>
    BY <1>4 DEF ShellCommand, main, vars
  <2>2. Phases'
    BY <2>1 DEF Phases, UpStarted, DownStarted, GpsStarted, GhostStarted,
                MonitorStarted, On, Counted
  <2>3. FilesFirst'
    BY <2>1 DEF FilesFirst
  <2>4. CommandAsListed'
    <3>1. PICK action \in Actions :
            executed' = IF ~Known(action) THEN None
                        ELSE [action |-> action, command |-> CommandAt(action)]
      BY <1>4, Zenon DEF ShellCommand
    <3>2. CASE ~Known(action)
      BY <3>1, <3>2 DEF CommandAsListed, None
    <3>3. CASE Known(action)
      <4>1. /\ executed'.action = action
            /\ executed'.command = CommandAt(action)
        BY <3>1, <3>3
      <4>2. action \in 1 .. gtw_conf.mntr_sys_count
        BY <3>3 DEF Known
      <4>3. Listing # {}
        BY <4>2 DEF ListKept
      <4>4. /\ gtw_conf.mntr_sys_count = Len(LastList)
            /\ \A n \in 1 .. MNTR_SYS_MAX :
                 n <= Len(LastList) => gtw_conf.mntr_sys_list[n] = LastList[n]
        BY <4>3, Zenon DEF ListKept
      <4>5. action <= Len(LastList)
        BY <4>2, <4>4
      <4>6. ASSUME action <= MNTR_SYS_MAX, LastList[action] \notin TooLong
            PROVE  CommandAt(action) = <<LastList[action]>>
        <5>1. action \in 1 .. MNTR_SYS_MAX
          BY <4>2, <4>6, ConfigAssumption
        <5>2. Row(action) = LastList[action]
          BY <4>4, <4>5, <4>6, <5>1 DEF Row
        <5> QED BY <4>6, <5>1, <5>2, CommandAlone
      <4>7. Listing' = Listing /\ LastList' = LastList
        BY <2>1, Zenon DEF LastList, Listing, Gateways, Gw
      <4> QED BY <4>1, <4>3, <4>5, <4>6, <4>7, Zenon DEF CommandAsListed
    <3> QED BY <3>2, <3>3
  <2> QED BY <2>1, <2>2, <2>3, <2>4, Settled
<1>5. CASE TunnelCommand \/ UNCHANGED allVars
  <2>1. /\ UNCHANGED <<left, parsed, gtw_conf, gps_active>>
        /\ UNCHANGED <<pc, threads, down_threads, executed>>
        /\ pc = "files" => UNCHANGED monitor_run
    BY <1>5 DEF TunnelCommand, main, allVars, vars, FilesFirst
  <2>2. Phases'
    BY <2>1 DEF Phases, UpStarted, DownStarted, GpsStarted, GhostStarted,
                MonitorStarted, On, Counted
  <2>3. FilesFirst'
    BY <2>1 DEF FilesFirst
  <2> QED BY <2>1, <2>2, <2>3, Settled, CommandStays
<1> QED BY <1>1, <1>2, <1>3, <1>4, <1>5 DEF MainNext

LEMMA MainSpecIInv == MainSpec => []MainIInv
  BY MainInitIInv, MainNextIInv, PTL DEF MainSpec
-----------------------------------------------------------------------------
(* What holds of main.                                                     *)

\* main joins and cancels only threads that it created, whatever the files
\* say: a flag of serv_live left raised by an entry past the end of serv_enable
\* comes with every flag of serv_enable.
THEOREM MainEndsWhatItStarted == MainSpec => []EndsWhatItStarted
<1>1. MainIInv => EndsWhatItStarted
  <2> SUFFICES ASSUME MainIInv, pc = "loop"
               PROVE  /\ Ended \subseteq threads
                      /\ JoinedDown \subseteq down_threads
    BY DEF EndsWhatItStarted
  <2>1. UpStarted /\ DownStarted /\ GpsStarted /\ GhostStarted /\ MonitorStarted
    BY DEF MainIInv, Phases
  <2>2. Ended \subseteq threads
    BY <2>1 DEF Ended, UpStarted, GpsStarted, GhostStarted, MonitorStarted
  <2>3. Counted \subseteq Slots
    BY ConfigAssumption DEF MainIInv, ConfOK, Conf, Counted, Slots
  <2>4. \A ic \in Slots : gtw_conf.serv_live[ic] => gtw_conf.serv_enable[ic]
    BY DEF MainIInv, ConfOK, LiveIsEnabled
  <2>5. JoinedDown \subseteq down_threads
    BY <2>1, <2>3, <2>4 DEF JoinedDown, DownStarted
  <2> QED BY <2>2, <2>5
<1> QED BY MainSpecIInv, <1>1, PTL

\* The gateway talks to as many servers as the last section about servers
\* defines, at the ports that stand there and in that order, for arrays of any
\* length in any files; and where its array does not have more entries than
\* there is room for their flags, at the addresses that stand there.
THEOREM MainServersAsDefined == MainSpec => []ServersAsDefined
<1>1. MainIInv => ServersAsDefined
  <2> SUFFICES ASSUME MainIInv, Gateways # {}
               PROVE  LET expected == OrDefault(LastDefined)
                      IN  /\ gtw_conf.serv_count = Len(expected)
                          /\ \A ic \in Counted, f \in LastSpared :
                               gtw_conf.serv[ic][f] = expected[ic + 1][f]
    BY Zenon DEF ServersAsDefined
  <2>1. Talks(gtw_conf, OrDefault(LastDefined), LastSpared)
    BY DEF MainIInv, ServersKept
  <2>2. gtw_conf.serv_count \in Nat
    BY DEF MainIInv, ConfOK, Conf
  <2>3. \A ic \in Counted : /\ ic + 1 \in 1 .. gtw_conf.serv_count
                             /\ (ic + 1) - 1 = ic
    BY <2>2 DEF Counted
  <2> QED BY <2>1, <2>3 DEF Talks
<1> QED BY MainSpecIInv, <1>1, PTL

\* Every parameter is what the last file that gives it says, and what none
\* gives is as it was.
THEOREM MainParametersAsLastGiven == MainSpec => []ParametersAsLastGiven
  BY MainSpecIInv, PTL DEF MainIInv

\* The monitor executes nothing that an earlier list has, and of the last list
\* the command in the place asked for, alone, if the list has that place and
\* the command fits it.  Of a longer list or command nothing is proved: there
\* the code executes what lies behind.
THEOREM MainCommandAsListed == MainSpec => []CommandAsListed
  BY MainSpecIInv, PTL DEF MainIInv
-----------------------------------------------------------------------------
(* The concentrator.                                                       *)

\* Every radio and channel as its last object alone makes it.
HalGiven ==
  /\ DOMAIN hal.rf = Radios /\ DOMAIN hal.if = Channels
  /\ \A r \in Radios : hal.rf[r] = IF Having("radio", r) = {} THEN ZeroRf
                                   ELSE Radio(ZeroRf, Obj("radio", r))
  /\ \A n \in Channels : hal.if[n] = IF Having("chan", n) = {} THEN ZeroIf
                                     ELSE Channel(ZeroIf, n, Obj("chan", n))

\* A structure that is cleared before each turn has nothing from the last.
LEMMA SectionGiven ==
  ASSUME NEW h, NEW o, DOMAIN h.rf = Radios, DOMAIN h.if = Channels
  PROVE  LET d == parse_SX1301_configuration(h, o)
             radios == Objects(o, "radio")
             channels == Objects(o, "chan")
         IN  /\ DOMAIN d.rf = Radios /\ DOMAIN d.if = Channels
             /\ \A r \in Radios :
                  d.rf[r] = IF r \in DOMAIN radios
                            THEN Radio(ZeroRf, radios[r]) ELSE h.rf[r]
             /\ \A n \in Channels :
                  d.if[n] = IF n \in DOMAIN channels
                            THEN Channel(ZeroIf, n, channels[n]) ELSE h.if[n]
<1> DEFINE d == parse_SX1301_configuration(h, o)
           radios == Objects(o, "radio")
           channels == Objects(o, "chan")
           rfconf == CHOOSE g : g = [r \in Radios |->
             LET rf == Cleared(ZeroRf, IF r = 0 THEN ZeroRf ELSE g[r - 1])
             IN  IF r \in DOMAIN radios THEN Radio(rf, radios[r]) ELSE rf]
           ifconf == CHOOSE g : g = [n \in Channels |->
             LET if == Cleared(ZeroIf, IF n = 0 THEN ZeroIf ELSE g[n - 1])
             IN  IF n \in DOMAIN channels THEN Channel(if, n, channels[n])
                 ELSE if]
<1>1. rfconf = [r \in Radios |-> IF r \in DOMAIN radios
                                 THEN Radio(ZeroRf, radios[r]) ELSE ZeroRf]
  BY Zenon DEF Cleared
<1>2. ifconf = [n \in Channels |-> IF n \in DOMAIN channels
                                   THEN Channel(ZeroIf, n, channels[n])
                                   ELSE ZeroIf]
  BY Zenon DEF Cleared
<1>3. /\ d.rf = Submit(h.rf, radios, rfconf)
      /\ d.if = Submit(h.if, channels, ifconf)
  BY DEF parse_SX1301_configuration
<1> HIDE DEF d, rfconf, ifconf, radios, channels
<1> QED BY <1>1, <1>2, <1>3 DEF Submit, d, radios, channels

\* The object of a radio or channel with one more file.
LEMMA ObjectNew ==
  ASSUME FilesOK, ConfOK, ParseFile, NEW f, NEW n
  PROVE  LET file == Head(left)
             objects == Objects(file.SX1301_conf, f)
         IN  IF Has(file, "SX1301_conf") /\ n \in DOMAIN objects
             THEN Having(f, n)' # {} /\ Obj(f, n)' = objects[n]
             ELSE /\ Having(f, n)' = Having(f, n)
                  /\ Having(f, n) # {} => Obj(f, n)' = Obj(f, n)
<1> DEFINE file == Head(left)
           objects == Objects(file.SX1301_conf, f)
           m == Len(parsed)
           ks == Having(f, n)
           ls == Having(f, n)'
<1>1. /\ m \in Nat /\ \A k \in 1 .. m : parsed'[k] = parsed[k]
      /\ parsed'[m + 1] = file
  BY OneMore
<1>2. DOMAIN parsed = 1 .. m /\ DOMAIN parsed' = 1 .. m + 1
  BY OneMore DEF FilesOK, ParseFile
<1> HIDE DEF file, m
<1>3. ks \in SUBSET (1 .. m) /\ ls \in SUBSET (1 .. m + 1)
  BY <1>2 DEF Having
<1>4. \A k \in 1 .. m : k \in ls <=> k \in ks
  BY <1>1, <1>2 DEF Having
<1>5. m + 1 \in ls <=> Has(file, "SX1301_conf") /\ n \in DOMAIN objects
  BY <1>1, <1>2 DEF Having, Objects
<1>6. CASE m + 1 \in ls
  <2>1. ls # {} /\ Latest(ls) = m + 1
    <3> HIDE DEF ks, ls
    <3> QED BY <1>1, <1>3, <1>4, <1>6, Grown
  <2>2. Obj(f, n)' = file.SX1301_conf[f][n]
    BY <1>1, <2>1, Zenon DEF Obj
  <2>3. Has(file.SX1301_conf, f)
    BY <1>1, <1>6 DEF Having
  <2>4. Obj(f, n)' = objects[n]
    BY <2>2, <2>3 DEF Objects
  <2> QED BY <1>5, <1>6, <2>1, <2>4 DEF file
<1>7. CASE m + 1 \notin ls
  <2>1. /\ ls = ks
        /\ ks # {} => Latest(ls) \in ks /\ Latest(ls) = Latest(ks)
    <3> HIDE DEF ks, ls
    <3> QED BY <1>1, <1>3, <1>4, <1>7, Grown
  <2>2. ks # {} => parsed'[Latest(ls)] = parsed[Latest(ks)]
    BY <1>1, <1>3, <2>1
  <2>3. ks # {} => Obj(f, n)' = Obj(f, n)
    BY <2>2, Zenon DEF Obj
  <2> QED BY <1>5, <1>7, <2>1, <2>3 DEF file
<1> QED BY <1>6, <1>7

LEMMA ParseKeepsHal ==
  ASSUME FilesOK, ConfOK, HalGiven, ParseFile
  PROVE  HalGiven'
<1> DEFINE file == Head(left)
           o == file.SX1301_conf
<1>1. hal' = IF Has(file, "SX1301_conf")
             THEN parse_SX1301_configuration(hal, o) ELSE hal
  BY DEF ParseFile
<1>2. DOMAIN hal.rf = Radios /\ DOMAIN hal.if = Channels
  BY DEF HalGiven
<1>3. /\ DOMAIN hal'.rf = Radios /\ DOMAIN hal'.if = Channels
      /\ \A r \in Radios :
           hal'.rf[r] = IF /\ Has(file, "SX1301_conf")
                           /\ r \in DOMAIN Objects(o, "radio")
                        THEN Radio(ZeroRf, Objects(o, "radio")[r])
                        ELSE hal.rf[r]
      /\ \A n \in Channels :
           hal'.if[n] = IF /\ Has(file, "SX1301_conf")
                           /\ n \in DOMAIN Objects(o, "chan")
                        THEN Channel(ZeroIf, n, Objects(o, "chan")[n])
                        ELSE hal.if[n]
  <2> HIDE DEF file, o
  <2>1. CASE Has(file, "SX1301_conf")
    BY <1>1, <1>2, <2>1, SectionGiven
  <2>2. CASE ~Has(file, "SX1301_conf")
    BY <1>1, <1>2, <2>2
  <2> QED BY <2>1, <2>2
<1>4. ASSUME NEW r \in Radios
      PROVE  hal'.rf[r] = IF Having("radio", r)' = {} THEN ZeroRf
                          ELSE Radio(ZeroRf, Obj("radio", r)')
  <2>1. IF Has(file, "SX1301_conf") /\ r \in DOMAIN Objects(o, "radio")
        THEN /\ Having("radio", r)' # {}
             /\ Obj("radio", r)' = Objects(o, "radio")[r]
        ELSE /\ Having("radio", r)' = Having("radio", r)
             /\ Having("radio", r) # {} => Obj("radio", r)' = Obj("radio", r)
    BY ObjectNew
  <2>2. hal.rf[r] = IF Having("radio", r) = {} THEN ZeroRf
                    ELSE Radio(ZeroRf, Obj("radio", r))
    BY DEF HalGiven
  <2> HIDE DEF file, o
  <2> QED BY <1>3, <2>1, <2>2
<1>5. ASSUME NEW n \in Channels
      PROVE  hal'.if[n] = IF Having("chan", n)' = {} THEN ZeroIf
                          ELSE Channel(ZeroIf, n, Obj("chan", n)')
  <2>1. IF Has(file, "SX1301_conf") /\ n \in DOMAIN Objects(o, "chan")
        THEN /\ Having("chan", n)' # {}
             /\ Obj("chan", n)' = Objects(o, "chan")[n]
        ELSE /\ Having("chan", n)' = Having("chan", n)
             /\ Having("chan", n) # {} => Obj("chan", n)' = Obj("chan", n)
    BY ObjectNew
  <2>2. hal.if[n] = IF Having("chan", n) = {} THEN ZeroIf
                    ELSE Channel(ZeroIf, n, Obj("chan", n))
    BY DEF HalGiven
  <2> HIDE DEF file, o
  <2> QED BY <1>3, <2>1, <2>2
<1> QED BY <1>3, <1>4, <1>5, Zenon DEF HalGiven

LEMMA MainInitHal == MainInit => HalGiven
<1> SUFFICES ASSUME MainInit PROVE HalGiven
  OBVIOUS
<1>1. \A f, n : Having(f, n) = {}
  BY DEF MainInit, Having
<1>2. hal = HalUnset
  BY DEF MainInit
<1>3. /\ DOMAIN HalUnset.rf = Radios /\ DOMAIN HalUnset.if = Channels
      /\ \A r \in Radios : HalUnset.rf[r] = ZeroRf
      /\ \A n \in Channels : HalUnset.if[n] = ZeroIf
  BY DEF HalUnset
<1> QED BY <1>1, <1>2, <1>3 DEF HalGiven

\* Only ParseFile configures the concentrator.
LEMMA HalStays ==
  ASSUME [MainNext]_allVars, ~ParseFile
  PROVE  UNCHANGED <<parsed, hal>>
<1>1. CASE Begin
  BY <1>1 DEF Begin, NoConfiguration, OpenGps, Fails, Connect, StartRadio,
     SpawnUp, SpawnDown, SpawnGps, SpawnGhost, Spawn, configured
<1>2. CASE ~Begin
  BY <1>2 DEF MainNext, SpawnMonitor, Spawn, Leave, ShellCommand,
     TunnelCommand, configured, main, allVars
<1> QED BY <1>1, <1>2

LEMMA MainSpecHal == MainSpec => []HalGiven
<1>1. MainIInv /\ HalGiven /\ [MainNext]_allVars => HalGiven'
  <2> SUFFICES ASSUME MainIInv, HalGiven, [MainNext]_allVars PROVE HalGiven'
    OBVIOUS
  <2>1. CASE ParseFile
    BY <2>1, ParseKeepsHal DEF MainIInv
  <2>2. CASE ~ParseFile
    BY <2>2, HalStays, Zenon DEF HalGiven, Having, Obj
  <2> QED BY <2>1, <2>2
<1> QED BY MainSpecIInv, MainInitHal, <1>1, PTL DEF MainSpec

LEMMA RadioIs ==
  ASSUME NEW o
  PROVE  LET rf == Radio(ZeroRf, o)
         IN  IF Flag(o, "enable", FALSE)
             THEN /\ rf.enable /\ rf.freq = Number(o, "freq")
                  /\ rf.type \in {o.type, "NONE"}
             ELSE rf = ZeroRf
  BY DEF Radio, ZeroRf

LEMMA WidestIs == Widest \in Int /\ \A b \in Int : b <= Widest => b <= 500000
  BY SMT DEF Widest

\* The filter for a bandwidth is the narrowest that is wide enough.
LEMMA FilterIs ==
  ASSUME NEW bw \in 1 .. Widest
  PROVE  /\ FskBandwidth(bw) \in Bandwidths /\ FskBandwidth(bw) >= bw
         /\ \A b \in Bandwidths : b >= bw => b >= FskBandwidth(bw)
<1>1. Widest \in Int /\ \A b \in Int : b <= Widest => b <= 500000
  BY WidestIs
<1>2. bw \in Int /\ 1 <= bw /\ bw <= Widest
  BY <1>1, SMT
<1>3. bw <= 500000
  BY <1>1, <1>2, SMT
<1>4. FskBandwidth(bw) \in Bandwidths
  BY <1>2, <1>3, SMT DEF FskBandwidth, Bandwidths
<1>5. FskBandwidth(bw) >= bw
  BY <1>2, <1>3, SMT DEF FskBandwidth
<1>6. \A b \in Bandwidths : b >= bw => b >= FskBandwidth(bw)
  BY <1>2, <1>3, SMT DEF FskBandwidth, Bandwidths
<1> QED BY <1>4, <1>5, <1>6, Zenon

LEMMA ChannelIs ==
  ASSUME NEW n \in Channels, NEW o
  PROVE  LET c == Channel(ZeroIf, n, o)
         IN  IF Flag(o, "enable", FALSE)
             THEN /\ c.enable /\ c.rf_chain = Number(o, "radio")
                  /\ c.freq = Number(o, "if")
                  /\ n < Std => c.bandwidth = 0 /\ c.datarate = 0
                  /\ n = Fsk => c.bandwidth = FskBandwidth(Requested(o))
             ELSE c = ZeroIf
<1>1. /\ n < Std => n # Std /\ n # Fsk
      /\ Std # Fsk
  BY ConfigAssumption DEF Channels, Std, Fsk
<1> QED BY <1>1 DEF Channel, ZeroIf

\* Every radio and channel is configured by its last object and by nothing
\* else, for any sections of any files; the FSK filter fits.
THEOREM MainChannelsAsLastGiven == MainSpec => []ChannelsAsLastGiven
<1>1. HalGiven => ChannelsAsLastGiven
  <2> SUFFICES ASSUME HalGiven PROVE ChannelsAsLastGiven
    OBVIOUS
  <2>1. \A f, n : Enabled(f, n) <=> /\ Having(f, n) # {}
                                    /\ Flag(Obj(f, n), "enable", FALSE)
    BY DEF Enabled, Flag
  <2>2. ASSUME NEW r \in Radios
        PROVE  IF ~Enabled("radio", r) THEN hal.rf[r] = ZeroRf
               ELSE /\ hal.rf[r].enable
                    /\ hal.rf[r].freq = Number(Obj("radio", r), "freq")
                    /\ hal.rf[r].type \in {Obj("radio", r).type, "NONE"}
    BY <2>1, RadioIs DEF HalGiven
  <2>3. ASSUME NEW n \in Channels
        PROVE  IF ~Enabled("chan", n) THEN hal.if[n] = ZeroIf
               ELSE LET o == Obj("chan", n)
                        c == hal.if[n]
                    IN  /\ c.enable
                        /\ c.rf_chain = Number(o, "radio")
                        /\ c.freq = Number(o, "if")
                        /\ n < Std => c.bandwidth = 0 /\ c.datarate = 0
                        /\ n = Fsk => c.bandwidth = FskBandwidth(Requested(o))
    <3> DEFINE o == Obj("chan", n)
    <3>1. hal.if[n] = IF Having("chan", n) = {} THEN ZeroIf
                      ELSE Channel(ZeroIf, n, o)
      BY DEF HalGiven
    <3>2. Enabled("chan", n) <=> /\ Having("chan", n) # {}
                                 /\ Flag(o, "enable", FALSE)
      BY <2>1
    <3> HIDE DEF o
    <3>3. CASE ~Enabled("chan", n)
      <4>1. hal.if[n] = ZeroIf
        BY <3>1, <3>2, <3>3, ChannelIs
      <4> QED BY <3>3, <4>1 DEF o
    <3>4. CASE Enabled("chan", n)
      <4>1. hal.if[n] = Channel(ZeroIf, n, o)
        BY <3>1, <3>2, <3>4
      <4> DEFINE c == Channel(ZeroIf, n, o)
      <4>2. /\ c.enable /\ c.rf_chain = Number(o, "radio")
            /\ c.freq = Number(o, "if")
            /\ n < Std => c.bandwidth = 0 /\ c.datarate = 0
            /\ n = Fsk => c.bandwidth = FskBandwidth(Requested(o))
        BY <3>2, <3>4, ChannelIs
      <4> HIDE DEF c
      <4> QED BY <3>4, <4>1, <4>2 DEF o, c
    <3> QED BY <3>3, <3>4
  <2>4. ASSUME NEW n \in Channels, n = Fsk, Enabled("chan", n),
               Requested(Obj("chan", n)) \in 1 .. Widest
        PROVE  LET bw == Requested(Obj("chan", n))
                   c == hal.if[n]
               IN  /\ c.bandwidth \in Bandwidths /\ c.bandwidth >= bw
                   /\ \A b \in Bandwidths : b >= bw => b >= c.bandwidth
    <3> DEFINE bw == Requested(Obj("chan", n))
    <3>1. hal.if[n].bandwidth = FskBandwidth(bw)
      BY <2>3, <2>4
    <3> HIDE DEF bw
    <3> QED BY <2>4, <3>1, FilterIs, Zenon DEF bw
  <2> QED BY <2>2, <2>3, <2>4, Zenon DEF ChannelsAsLastGiven
<1> QED BY MainSpecHal, <1>1, PTL
=============================================================================
