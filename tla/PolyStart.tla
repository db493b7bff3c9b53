----------------------------- MODULE PolyStart -----------------------------
(***************************************************************************)
(* poly_pkt_fwd.c, main around its statistics loop: the configuration      *)
(* files, the start of the radio and of every thread, the monitor at work  *)
(* with the commands it was configured to execute, and the end, where main *)
(* joins and cancels the threads.  What the threads do is in the modules   *)
(* of the threads, the waiting for servers in ServerRegistry.              *)
(***************************************************************************)
EXTENDS Config, Monitor

CONSTANTS
  Directories,  \* what the working directory may hold: a function from
                \* names of configuration files to their contents
  Actions       \* action parameters of monitor commands

\* An array of a JSON file.
IsArray(s) == s \in Seq({s[k] : k \in DOMAIN s})

\* What is assumed of a configuration file: its arrays are arrays.
Readable(file) ==
  Has(file, "gateway_conf") =>
    \A f \in {"servers", "system_calls"} :
      Has(file.gateway_conf, f) => IsArray(file.gateway_conf[f])

ASSUME DirectoriesAssumption ==
  \A d \in Directories : \A n \in DOMAIN d : Readable(d[n])

VARIABLES
  pc,           \* where main is
  left,         \* configuration files still to be parsed
  parsed,       \* those already parsed
  gtw_conf,     \* the gateway's configuration
  hal,          \* what the concentrator was configured to
  gps_active,   \* the GPS was opened
  threads,      \* the threads created, those of servers apart
  connecting,   \* servers with a thread_connect
  down_threads, \* servers with a thread_down
  executed      \* the last shell command: its action, and the rows of the
                \* list it is made of, or None

main == <<pc, left, parsed, gtw_conf, hal, gps_active, threads, connecting,
          down_threads>>
allVars == <<main, executed, vars>>

None == [action |-> 0]

On(flag) == gtw_conf.flags[flag]
Counted == 0 .. gtw_conf.serv_count - 1

\* The debug configuration hides the others; the local one comes last.
Chosen(d) ==
  LET Given(n) == IF n \in DOMAIN d THEN <<d[n]>> ELSE <<>>
  IN  IF "debug_conf.json" \in DOMAIN d THEN Given("debug_conf.json")
      ELSE Given("global_conf.json") \o Given("local_conf.json")

MainInit ==
  /\ pc = "files"
  /\ left \in {Chosen(d) : d \in Directories}
  /\ parsed = <<>>
  /\ gtw_conf = GATEWAY_CONF_INITIALIZER
  /\ hal = HalUnset
  /\ gps_active = FALSE
  /\ threads = {} /\ connecting = {} /\ down_threads = {}
  /\ executed = None
  /\ Init

Exit == pc' = "exited"

\* Both parsers read the file; each is content with a file without its object.
ParseFile ==
  /\ pc = "files" /\ left # <<>> /\ Has(Head(left), "valid")
  /\ LET file == Head(left)
     IN  /\ gtw_conf' = IF Has(file, "gateway_conf")
                        THEN parse_gateway_configuration(gtw_conf,
                                                         file.gateway_conf)
                        ELSE gtw_conf
         /\ hal' = IF Has(file, "SX1301_conf")
                   THEN parse_SX1301_configuration(hal, file.SX1301_conf)
                   ELSE hal
         /\ parsed' = Append(parsed, file)
  /\ left' = Tail(left)
  /\ pc' = IF left' = <<>> THEN "gps" ELSE pc
  /\ UNCHANGED <<gps_active, threads, connecting, down_threads>>

\* There is no file, or one that is not valid JSON.
NoConfiguration ==
  /\ pc = "files"
  /\ left # <<>> => ~Has(Head(left), "valid")
  /\ Exit
  /\ UNCHANGED <<left, parsed, gtw_conf, hal, gps_active, threads, connecting,
                 down_threads>>

configured == <<left, parsed, gtw_conf, hal>>

\* lgw_gps_enable may fail.
OpenGps ==
  /\ pc = "gps"
  /\ gps_active' \in IF On("gps") /\ ~gtw_conf.gps_fake_enable THEN BOOLEAN
                     ELSE {FALSE}
  /\ pc' = "connect"
  /\ UNCHANGED <<configured, threads, connecting, down_threads>>

\* Any call of the start may fail, where it is made, and end the program.
\* Waiting for a server does not: its thread_connect tries for ever.
Fails ==
  /\ pc \in {"connect", "radio", "up", "down", "gps_threads", "ghost",
             "monitor"}
  /\ Exit
  /\ UNCHANGED <<configured, gps_active, threads, connecting, down_threads>>

\* One thread_connect for each server, and then servers_wait_one_started.
Connect ==
  /\ pc = "connect"
  /\ connecting' = Counted
  /\ pc' = "radio"
  /\ UNCHANGED <<configured, gps_active, threads, down_threads>>

\* lgw_start, with radiostream only, and nothing to start without it.
StartRadio ==
  /\ pc = "radio"
  /\ pc' = "up"
  /\ UNCHANGED <<configured, gps_active, threads, connecting, down_threads>>

\* A step of the start that creates threads if it is switched on.
Spawn(at, on, created, to) ==
  /\ pc = at
  /\ threads' = threads \cup (IF on THEN created ELSE {})
  /\ pc' = to
  /\ UNCHANGED <<configured, gps_active, connecting, down_threads>>

\* A thread_down for each server that is enabled.
SpawnDown ==
  /\ pc = "down"
  /\ down_threads' = {ic \in Counted : On("downstream")
                                       /\ gtw_conf.serv_enable[ic]}
  /\ pc' = "gps_threads"
  /\ UNCHANGED <<configured, gps_active, threads, connecting>>

SpawnUp == Spawn("up", On("upstream"), {"up"}, "down")
SpawnGps == Spawn("gps_threads", gps_active, {"gps", "valid"}, "ghost")
SpawnGhost == Spawn("ghost", On("ghoststream"), {"ghost"}, "monitor")

\* monitor_start, and the statistics loop begins.
SpawnMonitor ==
  /\ Spawn("monitor", On("monitor"), {"monitor"}, "loop")
  /\ IF On("monitor") THEN Start ELSE UNCHANGED vars
  /\ UNCHANGED executed

\* The threads that main joins or cancels when its loop has ended.
Ended ==
  {k \in {"up"} : On("upstream")} \cup {k \in {"ghost"} : On("ghoststream")}
    \cup {k \in {"monitor"} : On("monitor")}
    \cup {k \in {"gps", "valid"} : gps_active}
JoinedDown == {ic \in Counted : On("downstream") /\ gtw_conf.serv_live[ic]}

\* The loop ends and main leaves; joins and the radio's stop are left out.
Leave ==
  /\ pc = "loop"
  /\ Exit
  /\ IF On("monitor") THEN Stop ELSE UNCHANGED vars
  /\ UNCHANGED <<configured, gps_active, threads, connecting, down_threads,
                 executed>>

\* Mutant of Known: as many commands as the list has room for.
KnownAll(action) == action \in 1 .. MNTR_SYS_MAX

Known(action) == action \in 1 .. gtw_conf.mntr_sys_count

\* A row of the list.  Behind its end lies whatever the linker put there.
Row(n) == IF n <= MNTR_SYS_MAX THEN gtw_conf.mntr_sys_list[n] ELSE "unknown"

\* The command that a row begins: it ends with the first row that has a
\* terminator, somewhere behind the list if none has.
Terminated(n) == n > MNTR_SYS_MAX \/ Row(n) \notin TooLong
CommandAt(n) ==
  LET end == Min({k \in n .. n + MNTR_SYS_MAX : Terminated(k)})
  IN  [k \in 1 .. end - n + 1 |-> Row(n + k - 1)]

\* handleCommand 0x02: list the commands, execute one or refuse.
ShellCommand ==
  /\ monitor_run
  /\ \E action \in Actions :
       executed' = IF ~Known(action) THEN None
                   ELSE [action |-> action, command |-> CommandAt(action)]
  /\ UNCHANGED <<main, vars>>

\* Processes are followed while the monitor runs.
TunnelCommand ==
  /\ monitor_run
  /\ \/ \E k \in Tunnels : Command(k)
     \/ \E p \in Pids : Ends(p) \/ OtherStarts(p)
  /\ UNCHANGED <<main, executed>>

Begin ==
  /\ \/ ParseFile \/ NoConfiguration \/ OpenGps \/ Fails \/ Connect
     \/ StartRadio \/ SpawnUp \/ SpawnDown \/ SpawnGps \/ SpawnGhost
  /\ UNCHANGED <<executed, vars>>

MainNext == Begin \/ SpawnMonitor \/ Leave \/ ShellCommand \/ TunnelCommand

MainSpec == MainInit /\ [][MainNext]_allVars
-----------------------------------------------------------------------------
\* What the files say, told without the order in which it is read.

Gateways == {k \in DOMAIN parsed : Has(parsed[k], "gateway_conf")}
Gw(k) == parsed[k].gateway_conf
Latest(ks) == CHOOSE k \in ks : \A j \in ks : j <= k

Complete(e) ==
  /\ ServerFields \subseteq DOMAIN e
  /\ ~(Has(e, "serv_enabled") /\ e.serv_enabled = "false")

\* The complete entries that stand before a place, and the n-th of them all.
Before(s, k) == {j \in DOMAIN s : j < k /\ Complete(s[j])}
Place(s, n) == CHOOSE k \in DOMAIN s : /\ Complete(s[k])
                                       /\ Cardinality(Before(s, k)) = n - 1

\* A server as an entry gives it, in the width of port and buffer.
Stored(e) == [f \in ServerFields |-> Cast(f, e[f])]

\* The servers a section defines: the first complete and not disabled ones
\* of its array or, without an array, the single one.
Defined(o) ==
  IF Has(o, "servers")
  THEN LET s == Listed(o)
           count == Cardinality(Before(s, Len(s) + 1))
       IN  [n \in 1 .. IF count <= MAX_SERVERS THEN count ELSE MAX_SERVERS
              |-> Stored(s[Place(s, n)])]
  ELSE IF ServerFields \subseteq DOMAIN o THEN <<Stored(o)>> ELSE <<>>

\* No more entries of an array are looked at than there is room for the flags
\* of: it has no more, or enough of these are complete.
Roomy(s) == \/ Len(s) <= 2 * MAX_SERVERS
            \/ Cardinality(Before(s, 2 * MAX_SERVERS + 1)) >= MAX_SERVERS

\* Sections that say which servers there are, be it none.
Serving == {k \in Gateways : Has(Gw(k), "servers") \/ Defined(Gw(k)) # <<>>}

\* The servers of the last section about servers, or the default one.
LastDefined == IF Serving = {} THEN <<>> ELSE Defined(Gw(Latest(Serving)))
OrDefault(s) == IF s = <<>> THEN <<Default>> ELSE s

\* The fields that the flags of a section's entries leave alone.
Spared(o) == IF Has(o, "servers") /\ ~Roomy(Listed(o))
             THEN ServerFields \ {"server_address"} ELSE ServerFields
LastSpared == IF Serving = {} THEN ServerFields ELSE Spared(Gw(Latest(Serving)))

\* The gateway talks to the servers that the last section about servers
\* defines, all of them, in order and whole - never to a mixture of entries
\* or files - and to the default one if that section defines none.  Where that
\* section has more entries than room for their flags, so much is sure of the
\* number of servers and of the ports alone.
ServersAsDefined ==
  Gateways # {} =>
    LET expected == OrDefault(LastDefined)
    IN  /\ gtw_conf.serv_count = Len(expected)
        /\ \A ic \in Counted, f \in LastSpared :
             gtw_conf.serv[ic][f] = expected[ic + 1][f]

\* "redefined parameters will overwrite global parameters" and no others: a
\* parameter is what the last file that gives it says, else the initial one.
ParametersAsLastGiven ==
  /\ \A f \in Values :
       LET ks == {k \in Gateways : Gives(Gw(k), f)}
       IN  gtw_conf.values[f] =
             IF ks = {} THEN "initial" ELSE Cast(f, Gw(Latest(ks))[f])
  /\ \A f \in Flags :
       LET ks == {k \in Gateways : Has(Gw(k), f) /\ Gw(k)[f] \in {"true", "false"}}
       IN  gtw_conf.flags[f] =
             IF ks = {} THEN f \in InitiallyOn ELSE Gw(Latest(ks))[f] = "true"

\* The filters there are for FSK, and the widest of them.
Bandwidths == {7800, 15600, 31200, 62500, 125000, 250000, 500000}
Widest == 500000

\* The files with an object for a radio or a channel, and the last such object.
Having(f, n) == {k \in DOMAIN parsed : /\ Has(parsed[k], "SX1301_conf")
                                       /\ Has(parsed[k].SX1301_conf, f)
                                       /\ n \in DOMAIN parsed[k].SX1301_conf[f]}
Obj(f, n) == parsed[Latest(Having(f, n))].SX1301_conf[f][n]
Enabled(f, n) == /\ Having(f, n) # {} /\ Has(Obj(f, n), "enable")
                 /\ Obj(f, n).enable = "true"

\* Every radio and channel is configured by the last file that has it and by
\* nothing else: neither by another radio or channel, nor by an earlier file.
\* The FSK filter is the narrowest that is wide enough.
ChannelsAsLastGiven ==
  /\ \A r \in Radios :
       IF ~Enabled("radio", r) THEN hal.rf[r] = ZeroRf
       ELSE /\ hal.rf[r].enable
            /\ hal.rf[r].freq = Number(Obj("radio", r), "freq")
            /\ hal.rf[r].type \in {Obj("radio", r).type, "NONE"}
  /\ \A n \in Channels :
       IF ~Enabled("chan", n) THEN hal.if[n] = ZeroIf
       ELSE LET o == Obj("chan", n)
                c == hal.if[n]
            IN  /\ c.enable
                /\ c.rf_chain = Number(o, "radio")
                /\ c.freq = Number(o, "if")
                /\ n < Std => c.bandwidth = 0 /\ c.datarate = 0
                /\ n = Fsk /\ Requested(o) \in 1 .. Widest =>
                     /\ c.bandwidth \in Bandwidths
                     /\ c.bandwidth >= Requested(o)
                     /\ \A b \in Bandwidths :
                          b >= Requested(o) => b >= c.bandwidth

\* main joins and cancels only threads that it created: an identifier of a
\* thread is read only when it was set.
EndsWhatItStarted ==
  pc = "loop" => Ended \subseteq threads /\ JoinedDown \subseteq down_threads

\* The last list of commands that a file gives.
Listing == {k \in Gateways : Has(Gw(k), "system_calls")}
LastList == Gw(Latest(Listing)).system_calls

\* The monitor executes nothing that only an earlier list has, and of the last
\* list the command in the place it is asked for, alone and whole - where the
\* place is one of those there are and the command fits it.  The code compares
\* with the length of the list, not of the array: of a place behind the array,
\* and of a command that fills its row, it executes what the memory holds.
CommandAsListed ==
  executed # None =>
    LET n == executed.action
    IN  /\ Listing # {} /\ n <= Len(LastList)
        /\ n <= MNTR_SYS_MAX /\ LastList[n] \notin TooLong =>
             executed.command = <<LastList[n]>>

\* "If there are no servers in server array fall back to old fashioned single
\* server definition" (utils.c:140): every server that is counted and
\* connected to is also polled for what it has to send.
EveryServerPolled ==
  pc = "loop" /\ On("downstream") => down_threads = connecting
=============================================================================
