# A TLA+ model of the LoRa packet forwarders

This directory specifies, model-checks and proves properties of the packet
forwarders in `src/`: programs that run on a LoRa gateway, fetch radio packets
from a concentrator and push them to servers over UDP, and poll those servers
for packets to transmit.  The reference is the C code.  `PROJECT.json` says
which lines each definition translates.

## 1. The system

Five programs and three tools share the tree.  `poly_pkt_fwd` is the one under
development: several servers, a "ghost" node source, a monitor, GPS and
beacons.  `basic_`, `gps_` and `beacon_pkt_fwd` are the single-server programs
it grew from.  `util_ack`, `util_sink` and `util_tx_test` are small test tools.

| part | state it keeps | operations | talks to |
|---|---|---|---|
| ghost listener (`ghost.c`) | ring buffer of raw packets, read and write index, `cb_ghost` | `thread_ghost` writes, `ghost_get` reads | `thread_up` through `ghost_get` |
| upstream (`thread_up`) | `rxpkt`, the datagram, `meas_up_*` and `meas_nb_rx_*` under `mx_meas_up`, `report_ready` under `mx_stat_rep` | fetch, filter, serialise, send to every live server, await each PUSH_ACK | concentrator under `mx_concent`, servers, main |
| downstream (`thread_down`, one per server) | token, `req_ack`, `autoquit_cnt`, `meas_dw_*` and `meas_nb_tx_*` under `mx_meas_dw` | PULL_DATA, PULL_ACK, PULL_RESP, `lgw_send`, beacon | concentrator, server, `thread_gps`, main |
| server registry (`server.c`, `thread_connect`) | per server: enabled, connecting, live, sockets, address list; a count and a condition variable | look up, open, connect, announce, wait | main, `thread_up`, `thread_down` |
| time (`thread_gps`, `thread_valid`) | `time_reference_gps`, `gps_ref_valid`, `xtal_correct`, `beacon_next_pps` | read a frame, synchronise, age, average | `thread_down`, `thread_up` |
| monitor (`monitor.c`) | process ids of three tunnels (ssh, ngrok, web) | start, stop, shell commands | the monitor server |
| main | `gtw_conf`, copies of the counters, the status report, `exit_sig`, `quit_sig` | configure, start, statistics, stop | every thread |
| configuration (`utils.c`) | `gtw_conf`, the list of shell commands, what the HAL is given | one pass over each file | main |
| base64, CRC, JSON | none | pure | the threads |

What is hard here is what the threads share.  The ring of ghost packets is
copied outside its lock.  `thread_up` keeps `mx_meas_up` through two receive
timeouts per server, and `thread_down` keeps `mx_meas_dw` while it waits for
the concentrator.  Flags (`report_ready`, `beacon_next_pps`, `exit_sig`,
`live`) are read without the mutex that guards their writes.  A server may
be silent, slow, or answer a token it was never sent.  A name may fail to
resolve half way through a connection.  Shutdown joins some threads and not
others.  Configuration files are laid over each other, and structures, buffers
and local variables are used again for the next object, datagram or packet.
`PROJECT.json` lists each such hazard at its line with the properties
that cover it.

## 2. Modules

| module | what it models | state and actions |
|---|---|---|
| `GhostFifo` | what the ghost buffer promises: a bounded FIFO that drops the newest packet when full, until a packet that states too large a size ends the promise | `queue`, `batch`, `defined`; `Store`, `Fetch`, `Overrun` |
| `GhostRing` | the buffer in `ghost.c` | the slots, both indices, and each side's progress through an unlocked copy that takes a begin and an end step; a packet may state a larger size than it brings, and what `readRX` then copies is not its own or the end of what is described (`Overrun`) |
| `Upstream` | `thread_up` with main's statistics loop | `pc` of both threads, mutex owners, counters, the report mailbox; one action per step between two lock operations |
| `Downstream` | the `thread_down` of each server, `thread_up` as a user of the concentrator, main's shutdown | `pc`, tokens, autoquit counters, mutex owners, datagrams in flight |
| `ServerRegistry` | `server.c` and `thread_connect` | per server the flags, socket and address list; where every waiter is |
| `Beacon` | `thread_gps`, `thread_valid`, the beacon in `thread_down`, the concentrator's clock | time in seconds, the reference, the average, the request, the beacon loaded and the beacon on air, with its bytes for time and for latitude |
| `BasicForwarder` | the whole life of `basic_pkt_fwd.c` | `main_pc`, `up_pc`, `down_pc`, the signal flags, the concentrator, the mutexes; one action per step of `main`, `thread_up`, `thread_down` and the signal handler |
| `GpsForwarder` | the whole life of `gps_pkt_fwd.c` | as `BasicForwarder`, and the GPS: receiver, fake coordinates, the reference and its validity, its threads; the report that `thread_up` sends |
| `Monitor` | the tunnels in `monitor.c` | the three ids the program remembers, the processes that exist |
| `Config` | `utils.c`: both parsers | operators only: `gateway_conf` and the HAL's settings after one more file |
| `PolyStart` | `main` of `poly_pkt_fwd.c` before and after its loop, and the monitor's commands; extends `Config` and `Monitor` | `pc`, the files left, `gtw_conf`, the threads created, the rows of the list that the last command executed is made of; one action per step of the start |
| `Base64` | `base64.c` | operators only; `Encodes` is the reference definition, on bits, and `Carries` what a receiver takes for a payload's text |
| `Rxpk` | how `thread_up` writes one datagram, of the packets of the radio and of ghost nodes | `buff_up` as pieces with their ends, `buff_index`, the report; actions `Fetch`, `Skip`, `Serialise`, `Close`, `Send` |
| `Txpk` | what `thread_down` reads from one PULL_RESP | operators only: each stage takes the variables that outlive a datagram, `utc_vector.tm_isdst` among them, to their next values |
| `Datagrams` | `Rxpk` and `Txpk` in one process, with the GPS reference that both copy | actions of `Rxpk`, `PullResp`, `Reference` |
| `MCUpstream`, `MCDownstream`, `MCPolyStart`, `MCDatagrams` | instances for TLC | |
| `GhostRingProofs`, `UpstreamProofs`, `DownstreamProofs`, `BeaconProofs`, `BasicForwarderProofs`, `GpsForwarderProofs`, `PolyStartProofs`, `DatagramsProofs` | theorems about the modules they are named after; `UpstreamProofs` about `ServerRegistry` too, `PolyStartProofs` about `Monitor` and `Config`, `DatagramsProofs` about `Rxpk`, `Txpk` and `Base64` | |

`GhostRing` implements `GhostFifo` under the mapping in `GhostRing.tla`
(`RefinesFifo`).  `GpsForwarder` implements `BasicForwarder`
(`ImplementsBasic`): its fetch with a copy of the reference is the basic fetch,
a datagram that holds a report and no packet is a basic `thread_up` at the top
of its loop, the start of the GPS threads is a `main` that is about to install
its signal handlers, and a crash over an unset thread id is a `main` that does
not go on.  So the safety properties of `BasicForwarder` hold of `gps_pkt_fwd`
too: `GpsForwarderProofs` proves the refinement and carries four of them over.  `Upstream` and `Downstream` meet in the concentrator: each
has the other's calls as steps that take `mx_concent`.  History variables
(`owed`, `delivered`, `taken`, `rep_no`, `unserved`, `since`, `widths`, `quitter`,
`missed`) are named as such where they are declared; no guard reads
them.

The sources of freedom are named too: the network loses, delays, repeats and
invents datagrams; the HAL calls return any of their documented results; a
condition variable may wake a waiter without cause; a process id may be given
to another process; the order of every two threads is free.

## 3. What the runs check

| run | instance | what it shows |
|---|---|---|
| `ghost_ring` | ring of 4, two distinct packets, one of which states a larger size than it has, fetches of up to 2 | reader and writer never touch one slot unless a packet to be read is oversized (`NoSharedSlot`), nothing unread is overwritten, not even by the byte too many that `memcpy` moves (`UnreadIntact`), the ring is the FIFO, in which an oversized packet spoils itself alone, until one of them writes behind its payload (`RefinesFifo`), and a packet that got in is fetched before that if fetches keep leaving room (`EveryPacketFetched`) |
| `upstream` | 2 servers, one packet per fetch, 3 kinds of packet, 1 packet and 2 reports in all | no count lost between a snapshot and a reset (`CountersConserved`), no snapshot shows more acknowledged than sent (`RatiosSound`), a report is not dropped before it goes to a server (`NoReportDropped`) and is taken (`ReportGetsSent`) |
| `downstream` | 2 servers, 1 pull each, 2 responses | counts of transmissions add up in every snapshot (`TxAccounted`) |
| `downstream_live` | 1 server that may fall silent, threshold 2, two tokens | autoquit only after that many unanswered pulls (`AutoquitJustified`), a silent server is noticed (`SilenceIsNoticed`), a good PULL_RESP reaches `lgw_send` (`ResponseIsSent`) |
| `registry` | 2 servers | a server announced or in use by a thread is connected both ways (`UsedIsConnected`), and nobody who waits for an announcement sleeps through it (`WaitersAreReleased`) |
| `beacon` | 1 server, period 2, maximum age 1, average of 2, 6 seconds | the average holds only samples of this GPS fix (`AverageSound`), the seconds put into a beacon, in the bytes of its latitude, are never ahead and at most the age of a valid reference behind (`BeaconSecondsBounded`), a request gives one beacon (`OneBeaconPerRequest`), the correction comes back after a loss (`CorrectionRecovers`) |
| `basic` | up to 2 packets per fetch, autoquit after 2 | `lgw_receive` is called only between `lgw_start` and `lgw_stop` (`ReceiveWhileStarted`); an orderly end abandons no packet (`NothingAbandoned`), waits for at most one fetch cycle (`OneFetchAtMost`), has stopped the radio if it was interrupted (`InterruptStopsRadio`), and comes (`ProgramEnds`) |
| `gps` | 1 packet per fetch, autoquit after 1 | the refinement (`ImplementsBasic`), and that nothing is stamped or timed by a reference that no receiver gave, fake coordinates or not (`TimedByReceiver`) |
| `poly_start` | 2 server slots, 2 commands, 2 multi-SF channels and 2 radios; one or two files; 3 process ids | after any files the servers are those of the last file that names some, their addresses too if it has room for the flags of all its entries (`ServersAsDefined`), each parameter and flag that of the last file that gives it (`ParametersAsLastGiven`), each radio and channel free of what another left in the structure (`ChannelsAsLastGiven`); `main` ends threads that it created (`EndsWhatItStarted`); a command is executed for the numbers of the last list only, and it is the one in that place if the place exists and holds it whole (`CommandAsListed`); no running tunnel is forgotten (`NoTunnelLost`), at most one ssh tunnel was not told to end (`OneSshTunnel`) |
| `poly_single` | one file with a single server | *violated*: `EveryServerPolled` |
| `datagrams` | up: 2 packets per fetch, of the radio and of a ghost node at their longest and shortest; reports that fit and reports that are cut; down: datagrams with at most one field changed, payloads up to one byte longer than a packet, a summer time | the packets of the radio, the report and the terminator fit `buff_up` (`FitsBuffer`); the pieces of the datagram are in their places, the commas too, whatever is skipped (`DatagramWellFormed`); texts are base64 of their payloads (`PayloadEncoded`), payloads those of their texts (`PayloadIntact`); a transmission depends on its own PULL_RESP only, and on `tm_isdst` where it gives a UTC time (`NothingLeftOver`) |
| `datagrams_long` | payloads of 1, 252, 253 and 255 bytes | *violated*: `EveryPayloadFits` |

Each property has a mutant in its module, an operator that changes one mapped
definition the way a slip in the C code would.  With it TLC finds the property
violated under the same configuration.  `Upstream`, `Downstream`,
`ServerRegistry` and `GpsForwarder` also define a `TypeOK`, which holds in
their instances but is no property of a run: it is the first conjunct of the
inductive invariants in the modules of proofs.

**Bounds.**  Rings of 4 wrap several times and become full, empty and almost
full; 12 in the code differs only in the modulus, which the proofs leave
arbitrary.  Two servers are enough for one to delay or starve the other.  One packet and
two reports give every order of report, packet, snapshot and acknowledgement:
a second packet repeats the cycle from the same states.  `Wrap` replaces 2^32
in the counters that only count and are never compared.  `MaxPulls` bounds the
requests in flight, and 2 tokens let a stale acknowledgement match.  Six
seconds of `Beacon` hold a fix, its loss, its expiry and its return.

`BasicForwarder` and `GpsForwarder` have no bound of their own: their counters
are bounded by the batch size and by the autoquit threshold.  Two packets per
fetch allow a datagram with one packet filtered out, and a threshold of two an
answered poll between two that are not; in `GpsForwarder`, whose packets are
those of `BasicForwarder`, one of each is left.

In `PolyStart`, arrays of up to twice `MAX_SERVERS` entries fill all slots
after skipping as many; of the longer ones there are a few, with a complete
entry before, behind or among those that are skipped, and one of 256 entries, whose
length is 0 in a byte.  A list of commands may be longer and shorter than the
room for it.  `TooLong` has the string that fills its buffer, and `Starred`
those that begin with the `*` that stands for no platform.  Every pair of the
sections in `MCPolyStart` is laid over each other, and a third file does not
exist.  An enabled radio has a type: the code compares it unchecked.

In `Datagrams` one stream is enabled at a time, since the two share nothing but
the reference, which either finds in every state.  `STATUS_SIZE` and the 540
bytes per packet are those of the code; with two packets the separator and the
sum matter, each further one adds the same.  The numbers of a packet have one
of three widths: the fewest digits and the most that the radio gives them, and
the most that a ghost packet gives them (`raw`).  Counters of the report have one digit or
ten, and its words 125 characters, so that it is cut in some states and whole
in others.  Payloads are 0 to 5 bytes against room for 4, which covers every
remainder modulo 3 and 4, and in `datagrams_long` the real lengths against the
real 341 characters.  Of two times that a datagram may give one is in summer.

**Deadlock** is checked in `beacon`.  The other configurations switch it off
because there the program ends, because bounded traffic leaves nothing to do,
or, in `ghost_ring` and the runs of `Datagrams`, because what a program does
that has written behind a buffer is not described.

## 4. Fairness

Threads run: every step that needs no mutex is weakly fair.  A step that takes
a pthread mutex is strongly fair: the code relies on a lock that is released
again and again being acquired at some time, which Linux gives in practice
though POSIX does not promise it.  Receives end, because every
socket has a timeout.  Servers, network and GPS get no fairness, except where a
property says "if" of them: `ResponseIsSent` starts from a response that has
arrived, `CorrectionRecovers` assumes the good samples it needs.
`Upstream!FairSpec` also assumes that main's loop turns.  In `BasicForwarder` only the
snapshots of main, the fetch and the transmission ever find their mutex taken,
so only they, and the end of a keepalive interval, are strongly fair.

`Beacon` has one assumption on speed, the guard `Timely` of a pulse: within a second
`thread_gps` is done with its frame, a beacon whose preparation has begun is
loaded, and `thread_valid`, which sleeps one second, misses at most one pulse.
`thread_valid` may run more often than it does.  The system clock is not set
back.

## 5. Disagreements met while modelling

With a run that shows them:

1. `utils.c:108`: `serv_enable` is set in the array branch only, and read by
   `main` (`poly_pkt_fwd.c:413`).  The single server of the "old fashioned"
   definition (`utils.c:140`) is sent packets and never polled
   (`EveryServerPolled`).
2. `base64.c:266` and `276`: `bin_to_b64` asks for one character more than it
   writes, so that a payload of 253 or 254 bytes ends the program, against the
   computation in the comment at `poly_pkt_fwd.c:1082` (`EveryPayloadFits`).

Without a run of their own, but in the models, where a property that holds says
how far they reach:

* `utils.c:108`: the flag of every entry that is looked at is set, up to 255 of
  them, though there is room for `MAX_SERVERS`; those behind the eighth are
  written over the first address.  `ServersAsDefined` holds of the addresses
  only up to there.
* `monitor.c:228` and `utils.c:172`: a command number is compared with the
  length of the configured list, of which 16 commands are kept, so that
  number 17 executes the memory behind them, where the comment at
  `monitor.c:88` promises an error; and a command of 64 characters or more runs
  on into the next (`utils.c:176`).  `CommandAsListed` bounds the number by the
  list, and speaks of the command where it is kept whole.
* `ghost.c:131` and `132`: the size that a ghost packet states is not compared
  with what was received: `readRX` copies what follows it in the ring, the slot
  that is being written included, and behind a payload of 256 bytes.
  `NoSharedSlot` and `RefinesFifo` except such packets.
* `poly_pkt_fwd.c:1046`: the numbers of a ghost packet are printed as they
  come, which may take more than the 540 bytes that `TX_BUFF_SIZE` has for a
  packet; the room that is left is computed from `buff_index` and never
  checked.  `FitsBuffer` is about the packets of the radio.
* `poly_pkt_fwd.c:583`: platform, email and description are printed by a raw
  `%s`, a long report is cut, and a float of a ghost packet may print as `nan`:
  then the datagram is not the "JSON object" of `PROTOCOL.TXT:103`.
  `DatagramWellFormed` says that its pieces are in order, not that each of
  them is JSON.
* `poly_pkt_fwd.c:1519`: `utc_vector.tm_isdst` is never set before `mktime`
  reads it.  Where there is a summer time a packet may go out an hour early,
  depending on the stack and on earlier datagrams, which `NothingLeftOver`
  allows for.
* `poly_pkt_fwd.c:1357`: the time of a beacon is written over its latitude,
  and the bytes that the comment at 1289 calls its time are never written
  (`time` of a beacon stays `Unwritten`).
* `poly_pkt_fwd.c:1353`: the comment has the beacon prepared one second before
  its time, from a reference that may be older (1801 comes before 1818); the
  seconds may be those of an earlier pulse, as far back as
  `BeaconSecondsBounded` says.

Included in the models as steps or outcomes, without a run of their own:

* `poly_pkt_fwd.c:803`: the error code of `lgw_receive` is added to the number
  of ghost packets before it is tested, so that one ghost packet hides it.
* `poly_pkt_fwd.c:605`: `thread_down` is joined only if `serv_live` is set, which
  only an array of too many servers does (`utils.c:108`); the concentrator is
  stopped while one may be transmitting.
* `poly_pkt_fwd.c:697`: a failed look-up of the downstream port leads to a
  second `freeaddrinfo` of one list.
* `monitor.c:252`: the end of a tunnel's process is never heard, and its id is
  kept when `kill` finds no process (186).
* `server.c:77`: `server_wait_started` does not test again after it wakes.
* `poly_pkt_fwd.c:1146` and `1247`: a failed `setsockopt` in one thread ends the
  whole process, and so does a reset of the concentrator that main notices (593).
* `gps_pkt_fwd.c:995`: two thread ids are cancelled that may never have been set.
* `poly_pkt_fwd.c:1346`: with two servers both `thread_down`s may take one
  request for a beacon, so `OneBeaconPerRequest` is checked with one.
* `basic_pkt_fwd.c:732` to `759`: a signal between `lgw_start` and the
  installation of the handlers leaves the radio on.
* `poly_pkt_fwd.c:1706`: where "size" and "data" of a PULL_RESP disagree the
  packet is sent all the same, with the size given and zeros for what is missing.
* `poly_pkt_fwd.c:1640`: a preamble length is cast to 16 bits after its minimum
  was enforced.

Seen while reading only: the monitor's list of commands is printed to the same
count that lets commands behind it run (`monitor.c:213`), and past the end of the response;
`pclose` is called with a null pointer if `popen` failed (`monitor.c:131`); a
`keepalive_interval` of zero turns polling into a busy loop; a local
configuration file sets the board's fields that it does not name back to zero
(`utils.c:485`), and a gap in the TX gain table shifts its end
(`utils.c:515`).

## 6. What is proved

The theorems hold for every value of the constants that the named assumptions
admit: sets of servers, tokens and process ids of any size, any capacity of the
ring, any threshold, any bound on traffic, any contents of the configuration
files.  Each proof has an inductive invariant, proved to hold initially, to be
preserved by each action, and to imply the property.  It was an invariant of a
TLC run before it was proved.  In `UpstreamProofs`, `DownstreamProofs` and
`GpsForwarderProofs` it comes in two parts, `Flags` for what is Boolean and
`Core` for the rest, because Zenon is good at the one and the SMT solver at the
other.

* `GhostRingProofs`: `SpecTypeOK`, `SpecNoSharedSlot`, `SpecUnreadIntact`, and
  `SpecRefinesFifo`, that every step of the ring is a step or a stutter of
  `GhostFifo`.  They hold for any set of oversized packets, of which
  `NoSharedSlot` excepts the fetches that are to read one and `GhostFifo` says
  what they may do.  `NoSharedSlot` is not inductive: a writer that passed the full
  test may be overtaken by the reader.  `IInv` therefore adds `ProducerInv` and
  `ConsumerInv`, what each side knows about the other's index while it is in
  the middle of its copy: the distance it measured can only have moved in its
  favour.
* `UpstreamProofs`: `SpecCountersConserved`, `SpecRatiosSound`,
  `SpecNoReportDropped`, `SpecReportWhole`.  The counts are conserved because of
  who holds `mx_meas_up` (`Locks`): between the copy and the reset nobody counts,
  and what is still owed is then nothing (`Conserved`).  The ratios of a snapshot
  need those of the live counters, and these need that a datagram is counted as
  sent before its answer is awaited (`MeasSound`).  That a report goes out needs
  that there is a connected server still to come in the round (`InHand`,
  `Rounds`).
  At the end of the module, about `ServerRegistry`:
  `RegistrySpecUsedIsConnected`, from what is connected at each point of
  `thread_connect` (`OnTheWay`) and from who has been told of it (`Informed`);
  `RegistrySpecRunningHasServer`, that the packet threads start with some server
  announced, which `Upstream` takes for granted of its initial states (`started`
  is not empty there); and `RegistrySpecAnnounces`, that servers are announced
  one at a time and never withdrawn, which is all that `Upstream` lets `started`
  do.
* `DownstreamProofs`: `SpecTxAccounted`, `SpecAutoquitJustified`,
  `SpecTransmitAlone`.  A response without a verdict exists exactly while a
  thread holds `mx_meas_dw` (`Tallied`), which main needs for a snapshot.
  `Unanswered` bounds `autoquit_cnt` by the polls that ended without an answer,
  differently before, during and after a poll.  `SpecTransmitAlone` says where
  the two mutexes stop: every transmission is alone with the concentrator but
  for the `lgw_stop` of main.
* `BeaconProofs`: `SpecTypeOK`, `SpecAverageSound`,
  `SpecBeaconSecondsBounded`, the last for the seconds that the bytes of the
  latitude hold.  The invariant adds `TimeInv` (`checked` and `reference` against the clock: thread_valid missed at
  most one pulse) and `SampleInv` (`init_cpt`, `init_acc` and `since` agree
  between samples).  `SpecOneBeaconPerRequest` assumes `OneServer`: with two the
  property is false.  Its invariant counts the beacons that `thread_down` may
  still load without another request (`Owed`): one that it goes to take may have
  been withdrawn and raised again meanwhile.
* `BasicForwarderProofs`: `SpecTypeOK`, `SpecReceiveWhileStarted`,
  `SpecNothingAbandoned`, `SpecOneFetchAtMost`, `SpecInterruptStopsRadio`.  None
  but the type invariant is inductive.  `IInv` adds where `thread_up` can be at
  each point of `main` (`UpPhase`), when it holds packets (`Holding`), that a
  stop is pending once `main` joins and that `thread_up` then does not come back
  to the lock (`Joining`), and that an interrupt known to `main` leads it through
  `lgw_stop` (`Interrupted`).
* `GpsForwarderProofs`: `SpecTimedByReceiver`, from what is known of the
  reference while it is taken for valid (`Timing`) and from what is not there
  yet while `main` starts (`Spawning`).  `SpecImplementsBasic` maps each action,
  one lemma each, to an action of the basic forwarder or to a stutter; it needs
  that `thread_up` holds no packets and no mutex where it takes a report
  (`Holding`).  `SpecReceiveWhileStarted`, `SpecNothingAbandoned`,
  `SpecOneFetchAtMost` and `SpecInterruptStopsRadio` are those of
  `BasicForwarderProofs`, read through that refinement.
* `PolyStartProofs`: of the monitor alone `SpecTypeOK`, `SpecNoTunnelLost`,
  `SpecOneSshTunnel`, whose invariant adds that ssh and ngrok are never both
  recorded; `MainRunsMonitor`, that under main it does nothing else, so that
  both hold there (`MainNoTunnelLost`, `MainOneSshTunnel`).  Of main,
  `MainServersAsDefined`, `MainParametersAsLastGiven`, `MainCommandAsListed`,
  `MainChannelsAsLastGiven` and `MainEndsWhatItStarted`.  The invariant
  `MainIInv` says what the files parsed so far made of `gtw_conf`
  (`ServersKept`, `ListKept`, `ParametersAsLastGiven`), that no command is taken before all are parsed
  (`FilesFirst`), which threads exist where main is (`Phases`), and that a flag
  of `serv_live` is up only if all of `serv_enable` are (`LiveIsEnabled`): that
  is why main, which creates a `thread_down` by the one array and joins it by the
  other, never joins one that is not there.  For the concentrator the invariant
  is `HalGiven`: each radio and channel is what its last object makes of a
  structure of zeros.  It holds because the structure is cleared at the
  beginning of every turn (`SectionGiven`), so that the turns before are not
  there to be seen.  `MainServersAsDefined` holds for arrays of any length: the
  number of servers and their ports are always as defined, the addresses where
  the array has room for the flags of its entries (`Talks`, `LastSpared`).
  `MainCommandAsListed` bounds every command number by the length of the last
  list and says what is executed for those that the list holds whole; of the
  others section 5 tells the rest.
* `DatagramsProofs`, in three parts.  *What is written*: `SpecFitsBuffer` bounds
  `buff_index` after each piece by 535 of the 540 bytes for every packet there was
  (`Fitting`), where the longest packet needs one text of 340 characters, as long
  as none of them has the numbers of a ghost packet (`Plain`);
  `SpecDatagramWellFormed` says of every piece of the open array what it is
  (`Forming`, `Packed`), so that the eight characters taken back when nothing
  stays are always the name of the array and its bracket.
  *What is encoded*: `SpecPayloadEncoded`, for every payload, from
  `TextIs`, what each character of a text is, and `CharsEncode`, that these
  characters have the bits of the bytes six by six.
  *What is decoded*: `SpecPayloadIntact`, from the other direction.  Bytes are
  determined by their bits (`SameBits`), a text's octets are those the decoder
  puts together (`OctetIs`, `NopadDecodes`), the characters `=` are taken away by
  `b64_to_bin` exactly from a padded text (`StrippedIs`), so a text that carries
  a payload gives it back if it fits and -1 if not (`CarriedDecodes`); and the
  structure it is copied into is still zero there (`Blank`, stage by stage).
  `SpecNothingLeftOver` needs that every field and variable that outlives a
  datagram but `tm_isdst` is written before it is used, or not at all: stage by
  stage the next value of each is a function of the datagram, the reference and
  `tm_isdst` (`Fielded`, `IsDated`), and of `tm_isdst` only for a UTC time.

The loop over the array of servers is a `FoldLeft`.  That it is the iteration
of its body (`FoldIs`), and that every turn keeps the slots filled with the
first complete entries in order (`EntryFills`), are inductions over the number
of turns.  They are proved from the well-foundedness of `<` on the naturals,
about the set of those numbers for which the statement holds
(`NatSetInduction`), so that no operator is a parameter of a theorem.

Assumed of the configuration files (`DirectoriesAssumption`) is that an array is
an array, of any length; of the datagrams (`DatagramsAssumption`), that payloads
are sequences of bytes and texts of characters, which is what the C types hold,
and that the numbers of a packet have one of the three widths named in section 3.

Every invariant and every action property of a run that passes is stated by one
of these theorems, and so are both refinements.  Only model-checked are the
liveness properties, which need fairness and ENABLED: `EveryPacketFetched`,
`ReportGetsSent`, `SilenceIsNoticed`, `ResponseIsSent`, `WaitersAreReleased`,
`CorrectionRecovers` and `ProgramEnds`.

## 7. What is not modelled

What a program does that has written behind a buffer of its stack: the models
of the ring and of the datagrams stop there, and that of `main` does not say
which memory a command behind the list is made of.  A configuration whose values
are of a wrong type, but for Booleans (`strncpy` of a number's null string ends
the program).  The values of numbers in the text of a packet, the rounding of decimal
fractions, the calendar and the conversions of `lgw_utc2cnt` and `lgw_cnt2utc`;
GPS coordinates but for the room they take in a report; the bytes of a beacon
and its CRCs; the bytes of the monitor's protocol and the output of commands;
TX gains and RSSI offsets; parson.  `beacon_pkt_fwd` has no module of its own:
its threads are those of `gps_pkt_fwd` with the beacon that `Beacon` models
from poly.  The test tools `util_ack`, `util_sink` and `util_tx_test` keep no
state.  The HAL, the servers and the network are outside the repository and
appear as environment steps.
