------------------------------- MODULE Config -------------------------------
(***************************************************************************)
(* utils.c: one configuration file laid over what the files before it set. *)
(* A JSON object is a function from the names it has to their values, so   *)
(* that an absent field is one outside the domain.  JSON Booleans are      *)
(* "true" and "false"; any other value of such a field is of a wrong type. *)
(* strncpy leaves a string that fills its buffer without a terminator.     *)
(***************************************************************************)
EXTENDS Integers, Sequences, SequencesExt

CONSTANTS
  MAX_SERVERS,    \* conf.h
  MNTR_SYS_MAX,   \* monitor.h
  LGW_MULTI_NB,   \* Lora multi-SF channels; the standard and FSK ones follow
  LGW_RF_CHAIN_NB,
  TX_GAIN_LUT_SIZE_MAX,
  TooLong,        \* the strings that fill the buffer they are copied to
  Starred         \* the strings that begin with "*"

ASSUME ConfigAssumption ==
  /\ {MAX_SERVERS, MNTR_SYS_MAX, LGW_MULTI_NB, LGW_RF_CHAIN_NB,
      TX_GAIN_LUT_SIZE_MAX} \subseteq Nat \ {0}

Has(o, f) == f \in DOMAIN o

Flag(o, f, old) ==
  IF Has(o, f) /\ o[f] \in {"true", "false"} THEN o[f] = "true" ELSE old

\* json_object_dotget_number: 0 for an absent field.
Number(o, f) == IF Has(o, f) THEN o[f] ELSE 0

ServerFields == {"server_address", "serv_port_up", "serv_port_down"}
Ports == {"serv_port_up", "serv_port_down", "monitor_port", "ghost_port",
          "ssh_port", "http_port"}
Values == {"gateway_ID", "monitor_address", "monitor_port", "ghost_address",
           "ghost_port", "keepalive_interval", "stat_interval",
           "push_timeout_ms", "gps_tty_path", "ssh_path", "ssh_port",
           "http_port", "ngrok_path", "ref_latitude", "ref_longitude",
           "ref_altitude", "beacon_period", "beacon_offset",
           "beacon_freq_hz", "autoquit_threshold", "platform",
           "contact_email", "description"}
Texts == {"server_address", "monitor_address", "ghost_address",
          "gps_tty_path", "ssh_path", "ngrok_path", "platform",
          "contact_email", "description"}
\* The flags on before any file is read, and all of them but fake_gps.
InitiallyOn == {"forward_crc_valid", "upstream", "downstream", "radiostream",
                "statusstream"}
Flags == InitiallyOn \cup
  {"forward_crc_error", "forward_crc_disabled", "gps", "ghoststream",
   "beacon", "monitor"}

Slots == 0 .. MAX_SERVERS - 1

Default == [server_address |-> "127.0.0.1", serv_port_up |-> 1780,
            serv_port_down |-> 1782]
Unset == [f \in ServerFields |-> "unset"]

\* gtw_conf and the globals of monitor.c.  A value no file gives is "initial".
GATEWAY_CONF_INITIALIZER ==
  [serv_count |-> 0,
   serv_enable |-> [i \in Slots |-> FALSE],
   serv_live |-> [i \in Slots |-> FALSE],
   serv |-> [i \in Slots |-> Unset],
   mntr_sys_count |-> 0,
   mntr_sys_list |-> [n \in 1 .. MNTR_SYS_MAX |-> "unset"],
   values |-> [f \in Values |-> "initial"],
   flags |-> [f \in Flags |-> f \in InitiallyOn],
   gps_fake_enable |-> FALSE]

\* What is kept of a value: a port number is cast to uint16_t, a string that
\* fills its buffer runs on into whatever lies behind it.
UINT16 == 2^16
Cast(f, v) == IF f \in Ports THEN v % UINT16
              ELSE IF f \in Texts /\ v \in TooLong THEN "unterminated"
              ELSE v

\* serv_enable[i] = true, where i may pass the end of the array: serv_live
\* follows it in struct gateway_conf, and serv_addr with its rows of 64 bytes
\* follows that.  With four servers no i that fits a byte gets behind it.
ADDR_SIZE == 64
Enable(conf, i) ==
  IF i < MAX_SERVERS THEN [conf EXCEPT !.serv_enable[i] = TRUE]
  ELSE IF i < 2 * MAX_SERVERS
  THEN [conf EXCEPT !.serv_live[i - MAX_SERVERS] = TRUE]
  ELSE [conf EXCEPT !.serv[(i - 2 * MAX_SERVERS) \div ADDR_SIZE] =
         [f \in ServerFields |-> IF f = "server_address" THEN "spoilt"
                                 ELSE @[f]]]

\* The fields an entry has are stored before it is known to be complete.
Store(conf, ic, e) ==
  [conf EXCEPT !.serv[ic] =
    [f \in ServerFields |-> IF Has(e, f) THEN Cast(f, e[f]) ELSE @[f]]]

Survives(e) == ServerFields \subseteq DOMAIN e /\ Flag(e, "serv_enabled", TRUE)

\* Mutant of Entry: a server is enabled when it is known to be valid.
EntryEnabledLate(a, e) ==
  LET conf == Store(a.conf, a.ic, e)
  IN  IF a.ic = MAX_SERVERS THEN a
      ELSE IF Survives(e)
      THEN [conf |-> [Enable(conf, a.i) EXCEPT !.serv_live[a.ic] = FALSE],
            i |-> a.i + 1, ic |-> a.ic + 1]
      ELSE [conf |-> conf, i |-> a.i + 1, ic |-> a.ic]

\* One turn of the loop over the array: entry i, for the server slot ic.
Entry(a, e) ==
  LET conf == Store(Enable(a.conf, a.i), a.ic, e)
  IN  IF a.ic = MAX_SERVERS THEN a
      ELSE IF Survives(e)
      THEN [conf |-> [conf EXCEPT !.serv_live[a.ic] = FALSE],
            i |-> a.i + 1, ic |-> a.ic + 1]
      ELSE [conf |-> conf, i |-> a.i + 1, ic |-> a.ic]

\* The entries that are looked at: serv_count, a byte, holds the length.
UINT8 == 2^8
Listed(o) == SubSeq(o.servers, 1, Len(o.servers) % UINT8)

\* Mutant of Servers: the length of the array is kept as the count.
ServersAllCounted(conf, o) ==
  LET a == FoldLeft(Entry, [conf |-> conf, i |-> 0, ic |-> 0], Listed(o))
  IN  [a.conf EXCEPT !.serv_count = Len(Listed(o))]

Servers(conf, o) ==
  LET a == FoldLeft(Entry, [conf |-> conf, i |-> 0, ic |-> 0], Listed(o))
  IN  [a.conf EXCEPT !.serv_count = a.ic]

\* The old fashioned definition of one server.
Single(conf, o) ==
  IF ServerFields \subseteq DOMAIN o
  THEN [Store(conf, 0, o) EXCEPT !.serv_count = 1, !.serv_live[0] = FALSE]
  ELSE conf

Defaults(conf) ==
  IF conf.serv_count = 0
  THEN [conf EXCEPT !.serv_count = 1, !.serv[0] = Default,
                    !.serv_live[0] = FALSE]
  ELSE conf

\* mntr_sys_count keeps the length of an array longer than the list.  Of a
\* command that fills its row the row has no terminator.
SystemCalls(conf, o) ==
  IF Has(o, "system_calls")
  THEN [conf EXCEPT
         !.mntr_sys_count = Len(o.system_calls),
         !.mntr_sys_list = [n \in 1 .. MNTR_SYS_MAX |->
            IF n <= Len(o.system_calls) THEN o.system_calls[n] ELSE @[n]]]
  ELSE conf

\* Platform "*" stands for the one the program was built for, and so does
\* whatever begins like it.
Gives(o, f) == Has(o, f) /\ ~(f = "platform" /\ o[f] \in Starred)

Scalars(conf, o) ==
  [conf EXCEPT !.values =
    [f \in Values |-> IF Gives(o, f) THEN Cast(f, o[f]) ELSE @[f]]]

\* Mutant of Switches: what a file does not say is switched off.
SwitchesReset(conf, o) ==
  LET flags == [f \in Flags |-> Flag(o, f, FALSE)]
  IN  [conf EXCEPT !.flags = flags,
        !.gps_fake_enable = flags["gps"] /\ Flag(o, "fake_gps", @)]

\* fake_gps is read only if the GPS is enabled by then.
Switches(conf, o) ==
  LET flags == [f \in Flags |-> Flag(o, f, conf.flags[f])]
  IN  [conf EXCEPT !.flags = flags,
        !.gps_fake_enable = IF flags["gps"] THEN Flag(o, "fake_gps", @) ELSE @]

parse_gateway_configuration(conf, o) ==
  LET served == Defaults(IF Has(o, "servers") THEN Servers(conf, o)
                         ELSE Single(conf, o))
  IN  Switches(Scalars(SystemCalls(served, o), o), o)
-----------------------------------------------------------------------------
(* The concentrator: what the HAL is given.                                *)

ZeroRf == [enable |-> FALSE, freq |-> 0, type |-> "NONE", tx_enable |-> FALSE]
ZeroIf == [enable |-> FALSE, rf_chain |-> 0, freq |-> 0, bandwidth |-> 0,
           datarate |-> 0]

Std == LGW_MULTI_NB
Fsk == LGW_MULTI_NB + 1
Radios == 0 .. LGW_RF_CHAIN_NB - 1
Channels == 0 .. Fsk

HalUnset ==
  [board |-> [lorawan_public |-> FALSE, clksrc |-> 0], lut_size |-> 0,
   rf |-> [r \in Radios |-> ZeroRf], if |-> [n \in Channels |-> ZeroIf]]

\* A field that is absent is set to false or 0, whatever it was.
Board(o) ==
  [lorawan_public |-> Flag(o, "lorawan_public", FALSE),
   clksrc |-> Number(o, "clksrc")]

\* The objects radio_0, radio_1, ... of a section as one function.
Objects(o, f) == IF Has(o, f) THEN o[f] ELSE <<>>

\* Mutant of Cleared: the structure keeps what the last one left in it.
Kept(zero, used) == used

\* memset to zero before each object is read.
Cleared(zero, used) == zero

\* The type of an enabled radio must be given: it is compared unchecked.
Radio(rf, o) ==
  IF ~Flag(o, "enable", FALSE) THEN [rf EXCEPT !.enable = FALSE]
  ELSE [enable |-> TRUE, freq |-> Number(o, "freq"),
        type |-> IF o.type \in {"SX1255", "SX1257"} THEN o.type ELSE rf.type,
        tx_enable |-> Flag(o, "tx_enable", FALSE)]

StdBandwidth(bw) == IF bw \in {125000, 250000, 500000} THEN bw ELSE 0
StdDatarate(sf) == IF sf \in 7 .. 12 THEN sf ELSE 0

\* The bandwidth has priority over the frequency deviation.
Requested(o) ==
  LET bw == Number(o, "bandwidth")
      fdev == Number(o, "freq_deviation")
  IN  IF bw = 0 /\ fdev # 0 THEN 2 * fdev + Number(o, "datarate") ELSE bw

FskBandwidth(bw) ==
  IF bw = 0 THEN 0
  ELSE IF bw <= 7800 THEN 7800
  ELSE IF bw <= 15600 THEN 15600
  ELSE IF bw <= 31200 THEN 31200
  ELSE IF bw <= 62500 THEN 62500
  ELSE IF bw <= 125000 THEN 125000
  ELSE IF bw <= 250000 THEN 250000
  ELSE IF bw <= 500000 THEN 500000
  ELSE 0

Channel(ifconf, n, o) ==
  LET c == [ifconf EXCEPT !.enable = TRUE, !.rf_chain = Number(o, "radio"),
                          !.freq = Number(o, "if")]
  IN  IF ~Flag(o, "enable", FALSE) THEN [ifconf EXCEPT !.enable = FALSE]
      ELSE IF n = Std
      THEN [c EXCEPT !.bandwidth = StdBandwidth(Number(o, "bandwidth")),
                     !.datarate = StdDatarate(Number(o, "spread_factor"))]
      ELSE IF n = Fsk
      THEN [c EXCEPT !.bandwidth = FskBandwidth(Requested(o)),
                     !.datarate = Number(o, "datarate")]
      ELSE c

\* What the HAL is given: of each object that is there, the structure as it
\* is after the object's turn.
Submit(hal, objects, conf) ==
  [n \in DOMAIN hal |-> IF n \in DOMAIN objects THEN conf[n] ELSE hal[n]]

\* The loops over radios and channels: every turn reads its object, if there
\* is one, into the structure that the turn before used.
parse_SX1301_configuration(hal, o) ==
  LET radios == Objects(o, "radio")
      channels == Objects(o, "chan")
      rfconf[r \in Radios] ==
        LET rf == Cleared(ZeroRf, IF r = 0 THEN ZeroRf ELSE rfconf[r - 1])
        IN  IF r \in DOMAIN radios THEN Radio(rf, radios[r]) ELSE rf
      ifconf[n \in Channels] ==
        LET if == Cleared(ZeroIf, IF n = 0 THEN ZeroIf ELSE ifconf[n - 1])
        IN  IF n \in DOMAIN channels THEN Channel(if, n, channels[n]) ELSE if
  IN  [board |-> Board(o),
       lut_size |-> Cardinality(DOMAIN Objects(o, "tx_lut")
                                  \cap 0 .. TX_GAIN_LUT_SIZE_MAX - 1),
       rf |-> Submit(hal.rf, radios, rfconf),
       if |-> Submit(hal.if, channels, ifconf)]
=============================================================================
