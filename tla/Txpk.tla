-------------------------------- MODULE Txpk --------------------------------
(***************************************************************************)
(* What thread_down makes of the JSON of one PULL_RESP, as a function of   *)
(* the datagram, of the time reference and of the variables that the       *)
(* previous datagram left behind.  gps_pkt_fwd and beacon_pkt_fwd hold the *)
(* same code, basic_pkt_fwd all of it but what is done for "time".         *)
(*                                                                         *)
(* A JSON value is a pair: its type, and what the code can tell of it.     *)
(* Frequencies are in Hz, the deviation of FSK in kHz.  The tree of a      *)
(* datagram is freed on every path but that of exit.                       *)
(***************************************************************************)
EXTENDS Base64

CONSTANTS
  PAYLOAD_SIZE,  \* sizeof txpkt.payload
  Summer         \* the seconds at which summer time is in force, none where
                 \* there is no such time

ASSUME TxpkAssumption == PAYLOAD_SIZE \in Nat \ {0}

MIN_LORA_PREAMB == 6
STD_LORA_PREAMB == 8
MIN_FSK_PREAMB == 3
STD_FSK_PREAMB == 4

(***************************************************************************)
(* JSON values, and parson's functions on them.                            *)
(***************************************************************************)
Absent == <<"absent">>
Num(n) == <<"num", n>>
Bool(b) == <<"bool", b>>
Str(s) == <<"str", s>>
Datr(sf, bw) == <<"datr", sf, bw>>   \* a string "SF..BW.."
Utc(t) == <<"utc", t>>               \* a string in the form of ISO 8601
B64(text) == <<"b64", text>>         \* a string, as its characters

IsString(v) == v[1] \in {"str", "datr", "utc", "b64"}
number(v) == IF v[1] = "num" THEN v[2] ELSE 0
boolean(v) == IF v[1] = "bool" THEN (IF v[2] THEN 1 ELSE 0) ELSE -1

\* A cast to bool: the -1 of a value that is no Boolean counts as true.
bool(n) == n # 0

(***************************************************************************)
(* The packet to transmit.                                                 *)
(***************************************************************************)
Zeros == [k \in 1 .. PAYLOAD_SIZE |-> 0]

\* memset of txpkt.
ZeroTxpkt ==
  [tx_mode |-> "TIMESTAMPED", count_us |-> 0, no_crc |-> FALSE,
   freq_hz |-> 0, rf_chain |-> 0, rf_power |-> 0, modulation |-> "UNDEFINED",
   datarate |-> 0, bandwidth |-> 0, coderate |-> 0, invert_pol |-> FALSE,
   preamble |-> 0, f_dev |-> 0, size |-> 0, payload |-> Zeros]

\* Mutant of Cleared: txpkt keeps what the previous datagram left in it.
NotCleared(txpkt) == txpkt

Cleared(txpkt) == ZeroTxpkt

(***************************************************************************)
(* The stages, in their order.  s is the state: the packet, whether it is  *)
(* sent at once, the local copy of the time reference, tm_isdst of         *)
(* utc_vector, and how far the datagram has come: "go", "abort" or "exit". *)
(* A stage writes its fields of txpkt only if it does not abort: what an   *)
(* aborted one leaves there is cleared before anything reads it.           *)
(***************************************************************************)
Abort(s) == [s EXCEPT !.status = "abort"]

Stage(s, ok, next) == IF s.status # "go" THEN s
                      ELSE IF ok THEN next ELSE Abort(s)

\* A stage that changes nothing but txpkt.
Fill(s, ok, txpkt) == Stage(s, ok, [s EXCEPT !.txpkt = txpkt])

\* The counter at UTC time t; external: lgw_utc2cnt.  It refuses no time
\* here, a refusal being an abort like that of a malformed time.
utc2cnt(ref, t) == ref + t

HOUR == 3600

\* mktime less the time zone, of a time in UTC; external.  It reads tm_isdst:
\* unless that is 0, it takes the time for one of summer time, in summer if
\* tm_isdst is negative and always if it is positive.  Then it sets tm_isdst.
\* The hours in which summer time begins and ends are left out.
mktime(t, isdst) ==
  IF Summer # {} /\ (isdst > 0 \/ (isdst < 0 /\ t \in Summer))
  THEN t - HOUR ELSE t

Isdst(t) == IF t \in Summer THEN 1 ELSE 0

\* "imme", or else "tmst", or else "time" with a valid reference.  tm_isdst is
\* what the mktime of an earlier datagram or the stack left in it.
When(s, d, gps) ==
  LET later == [s EXCEPT !.immediate = FALSE]
      copied == [later EXCEPT !.local_ref = gps.ref]
      dated == [copied EXCEPT
                  !.isdst = Isdst(d.time[2]),
                  !.txpkt = [s.txpkt EXCEPT !.count_us =
                               utc2cnt(gps.ref, mktime(d.time[2], s.isdst))]]
  IN  IF boolean(d.imme) = 1
      THEN Stage(s, TRUE, [s EXCEPT !.immediate = TRUE])
      ELSE IF d.tmst # Absent
      THEN Fill(later, TRUE, [s.txpkt EXCEPT !.count_us = number(d.tmst)])
      ELSE IF ~IsString(d.time) \/ ~gps.active \/ ~gps.valid
      THEN Abort(later)
      ELSE Stage(copied, d.time[1] = "utc", dated)

\* "ncrc", "freq", "rfch" and "powe".
Radio(s, d) ==
  Fill(s, d.freq # Absent /\ d.rfch # Absent,
       [s.txpkt EXCEPT !.no_crc = IF d.ncrc = Absent THEN @
                                  ELSE bool(boolean(d.ncrc)),
                       !.freq_hz = number(d.freq),
                       !.rf_chain = number(d.rfch) % 256,
                       !.rf_power = IF d.powe = Absent THEN @
                                    ELSE number(d.powe)])

\* The minimum is enforced before the cast to 16 bits.
Preamble(v, least, usual) ==
  IF v = Absent THEN usual
  ELSE (IF number(v) >= least THEN number(v) ELSE least) % 65536

\* "4/6" and "2/3", "4/8" and "1/2" are the same rate.
coderate(v) ==
  CASE v = Str("4/5") -> 5
    [] v \in {Str("4/6"), Str("2/3")} -> 6
    [] v = Str("4/7") -> 7
    [] v \in {Str("4/8"), Str("1/2")} -> 8
    [] OTHER -> 0

\* "modu" LORA: "datr" and "codr" are mandatory, "ipol" and "prea" are not.
Lora(s, d) ==
  Fill(s, /\ d.datr[1] = "datr"
          /\ d.datr[2] \in 7 .. 12 /\ d.datr[3] \in {125, 250, 500}
          /\ coderate(d.codr) # 0,
       [s.txpkt EXCEPT !.modulation = "LORA",
                       !.datarate = d.datr[2],
                       !.bandwidth = d.datr[3],
                       !.coderate = coderate(d.codr),
                       !.invert_pol = IF d.ipol = Absent THEN @
                                      ELSE bool(boolean(d.ipol)),
                       !.preamble = Preamble(d.prea, MIN_LORA_PREAMB,
                                             STD_LORA_PREAMB)])

\* "modu" FSK: "datr" and "fdev" are mandatory.
Fsk(s, d) ==
  Fill(s, d.datr # Absent /\ d.fdev # Absent,
       [s.txpkt EXCEPT !.modulation = "FSK",
                       !.datarate = number(d.datr),
                       !.f_dev = number(d.fdev) % 256,
                       !.preamble = Preamble(d.prea, MIN_FSK_PREAMB,
                                             STD_FSK_PREAMB)])

Modulation(s, d) ==
  CASE d.modu = Str("LORA") -> Lora(s, d)
    [] d.modu = Str("FSK")  -> Fsk(s, d)
    [] OTHER -> Stage(s, FALSE, s)

Overwrite(payload, bytes) ==
  [k \in 1 .. PAYLOAD_SIZE |->
     IF k <= Len(bytes) THEN bytes[k] ELSE payload[k]]

\* "size" and "data".  Where they disagree, and where "data" is refused, the
\* packet is sent all the same, with the size that was given.
Payload(s, d) ==
  LET bin == b64_to_bin(d.data[2], PAYLOAD_SIZE)
      txpkt == [s.txpkt EXCEPT !.size = number(d.size) % 65536,
                               !.payload = Overwrite(@, bin.out)]
  IN  Stage(s, d.size # Absent /\ d.data[1] = "b64",
            IF bin.ret = EXIT THEN [s EXCEPT !.status = "exit"]
            ELSE [s EXCEPT !.txpkt = txpkt])

Mode(s) ==
  Fill(s, TRUE, [s.txpkt EXCEPT !.tx_mode = IF s.immediate THEN "IMMEDIATE"
                                            ELSE "TIMESTAMPED"])

Start(s) == [s EXCEPT !.status = "go", !.txpkt = Cleared(@)]

\* A datagram that is no JSON or has no object "txpk".
None == [txpk |-> FALSE]

Parse(s, d, gps) ==
  IF ~d.txpk THEN Abort(Start(s))
  ELSE Mode(Payload(Modulation(Radio(When(Start(s), d, gps), d), d), d))
=============================================================================
