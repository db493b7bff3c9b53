-------------------------------- MODULE Rxpk --------------------------------
(***************************************************************************)
(* How thread_up puts the packets of a fetch and main's report into one    *)
(* datagram, buff_up, written piece by piece at buff_index.  A piece is    *)
(* its kind and the index where it ends; the pieces stand for the JSON     *)
(* text.  thread_up reads the packets one by one; counters, mutexes and    *)
(* the servers are in Upstream.                                            *)
(***************************************************************************)
EXTENDS Base64

CONSTANTS
  NB_PKT_MAX,    \* packets per fetch
  STATUS_SIZE    \* room for the status report

ASSUME RxpkAssumption ==
  NB_PKT_MAX \in Nat \ {0} /\ STATUS_SIZE \in Nat \ {0}

\* Mutant of TX_BUFF_SIZE: as if packets had no "time" yet.
NoTimeSize == 500 * NB_PKT_MAX + 30 + STATUS_SIZE

TX_BUFF_SIZE == 540 * NB_PKT_MAX + 30 + STATUS_SIZE

VARIABLES
  up_pc,          \* "fetch", "packets", "send"
  rxpkt,          \* packets fetched and not looked at yet
  pkt_in_dgram,
  ref_ok,         \* packets are given the UTC time of the GPS
  buff_up,        \* the pieces written after the header
  buff_index,
  send_report, report_ready,
  widths,         \* history: how wide the numbers of its packets are
  status_report,  \* the length of the latest report
  data            \* history: the latest payload of the datagram, and its text

upVars == <<up_pc, rxpkt, pkt_in_dgram, ref_ok, buff_up, buff_index,
            widths, send_report, report_ready, status_report, data>>

NoData == [payload |-> <<>>, text |-> <<>>]

UpInit ==
  /\ up_pc = "fetch" /\ rxpkt = 0 /\ pkt_in_dgram = 0 /\ ref_ok = FALSE
  /\ buff_up = <<>> /\ buff_index = 12 /\ widths = {}
  /\ send_report = FALSE /\ report_ready = FALSE
  /\ status_report = 0
  /\ data = NoData

(***************************************************************************)
(* main: the report, cut by snprintf to what status_report can hold.       *)
(***************************************************************************)
\* "stat":{"time":"<23>", five counters, the acknowledgements in percent,
\* with coordinates their three fields, and <words> characters of platform,
\* email and description with their names and quotes.
ReportLength(wide, coordinates, words) ==
  40 + 5 * (8 + (IF wide THEN 10 ELSE 1)) + (IF wide THEN 13 ELSE 11)
    + (IF ~coordinates THEN 0 ELSE IF wide THEN 49 ELSE 39) + 30 + words + 1

Cut(length) == IF length < STATUS_SIZE THEN length ELSE STATUS_SIZE - 1

Report(wide, coordinates, words) ==
  /\ status_report' = Cut(ReportLength(wide, coordinates, words))
  /\ report_ready' = TRUE
  /\ UNCHANGED <<up_pc, rxpkt, pkt_in_dgram, ref_ok, buff_up, buff_index,
                 widths, send_report, data>>

(***************************************************************************)
(* thread_up.                                                              *)
(***************************************************************************)
\* n packets, and the report if one is ready; with neither it sleeps.
Fetch(n, valid) ==
  /\ up_pc = "fetch"
  /\ n > 0 \/ report_ready
  /\ rxpkt' = n /\ pkt_in_dgram' = 0
  /\ send_report' = report_ready
  /\ ref_ok' = (n > 0 /\ valid)
  /\ buff_up' = <<[kind |-> "object", end |-> 13], [kind |-> "array", end |-> 21]>>
  /\ buff_index' = 12 + 9 /\ widths' = {}
  /\ up_pc' = "packets"
  /\ UNCHANGED <<report_ready, status_report, data>>

\* A packet whose status is unknown or not forwarded.
Skip ==
  /\ up_pc = "packets" /\ rxpkt > 0
  /\ rxpkt' = rxpkt - 1
  /\ UNCHANGED <<up_pc, pkt_in_dgram, ref_ok, buff_up, buff_index, widths,
                 send_report, report_ready, status_report, data>>

\* A piece of the given length behind the others, or only under a condition.
Write(b, kind, length) ==
  [up |-> Append(b.up, [kind |-> kind, end |-> b.index + length]),
   index |-> b.index + length]

WriteIf(condition, b, kind, length) ==
  IF condition THEN Write(b, kind, length) ELSE b

Written == [up |-> buff_up, index |-> buff_index]

\* Characters of p but for its payload.  p.numbers tells how wide its numbers
\* are: the fewest or the most digits that the radio gives them, or the most
\* that those of a ghost packet have, which nobody checks.  stamped tells
\* whether it has a "time".
Metadata(p, stamped) ==
  LET digits(least, most, raw) ==
        CASE p.numbers = "least" -> least [] p.numbers = "most" -> most
          [] p.numbers = "raw" -> raw
      n == Len(p.payload)
  IN  8 + digits(1, 10, 10)                             \* {"tmst":
        + (IF stamped THEN 37 ELSE 0)                       \* time
        + 24 + digits(10, 12, 17)                       \* chan rfch freq
        + (IF p.crc_bad THEN 10 ELSE 9)                     \* stat
        + (IF p.modulation = "LORA"                         \* modu datr codr
           THEN 14 + digits(12, 13, 13) + 6 + 13
                  + 8 + digits(3, 5, 42)                 \* lsnr
           ELSE 13 + 8 + digits(3, 6, 10))
        + 16 + digits(2, 4, 40)                          \* rssi size
        + (IF n < 10 THEN 1 ELSE IF n < 100 THEN 2 ELSE 3)
        + 9 + 2                                             \* data

Room == 341   \* what bin_to_b64 is told it may write

\* Whether a packet has a time: UTC from the GPS, if lgw_cnt2utc converts
\* it, or where no GPS is active the time of the fetch.
Stamped(gps_active) == IF gps_active THEN {FALSE, ref_ok} ELSE {TRUE}

\* A packet into buff_up, unless its payload is refused.
Serialise(p, stamped) ==
  LET text == bin_to_b64(p.payload, Room)
      comma == WriteIf(pkt_in_dgram > 0, Written, "comma", 1)
      b == Write(comma, "packet", Metadata(p, stamped) + text.ret)
  IN  /\ up_pc = "packets" /\ rxpkt > 0
      /\ p.modulation # "UNDEFINED" /\ text.ret >= 0
      /\ rxpkt' = rxpkt - 1
      /\ pkt_in_dgram' = pkt_in_dgram + 1
      /\ buff_up' = b.up /\ buff_index' = b.index
      /\ widths' = widths \cup {p.numbers}
      /\ data' = [payload |-> p.payload,
                  text |-> SubSeq(text.out, 1, text.ret)]
      /\ UNCHANGED <<up_pc, ref_ok, send_report, report_ready, status_report>>

\* A payload that bin_to_b64 refuses, or an unknown modulation, datarate,
\* bandwidth or coding rate, ends the process.
Fatal(p) ==
  /\ up_pc = "packets" /\ rxpkt > 0
  /\ \/ p.modulation = "UNDEFINED" /\ UNCHANGED data
     \/ /\ p.modulation # "UNDEFINED" /\ bin_to_b64(p.payload, Room).ret < 0
        /\ data' = [payload |-> p.payload, text |-> <<>>]
  /\ UNCHANGED <<up_pc, rxpkt, pkt_in_dgram, ref_ok, buff_up, buff_index,
                 widths, send_report, report_ready, status_report>>

\* Mutant of Emptied: one character more.
EmptiedMore == buff_index - 9

\* "removes rxpk:["
Emptied == buff_index - 8

\* The pieces that are left of buff_up when it ends at index.
UpTo(index) == [k \in {i \in DOMAIN buff_up : buff_up[i].end <= index} |->
                  buff_up[k]]

\* The end of the datagram, unless everything was skipped and there is no
\* report.
Close ==
  LET array == IF pkt_in_dgram > 0 THEN Write(Written, "endarray", 1)
               ELSE [up |-> UpTo(Emptied), index |-> Emptied]
      comma == WriteIf(pkt_in_dgram > 0 /\ send_report, array, "comma", 1)
      stat == WriteIf(send_report, comma, "stat", status_report)
      b == Write(stat, "endobject", 1)
  IN  /\ up_pc = "packets" /\ rxpkt = 0
      /\ IF pkt_in_dgram = 0 /\ ~send_report
         THEN up_pc' = "fetch" /\ UNCHANGED <<buff_up, buff_index>>
         ELSE up_pc' = "send" /\ buff_up' = b.up /\ buff_index' = b.index
      /\ report_ready' = (report_ready /\ ~send_report)
      /\ data' = NoData
      /\ UNCHANGED <<rxpkt, pkt_in_dgram, ref_ok, widths, send_report,
                     status_report>>

\* The datagram goes to the servers.
Send ==
  /\ up_pc = "send"
  /\ up_pc' = "fetch"
  /\ UNCHANGED <<rxpkt, pkt_in_dgram, ref_ok, buff_up, buff_index, widths,
                 send_report, report_ready, status_report, data>>
-----------------------------------------------------------------------------
\* However many packets of whatever size, rate and time the radio puts into a
\* datagram, and however long the report, it and its terminator stay inside
\* buff_up.  The same is not true of the packets of ghost nodes, whose numbers
\* nobody checks.
FitsBuffer ==
  up_pc \in {"packets", "send"} /\ "raw" \notin widths =>
    buff_index < TX_BUFF_SIZE

\* The kinds of piece of a datagram with n packets, and a report.
Shape(n, stat) ==
  LET packets == [k \in 1 .. 2 * n - 1 |-> IF k % 2 = 1 THEN "packet" ELSE "comma"]
      array == IF n = 0 THEN <<>> ELSE <<"array">> \o packets \o <<"endarray">>
  IN  <<"object">> \o array \o (IF n > 0 /\ stat THEN <<"comma">> ELSE <<>>)
        \o (IF stat THEN <<"stat">> ELSE <<>>) \o <<"endobject">>

\* What is sent has the form of one JSON object: the packets in an array,
\* which is there only if there are any, and the report, one of them at least,
\* with the commas in their places.  It is the JSON object of PROTOCOL.TXT:103
\* if the report is whole, its words have no quotes or backslashes, and no
\* float of a ghost packet is nan or infinite: the code sees to none of these.
DatagramWellFormed ==
  up_pc = "send" =>
    /\ [k \in DOMAIN buff_up |-> buff_up[k].kind]
         = Shape(pkt_in_dgram, send_report)
    /\ pkt_in_dgram > 0 \/ send_report
    /\ buff_up[Len(buff_up)].end = buff_index
=============================================================================
