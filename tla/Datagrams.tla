----------------------------- MODULE Datagrams -----------------------------
(***************************************************************************)
(* The contents of datagrams both ways: thread_up and main compose them    *)
(* from packets and reports (Rxpk), one thread_down reads them into        *)
(* packets (Txpk), and the threads of the GPS change the time reference    *)
(* that both copy.  Each may end the process.                              *)
(***************************************************************************)
EXTENDS Rxpk, Txpk

CONSTANTS
  Configurations,  \* the streams enabled, subsets of {"up", "down"}
  Packets,         \* packets the concentrator may hand over
  Datagrams,       \* PULL_RESP that may arrive
  Payloads,        \* the payloads in them
  Words            \* how many characters platform, email and description have

\* Payloads are bytes, texts are characters.
ASSUME DatagramsAssumption ==
  /\ \A p \in Packets : /\ p.payload \in Seq(0 .. 255)
                         /\ p.numbers \in {"least", "most", "raw"}
  /\ \A d \in Datagrams : d.txpk /\ d.data[1] = "b64" =>
                           d.data[2] \in Seq(0 .. 255)
  /\ Payloads \subseteq Seq(0 .. 255)
  /\ Words \subseteq Nat

VARIABLES
  enabled,     \* upstream_enabled and downstream_enabled
  process,     \* "running" or "failure"
  gps,         \* gps_active, gps_ref_valid and time_reference_gps
  down,        \* txpkt, sent_immediate, local_ref, utc_vector.tm_isdst, and
               \* how the last datagram ended
  received     \* the last datagram, None for one without txpk

vars == <<enabled, process, gps, upVars, down, received>>

\* What a process does that has written behind buff_up is not described.
Running == process = "running" /\ buff_index < TX_BUFF_SIZE

\* A new thread_down, whose tm_isdst is what the stack holds.
FirstDown(isdst) ==
  [txpkt |-> ZeroTxpkt, immediate |-> FALSE, local_ref |-> 0,
   isdst |-> isdst, status |-> "abort"]

Init ==
  /\ enabled \in Configurations
  /\ process = "running"
  /\ gps \in [active : BOOLEAN, valid : {FALSE}, ref : {0}]
  /\ UpInit
  /\ \E isdst \in IF "down" \in enabled THEN -1 .. 1 ELSE {0} :
       down = FirstDown(isdst)
  /\ received = None

\* A new reference, or the loss of the old one.
Reference ==
  /\ Running /\ gps.active
  /\ \E valid \in BOOLEAN : gps' \in [active : {TRUE}, valid : {valid},
                                      ref : IF valid THEN 1 .. 2 ELSE {gps.ref}]
  /\ UNCHANGED <<enabled, process, upVars, down, received>>

ThreadUp ==
  /\ Running /\ "up" \in enabled
  /\ \/ \E n \in 0 .. NB_PKT_MAX : Fetch(n, gps.valid)
     \/ Skip \/ Close \/ Send
     \/ \E p \in Packets, stamped \in Stamped(gps.active) :
          Serialise(p, stamped)
  /\ UNCHANGED <<enabled, process, gps, down, received>>

UpFails ==
  /\ Running /\ "up" \in enabled
  /\ \E p \in Packets : Fatal(p)
  /\ process' = "failure"
  /\ UNCHANGED <<enabled, gps, down, received>>

Main ==
  /\ Running /\ "up" \in enabled
  /\ \E wide \in BOOLEAN, coordinates \in BOOLEAN, words \in Words :
       Report(wide, coordinates, words)
  /\ UNCHANGED <<enabled, process, gps, down, received>>

\* One PULL_RESP, to its transmission or to the warning that ends it.
PullResp(d) ==
  /\ Running /\ "down" \in enabled
  /\ down' = Parse(down, d, gps)
  /\ received' = d
  /\ process' = IF down'.status = "exit" THEN "failure" ELSE process
  /\ UNCHANGED <<enabled, gps, upVars>>

Next ==
  \/ Reference \/ ThreadUp \/ UpFails \/ Main
  \/ \E d \in Datagrams : PullResp(d)

Spec == Init /\ [][Next]_vars
-----------------------------------------------------------------------------
\* A datagram that is to be sent at a UTC time.
Timed(d) == boolean(d.imme) # 1 /\ d.tmst = Absent

\* The values of tm_isdst that make a difference to d.
Guesses(d) == IF Timed(d) /\ Summer # {} THEN -1 .. 1 ELSE {0}

\* What is transmitted depends on the datagram that asks for it and on the
\* time reference alone: nothing of an earlier one is left in txpkt,
\* sent_immediate, local_ref or the payload.  Only where there is a summer
\* time, and the datagram gives a UTC time, does it depend on tm_isdst too,
\* which nobody sets: such a packet may go out an hour early.
NothingLeftOver ==
  [][received'.txpk /\ down'.status = "go" =>
       \E isdst \in Guesses(received') :
         down'.txpkt = Parse(FirstDown(isdst), received', gps).txpkt
    ]_<<down, received>>

\* A payload of the server, its base64 padded or not, goes on the air as it
\* was with zeros behind it; of one that is longer than a packet, or of a text
\* with a character too many, nothing does but zeros.
PayloadIntact ==
  down.status = "go" =>
    LET text == received.data[2]
        payload == down.txpkt.payload
    IN  /\ \A p \in Payloads : Carries(text, p) =>
             payload = IF Len(p) <= PAYLOAD_SIZE THEN Overwrite(Zeros, p) ELSE Zeros
        /\ Len(text) % 4 = 1 => payload = Zeros

\* The text of a packet is the base64 form of what the radio received, to
\* the last padding character.
PayloadEncoded ==
  Running => Encodes(data.text, data.payload)

\* "255 bytes = 340 chars in b64 + null char" (poly_pkt_fwd.c:1082): there
\* is room for the text of every payload of a packet.
EveryPayloadFits ==
  Len(data.payload) \in 1 .. 255 => data.text # <<>>
=============================================================================
