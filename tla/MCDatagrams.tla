---------------------------- MODULE MCDatagrams ----------------------------
(***************************************************************************)
(* Datagrams on a small instance: every datagram is one of three good ones *)
(* with at most one field changed.                                         *)
(***************************************************************************)
EXTENDS Datagrams

Bytes(n, b) == [k \in 1 .. n |-> b]

Packet(modulation, crc_bad, numbers, payload) ==
  [modulation |-> modulation, crc_bad |-> crc_bad, numbers |-> numbers,
   payload |-> payload]

\* The widest packets of the radio and of a ghost node; short ones with every
\* remainder by 3.
MCPackets ==
  { Packet("LORA", TRUE, "most", Bytes(255, 255)),
    Packet("LORA", FALSE, "least", <<0, 16, 131, 16>>),
    Packet("FSK", FALSE, "least", <<254, 1>>),
    Packet("FSK", FALSE, "raw", <<>>),
    Packet("LORA", TRUE, "raw", Bytes(255, 0)),
    Packet("UNDEFINED", FALSE, "least", <<1>>),
    Packet("LORA", FALSE, "least", Bytes(254, 0)) }

\* The payloads that a concentrator may receive, up to the longest.
MCLongPackets ==
  { Packet("LORA", FALSE, "least", Bytes(n, 7)) : n \in {1, 252, 253, 255} }

MCPayloads == { <<>>, <<255>>, <<16, 131>>, <<1, 128, 254>>, <<9, 8, 7, 6>>,
                <<5, 4, 3, 2, 1>> }

Text(p) == bin_to_b64_nopad(p, 100)

Padded(p) ==
  LET t == SubSeq(Text(p).out, 1, Text(p).ret)
  IN  t \o [k \in 1 .. Padding(Len(t)) |-> code_pad]

Unpadded(p) == SubSeq(Text(p).out, 1, Text(p).ret)

Common ==
  [txpk |-> TRUE, imme |-> Bool(TRUE), tmst |-> Absent, time |-> Absent,
   ncrc |-> Absent, freq |-> Num(868100000), rfch |-> Num(0),
   powe |-> Num(14), modu |-> Str("LORA"), datr |-> Datr(7, 125), codr |-> Str("4/5"),
   ipol |-> Bool(TRUE), prea |-> Absent, fdev |-> Absent, size |-> Num(3),
   data |-> B64(Padded(<<1, 128, 254>>))]

Good ==
  { Common,
    [Common EXCEPT !.imme = Bool(FALSE), !.tmst = Num(1000), !.powe = Absent,
                   !.ipol = Absent, !.ncrc = Bool(TRUE), !.prea = Num(5)],
    [Common EXCEPT !.imme = Absent, !.time = Utc(100), !.modu = Str("FSK"),
                   !.datr = Num(50000), !.codr = Absent, !.ipol = Absent,
                   !.fdev = Num(25), !.prea = Num(2)] }

\* Values a field may have instead.
Others(f) ==
  CASE f = "imme" -> {Absent, Bool(FALSE), Num(1)}
    [] f = "tmst" -> {Absent, Num(7), Str("now")}
    [] f = "time" -> {Absent, Utc(200), Str("noon"), Num(3)}
    [] f = "ncrc" -> {Absent, Bool(FALSE), Bool(TRUE), Num(0)}
    [] f \in {"freq", "rfch", "size"} -> {Absent, Num(1), Str("x"), Num(257)}
    [] f = "powe" -> {Absent, Num(27), Num(-3)}
    [] f = "modu" -> {Absent, Str("FSK"), Str("LORA"), Str("GFSK"), Num(1)}
    [] f = "datr" -> {Absent, Datr(12, 500), Datr(6, 125), Datr(7, 100),
                      Str("SF7"), Num(9600)}
    [] f = "codr" -> {Absent, Str("2/3"), Str("4/7"), Str("1/2"), Str("4/9")}
    [] f = "ipol" -> {Absent, Bool(FALSE), Num(0)}
    [] f = "prea" -> {Absent, Num(5), Num(6), Num(2), Num(3), Num(65540)}
    [] f = "fdev" -> {Absent, Num(300)}
    [] f = "data" -> {Absent, Num(0), B64(<<65>>), B64(<<65, 33>>)}
                       \cup {B64(Padded(p)) : p \in MCPayloads}
                       \cup {B64(Unpadded(p)) : p \in MCPayloads}

MCDatagrams ==
  {None} \cup UNION { { [g EXCEPT ![f] = v] : v \in Others(f) } :
                        g \in Good, f \in DOMAIN Common \ {"txpk"} }

MCSummer == {200}

MCNoSummer == {}

MCOneStream == {{"up"}, {"down"}}

MCUpOnly == {{"up"}}

MCNothing == {None}

\* Long enough for a report with many digits to be cut.
MCWords == {125}
=============================================================================
