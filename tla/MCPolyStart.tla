---------------------------- MODULE MCPolyStart ----------------------------
(***************************************************************************)
(* Working directories for PolyStart: one file with any array of servers,  *)
(* and two files laid over each other, where each gives a few parameters.  *)
(***************************************************************************)
EXTENDS PolyStart, TLC

File(gw) == [valid |-> "json", gateway_conf |-> gw]
Radio_(sx) == [valid |-> "json", SX1301_conf |-> sx]

Server(a, p) ==
  [server_address |-> a, serv_port_up |-> p, serv_port_down |-> p + 2]

Disabled == [server_address |-> "old", serv_port_up |-> 7,
             serv_port_down |-> 8, serv_enabled |-> "false"]
Entries ==
  { Server("ttn", 1700), Disabled,
    [server_address |-> "portless", serv_port_down |-> 9] }

MCTooLong == {"long"}
MCStarred == {"*", "*pi"}

\* Arrays of up to twice the servers there is room for, and a few longer
\* ones: all entries are looked at, or not, and a byte holds the length or not.
Short == UNION {[1 .. n -> Entries] : n \in 0 .. 2 * MAX_SERVERS}
Many(n) == [k \in 1 .. n |-> Disabled]
Overrunning == <<Server("ttn", 1700)>> \o Many(2 * MAX_SERVERS)
Arrays ==
  Short \cup { Overrunning, Overrunning \o <<Server("b", 1)>>,
              Many(3) \o <<Server("b", 1), Server("c", 5)>> \o Many(2),
              <<Server("b", 1)>> \o Many(UINT8) }

Mixed ==
  { <<Server("b", 1) @@ [serv_enabled |-> "true"], Server("c", 5)>>,
    <<[serv_port_up |-> 3], Server("b", 1) @@ [serv_enabled |-> "maybe"]>>,
    <<Disabled, Disabled, Disabled>>, <<>>,
    <<Disabled, Server("b", 1), Server("c", 5), Server("d", 6)>> }

Serving_ ==
  {[servers |-> s] : s \in Mixed}
    \cup { Server("single", 80), Server("long", UINT16 - 1),
           [server_address |-> "half"], <<>> }

One(f, v) == [g \in {f} |-> v]

Small ==
  {One(f, IF f \in Texts \cup {"gateway_ID"} THEN "x" ELSE 3) : f \in Values}
    \cup {One("platform", v) : v \in MCStarred}
    \cup {One("contact_email", "long"), One("monitor_port", UINT16 + 4)}
    \cup {One(f, b) : f \in Flags \ {"monitor"}, b \in {"true", "false", "1"}}
    \cup {One("gps", "true") @@ One("fake_gps", b) : b \in {"true", "false"}}

\* What local_conf.json changes when there is also a global one.
Changes ==
  {One("ssh_port", 22), One("platform", "pi"), One("upstream", "false"),
   One("downstream", "false"), One("radiostream", "true"), One("gps", "true"),
   One("fake_gps", "true"), One("ghoststream", "true")}

Lists == {<<>>, <<"uptime">>, <<"date", "df">>, <<"date", "df", "ps">>,
          <<"long", "df">>, <<"date", "long">>}

Channel_(radio, if) == [enable |-> "true", radio |-> radio, if |-> if]

Sections ==
  { [radio |-> (0 :> [enable |-> "true", freq |-> 867500000, type |-> t,
                      tx_enable |-> "true"])] : t \in {"SX1257", "SX9"} }
    \cup
  { [lorawan_public |-> "true", clksrc |-> 1, tx_lut |-> (1 :> <<>>),
     radio |-> (0 :> [enable |-> "true", freq |-> 1, type |-> "SX1255"]
             @@ 1 :> [enable |-> b, type |-> "SX1300"])]
       : b \in {"true", "false", "1"} }
    \cup
  { [chan |-> (0 :> Channel_(1, 400000) @@ 1 :> <<>>
            @@ 3 :> (Channel_(0, -200000) @@ [bandwidth |-> bw, datarate |-> 50000])
            @@ 2 :> [enable |-> e, radio |-> 1, bandwidth |-> 250000,
                     spread_factor |-> 7])]
       : bw \in {0, 7800, 7801, 125000, 500000, 500001}, e \in {"true", "no"} }
    \cup
  { [chan |-> (3 :> [enable |-> "true", radio |-> 1, freq_deviation |-> d,
                     datarate |-> 50000]
            @@ 2 :> [enable |-> "true", bandwidth |-> 1, spread_factor |-> 6]
            @@ 0 :> [enable |-> "false", if |-> 3])]
       : d \in {0, 25000} }

Pairs(S, T) == {[n \in {"global_conf.json", "local_conf.json"} |->
                  IF n = "global_conf.json" THEN s ELSE t] : s \in S, t \in T}

Files(S) == {File(s) : s \in S}

MCDirectories ==
  {One("local_conf.json", File([servers |-> s])) : s \in Arrays}
    \cup Pairs(Files(Serving_), Files(Serving_))
    \cup Pairs(Files(Small), Files(Changes))
    \cup Pairs(Files(Changes), Files(Small))
    \cup Pairs({Radio_(s) : s \in Sections}, {Radio_(s) : s \in Sections})
    \cup Pairs(Files({[monitor |-> "true", system_calls |-> l] : l \in Lists}),
                Files({<<>>, [system_calls |-> <<"uptime">>]}))
    \cup { <<>>, One("global_conf.json", <<>>),
           [n \in {"debug_conf.json", "global_conf.json"} |->
              IF n = "debug_conf.json" THEN File(<<>>) ELSE <<>>] }

\* A directory with a single server, as in the example configuration.
MCSingle == {One("global_conf.json", File(Server("single", 80)))}

MCActions == 0 .. MNTR_SYS_MAX + 2
=============================================================================
