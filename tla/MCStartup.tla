----------------------------- MODULE MCStartup -----------------------------
(* Configurations as they are shipped, and with the mistakes one can make. *)
EXTENDS Startup, TLC

MCNumber == "5000" :> 5000 @@ "5001" :> 5001 @@ "65535" :> 65535 @@ "0" :> 0 @@ "1" :> 1

Line(key, value) == <<key, "=">> \o value

Base ==
    <<Line("FORMAT", <<"0">>), Line("MONGOOSE_PORT", <<"5000">>),
      Line("GRPC_PORT", <<"5001">>), Line("DEVFILE", <<"sdc">>),
      Line("IP_NEXT", <<"-1">>), Line("PORT_NEXT", <<"-1">>)>>

With(key, value) == Append(Base, Line(key, value))

Addresses ==
    {<<":", "5000">>, <<"tcp://", "5000">>, <<"udp://", "5000">>, <<"65535">>,
     <<"5000", "x">>, <<"5000", ",", "5001">>, <<"localhost", ":", "5000">>,
     <<"127.0.0.1", ":", "5000">>, <<"far", ":", "5000">>, <<"x">>, <<>>, <<"5001">>}

MCConfigs ==
    {Base, Reverse(Base), With("FORMAT", <<"1">>), With("FORMAT", <<>>),
     With("IP_NEXT", <<"far">>),
     With("DEVFILE", <<"sdd">>), With("GRPC_PORT", <<"5000">>), With("GRPC_PORT", <<"x">>),
     Append(Base, <<"FORMAT">>), Append(Base, <<"COLOUR", "=", "1">>), <<>>}
    \cup {With("MONGOOSE_PORT", a) : a \in Addresses}
=============================================================================
