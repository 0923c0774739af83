------------------------------- MODULE MCFleet -------------------------------
(***************************************************************************)
(* An instance of Fleet for TLC: two instances that may share a Redis      *)
(* server, under names that differ or differ in case only.                 *)
(***************************************************************************)
EXTENDS Fleet

SymbolSet == {" ", "_", "-", "1", "2", "lb", "LB", "dev", "default", "lbm", "redis", "Redis",
            "memory", "unix", "sock", "socket", "network", "port", "etc", "tmp", "conf", "haproxy", "HAPROXY",
            "instance", "Instance", "name", "managed", "configurations", "store", "backend",
            "address", "configuration", "file"}

LowerCaseOf == [s \in SymbolSet |->
    CASE s = "LB" -> "lb" [] s = "Redis" -> "redis" [] s = "HAPROXY" -> "haproxy"
      [] s = "Instance" -> "instance" [] OTHER -> s]

PlainSymbols == {"_", "-", "1", "2", "lb", "lbm", "dev", "default", "redis", "memory"}

Default == Layer(
    GrpcAddress :> <<"port">> @@ InstanceName :> <<"lbm", "-", "default">>
    @@ ConfigurationFile :> <<"etc">> @@ SocketNetwork :> <<"unix">>
    @@ SocketAddress :> <<"sock">> @@ StoreBackend :> <<"memory">> @@ RedisAddress :> <<>>)

Environments == <<"dev">> :> Layer(
    InstanceName :> <<"lbm", "-", "dev">> @@ ConfigurationFile :> <<"tmp">>
    @@ SocketNetwork :> <<"unix">> @@ SocketAddress :> <<"sock">>
    @@ StoreBackend :> <<"redis">> @@ RedisAddress :> <<"port">>)

-----------------------------------------------------------------------------
(* Variables: HAPROXY____Instance_Name, HAPROXY__MANAGED-CONFIGURATIONS_STORE... *)

Scalar(text) == Layer(<<>> :> text)
Variable(key, raw) == [key |-> key, raw |-> raw]

Name(text) == Variable(<< <<"HAPROXY">>, <<>>, <<"Instance", "_", "name">> >>, Scalar(text))
NameAgain(text) == Variable(<< <<" ", "haproxy">>, <<"instance", "-", "name">> >>, Scalar(text))
AutoRedis == Variable(<< <<"haproxy">>, <<"managed", "configurations", "-", "store">> >>,
                      Layer(<< <<"redis">>, <<"address">> >> :> <<"port", " ">>
                            @@ << <<"unix">> >> :> <<"1">>))
Network(text) == Variable(<< <<"haproxy">>, <<"socket">>, <<"network">> >>, Scalar(text))
Unknown == Variable(<< <<"haproxy">>, <<"redis">> >>, Scalar(<<"port">>))
NoPath == Variable(<< <<" ">>, <<>> >>, Scalar(<<"lb">>))
Undecodable == Variable(<< <<"haproxy">>, <<"configuration", "file">> >>, Unreadable)
EmptyStruct == Variable(<< <<"haproxy">>, <<"managed", "configurations", "store">> >>, Layer(<<>>))

Started(environment, variables) ==
    [environment |-> environment, flag |-> <<"conf">>, variables |-> variables]

\* The first is given no file, the flag of the others leads to one.
EnvironOf ==
    "dev" :> [Started(<<" ", "dev">>, <<NameAgain(<<"lb">>), Name(<<" ", "LB", "1">>)>>)
                EXCEPT !.flag = <<" ">>]
    @@ "prod" :> Started(<<"dev">>, <<Name(<<"lb", "1">>)>>)
    @@ "plain" :> Started(<<>>, <<NoPath, Name(<<"lb", "_", "2">>)>>)
    @@ "auto" :> Started(<<>>, <<Name(<<"LB", " ", "2", " ">>), EmptyStruct, AutoRedis>>)
    @@ "noenv" :> Started(<<"lb">>, <<>>)
    @@ "unknown" :> Started(<<>>, <<Unknown>>)
    @@ "undecodable" :> Started(<<>>, <<Undecodable>>)
    @@ "noname" :> Started(<<>>, <<Name(<<" ">>)>>)
    @@ "network" :> Started(<<>>, <<Network(<<"unix", " ">>)>>)

InputsOf == [i \in Instances |->
    IF i = "a" THEN DOMAIN EnvironOf \ {"prod"} ELSE {"prod"}]

ContentOf ==
    "missing" :> Missing
    @@ "redis" :> Layer(ConfigurationFile :> <<"tmp">> @@ StoreBackend :> <<" ", "Redis">>
                        @@ RedisAddress :> <<"port">>)

FilesOf == [i \in Instances |-> IF i = "a" THEN DOMAIN ContentOf ELSE {"missing"}]
=============================================================================
