----------------------------- MODULE MCStartup -----------------------------
(* An instance of Startup for TLC: the program's configuration in every     *)
(* environment made of the texts below, and a type with each construct that *)
(* the decoder's test lists, structures below pointers and in slices among  *)
(* them.                                                                    *)
EXTENDS Configuration

MCInts == {"0", "1", "-60"}

ProgramInputs ==
  {[main |-> TRUE,
    env |-> <<"DATABASE", "TYPE">> :> type
         @@ <<"DATABASE", "ADDRESS">> :> address
         @@ <<"DATABASE", "USERNAME">> :> "polly"
         @@ <<"DATABASE", "DATABASE">> :> database
         @@ <<"DATABASE", "SSL_MODE">> :> "disable"
         @@ <<"DISCORD", "TOKEN">> :> token
         @@ <<"DISCORD", "GUILD_ID">> :> guild
         @@ <<"DISCORD", "PRIVATE_CHANNEL_TTL">> :> ttl
         @@ <<"TRANSMISSION", "ENDPOINT">> :> endpoint
         @@ <<"TRANSMISSION", "DOWNLOADDIRECTORY">> :> directory
         @@ <<"TRANSMISSION", "SCRAPER", "MINPERIOD">> :> period] :
     type \in {"absent", "postgres", "cockroachdb", "mysql"},
     address \in {"absent", "db"},
     database \in {"", "polly"},
     token \in {"absent", "token"},
     guild \in {"absent", "", "guild"},
     ttl \in {"absent", "0", "-60", "10m"},
     endpoint \in {"http://t", "%zz"},
     directory \in {"absent", "", "/d"},
     period \in {"absent", "1s"}}

Node ==
  Struct(<<Field("N", Number), Field("S", String), Field("D", Ptr(String))>>)

MCTested ==
  Struct(<<Field("P", Ptr(Node)), Field("L", Slice(Node)),
           Field("B", Bytes(Prim({"AQI=", "1"}, "0"))), Field("I", Ptr(Number))>>)

TestedInputs ==
  {[main |-> FALSE,
    env |-> <<"P", "N">> :> pn @@ <<"P", "S">> :> s1 @@ <<"P", "D">> :> d
         @@ <<"L", "0", "N">> :> l0 @@ <<"L", "0", "S">> :> s2
         @@ <<"L", "1", "N">> :> l1 @@ <<"L", "1", "S">> :> s3
         @@ <<"B">> :> b @@ <<"B", "0">> :> b0 @@ <<"I">> :> n] :
     pn \in {"absent", "1", "x"}, s1 \in {"absent", "text"}, d \in {"absent", "text"},
     l0 \in {"absent", "1"}, s2 \in {"absent", ""},
     l1 \in {"absent", "1", "x"}, s3 \in {"absent", "text"},
     b \in {"absent", "AQI=", "?"}, b0 \in {"absent", "1", "x"},
     n \in {"absent", "1"}}

MCBlank == Zero(MCTested)

MCInputs == ProgramInputs \cup TestedInputs
=============================================================================
