--------------------------- MODULE Configuration ---------------------------
(***************************************************************************)
(* Startup with the decoder: what it makes of each input is what decode of *)
(* Mapper does with the type Config, or with a type that only the decoder  *)
(* is given.                                                               *)
(***************************************************************************)
EXTENDS Startup, Mapper

CONSTANTS
  Program,    \* the type Config
  Tested      \* a type that only the decoder is given

String == Prim({}, "")
Number == Prim(Ints, "0")

ConfigType ==
  LET Strings(keys) == [n \in DOMAIN keys |-> Field(keys[n], String)]
      discord == Strings(<<"TOKEN", "GUILD_ID">>)
                   \o <<Field("PRIVATE_CHANNEL_TTL", Number)>>
      scraper == Struct(<<Field("MINPERIOD", Number), Field("MAXPERIOD", Number)>>)
      transmission == Strings(<<"ENDPOINT", "DOWNLOADDIRECTORY">>)
                        \o <<Field("SCRAPER", scraper)>>
  IN  Struct(<<
        Field("DATABASE", Struct(Strings(<<"TYPE", "ADDRESS", "USERNAME", "PASSWORD",
                                           "DATABASE", "SSL_MODE">>))),
        Field("DISCORD", Struct(discord)),
        Field("TRANSMISSION", Struct(transmission)),
        Field("GRPC", Struct(Strings(<<"ADDRESS">>)))>>)

Type(in) == IF in.main THEN Program ELSE Tested

\* The Decoding of Startup.
Decoder == [in \in Inputs |-> decode(Type(in), <<>>, Default(in), in.env)]

-----------------------------------------------------------------------------

\* Provided that each structure below a pointer or in a slice has its last field
\* set, decode fails exactly when a text does not parse, and otherwise what it
\* stores is what is written and nothing else: no default is lost, no element
\* skipped.
DecodedAsWritten ==
  stage = "validate" \/ exit # "none" =>
    LET env == input.env
        ok == stage # "decode"
    IN  OptionalsClosed(Type(input), <<>>, env) =>
          /\ ok <=> WellFormed(Type(input), <<>>, env)
          /\ ok => out = Expected(Type(input), <<>>, Default(input), env)

=============================================================================
