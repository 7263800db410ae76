------------------------------ MODULE Startup ------------------------------
(***************************************************************************)
(* main.go from the environment to the bot: the configuration is decoded   *)
(* and validated (internal/config), the guilds are listed if none is       *)
(* chosen (GetGuilds of pkg/discord), the database is opened and migrated, *)
(* and the server is started beside the bot.  What the process does from   *)
(* there is in TorrentTracker, ScraperLoop and Bot.                        *)
(*                                                                         *)
(* An input is an environment and a type to decode it into: the program's  *)
(* Config, or a type that only the decoder is given.                       *)
(***************************************************************************)
EXTENDS MapLookup, Integers, FiniteSets

CONSTANTS
  Inputs,     \* environments, and for what: the program or another type
  Decoding,   \* what the decoder makes of each
  Blank,      \* the structure of the other type before it is decoded
  Ints,       \* the texts that parse as a number or a duration
  MaxGuilds,  \* the bot is a member of at most so many guilds
  BadURLs     \* texts that are no URL

VARIABLES
  input,    \* the input of this process
  out,      \* the structure that decode has filled
  member,   \* the bot is a member of guilds 1 to member
  stage,    \* how far main is
  exit,     \* how the process ended, "none" while it runs
  listed,   \* the guilds that GetGuilds has collected
  after,    \* the last of its last page
  touched   \* history: the services that were called with success

vars == <<input, out, member, stage, exit, listed, after, touched>>

-----------------------------------------------------------------------------
(* The configuration.                                                      *)

\* config.New.
NewConfig ==
  [DATABASE |-> [k \in {"TYPE", "ADDRESS", "USERNAME", "PASSWORD", "DATABASE",
                        "SSL_MODE"} |-> ""],
   DISCORD |-> [TOKEN |-> "", GUILD_ID |-> "", PRIVATE_CHANNEL_TTL |-> "0"],
   TRANSMISSION |-> [ENDPOINT |-> "https://transmission",
                     DOWNLOADDIRECTORY |-> "/downloads",
                     SCRAPER |-> [MINPERIOD |-> "0", MAXPERIOD |-> "0"]],
   GRPC |-> [ADDRESS |-> ""]]

Default(in) == IF in.main THEN NewConfig ELSE Blank

\* The fields that are no texts.
Numbers ==
  {<<"DISCORD", "PRIVATE_CHANNEL_TTL">>, <<"TRANSMISSION", "SCRAPER", "MINPERIOD">>,
   <<"TRANSMISSION", "SCRAPER", "MAXPERIOD">>}

\* The fields that the program looks at before it serves.
Database == {"TYPE", "ADDRESS", "USERNAME", "DATABASE"}
Discord == {"TOKEN", "GUILD_ID", "PRIVATE_CHANNEL_TTL"}
Transmission == {"ENDPOINT", "DOWNLOADDIRECTORY"}

NumbersParse(env) == \A key \in Numbers : Present(env, key) => env[key] \in Ints

\* What is stored in a field is its text, or what was there before.
Stored(c, env, s, k) == c[s][k] = TextOr(env, <<s, k>>, NewConfig[s][k])

\* What main needs of the decoder.  Configuration has the decoder itself.
ASSUME DecodingAssumption ==
  \A in \in Inputs :
    LET r == Decoding[in]
    IN  /\ in.main \in BOOLEAN /\ r.ok \in BOOLEAN
        /\ in.main => (r.ok <=> NumbersParse(in.env))
        /\ in.main /\ r.ok =>
             /\ \A k \in Database : Stored(r.value, in.env, "DATABASE", k)
             /\ \A k \in Discord : Stored(r.value, in.env, "DISCORD", k)
             /\ \A k \in Transmission : Stored(r.value, in.env, "TRANSMISSION", k)

ASSUME GuildsAssumption == MaxGuilds \in Nat

\* The program is delivered with an endpoint that is a URL.
ASSUME EndpointAssumption == NewConfig["TRANSMISSION"]["ENDPOINT"] \notin BadURLs

postgresDBType == "postgres"
cockroachDBType == "cockroachdb"

DatabaseValid(c) ==
  /\ c["ADDRESS"] # "" /\ c["USERNAME"] # "" /\ c["DATABASE"] # ""
  /\ c["TYPE"] \in {postgresDBType, cockroachDBType}

DiscordValid(c) == c["TOKEN"] # "" /\ c["PRIVATE_CHANNEL_TTL"] # "0"

\* The periods are decoded, and neither validated nor used.
TransmissionValid(c) == c["ENDPOINT"] \notin BadURLs /\ c["DOWNLOADDIRECTORY"] # ""

Valid(c) ==
  /\ TransmissionValid(c["TRANSMISSION"])
  /\ DiscordValid(c["DISCORD"])
  /\ DatabaseValid(c["DATABASE"])

-----------------------------------------------------------------------------
(* main.                                                                   *)

At(s) == exit = "none" /\ stage = s
Advance(s) == stage' = s /\ UNCHANGED exit
Exit(how) == exit' = how /\ UNCHANGED stage

Decode ==
  /\ At("decode")
  /\ out' = Decoding[input].value
  /\ IF Decoding[input].ok THEN Advance("validate") ELSE Exit("failure")
  /\ UNCHANGED <<input, member, listed, after, touched>>

Validate ==
  /\ At("validate") /\ input.main
  /\ IF Valid(out)
     THEN Advance(IF out["DISCORD"]["GUILD_ID"] = "" THEN "guilds" ELSE "session")
     ELSE Exit("failure")
  /\ UNCHANGED <<input, out, member, listed, after, touched>>

pageSize == 2

\* Mutant: every page is taken to be full.
PageFull == (after + 1) .. (after + pageSize)

\* The guilds of a page, in the order of their identifiers.
Page == {g \in 1 .. member : after < g /\ g <= after + pageSize}

\* Mutant: the first page is the last.
ListGuildsFirst ==
  /\ At("guilds")
  /\ listed' = listed \cup Page
  /\ touched' = touched \cup {"discord"}
  /\ after' = after + Cardinality(Page)
  /\ Exit("normal")
  /\ UNCHANGED <<input, out, member>>

\* A page is read.  One that is not full is the last, and main returns.
ListGuilds ==
  /\ At("guilds")
  /\ listed' = listed \cup Page
  /\ touched' = touched \cup {"discord"}
  /\ IF Cardinality(Page) < pageSize
     THEN Exit("normal") /\ UNCHANGED after
     ELSE after' = after + Cardinality(Page) /\ UNCHANGED <<stage, exit>>
  /\ UNCHANGED <<input, out, member>>

OpenSession ==
  /\ At("session")
  /\ touched' = touched \cup {"database"}
  /\ Advance("migrate")
  /\ UNCHANGED <<input, out, member, listed, after>>

\* Mutant: there is a driver for every type that is valid.
DriversOfValid == {postgresDBType, cockroachDBType}

\* The only migration driver that is imported.
Drivers == {postgresDBType}

Migrate ==
  /\ At("migrate") /\ out["DATABASE"]["TYPE"] \in Drivers
  /\ Advance("transmission")
  /\ UNCHANGED <<input, out, member, listed, after, touched>>

\* The server runs in goroutines of its own, beside the bot.
ConnectTransmission ==
  /\ At("transmission")
  /\ touched' = touched \cup {"transmission"}
  /\ Advance("serving")
  /\ UNCHANGED <<input, out, member, listed, after>>

\* A call of main to a service fails, which is fatal.  So is the end of a part of
\* the server, its listener or its scraper, since they return errors only.
Fatal ==
  /\ exit = "none" /\ stage \in {"guilds", "session", "migrate", "transmission", "serving"}
  /\ Exit("failure")
  /\ UNCHANGED <<input, out, member, listed, after, touched>>

Init ==
  /\ input \in Inputs
  /\ out = Default(input)
  /\ member \in 0 .. (IF input.main THEN MaxGuilds ELSE 0)
  /\ stage = "decode"
  /\ exit = "none"
  /\ listed = {}
  /\ after = 0
  /\ touched = {}

Next ==
  \/ Decode \/ Validate \/ ListGuilds
  \/ OpenSession \/ Migrate \/ ConnectTransmission \/ Fatal

Spec == Init /\ [][Next]_vars

-----------------------------------------------------------------------------

TypeOK ==
  /\ input \in Inputs
  /\ member \in 0 .. MaxGuilds
  /\ stage \in {"decode", "validate", "guilds", "session", "migrate",
                "transmission", "serving"}
  /\ exit \in {"none", "normal", "failure"}
  /\ listed \subseteq 1 .. MaxGuilds
  /\ after \in 0 .. MaxGuilds
  /\ touched \subseteq {"discord", "database", "transmission"}

Required ==
  {<<"DATABASE", k>> : k \in Database}
    \cup {<<"DISCORD", "TOKEN">>, <<"DISCORD", "PRIVATE_CHANNEL_TTL">>}

\* The key is there, and says something else than what stands for nothing.
Named(env, key) == Present(env, key) /\ env[key] # NewConfig[key[1]][key[2]]

\* The environment is one that an operator may start the program with.
Usable(env) ==
  /\ NumbersParse(env)
  /\ \A key \in Required : Named(env, key)
  /\ env[<<"DATABASE", "TYPE">>] \in {"postgres", "cockroachdb"}
  /\ LET url == <<"TRANSMISSION", "ENDPOINT">>
         dir == <<"TRANSMISSION", "DOWNLOADDIRECTORY">>
     IN  /\ Present(env, url) => env[url] \notin BadURLs
         /\ Present(env, dir) => env[dir] # ""

\* The bot starts only from an environment that names everything it needs, down
\* to the guild, and only on a database whose schema this build can migrate.
ServesOnlyComplete ==
  stage = "serving" =>
    /\ Usable(input.env)
    /\ Named(input.env, <<"DISCORD", "GUILD_ID">>)
    /\ input.env[<<"DATABASE", "TYPE">>] = "postgres"

\* Before the bot serves, the process ends normally only when it was not given a
\* guild, has listed every one there is and touched nothing else; with an unusable
\* environment no service is called; and a usable one is never refused.
ExitTruthful ==
  /\ exit = "normal" =>
       /\ ~Named(input.env, <<"DISCORD", "GUILD_ID">>)
       /\ listed = 1 .. member /\ touched = {"discord"}
  /\ touched # {} => Usable(input.env)
  /\ input.main /\ exit = "failure" /\ stage \in {"decode", "validate"} =>
       ~Usable(input.env)

=============================================================================
