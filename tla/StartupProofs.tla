--------------------------- MODULE StartupProofs ---------------------------
(***************************************************************************)
(* What main does with an environment, for every set of inputs, every      *)
(* decoder that meets DecodingAssumption and any number of guilds.         *)
(***************************************************************************)
EXTENDS Startup, FiniteSetTheorems, TLAPS

Past == {"guilds", "session", "migrate", "transmission", "serving"}

\* What was decoded is what the decoder makes of the input.
Decoded ==
  stage # "decode" => Decoding[input].ok /\ out = Decoding[input].value

\* The environment has passed the validation, and the stage fits what it names.
Validated ==
  stage \in Past =>
    /\ input.main /\ Usable(input.env)
    /\ stage = "guilds" <=> ~Named(input.env, <<"DISCORD", "GUILD_ID">>)
    /\ stage \in {"transmission", "serving"} =>
         input.env[<<"DATABASE", "TYPE">>] = "postgres"

\* Whoever was refused had been given an environment of no use.
Refused ==
  input.main /\ exit = "failure" /\ stage \in {"decode", "validate"} =>
    ~Usable(input.env)

\* The pages that were read are the first guilds without a gap, all of them when
\* the last page was not full.
Listed ==
  /\ member <= MaxGuilds /\ after <= member
  /\ exit = "none" => listed = 1 .. after
  /\ exit = "normal" => stage = "guilds" /\ listed = 1 .. member

\* Before the validation no service is called, and while guilds are listed only
\* Discord is.
Untouched ==
  /\ stage \notin Past => touched = {} /\ listed = {} /\ after = 0
  /\ stage = "guilds" => touched \subseteq {"discord"}
  /\ exit = "normal" => touched = {"discord"}

IInv ==
  /\ TypeOK /\ Decoded /\ Validated /\ Refused /\ Listed /\ Untouched

-----------------------------------------------------------------------------
(* The operators.                                                          *)

\* A decoded structure of the program is valid exactly if the environment is
\* usable, and it names a guild exactly if the environment does.
LEMMA ValidIsUsable ==
  ASSUME NEW in \in Inputs, in.main, Decoding[in].ok
  PROVE  /\ Valid(Decoding[in].value) <=> Usable(in.env)
         /\ Decoding[in].value["DISCORD"]["GUILD_ID"] = ""
              <=> ~Named(in.env, <<"DISCORD", "GUILD_ID">>)
         /\ Usable(in.env) =>
              Decoding[in].value["DATABASE"]["TYPE"] = in.env[<<"DATABASE", "TYPE">>]
<1> DEFINE c == Decoding[in].value
           env == in.env
<1>1. NumbersParse(env)
  BY DecodingAssumption
<1>2. /\ \A k \in Database : Stored(c, env, "DATABASE", k)
      /\ \A k \in Discord : Stored(c, env, "DISCORD", k)
      /\ \A k \in Transmission : Stored(c, env, "TRANSMISSION", k)
  BY DecodingAssumption
<1>3. /\ \A k \in Database : NewConfig["DATABASE"][k] = ""
      /\ NewConfig["DISCORD"]["TOKEN"] = "" /\ NewConfig["DISCORD"]["GUILD_ID"] = ""
      /\ NewConfig["DISCORD"]["PRIVATE_CHANNEL_TTL"] = "0"
      /\ NewConfig["TRANSMISSION"]["DOWNLOADDIRECTORY"] = "/downloads"
  BY DEF NewConfig, Database
<1>4. \A k \in Database : c["DATABASE"][k] # "" <=> Named(env, <<"DATABASE", k>>)
  BY <1>2, <1>3 DEF Stored, TextOr, Named
<1>5. /\ c["DISCORD"]["TOKEN"] # "" <=> Named(env, <<"DISCORD", "TOKEN">>)
      /\ c["DISCORD"]["GUILD_ID"] # "" <=> Named(env, <<"DISCORD", "GUILD_ID">>)
      /\ c["DISCORD"]["PRIVATE_CHANNEL_TTL"] # "0"
           <=> Named(env, <<"DISCORD", "PRIVATE_CHANNEL_TTL">>)
  BY <1>2, <1>3 DEF Stored, TextOr, Named, Discord
<1>6. \A k \in Database :
        Named(env, <<"DATABASE", k>>) => c["DATABASE"][k] = env[<<"DATABASE", k>>]
  BY <1>2 DEF Stored, TextOr, Named
<1>7. c["TRANSMISSION"]["ENDPOINT"] \notin BadURLs
        <=> (Present(env, <<"TRANSMISSION", "ENDPOINT">>) =>
               env[<<"TRANSMISSION", "ENDPOINT">>] \notin BadURLs)
  BY <1>2, EndpointAssumption DEF Stored, TextOr, Transmission
<1>8. c["TRANSMISSION"]["DOWNLOADDIRECTORY"] # ""
        <=> (Present(env, <<"TRANSMISSION", "DOWNLOADDIRECTORY">>) =>
               env[<<"TRANSMISSION", "DOWNLOADDIRECTORY">>] # "")
  BY <1>2, <1>3 DEF Stored, TextOr, Transmission
<1>9. DatabaseValid(c["DATABASE"])
        <=> /\ \A k \in Database : Named(env, <<"DATABASE", k>>)
            /\ env[<<"DATABASE", "TYPE">>] \in {"postgres", "cockroachdb"}
  BY <1>4, <1>6 DEF DatabaseValid, Database, postgresDBType, cockroachDBType
<1>10. Usable(env)
         <=> /\ \A k \in Database : Named(env, <<"DATABASE", k>>)
             /\ Named(env, <<"DISCORD", "TOKEN">>)
             /\ Named(env, <<"DISCORD", "PRIVATE_CHANNEL_TTL">>)
             /\ env[<<"DATABASE", "TYPE">>] \in {"postgres", "cockroachdb"}
             /\ Present(env, <<"TRANSMISSION", "ENDPOINT">>) =>
                  env[<<"TRANSMISSION", "ENDPOINT">>] \notin BadURLs
             /\ Present(env, <<"TRANSMISSION", "DOWNLOADDIRECTORY">>) =>
                  env[<<"TRANSMISSION", "DOWNLOADDIRECTORY">>] # ""
  BY <1>1 DEF Usable, Required
<1>11. Valid(c) <=> Usable(env)
  BY <1>5, <1>7, <1>8, <1>9, <1>10 DEF Valid, TransmissionValid, DiscordValid
<1>12. Usable(env) => c["DATABASE"]["TYPE"] = env[<<"DATABASE", "TYPE">>]
  BY <1>6, <1>10 DEF Database
<1> QED BY <1>5, <1>11, <1>12

\* A page follows on those before, and one that is not full ends the list.
LEMMA PageFollows ==
  ASSUME NEW m \in Nat, NEW a \in Nat, a <= m, m = member, a = after
  PROVE  /\ Page \subseteq 1 .. m
         /\ Cardinality(Page) \in Nat
         /\ a + Cardinality(Page) <= m
         /\ 1 .. (a + Cardinality(Page)) = (1 .. a) \cup Page
         /\ Cardinality(Page) < pageSize => a + Cardinality(Page) = m
<1> DEFINE last == IF m < a + 2 THEN m ELSE a + 2
<1>1. Page = (a + 1) .. last
  BY DEF Page, pageSize
<1>2. Cardinality(Page) = last - a
  <2>1. /\ a + 1 \in Int /\ last \in Int
        /\ a <= last
    OBVIOUS
  <2>2. Cardinality((a + 1) .. last) =
          IF a + 1 > last THEN 0 ELSE last - (a + 1) + 1
    BY <2>1, FS_Interval
  <2> QED BY <1>1, <2>1, <2>2
<1> QED BY <1>1, <1>2 DEF pageSize

-----------------------------------------------------------------------------
(* The inductive invariant.                                                *)

LEMMA IInvInit == Init => IInv
<1> SUFFICES ASSUME Init PROVE IInv
  OBVIOUS
<1> USE DEF Init
<1>1. member \in 0 .. MaxGuilds
  <2>1. CASE input.main
    BY <2>1
  <2>2. CASE ~input.main
    BY <2>2, GuildsAssumption
  <2> QED BY <2>1, <2>2
<1>2. TypeOK
  BY <1>1, GuildsAssumption DEF TypeOK
<1>3. Listed
  BY <1>1, GuildsAssumption DEF Listed
<1>4. Decoded /\ Validated /\ Refused /\ Untouched
  BY DEF Decoded, Validated, Past, Refused, Untouched
<1> QED BY <1>2, <1>3, <1>4 DEF IInv

LEMMA DecodeStep ==
  ASSUME IInv, Decode PROVE IInv'
<1> USE DEF IInv, Decode, At, Advance, Exit
<1>1. input \in Inputs
  BY DEF TypeOK
<1>2. TypeOK'
  BY <1>1, DecodingAssumption DEF TypeOK
<1>3. Decoded'
  BY DEF Decoded
<1>4. Validated'
  BY DEF Validated, Past
<1>5. Refused'
  BY <1>1, DecodingAssumption DEF Refused, Usable
<1>6. Listed' /\ Untouched'
  BY DEF Listed, Untouched, Past
<1> QED BY <1>2, <1>3, <1>4, <1>5, <1>6

LEMMA ValidateStep ==
  ASSUME IInv, Validate PROVE IInv'
<1> USE DEF IInv, Validate, At, Advance, Exit
<1> DEFINE guild == Named(input.env, <<"DISCORD", "GUILD_ID">>)
<1>1. /\ input \in Inputs /\ input.main
      /\ Decoding[input].ok /\ out = Decoding[input].value
  BY DEF TypeOK, Decoded
<1>2. /\ Valid(out) <=> Usable(input.env)
      /\ out["DISCORD"]["GUILD_ID"] = "" <=> ~guild
  BY <1>1, ValidIsUsable
<1>3. TypeOK' /\ Decoded'
  BY DEF TypeOK, Decoded
<1>4. Validated' /\ Refused'
  BY <1>1, <1>2 DEF Validated, Past, Refused
<1>5. Listed' /\ Untouched'
  BY DEF Listed, Untouched, Past
<1> QED BY <1>3, <1>4, <1>5

LEMMA ListGuildsStep ==
  ASSUME IInv, ListGuilds PROVE IInv'
<1> USE DEF IInv, ListGuilds, At, Exit
<1> DEFINE next == after + Cardinality(Page)
<1>1. /\ member \in Nat /\ after \in Nat /\ after <= member /\ member <= MaxGuilds
      /\ listed = 1 .. after
  BY GuildsAssumption DEF TypeOK, Listed
<1>2. /\ Cardinality(Page) \in Nat /\ next <= member
      /\ 1 .. next = (1 .. after) \cup Page
      /\ Cardinality(Page) < pageSize => next = member
  BY <1>1, PageFollows
<1>3. listed' = 1 .. next
  BY <1>1, <1>2
<1>4. TypeOK'
  BY <1>1, <1>2, <1>3, GuildsAssumption DEF TypeOK
<1>5. Listed'
  BY <1>1, <1>2, <1>3 DEF Listed
<1>6. Decoded' /\ Validated' /\ Refused'
  BY DEF Decoded, Validated, Past, Refused
<1>7. Untouched'
  BY DEF Untouched, Past
<1> QED BY <1>4, <1>5, <1>6, <1>7

\* The way on with a guild: the actions after the validation but the listing.
LEMMA ServiceStep ==
  ASSUME IInv, OpenSession \/ Migrate \/ ConnectTransmission \/ Fatal PROVE IInv'
<1> USE DEF IInv, At, Advance, Exit
<1>1. CASE OpenSession
  <2> USE <1>1 DEF OpenSession
  <2>1. TypeOK' /\ Decoded' /\ Listed'
    BY DEF TypeOK, Decoded, Listed
  <2>2. Validated' /\ Refused' /\ Untouched'
    BY DEF Validated, Past, Refused, Untouched
  <2> QED BY <2>1, <2>2
<1>2. CASE Migrate
  <2> USE <1>2 DEF Migrate
  <2>1. input.env[<<"DATABASE", "TYPE">>] = "postgres"
    <3>1. /\ input \in Inputs /\ input.main /\ Usable(input.env)
          /\ Decoding[input].ok /\ out = Decoding[input].value
      BY DEF TypeOK, Validated, Past, Decoded
    <3>2. out["DATABASE"]["TYPE"] = input.env[<<"DATABASE", "TYPE">>]
      BY <3>1, ValidIsUsable
    <3> QED BY <3>2 DEF Drivers, postgresDBType
  <2>2. TypeOK' /\ Decoded' /\ Listed'
    BY DEF TypeOK, Decoded, Listed
  <2>3. Validated' /\ Refused' /\ Untouched'
    BY <2>1 DEF Validated, Past, Refused, Untouched
  <2> QED BY <2>2, <2>3
<1>3. CASE ConnectTransmission
  <2> USE <1>3 DEF ConnectTransmission
  <2>1. TypeOK' /\ Decoded' /\ Listed'
    BY DEF TypeOK, Decoded, Listed
  <2>2. Validated' /\ Refused' /\ Untouched'
    BY DEF Validated, Past, Refused, Untouched
  <2> QED BY <2>1, <2>2
<1>4. CASE Fatal
  <2> USE <1>4 DEF Fatal
  <2>1. TypeOK' /\ Decoded' /\ Listed'
    BY DEF TypeOK, Decoded, Listed
  <2>2. Validated' /\ Refused' /\ Untouched'
    BY DEF Validated, Past, Refused, Untouched
  <2> QED BY <2>1, <2>2
<1> QED BY <1>1, <1>2, <1>3, <1>4

LEMMA IInvStep == IInv /\ [Next]_vars => IInv'
<1> SUFFICES ASSUME IInv, [Next]_vars PROVE IInv'
  OBVIOUS
<1>1. CASE UNCHANGED vars
  BY <1>1 DEF vars, IInv, TypeOK, Decoded, Validated, Refused, Listed, Untouched
<1> QED
  BY <1>1, DecodeStep, ValidateStep, ListGuildsStep, ServiceStep DEF Next

LEMMA Invariance == Spec => []IInv
  BY IInvInit, IInvStep, PTL DEF Spec

-----------------------------------------------------------------------------

\* The stages, exits and pages of main, and the services it calls.
THEOREM StartupTypes == Spec => []TypeOK
<1>1. IInv => TypeOK
  BY DEF IInv
<1> QED BY <1>1, Invariance, PTL

\* The bot starts only from an environment that names everything it needs and
\* a guild, and only with a database that this build can migrate.
THEOREM CompleteIsServed == Spec => []ServesOnlyComplete
<1>1. IInv => ServesOnlyComplete
  BY DEF IInv, Validated, Past, ServesOnlyComplete
<1> QED BY <1>1, Invariance, PTL

\* A normal exit before the bot serves means that every guild was listed and nothing
\* else done; a service is called only with a usable environment, which is never refused.
THEOREM ExitIsTruthful == Spec => []ExitTruthful
<1>1. IInv => ExitTruthful
  <2> SUFFICES ASSUME IInv PROVE ExitTruthful
    OBVIOUS
  <2> USE DEF IInv
  <2>1. exit = "normal" =>
          /\ ~Named(input.env, <<"DISCORD", "GUILD_ID">>)
          /\ listed = 1 .. member /\ touched = {"discord"}
    BY DEF Listed, Validated, Past, Untouched
  <2>2. touched # {} => Usable(input.env)
    BY DEF Untouched, Validated
  <2> QED BY <2>1, <2>2 DEF Refused, ExitTruthful
<1> QED BY <1>1, Invariance, PTL

=============================================================================
