\* Up to three guilds, so that the pages of two are a full one, a full one and
\* an empty one, or a full one and one of one; one text that is no URL.
CONSTANTS
  Program <- ConfigType
  Tested <- MCTested
  Inputs <- MCInputs
  Decoding <- Decoder
  Blank <- MCBlank
  Ints <- MCInts
  MaxGuilds = 3
  BadURLs = {"%zz"}
SPECIFICATION Spec
INVARIANTS
  TypeOK
  DecodedAsWritten
  ServesOnlyComplete
  ExitTruthful
CHECK_DEADLOCK FALSE
