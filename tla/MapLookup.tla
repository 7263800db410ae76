----------------------------- MODULE MapLookup -----------------------------
(***************************************************************************)
(* MapLookup of internal/mapper/mapper.go: the environment of the process  *)
(* as the decoder is given it.  The code has a map from names; here it is  *)
(* a function from keys, the sequences of which the decoder forms the      *)
(* names.  The instances enumerate environments over a fixed set of keys,  *)
(* so a variable that is not there has the text "absent".                  *)
(***************************************************************************)

\* What the lookup reports as found: a variable with no text is one, too.
Present(env, key) == key \in DOMAIN env /\ env[key] # "absent"

\* The field of key after it was decoded: its text, or what the field had before.
TextOr(env, key, before) == IF Present(env, key) THEN env[key] ELSE before

=============================================================================
