------------------------------- MODULE Mapper -------------------------------
(***************************************************************************)
(* The decoder of internal/mapper/mapper.go, which fills a structure from  *)
(* the environment, and what its user expects of it.                       *)
(*                                                                         *)
(* A type is a record: a primitive with the texts that parse as it, none   *)
(* for a string since every text does, and its zero value; a structure     *)
(* with its fields in order; a pointer; a slice.  The code panics on a     *)
(* pointer below a pointer or in a slice: there is none here.              *)
(* A value is a text, a function from field names, a sequence of at most   *)
(* one element for a pointer, a sequence for a slice.  A key is the        *)
(* sequence of the names that the code joins by the separator.             *)
(***************************************************************************)
EXTENDS MapLookup, Integers, Sequences, FiniteSets, TLC

Prim(parses, zero) == [kind |-> "prim", parses |-> parses, zero |-> zero]
Struct(fields) == [kind |-> "struct", fields |-> fields]
Ptr(elem) == [kind |-> "ptr", elem |-> elem]
Slice(elem) == [kind |-> "slice", elem |-> elem]
Bytes(elem) == [kind |-> "bytes", elem |-> elem]

Parses(t, text) == t.parses = {} \/ text \in t.parses

Field(key, type) == [key |-> key, type |-> type]

\* Go's zero value.
RECURSIVE Zero(_)
Zero(t) ==
  CASE t.kind = "prim" -> t.zero
    [] t.kind = "struct" ->
         [k \in {t.fields[i].key : i \in DOMAIN t.fields} |->
            Zero((CHOOSE f \in {t.fields[i] : i \in DOMAIN t.fields} : f.key = k).type)]
    [] OTHER -> <<>>

-----------------------------------------------------------------------------
(* The decoder.  A result says whether something was found, whether all of *)
(* it parsed, and what is stored.                                          *)

Result(found, ok, value) == [found |-> found, ok |-> ok, value |-> value]

decodePrimitive(t, key, v, env) ==
  IF ~Present(env, key) THEN Result(FALSE, TRUE, v)
  ELSE IF Parses(t, env[key]) THEN Result(TRUE, TRUE, env[key])
  ELSE Result(FALSE, FALSE, v)

\* Mutant: the case of a pointer assigns to the variables of the function.
FoundOfPointers(f, before, r) == r.found

\* What the field of a structure adds to what is known of it: whether a pointer
\* was found stays in the scope of its case.
FoundOf(f, before, r) == IF f.type.kind = "ptr" THEN before ELSE r.found

RECURSIVE decode(_, _, _, _)
decode(t, root, v, env) ==
  CASE t.kind = "prim" -> decodePrimitive(t, root, v, env)
    [] t.kind = "ptr" ->
         LET r == decode(t.elem, root, Zero(t.elem), env)
         IN  Result(r.found, r.ok, IF r.ok /\ r.found THEN <<r.value>> ELSE v)
    [] t.kind = "struct" ->
         LET upTo[i \in 0 .. Len(t.fields)] ==
               IF i = 0 THEN Result(FALSE, TRUE, v)
               ELSE LET s == upTo[i - 1]
                        f == t.fields[i]
                        r == decode(f.type, Append(root, f.key), s.value[f.key], env)
                    IN  IF ~s.ok THEN s
                        ELSE Result(FoundOf(f, s.found, r), r.ok,
                                    [s.value EXCEPT ![f.key] = r.value])
         IN  upTo[Len(t.fields)]
    [] t.kind = "bytes" /\ Present(env, root) ->
         IF Parses(t.elem, env[root]) THEN Result(TRUE, TRUE, <<env[root]>>)
         ELSE Result(FALSE, FALSE, v)
    [] OTHER ->
         LET RECURSIVE from(_, _)
             from(i, s) ==
               LET r == decode(t.elem, Append(root, ToString(i)), Zero(t.elem), env)
               IN  IF ~r.ok THEN Result(FALSE, FALSE, s)
                   ELSE IF r.found THEN from(i + 1, Append(s, r.value))
                   ELSE Result(s # <<>>, TRUE, s)
         IN  from(0, v)

-----------------------------------------------------------------------------
(* What is expected.                                                       *)

\* Some key of t below root is set.
RECURSIVE Written(_, _, _)
Written(t, root, env) ==
  CASE t.kind = "prim" -> Present(env, root)
    [] t.kind = "struct" ->
         \E i \in DOMAIN t.fields :
           Written(t.fields[i].type, Append(root, t.fields[i].key), env)
    [] t.kind = "ptr" -> Written(t.elem, root, env)
    [] OTHER ->
         \/ t.kind = "bytes" /\ Present(env, root)
         \/ Written(t.elem, Append(root, "0"), env)

\* The indices of a slice up to its first gap.
Indices(t, root, env) ==
  {i \in 0 .. Cardinality(DOMAIN env) :
     \A j \in 0 .. i : Written(t.elem, Append(root, ToString(j)), env)}

\* Each key that is set is in the value, and the rest of it is as before.
RECURSIVE Expected(_, _, _, _)
Expected(t, root, v, env) ==
  CASE t.kind = "prim" -> TextOr(env, root, v)
    [] t.kind = "struct" ->
         [k \in DOMAIN v |->
            LET f == CHOOSE f \in {t.fields[i] : i \in DOMAIN t.fields} : f.key = k
            IN  Expected(f.type, Append(root, k), v[k], env)]
    [] t.kind = "ptr" ->
         IF Written(t, root, env) THEN <<Expected(t.elem, root, Zero(t.elem), env)>>
         ELSE v
    [] t.kind = "bytes" /\ Present(env, root) -> <<env[root]>>
    [] OTHER ->
         v \o [n \in 1 .. Cardinality(Indices(t, root, env)) |->
                 Expected(t.elem, Append(root, ToString(n - 1)), Zero(t.elem), env)]

\* The last field that is no pointer is set, in each structure on the way.
RECURSIVE Closed(_, _, _)
Closed(t, root, env) ==
  IF t.kind # "struct" THEN Written(t, root, env)
  ELSE \E i \in DOMAIN t.fields :
         /\ t.fields[i].type.kind # "ptr"
         /\ \A j \in DOMAIN t.fields : j > i => t.fields[j].type.kind = "ptr"
         /\ Closed(t.fields[i].type, Append(root, t.fields[i].key), env)

\* Each structure that may be left out, below a pointer or in a slice, is
\* closed if it is written.
RECURSIVE OptionalsClosed(_, _, _)
OptionalsClosed(t, root, env) ==
  CASE t.kind = "prim" -> TRUE
    [] t.kind = "struct" ->
         \A i \in DOMAIN t.fields :
           OptionalsClosed(t.fields[i].type, Append(root, t.fields[i].key), env)
    [] t.kind = "ptr" ->
         /\ Written(t, root, env) => Closed(t.elem, root, env)
         /\ OptionalsClosed(t.elem, root, env)
    [] OTHER ->
         \A i \in Indices(t, root, env) :
           /\ Closed(t.elem, Append(root, ToString(i)), env)
           /\ OptionalsClosed(t.elem, Append(root, ToString(i)), env)

\* Each key that is set below root, up to the first gap of a slice, parses.
RECURSIVE WellFormed(_, _, _)
WellFormed(t, root, env) ==
  CASE t.kind = "prim" -> Present(env, root) => Parses(t, env[root])
    [] t.kind = "struct" ->
         \A i \in DOMAIN t.fields :
           WellFormed(t.fields[i].type, Append(root, t.fields[i].key), env)
    [] t.kind = "ptr" -> WellFormed(t.elem, root, env)
    [] t.kind = "bytes" /\ Present(env, root) -> Parses(t.elem, env[root])
    [] OTHER ->
         \A i \in Indices(t, root, env) :
           WellFormed(t.elem, Append(root, ToString(i)), env)

=============================================================================
