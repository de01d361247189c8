------------------------------ MODULE ParamBinding ------------------------------
(* A prepared statement of the extended query protocol (src/server.rs): Parse   *)
(* declares parameter types, Describe reports the types of the parameters, Bind *)
(* sends values encoded by the client, Execute decodes them against the types   *)
(* that the engine inferred (src/datafusion_engine.rs) and runs the statement.  *)
(* A value is known by how it was encoded; once decoded, it is the value that   *)
(* the client meant, another one, or NULL.                                      *)
EXTENDS Integers, Sequences, FiniteSets, FiniteSetsExt

CONSTANTS MaxParams,    \* bound: placeholder ordinals, declared types and values
          PgTypes,      \* types a client declares, UNKNOWN among them
          ArrowTypes    \* types the engine infers, Untyped among them

ASSUME ParamsAssumption == MaxParams \in Nat

VARIABLES phase,        \* "new", "parsed", "bound", "executed", "refused"
          declared,     \* parameter types of Parse
          placeholders, \* ordinals in the statement, with the type inferred
          described,    \* what Describe answered, << >> before
          sent,         \* the portal's parameters: [encoded, text, null]
          scalars       \* values bound to the plan: [type, value]

vars == <<phase, declared, placeholders, described, sent, scalars>>

Untyped == "Untyped"

-------------------------------------------------------------------------------
(* Types *)

\* arrow_to_pg_type; a type without a PostgreSQL spelling is reported UNKNOWN.
ArrowToPg(t) ==
    CASE t = "Int64" -> "INT8" [] t = "Int32" -> "INT4" [] t = "Float64" -> "FLOAT8"
      [] t = "Utf8" -> "VARCHAR" [] t = "Binary" -> "BYTEA" [] OTHER -> "UNKNOWN"

\* A client may declare no type, and any type that Describe reports.
ASSUME TypesAssumption ==
    /\ "UNKNOWN" \in PgTypes
    /\ \A t \in ArrowTypes : ArrowToPg(t) \in PgTypes \cup {"VARCHAR"}

\* pg_type_to_arrow; UNKNOWN and the types that cannot be read give none.
PgToArrow(t) ==
    CASE t = "INT8" -> "Int64" [] t = "INT4" -> "Int32" [] t = "FLOAT8" -> "Float64"
      [] t \in {"TEXT", "VARCHAR"} -> "Utf8" [] t = "BYTEA" -> "Binary"
      [] OTHER -> Untyped

\* ordered_param_types: sized to the highest ordinal, gaps untyped.
OrderedParamTypes(p) ==
    [i \in 1..Max(DOMAIN p \cup {0}) |-> IF i \in DOMAIN p THEN p[i] ELSE Untyped]

\* Variant: declared types, if there are any, are all that is described.
DescribeDeclared(decl, inferred) ==
    IF decl # << >> THEN decl ELSE [i \in DOMAIN inferred |-> ArrowToPg(inferred[i])]

\* describe_parameters: the longer of the two, declared types first.
DescribeParameters(decl, inferred) ==
    [i \in 1..Max({Len(decl), Len(inferred)}) |->
        IF i <= Len(decl) /\ decl[i] # "UNKNOWN" THEN decl[i]
        ELSE IF i <= Len(inferred) THEN ArrowToPg(inferred[i]) ELSE "UNKNOWN"]

\* Variant: what was inferred is not looked at.
DeclaredOnly(i) ==
    IF i <= Len(declared) THEN PgToArrow(declared[i]) ELSE Untyped

\* decode_portal_params: inferred by the engine, else declared, else text.
Expected(i) ==
    LET inferred == OrderedParamTypes(placeholders)[i]
    IN IF inferred # Untyped THEN inferred
       ELSE IF i <= Len(declared) THEN PgToArrow(declared[i]) ELSE Untyped

-------------------------------------------------------------------------------
(* Values *)

Width == [INT8 |-> 8, FLOAT8 |-> 8, INT4 |-> 4]

\* The wire type that decode_scalar_value reads; all that is left is text.
ReadAs(t) == IF ArrowToPg(t) = "UNKNOWN" THEN "VARCHAR" ELSE ArrowToPg(t)

Alike(t, u) == t = u \/ {t, u} \subseteq {"TEXT", "VARCHAR", "UNKNOWN"}

\* The possible results of parsing the text of a value of one type as another. A
\* client that knows no type spells the value as its type would.
FromText(enc, as) ==
    IF Alike(enc, as) THEN {"meant"}
    ELSE IF as = "VARCHAR" THEN IF enc = "BYTEA" THEN {"other"} ELSE {"meant"}
    ELSE IF Alike(enc, "TEXT") \/ as \in {"INT4", "INT8"} THEN {"meant", "error"}
    ELSE {"meant", "other", "error"}

\* The possible results of reading the binary encoding of one type as another. Two
\* types of one width are taken for each other; of another width they are refused.
FromBinary(enc, as) ==
    IF Alike(enc, as) THEN {"meant"}
    ELSE IF as = "BYTEA" THEN {"other"}
    ELSE IF enc \in DOMAIN Width /\ as \in DOMAIN Width
         THEN IF Width[enc] = Width[as] THEN {"other"} ELSE {"error"}
         ELSE {"other", "error"}

\* decode_portal_param, null_scalar, decode_scalar_value
Decoded(raw, i) ==
    IF raw.null THEN {"null"}
    ELSE IF raw.text THEN FromText(raw.encoded, ReadAs(Expected(i)))
    ELSE FromBinary(raw.encoded, ReadAs(Expected(i)))

-------------------------------------------------------------------------------
(* The session *)

UpTo(S) == UNION {[1..k -> S] : k \in 0..MaxParams}

Init ==
    /\ phase = "new"
    /\ declared = << >>
    /\ placeholders = << >>
    /\ described = << >>
    /\ sent = << >>
    /\ scalars = << >>

\* The statement may skip ordinals, and more or fewer types than it has parameters
\* may be declared.
Parse ==
    /\ phase = "new"
    /\ declared' \in UpTo(PgTypes)
    /\ placeholders' \in UNION {[D -> ArrowTypes] : D \in SUBSET (1..MaxParams)}
    /\ phase' = "parsed"
    /\ UNCHANGED <<described, sent, scalars>>

\* do_describe_statement
Describe ==
    /\ phase = "parsed"
    /\ described' = DescribeParameters(declared, OrderedParamTypes(placeholders))
    /\ UNCHANGED <<phase, declared, placeholders, sent, scalars>>

\* The client (external) encodes by the type described to it, else by the one it
\* declared; a value of no known type can only be sent as text.
ClientType(i) ==
    IF i <= Len(described) THEN described[i]
    ELSE IF i <= Len(declared) THEN declared[i] ELSE "UNKNOWN"

Bind ==
    /\ phase = "parsed"
    /\ \E k \in 0..MaxParams :
        sent' \in {s \in [1..k -> [encoded : PgTypes \cup {"VARCHAR"}, text : BOOLEAN,
                                   null : BOOLEAN]] :
                    \A i \in 1..k : /\ s[i].encoded = ClientType(i)
                                    /\ s[i].encoded = "UNKNOWN" => s[i].text}
    /\ phase' = "bound"
    /\ UNCHANGED <<declared, placeholders, described, scalars>>

Arity == Len(OrderedParamTypes(placeholders))

Refuse ==
    /\ phase' = "refused"
    /\ UNCHANGED <<declared, placeholders, described, sent, scalars>>

\* Without values the engine (external) refuses a plan that has placeholders.
ExecuteUnbound ==
    /\ phase = "bound" /\ sent = << >> /\ Arity = 0
    /\ phase' = "executed"
    /\ UNCHANGED <<declared, placeholders, described, sent, scalars>>

WrongCount ==
    /\ phase = "bound" /\ Len(sent) # Arity
    /\ Refuse

Undecodable ==
    /\ phase = "bound" /\ Len(sent) = Arity
    /\ \E i \in 1..Arity : "error" \in Decoded(sent[i], i)
    /\ Refuse

\* Variant: the values sent are bound, whatever their number.
ExecuteAnyCount ==
    /\ phase = "bound" /\ sent # << >>
    /\ scalars' \in [DOMAIN sent -> {"meant", "other", "null"}]
    /\ \A i \in DOMAIN sent \cap 1..Arity : scalars'[i] \in Decoded(sent[i], i)
    /\ phase' = "executed"
    /\ UNCHANGED <<declared, placeholders, described, sent>>

Execute ==
    /\ phase = "bound" /\ sent # << >> /\ Len(sent) = Arity
    /\ scalars' \in [1..Arity -> {"meant", "other", "null"}]
    /\ \A i \in 1..Arity : scalars'[i] \in Decoded(sent[i], i)
    /\ phase' = "executed"
    /\ UNCHANGED <<declared, placeholders, described, sent>>

Next ==
    Parse \/ Describe \/ Bind \/ ExecuteUnbound \/ WrongCount \/ Undecodable \/ Execute

Spec == Init /\ [][Next]_vars

-------------------------------------------------------------------------------
(* Properties *)

\* Type invariant; a statement runs with a value for each of its ordinals, never
\* with more or fewer (decode_portal_params).
BindingTypeOK ==
    /\ phase \in {"new", "parsed", "bound", "executed", "refused"}
    /\ declared \in UpTo(PgTypes)
    /\ DOMAIN placeholders \subseteq 1..MaxParams
    /\ described \in UpTo(PgTypes \cup {"VARCHAR"})
    /\ Len(sent) <= MaxParams
    /\ phase = "executed" => Len(scalars) = Arity

Arrives(i) == scalars[i] \in {"meant", "null"}

\* The type declared is none, or the one the value will be decoded with.
Agreed(i) ==
    \/ i > Len(declared)
    \/ declared[i] = "UNKNOWN"
    \/ Untyped # Expected(i) /\ Expected(i) = PgToArrow(declared[i])

\* "Clients that leave parameter OIDs unspecified still bind correctly": the plan
\* is run with the values the client meant, in whatever format it sent them, and
\* also when it declared the types that inference finds (src/server.rs:196-198).
UndeclaredBindCorrectly ==
    phase = "executed" => \A i \in 1..Arity : Agreed(i) => Arrives(i)

\* A client that does what Describe told it, one value for each parameter described
\* and encoded by the type described, is not refused, unless it declared types on
\* its own (describe_parameters against decode_portal_params).
DescribedIsAccepted ==
    phase = "refused" =>
        ~ /\ described # << >>
          /\ Len(sent) = Len(described)
          /\ Len(declared) <= Arity
          /\ \A i \in 1..Arity : Agreed(i)

\* "Client-declared OIDs win" in what Describe answers (src/server.rs:157, 265): a
\* value encoded as the client declared it and as Describe confirmed is the value the
\* plan is run with, although Execute puts the inferred type first (427).
DeclaredTypesWin ==
    phase = "executed" /\ described # << >> => \A i \in 1..Arity : Arrives(i)
===============================================================================
