--------------------------- MODULE ParamBindingProofs ---------------------------
(* Values arrive as they were meant, for any number of parameters and any types, *)
(* those included that the code has no spelling or no decoding for. Beside the     *)
(* account of the session, the argument is one of types: what the client encodes   *)
(* by and what Execute reads as are alike, or the value is a text.                 *)
EXTENDS ParamBinding, SequenceTheorems, WellFoundedInduction, TLAPS

-------------------------------------------------------------------------------
(* Ordinals *)

\* A set of numbers has a least one.
LEMMA LeastNumber ==
    ASSUME NEW T \in SUBSET Nat, T # {}
    PROVE  \E x \in T : \A y \in T : x <= y
  <1> DEFINE R == {ss \in Nat \X Nat : ss[1] < ss[2]}
  <1>1. IsWellFoundedOn(R, Nat)
    BY NatLessThanWellFounded DEF OpToRel
  <1>2. PICK x \in T : \A y \in T : ~ (<<y, x>> \in R)
    <2> HIDE DEF R
    <2> QED
      BY <1>1, WFMin
  <1>3. ASSUME NEW y \in T PROVE x <= y
    <2>1. x \in Nat /\ y \in Nat /\ ~ (y < x)
      BY <1>2
    <2> QED
      BY <2>1
  <1> QED
    BY <1>3

\* The highest of a bounded set of ordinals.
LEMMA HighestNumber ==
    ASSUME NEW b \in Nat, NEW S \in SUBSET (0..b), S # {}
    PROVE  Max(S) \in S /\ \A y \in S : Max(S) >= y
  <1> DEFINE T == {b - x : x \in S}
  <1>1. T \in SUBSET Nat /\ T # {}
    <2>1. \A x \in S : b - x \in Nat
      OBVIOUS
    <2>2. PICK x \in S : TRUE
      OBVIOUS
    <2>3. b - x \in T
      OBVIOUS
    <2> QED
      BY <2>1, <2>3
  <1>2. PICK m \in S : \A y \in T : b - m <= y
    BY <1>1, LeastNumber
  <1>3. \A y \in S : m >= y
    BY <1>2
  <1> QED
    BY <1>2, <1>3 DEF Max

\* There are as many inferred types as the highest ordinal says, gaps included.
LEMMA OrderedTypes ==
    ASSUME NEW p, DOMAIN p \subseteq 1..MaxParams
    PROVE  Len(OrderedParamTypes(p)) \in 0..MaxParams
  <1> DEFINE S == DOMAIN p \cup {0}
  <1>1. S \in SUBSET (0..MaxParams) /\ S # {}
    BY ParamsAssumption
  <1>2. Max(S) \in S
    <2> HIDE DEF S
    <2> QED
      BY <1>1, ParamsAssumption, HighestNumber
  <1>3. Max(S) \in 0..MaxParams
    BY <1>1, <1>2
  <1> QED
    BY <1>3, ParamsAssumption DEF OrderedParamTypes

\* What Describe answers: the longer of the two lists, declared types first.
LEMMA DescribedTypes ==
    ASSUME NEW decl, NEW inferred, Len(decl) \in Nat, Len(inferred) \in Nat
    PROVE  LET described_ == DescribeParameters(decl, inferred)
           IN /\ Len(described_) \in {Len(decl), Len(inferred)}
              /\ Len(inferred) <= Len(described_)
              /\ \A i \in 1..Len(inferred) :
                    described_[i] = IF i <= Len(decl) /\ decl[i] # "UNKNOWN"
                                    THEN decl[i] ELSE ArrowToPg(inferred[i])
  <1> DEFINE S == {Len(decl), Len(inferred)}
             n == Max(S)
  <1>1. n \in Nat /\ n \in {Len(decl), Len(inferred)} /\ Len(inferred) <= n
    <2> DEFINE b == Len(decl) + Len(inferred)
    <2>1. b \in Nat /\ S \in SUBSET (0..b) /\ S # {}
      OBVIOUS
    <2>2. n \in S /\ \A y \in S : n >= y
      <3> HIDE DEF S, b
      <3> QED
        BY <2>1, HighestNumber
    <2> QED
      BY <2>2 DEF S
  <1> DEFINE d == DescribeParameters(decl, inferred)
  <1>2. d = [i \in 1..n |-> IF i <= Len(decl) /\ decl[i] # "UNKNOWN" THEN decl[i]
                            ELSE IF i <= Len(inferred) THEN ArrowToPg(inferred[i])
                            ELSE "UNKNOWN"]
    BY DEF DescribeParameters
  <1> HIDE DEF n, d
  <1>3. Len(d) = n
    BY <1>1, <1>2
  <1>4. ASSUME NEW i \in 1..Len(inferred)
        PROVE  d[i] = IF i <= Len(decl) /\ decl[i] # "UNKNOWN"
                      THEN decl[i] ELSE ArrowToPg(inferred[i])
    BY <1>1, <1>2
  <1> QED
    BY <1>1, <1>3, <1>4 DEF d

-------------------------------------------------------------------------------
(* Types *)

\* A type that can be read is read as itself.
LEMMA ReadAsDeclared ==
    ASSUME NEW c, PgToArrow(c) # Untyped PROVE Alike(c, ReadAs(PgToArrow(c)))
  <1>1. c \in {"INT8", "INT4", "FLOAT8", "TEXT", "VARCHAR", "BYTEA"}
    BY DEF PgToArrow, Untyped
  <1> QED
    BY <1>1 DEF PgToArrow, ReadAs, ArrowToPg, Alike

\* A value is read as the type that was described for it.
LEMMA ReadAsDescribed == ASSUME NEW t PROVE Alike(ArrowToPg(t), ReadAs(t))
  BY DEF ReadAs, Alike

LEMMA AlikeIsMeant ==
    ASSUME NEW enc, NEW as, Alike(enc, as)
    PROVE  FromText(enc, as) = {"meant"} /\ FromBinary(enc, as) = {"meant"}
  BY DEF FromText, FromBinary

\* The text of a value of no known type is understood or refused.
LEMMA TextIsMeant ==
    ASSUME NEW t PROVE FromText("UNKNOWN", ReadAs(t)) \subseteq {"meant", "error"}
  BY DEF FromText, ReadAs, Alike

-------------------------------------------------------------------------------
(* The session *)

Inferred == OrderedParamTypes(placeholders)

Portal == phase \in {"bound", "executed", "refused"}

\* What Parse, Describe and Bind leave behind, and what Execute has made of it.
BindingInv ==
    /\ DOMAIN placeholders \subseteq 1..MaxParams
    /\ Len(declared) \in Nat
    /\ phase = "new" => described = << >>
    /\ described = << >> \/ described = DescribeParameters(declared, Inferred)
    /\ Portal =>
          /\ Len(sent) \in Nat
          /\ \A i \in 1..Len(sent) :
                sent[i].encoded = ClientType(i)
                    /\ (sent[i].encoded = "UNKNOWN" => sent[i].text)
    /\ phase = "executed" =>
          Arity = 0 \/ /\ Len(sent) = Arity
                       /\ \A i \in 1..Arity :
                             /\ scalars[i] \in {"meant", "other", "null"}
                             /\ scalars[i] \in Decoded(sent[i], i)
    /\ phase = "refused" =>
          Len(sent) # Arity \/ \E i \in 1..Arity : "error" \in Decoded(sent[i], i)

\* A new session has nothing to account for.
LEMMA InitBinding == Init => BindingInv
  BY DEF Init, BindingInv, Portal

\* Parse declares finitely many types.
LEMMA ParseBinding == ASSUME BindingInv, Parse PROVE BindingInv'
  <1>1. DOMAIN placeholders' \subseteq 1..MaxParams
    BY DEF Parse
  <1>2. Len(declared') \in Nat
    <2>1. PICK k \in 0..MaxParams : declared' \in [1..k -> PgTypes]
      BY DEF Parse, UpTo
    <2> QED
      BY <2>1, ParamsAssumption
  <1> QED
    BY <1>1, <1>2 DEF BindingInv, Parse, Portal

\* Describe answers from the statement alone.
LEMMA DescribeBinding == ASSUME BindingInv, Describe PROVE BindingInv'
  BY DEF BindingInv, Describe, Portal, Inferred

\* Bind takes values encoded as the client was told.
LEMMA BindBinding == ASSUME BindingInv, Bind PROVE BindingInv'
  <1>1. PICK k \in 0..MaxParams :
            sent' \in {s \in [1..k -> [encoded : PgTypes \cup {"VARCHAR"},
                                       text : BOOLEAN, null : BOOLEAN]] :
                         \A i \in 1..k : /\ s[i].encoded = ClientType(i)
                                         /\ s[i].encoded = "UNKNOWN" => s[i].text}
    BY DEF Bind
  <1>2. Len(sent') = k /\ k \in Nat
    BY <1>1, ParamsAssumption
  <1>3. \A i \in 1..Len(sent') :
            sent'[i].encoded = ClientType(i) /\ (sent'[i].encoded = "UNKNOWN" => sent'[i].text)
    BY <1>1, <1>2
  <1>4. \A i : ClientType(i)' = ClientType(i)
    BY DEF Bind, ClientType
  <1> QED
    BY <1>2, <1>3, <1>4 DEF BindingInv, Bind, Inferred

\* What is decoded, and how many values there are, is settled by Bind.
LEMMA Settled ==
    ASSUME UNCHANGED <<declared, placeholders, described, sent>>
    PROVE  /\ Arity' = Arity /\ Inferred' = Inferred
           /\ \A i : ClientType(i)' = ClientType(i)
           /\ \A raw, i : Decoded(raw, i)' = Decoded(raw, i)
  BY DEF Arity, Inferred, ClientType, Decoded, Expected

\* Execute decodes what Bind took, or refuses it.
LEMMA ExecuteBinding ==
    ASSUME BindingInv, ExecuteUnbound \/ WrongCount \/ Undecodable \/ Execute
    PROVE  BindingInv'
  <1>1. UNCHANGED <<declared, placeholders, described, sent>> /\ phase = "bound"
    BY DEF ExecuteUnbound, WrongCount, Undecodable, Execute, Refuse
  <1>2. CASE ExecuteUnbound
    BY <1>1, <1>2, Settled DEF BindingInv, ExecuteUnbound, Portal
  <1>3. CASE WrongCount \/ Undecodable
    BY <1>1, <1>3, Settled DEF BindingInv, WrongCount, Undecodable, Refuse, Portal
  <1>4. CASE Execute
    <2>1. \A i \in 1..Arity : /\ scalars'[i] \in {"meant", "other", "null"}
                              /\ scalars'[i] \in Decoded(sent[i], i)
      BY <1>4 DEF Execute
    <2> QED
      BY <1>1, <1>4, <2>1, Settled DEF BindingInv, Execute, Portal
  <1> QED
    BY <1>2, <1>3, <1>4

\* Every step preserves the account.
LEMMA StepBinding == BindingInv /\ [Next]_vars => BindingInv'
  <1>1. ASSUME BindingInv, UNCHANGED vars PROVE BindingInv'
    BY <1>1, Settled DEF BindingInv, vars, Portal
  <1> QED
    BY <1>1, ParseBinding, DescribeBinding, BindBinding, ExecuteBinding DEF Next

\* The account of the session.
THEOREM BindingInvariant == Spec => []BindingInv
  BY InitBinding, StepBinding, PTL DEF Spec

\* A statement has as many parameters as types were inferred.
LEMMA Lengths ==
    ASSUME BindingInv PROVE Len(Inferred) \in Nat /\ Arity = Len(Inferred)
  BY OrderedTypes, ParamsAssumption DEF BindingInv, Inferred, Arity

\* Where declared and inferred types agree, a value that was encoded as described is
\* read as it was encoded.
LEMMA DescribedIsAlike ==
    ASSUME BindingInv, NEW i \in 1..Arity, Agreed(i),
           described # << >> \/ (i <= Len(declared) /\ declared[i] # "UNKNOWN")
    PROVE  Alike(ClientType(i), ReadAs(Expected(i)))
  <1>1. CASE i <= Len(declared) /\ declared[i] # "UNKNOWN"
    <2>1. Expected(i) # Untyped /\ Expected(i) = PgToArrow(declared[i])
      BY <1>1, Lengths DEF Agreed, BindingInv
    <2>2. ClientType(i) = declared[i]
      BY <1>1, Lengths, DescribedTypes DEF BindingInv, ClientType
    <2> QED
      BY <2>1, <2>2, ReadAsDeclared
  <1>2. CASE ~ (i <= Len(declared) /\ declared[i] # "UNKNOWN")
    <2>1. ClientType(i) = ArrowToPg(Inferred[i])
      BY <1>2, Lengths, DescribedTypes DEF BindingInv, ClientType
    <2>2. Expected(i) = Inferred[i]
      BY <1>2 DEF Expected, Inferred, PgToArrow, Untyped
    <2> QED
      BY <2>1, <2>2, ReadAsDescribed
  <1> QED
    BY <1>1, <1>2

\* So the value itself arrives, or NULL.
LEMMA DescribedDecodes ==
    ASSUME BindingInv, NEW i \in 1..Arity, Agreed(i), Portal, Len(sent) = Arity,
           described # << >> \/ (i <= Len(declared) /\ declared[i] # "UNKNOWN")
    PROVE  Decoded(sent[i], i) \subseteq {"meant", "null"}
  <1>1. sent[i].encoded = ClientType(i)
    BY DEF BindingInv
  <1> QED
    BY <1>1, DescribedIsAlike, AlikeIsMeant DEF Decoded

\* Clients that leave the types to inference, or declare what it finds, have the
\* statement run with the values they meant.
THEOREM UndeclaredArrive == Spec => []UndeclaredBindCorrectly
  <1>1. ASSUME BindingInv, phase = "executed", NEW i \in 1..Arity, Agreed(i)
        PROVE  Arrives(i)
    <2>1. /\ Portal /\ Len(sent) = Arity
          /\ scalars[i] \in {"meant", "other", "null"}
          /\ scalars[i] \in Decoded(sent[i], i)
      BY <1>1, Lengths DEF BindingInv, Portal
    <2>2. CASE described # << >> \/ (i <= Len(declared) /\ declared[i] # "UNKNOWN")
      BY <1>1, <2>1, <2>2, DescribedDecodes DEF Arrives
    <2>3. CASE ~ (described # << >> \/ (i <= Len(declared) /\ declared[i] # "UNKNOWN"))
      <3>1. ClientType(i) = "UNKNOWN"
        <4>1. described = << >> /\ ~ (i <= Len(declared) /\ declared[i] # "UNKNOWN")
          BY <2>3
        <4>2. Len(described) = 0 /\ ~ (i <= Len(described))
          BY <1>1, <4>1, Lengths
        <4>3. ClientType(i) = IF i <= Len(declared) THEN declared[i] ELSE "UNKNOWN"
          BY <4>2 DEF ClientType
        <4> QED
          BY <4>1, <4>3
      <3>2. sent[i].text /\ sent[i].encoded = "UNKNOWN"
        BY <1>1, <2>1, <3>1 DEF BindingInv
      <3>3. Decoded(sent[i], i) \subseteq {"meant", "error", "null"}
        BY <3>2, TextIsMeant DEF Decoded
      <3> QED
        BY <2>1, <3>3 DEF Arrives
    <2> QED
      BY <2>2, <2>3
  <1>2. BindingInv => UndeclaredBindCorrectly
    BY <1>1 DEF UndeclaredBindCorrectly
  <1> QED
    BY <1>2, BindingInvariant, PTL

\* A client that encodes what Describe told it, and declared nothing else, is never
\* refused.
THEOREM DescribedAccepted == Spec => []DescribedIsAccepted
  <1>1. ASSUME BindingInv, phase = "refused", described # << >>,
               Len(sent) = Len(described), Len(declared) <= Arity,
               \A i \in 1..Arity : Agreed(i)
        PROVE  FALSE
    <2>1. Len(sent) = Arity
      BY <1>1, Lengths, DescribedTypes DEF BindingInv
    <2>2. PICK i \in 1..Arity : "error" \in Decoded(sent[i], i)
      BY <1>1, <2>1 DEF BindingInv
    <2>3. Portal
      BY <1>1 DEF Portal
    <2>4. Agreed(i)
      BY <1>1, <2>2
    <2>5. Decoded(sent[i], i) \subseteq {"meant", "null"}
      BY <1>1, <2>1, <2>2, <2>3, <2>4, DescribedDecodes
    <2> QED
      BY <2>2, <2>5
  <1>2. BindingInv => DescribedIsAccepted
    BY <1>1 DEF DescribedIsAccepted
  <1> QED
    BY <1>2, BindingInvariant, PTL
-------------------------------------------------------------------------------
(* Types of the session *)

Described == PgTypes \cup {"VARCHAR"}

\* The inductive part of the type invariant: nothing is bound to the plan before it
\* runs, and then as many values as it has parameters.
SessionTypes ==
    /\ phase \in {"new", "parsed", "bound", "executed", "refused"}
    /\ declared \in UpTo(PgTypes)
    /\ placeholders \in UNION {[D -> ArrowTypes] : D \in SUBSET (1..MaxParams)}
    /\ described \in UpTo(Described)
    /\ Len(sent) \in 0..MaxParams
    /\ phase # "executed" => scalars = << >>
    /\ phase = "executed" => Len(scalars) = Arity

\* The sequences up to a length that the bound allows.
LEMMA UpToFacts ==
    ASSUME NEW S, NEW s
    PROVE  s \in UpTo(S) <=> \E k \in 0..MaxParams : s \in [1..k -> S]
  BY DEF UpTo

\* No types at all are declared, described or inferred before Parse.
LEMMA NothingDeclared ==
    /\ \A S : << >> \in UpTo(S)
    /\ << >> \in UNION {[D -> ArrowTypes] : D \in SUBSET (1..MaxParams)}
  <1>1. 0 \in 0..MaxParams
    BY ParamsAssumption
  <1>2. \A S : << >> \in [1..0 -> S]
    OBVIOUS
  <1>3. << >> \in [{} -> ArrowTypes]
    OBVIOUS
  <1> QED
    BY <1>1, <1>2, <1>3, UpToFacts

\* Describe reports types that a client can encode by, one per parameter at most.
LEMMA DescribedKnown ==
    ASSUME NEW decl \in UpTo(PgTypes),
           NEW p \in UNION {[D -> ArrowTypes] : D \in SUBSET (1..MaxParams)}
    PROVE  DescribeParameters(decl, OrderedParamTypes(p)) \in UpTo(Described)
  <1> DEFINE inferred == OrderedParamTypes(p)
             n == Max({Len(decl), Len(inferred)})
  <1>1. PICK D \in SUBSET (1..MaxParams) : p \in [D -> ArrowTypes]
    OBVIOUS
  <1>2. DOMAIN p \subseteq 1..MaxParams /\ \A i \in DOMAIN p : p[i] \in ArrowTypes
    BY <1>1
  <1>3. Len(inferred) \in 0..MaxParams
    BY <1>2, OrderedTypes
  <1>4. \A i \in 1..Len(inferred) : inferred[i] \in ArrowTypes \cup {Untyped}
    <2>1. /\ inferred = [i \in 1..Max(DOMAIN p \cup {0}) |->
                            IF i \in DOMAIN p THEN p[i] ELSE Untyped]
          /\ Max(DOMAIN p \cup {0}) \in 0..MaxParams
      <3> DEFINE S == DOMAIN p \cup {0}
      <3>1. S \in SUBSET (0..MaxParams) /\ S # {}
        BY <1>2, ParamsAssumption
      <3>2. Max(S) \in S
        <4> HIDE DEF S
        <4> QED
          BY <3>1, ParamsAssumption, HighestNumber
      <3> QED
        BY <3>1, <3>2 DEF OrderedParamTypes
    <2>2. Len(inferred) = Max(DOMAIN p \cup {0})
      BY <2>1, ParamsAssumption
    <2> HIDE DEF inferred
    <2> QED
      BY <1>2, <2>1, <2>2
  <1>5. \A t \in ArrowTypes \cup {Untyped} : ArrowToPg(t) \in Described
    <2>1. ArrowToPg(Untyped) = "UNKNOWN"
      BY DEF ArrowToPg, Untyped
    <2> QED
      BY <2>1, TypesAssumption DEF Described
  <1>6. PICK k \in 0..MaxParams : decl \in [1..k -> PgTypes]
    BY UpToFacts
  <1>7. Len(decl) \in 0..MaxParams /\ \A i \in 1..Len(decl) : decl[i] \in PgTypes
    BY <1>6, ParamsAssumption
  <1> HIDE DEF inferred
  <1>8. n \in 0..MaxParams
    <2> DEFINE S == {Len(decl), Len(inferred)}
    <2>1. S \in SUBSET (0..MaxParams) /\ S # {}
      BY <1>3, <1>7
    <2>2. Max(S) \in S
      <3> HIDE DEF S
      <3> QED
        BY <2>1, ParamsAssumption, HighestNumber
    <2> QED
      BY <2>1, <2>2
  <1> HIDE DEF n
  <1>9. DescribeParameters(decl, inferred) =
            [i \in 1..n |->
                IF i <= Len(decl) /\ decl[i] # "UNKNOWN" THEN decl[i]
                ELSE IF i <= Len(inferred) THEN ArrowToPg(inferred[i]) ELSE "UNKNOWN"]
    BY DEF DescribeParameters, n
  <1>10. DescribeParameters(decl, inferred) \in [1..n -> Described]
    <2>1. ASSUME NEW i \in 1..n
          PROVE  (IF i <= Len(decl) /\ decl[i] # "UNKNOWN" THEN decl[i]
                  ELSE IF i <= Len(inferred) THEN ArrowToPg(inferred[i])
                  ELSE "UNKNOWN") \in Described
      <3>1. i \in Nat /\ i >= 1 /\ Len(decl) \in Int /\ Len(inferred) \in Int
        BY <1>3, <1>7, <1>8
      <3>2. i <= Len(decl) => decl[i] \in PgTypes
        BY <1>7, <3>1
      <3>3. i <= Len(inferred) => ArrowToPg(inferred[i]) \in Described
        BY <1>4, <1>5, <3>1
      <3>4. "UNKNOWN" \in Described /\ PgTypes \subseteq Described
        BY TypesAssumption DEF Described
      <3> QED
        BY <3>2, <3>3, <3>4
    <2> QED
      BY <1>9, <2>1
  <1> QED
    BY <1>8, <1>10, UpToFacts DEF inferred

\* The types hold initially and every step preserves them.
LEMMA SessionTypesHold == Spec => []SessionTypes
  <1>1. Init => SessionTypes
    BY NothingDeclared, ParamsAssumption DEF Init, SessionTypes
  <1>2. ASSUME SessionTypes, [Next]_vars PROVE SessionTypes'
    <2>1. CASE Parse
      BY <1>2, <2>1 DEF SessionTypes, Parse
    <2>2. CASE Describe
      BY <1>2, <2>2, DescribedKnown DEF SessionTypes, Describe
    <2>3. CASE Bind
      <3>1. Len(sent') \in 0..MaxParams
        <4>1. PICK k \in 0..MaxParams :
                sent' \in [1..k -> [encoded : PgTypes \cup {"VARCHAR"},
                                     text : BOOLEAN, null : BOOLEAN]]
          BY <2>3 DEF Bind
        <4> QED
          BY <4>1, ParamsAssumption
      <3> QED
        BY <1>2, <2>3, <3>1 DEF SessionTypes, Bind
    <2>4. CASE WrongCount \/ Undecodable
      BY <1>2, <2>4 DEF SessionTypes, WrongCount, Undecodable, Refuse
    <2>5. CASE ExecuteUnbound \/ Execute
      <3>1. Arity' = Arity /\ Arity \in Nat
        <4>1. DOMAIN placeholders \subseteq 1..MaxParams
          BY <1>2 DEF SessionTypes
        <4> QED
          BY <2>5, <4>1, OrderedTypes, ParamsAssumption
          DEF ExecuteUnbound, Execute, Arity
      <3>2. Len(scalars') = Arity
        BY <1>2, <2>5, <3>1 DEF SessionTypes, ExecuteUnbound, Execute
      <3> QED
        BY <1>2, <2>5, <3>1, <3>2 DEF SessionTypes, ExecuteUnbound, Execute
    <2>6. CASE UNCHANGED vars
      BY <1>2, <2>6 DEF SessionTypes, vars, Arity
    <2> QED
      BY <1>2, <2>1, <2>2, <2>3, <2>4, <2>5, <2>6 DEF Next
  <1> QED
    BY <1>1, <1>2, PTL DEF Spec

\* A statement runs with a value for each of its ordinals, never more or fewer.
THEOREM BindingTypes == Spec => []BindingTypeOK
  <1>1. SessionTypes => BindingTypeOK
    <2> SUFFICES ASSUME SessionTypes PROVE BindingTypeOK
      OBVIOUS
    <2>1. DOMAIN placeholders \subseteq 1..MaxParams
      BY DEF SessionTypes
    <2>2. Len(sent) <= MaxParams
      BY ParamsAssumption DEF SessionTypes
    <2> QED
      BY <2>1, <2>2 DEF SessionTypes, BindingTypeOK, Described
  <1> QED
    BY <1>1, SessionTypesHold, PTL
===============================================================================
