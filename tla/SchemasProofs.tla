----------------------------- MODULE SchemasProofs -----------------------------
(***************************************************************************)
(* How schemas compose, for any schemas and payloads.  What a schema says   *)
(* of a payload comes apart into what it demands (Fulfils) and which fields *)
(* it knows: of both, AllOf has the conjunction and the union over its      *)
(* parts, also where several parts know a field.                            *)
(***************************************************************************)
EXTENDS Schemas, FiniteSetTheorems, TLAPS

\* The payload has what the schema demands, whatever the values of the fields
\* in "spared", and whether or not it has other fields.
Fulfils(s, payload, spared) ==
    /\ s.required \subseteq DOMAIN payload
    /\ \A f \in (DOMAIN payload \cap DOMAIN s.fields) \ spared : payload[f] \in s.fields[f]
    /\ \A c \in s.choices : Settles(c, payload)

\* The fields the schema defines.
Knows(s) == DOMAIN s.fields

\* Validity is fulfilment of all demands and no field beyond those known.
LEMMA ValidIsFulfilled ==
    ASSUME NEW s, NEW payload
    PROVE  Valid(s, payload) <=> Fulfils(s, payload, {}) /\ DOMAIN payload \subseteq Knows(s)
BY DEF Valid, Fulfils, Knows

\* An object schema has no choices.
LEMMA ObjectFulfilled ==
    ASSUME NEW required, NEW fields, NEW payload, NEW spared
    PROVE  Fulfils(Object(required, fields), payload, spared) <=>
             /\ required \subseteq DOMAIN payload
             /\ \A f \in (DOMAIN payload \cap DOMAIN fields) \ spared : payload[f] \in fields[f]
BY DEF Fulfils, Object

\* Without required fields, only the values of those present are asked for.
LEMMA OptionalFulfilled ==
    ASSUME NEW fields, NEW payload, NEW spared
    PROVE  Fulfils(Optional(fields), payload, spared) <=>
             \A f \in (DOMAIN payload \cap DOMAIN fields) \ spared : payload[f] \in fields[f]
BY ObjectFulfilled DEF Optional

\* An object schema knows the fields it is given,
LEMMA ObjectKnows ==
    ASSUME NEW required, NEW fields
    PROVE  Knows(Object(required, fields)) = DOMAIN fields /\ Knows(Optional(fields)) = DOMAIN fields
BY DEF Knows, Object, Optional

\* and none if it is given none.
LEMMA NothingKnown == Knows(Optional(<<>>)) = {}
<1>1. DOMAIN <<>> = {}
  OBVIOUS
<1> QED
  BY <1>1, ObjectKnows

\* A record of the three things a schema is made of.
IsSchema(s) == {"required", "fields", "choices"} \subseteq DOMAIN s

\* Object and AllOf make schemas.
LEMMA TheyAreSchemas ==
    /\ \A required, fields : IsSchema(Object(required, fields))
    /\ \A S : IsSchema(AllOf(S))
BY DEF IsSchema, Object, AllOf

\* allOf knows what some part knows.
LEMMA AllOfKnows ==
    ASSUME NEW S, NEW f
    PROVE  f \in Knows(AllOf(S)) <=> \E s \in S : f \in Knows(s)
BY DEF Knows, AllOf

\* The values allOf allows a field: those that each part that knows it allows.
LEMMA AllOfValues ==
    ASSUME NEW S, NEW f \in Knows(AllOf(S)), NEW v
    PROVE  v \in AllOf(S).fields[f] <=> \A s \in S : f \in Knows(s) => v \in s.fields[f]
<1> DEFINE about == {s \in S : f \in DOMAIN s.fields}
<1>1. \E s \in about : TRUE
  BY AllOfKnows DEF Knows
<1>2. (CHOOSE s \in about : TRUE) \in about
  BY <1>1
<1>3. AllOf(S).fields[f] =
        {w \in (CHOOSE s \in about : TRUE).fields[f] : \A s \in about : w \in s.fields[f]}
  BY DEF AllOf, Knows
<1>4. v \in AllOf(S).fields[f] <=> \A s \in about : v \in s.fields[f]
  BY <1>2, <1>3
<1> QED
  BY <1>4 DEF Knows

\* allOf demands what all its parts demand.
LEMMA AllOfFulfilled ==
    ASSUME NEW S, NEW payload, NEW spared
    PROVE  Fulfils(AllOf(S), payload, spared) <=> \A s \in S : Fulfils(s, payload, spared)
<1>1. AllOf(S).required \subseteq DOMAIN payload <=>
        \A s \in S : s.required \subseteq DOMAIN payload
  BY DEF AllOf
<1>2. (\A c \in AllOf(S).choices : Settles(c, payload)) <=>
        \A s \in S : \A c \in s.choices : Settles(c, payload)
  BY DEF AllOf
<1>3. (\A f \in (DOMAIN payload \cap DOMAIN AllOf(S).fields) \ spared :
          payload[f] \in AllOf(S).fields[f]) <=>
        \A s \in S : \A f \in (DOMAIN payload \cap DOMAIN s.fields) \ spared :
            payload[f] \in s.fields[f]
  <2>1. ASSUME \A f \in (DOMAIN payload \cap DOMAIN AllOf(S).fields) \ spared :
                  payload[f] \in AllOf(S).fields[f],
               NEW s \in S, NEW f \in (DOMAIN payload \cap DOMAIN s.fields) \ spared
        PROVE  payload[f] \in s.fields[f]
    <3>1. f \in Knows(AllOf(S))
      BY AllOfKnows DEF Knows
    <3>2. payload[f] \in AllOf(S).fields[f]
      BY <2>1, <3>1 DEF Knows
    <3> QED
      BY <3>1, <3>2, AllOfValues DEF Knows
  <2>2. ASSUME \A s \in S : \A f \in (DOMAIN payload \cap DOMAIN s.fields) \ spared :
                  payload[f] \in s.fields[f],
               NEW f \in (DOMAIN payload \cap DOMAIN AllOf(S).fields) \ spared
        PROVE  payload[f] \in AllOf(S).fields[f]
    <3>1. f \in Knows(AllOf(S))
      BY DEF Knows
    <3>2. \A s \in S : f \in Knows(s) => payload[f] \in s.fields[f]
      BY <2>2 DEF Knows
    <3> QED
      BY <3>1, <3>2, AllOfValues
  <2> QED
    BY <2>1, <2>2
<1> QED
  BY <1>1, <1>2, <1>3 DEF Fulfils

\* allOf of two parts.
LEMMA AllOfTwo ==
    ASSUME NEW a, NEW b
    PROVE  /\ \A payload, spared :
                 Fulfils(AllOf({a, b}), payload, spared) <=>
                     Fulfils(a, payload, spared) /\ Fulfils(b, payload, spared)
           /\ Knows(AllOf({a, b})) = Knows(a) \cup Knows(b)
<1>1. \A payload, spared :
         Fulfils(AllOf({a, b}), payload, spared) <=>
             Fulfils(a, payload, spared) /\ Fulfils(b, payload, spared)
  BY AllOfFulfilled
<1>2. \A f : f \in Knows(AllOf({a, b})) <=> f \in Knows(a) \/ f \in Knows(b)
  BY AllOfKnows
<1> QED
  BY <1>1, <1>2

\* allOf is conjunction: it accepts a payload when every part finds its
\* demands met, and every field is known to some part.
THEOREM AllOfIsConjunction ==
    ASSUME NEW S, NEW payload
    PROVE  Valid(AllOf(S), payload) <=>
             /\ \A s \in S : Fulfils(s, payload, {})
             /\ \A f \in DOMAIN payload : \E s \in S : f \in Knows(s)
BY ValidIsFulfilled, AllOfFulfilled, AllOfKnows

\* The schema of a choice: it demands nothing else and knows no field.
LEMMA OneOfSchema ==
    ASSUME NEW alternatives
    PROVE  /\ OneOf(alternatives).required = {}
           /\ OneOf(alternatives).choices = {[one |-> TRUE, of |-> alternatives]}
           /\ Knows(OneOf(alternatives)) = {}
<1>1. Optional(<<>>) = [required |-> {}, fields |-> <<>>, choices |-> {}]
  BY DEF Optional, Object
<1>2. OneOf(alternatives).fields = <<>>
  BY <1>1 DEF OneOf
<1>3. DOMAIN <<>> = {}
  OBVIOUS
<1> QED
  BY <1>1, <1>2, <1>3 DEF OneOf, Knows

\* An anyOf demands no field, knows none and has one choice.
LEMMA AnyOfSchema ==
    ASSUME NEW alternatives
    PROVE  /\ AnyOf(alternatives).required = {}
           /\ AnyOf(alternatives).choices = {[one |-> FALSE, of |-> alternatives]}
           /\ Knows(AnyOf(alternatives)) = {}
<1>1. Optional(<<>>) = [required |-> {}, fields |-> <<>>, choices |-> {}]
  BY DEF Optional, Object
<1>2. AnyOf(alternatives).fields = <<>>
  BY <1>1 DEF AnyOf
<1>3. DOMAIN <<>> = {}
  OBVIOUS
<1> QED
  BY <1>1, <1>2, <1>3 DEF AnyOf, Knows

\* oneOf between two alternatives: the payload fits one and not the other.
LEMMA OneOfTwo ==
    ASSUME NEW a, NEW b, a # b, NEW payload, NEW spared
    PROVE  Fulfils(OneOf({a, b}), payload, spared) <=> ~(Fits(a, payload) <=> Fits(b, payload))
<1> DEFINE fitting == {x \in {a, b} : Fits(x, payload)}
<1>1. Fulfils(OneOf({a, b}), payload, spared) <=>
        \A c \in {[one |-> TRUE, of |-> {a, b}]} : Settles(c, payload)
  BY OneOfSchema DEF Fulfils, Knows
<1>2. Fulfils(OneOf({a, b}), payload, spared) <=> Cardinality(fitting) = 1
  BY <1>1 DEF Settles
<1>3. CASE Fits(a, payload) /\ Fits(b, payload)
  <2>1. fitting = {a} \cup {b} /\ b \notin {a} /\ IsFiniteSet({a}) /\ Cardinality({a}) = 1
    BY <1>3, FS_Singleton
  <2>2. Cardinality(fitting) = 2
    BY <2>1, FS_AddElement
  <2> QED
    BY <1>2, <1>3, <2>2
<1>4. CASE ~Fits(a, payload) /\ ~Fits(b, payload)
  <2>1. fitting = {}
    BY <1>4
  <2> QED
    BY <1>2, <1>4, <2>1, FS_EmptySet
<1>5. CASE Fits(a, payload) /\ ~Fits(b, payload)
  <2>1. fitting = {a}
    BY <1>5
  <2> QED
    BY <1>2, <1>5, <2>1, FS_Singleton
<1>6. CASE ~Fits(a, payload) /\ Fits(b, payload)
  <2>1. fitting = {b}
    BY <1>6
  <2> QED
    BY <1>2, <1>6, <2>1, FS_Singleton
<1> QED
  BY <1>3, <1>4, <1>5, <1>6

\* anyOf between two alternatives.
LEMMA AnyOfTwo ==
    ASSUME NEW a, NEW b, NEW payload, NEW spared
    PROVE  Fulfils(AnyOf({a, b}), payload, spared) <=> Fits(a, payload) \/ Fits(b, payload)
<1>1. Fulfils(AnyOf({a, b}), payload, spared) <=>
        \A c \in {[one |-> FALSE, of |-> {a, b}]} : Settles(c, payload)
  BY AnyOfSchema DEF Fulfils, Knows
<1>2. Fulfils(AnyOf({a, b}), payload, spared) <=> {x \in {a, b} : Fits(x, payload)} # {}
  BY <1>1 DEF Settles
<1> QED
  BY <1>2
==============================================================================
