------------------------------- MODULE Schemas -------------------------------
(***************************************************************************)
(* The part of JSON Schema the event catalogues are written in, as the      *)
(* validator evaluates it: objects with required and optional fields, allOf *)
(* to combine them, oneOf and anyOf between the presence of fields, and     *)
(* nothing beyond the listed fields.  A payload is a function from the      *)
(* names of its fields to values; a value is known by its kind.             *)
(***************************************************************************)
EXTENDS FiniteSets

CONSTANTS
    Text,           \* JSON strings
    Lists,          \* arrays of strings
    StateTables,    \* arrays of {value, text}
    Flags,          \* JSON booleans
    Wholes,         \* JSON integers
    Decimals,       \* JSON numbers that are not integers
    Null

ASSUME KindsAreDisjoint ==
    /\ Text \cap (Lists \cup StateTables \cup Flags \cup Wholes \cup Decimals) = {}
    /\ Lists \cap (StateTables \cup Flags \cup Wholes \cup Decimals) = {}
    /\ StateTables \cap (Flags \cup Wholes \cup Decimals) = {}
    /\ Flags \cap (Wholes \cup Decimals) = {}
    /\ Wholes \cap Decimals = {}
    /\ Null \notin UNION {Text, Lists, StateTables, Flags, Wholes, Decimals}

\* An object schema: the fields it requires, the values it allows each field
\* it knows, and the choices it makes between fields.
Object(required, fields) ==
    [required |-> required, fields |-> fields, choices |-> {}]

Optional(fields) == Object({}, fields)

AllOf(parts) ==
    [required |-> UNION {s.required : s \in parts},
     fields   |-> [f \in UNION {DOMAIN s.fields : s \in parts} |->
                     LET about == {s \in parts : f \in DOMAIN s.fields}
                     IN  {v \in (CHOOSE s \in about : TRUE).fields[f] :
                             \A s \in about : v \in s.fields[f]}],
     choices  |-> UNION {s.choices : s \in parts}]

\* An alternative of a choice: the fields it needs and the fields it rules out.
Alternative(needs, bars) == [needs |-> needs, bars |-> bars]

OneOf(alternatives) ==
    [Optional(<<>>) EXCEPT !.choices = {[one |-> TRUE, of |-> alternatives]}]

AnyOf(alternatives) ==
    [Optional(<<>>) EXCEPT !.choices = {[one |-> FALSE, of |-> alternatives]}]

Fits(alternative, payload) ==
    /\ alternative.needs \subseteq DOMAIN payload
    /\ alternative.bars \cap DOMAIN payload = {}

Settles(choice, payload) ==
    LET fitting == {a \in choice.of : Fits(a, payload)}
    IN  IF choice.one THEN Cardinality(fitting) = 1 ELSE fitting # {}

\* schema.Validate: the payload has what is required, nothing unknown, every
\* value allowed and every choice settled.
Valid(schema, payload) ==
    /\ schema.required \subseteq DOMAIN payload
    /\ DOMAIN payload \subseteq DOMAIN schema.fields
    /\ \A f \in DOMAIN payload : payload[f] \in schema.fields[f]
    /\ \A c \in schema.choices : Settles(c, payload)
==============================================================================
