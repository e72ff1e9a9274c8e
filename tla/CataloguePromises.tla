--------------------------- MODULE CataloguePromises ---------------------------
(***************************************************************************)
(* What the catalogue promises about the rows the dummy BMS loads, in       *)
(* either edition: how a description is read, and how the topics of values  *)
(* and of their metadata correspond.                                        *)
(***************************************************************************)
EXTENDS DummyBMS

\* The strings the catalogues fix: object and point types, units and phases.
Names ==
    {"C", "LPM", "kPa", "%", "kW"} \cup {"A", "B", "C", "1", "2", "3"}
        \cup UNION {{c.objectType} \cup c.pointTypes : c \in FileChannels \cup ViewerChannels}

\* The program is given one of the two editions.  There is some list of strings
\* and some table of states.  The names are strings; none of them has the digit
\* 0 in it, which everything has that the load renders from a template.
ASSUME CatalogueAssumption ==
    /\ Editions = [file |-> FileChannels, viewer |-> ViewerChannels]
    /\ Names \subseteq Text
    /\ Lists # {} /\ StateTables # {}
    /\ \A t \in Templates : Rendering[t][Epoch] \notin Names

LoadedRows == {scenario[i] : i \in 1..entries}
LoadedMetadata == {row \in LoadedRows : row.topic.type = "Metadata"}
Accepts(topic, payload) == ValidateMessage(Editions[edition], topic, payload)

\* What a row is when it is tried and when it is published, where it is accepted.
Accepted(row) ==
    {payload \in {Render(row.payload, instant) : instant \in {Epoch, Now}} :
        Accepts(row.topic, payload)}

\* The messages a payload can be taken for under a topic, with their channels.
Readings(topic, payload) ==
    UNION {{<<c, m>> : m \in {n \in DOMAIN c.messages : Valid(c.messages[n], payload)}} :
              c \in {d \in Editions[edition] : MatchTopicAddress(d, topic)}}

\* What is accepted can be read in one way only: it is one message of one
\* channel, a measurement has a unit or a table of states, equipment is named
\* or associated, and never both, however the schemas of base, identity and
\* point type are put together (catalogue: "must not be present").
Unambiguous ==
    \A row \in LoadedMetadata : \A payload \in Accepted(row) :
        /\ \A r, s \in Readings(row.topic, payload) : r = s
        /\ ~({"engUnit", "stateText"} \subseteq DOMAIN payload)
        /\ "associateId" \in DOMAIN payload =>
              {"objectName", "objectId", "servesId"} \cap DOMAIN payload = {}

\* The points whose messages leave the object type open.
AnyObject ==
    {"GenericPoint", "HeartbeatTimestampBms", "HeartbeatEchoBms", "HearbeatTimestampIntegration",
     "HeartbeatTimestampIntegration", "HeartbeatEchoIntegration"}

\* Accepted metadata names the point type of its topic, also where a channel
\* admits the messages of many point types, and its object type (catalogue:
\* "Matches the objectType MQTT topic segment") but for the points above.
NamesItsPoint ==
    \A row \in LoadedMetadata : \A payload \in Accepted(row) :
        /\ payload.pointType = row.topic.pointType
        /\ row.topic.pointType \notin AnyObject =>
              payload.objectType = row.topic.objectType

\* Fields for a description of a point: its kind, its place or name, its
\* measure, and what some points ask for besides.
Places ==
    {{}, {"rackLocationName", "rackLocationId"}, {"objectName", "objectId"},
     {"objectName", "objectId", "servesId"}}
Measures == {{}, {"engUnit"}, {"stateText"}}
Extras == {{}, {"processArea"}, {"phase"}, {"integration"}, {"processArea", "integration"}}

\* A value for each of them.
Sample(topic, unit) ==
    LET name == CHOOSE t \in Text : TRUE
        list == CHOOSE l \in Lists : TRUE
    IN  [objectType |-> topic.objectType, pointType |-> topic.pointType,
         rackLocationName |-> name, rackLocationId |-> name,
         objectName |-> name, objectId |-> name, servesId |-> list,
         engUnit |-> unit, stateText |-> CHOOSE s \in StateTables : TRUE,
         processArea |-> list, phase |-> "A", integration |-> topic.publisher]

SampleUnits == {"C", "LPM", "kPa", "%", "kW", "A"}

\* Descriptions of the point of a value, as its publisher would give them.
Description(topic, place, measure, extra, unit) ==
    [f \in {"objectType", "pointType"} \cup place \cup measure \cup extra |->
        Sample(topic, unit)[f]]

Descriptions(topic) ==
    {Description(topic, place, measure, extra, unit) :
        place \in Places, measure \in Measures, extra \in Extras, unit \in SampleUnits}

\* Whoever may publish a value finds its point described: some metadata is
\* accepted for the point, and names the integration the value comes from.
ValueHasMetadata ==
    \A row \in LoadedRows : row.topic.type = "Value" =>
        \E payload \in Descriptions(row.topic) :
            /\ Accepts(MetadataTopic(row.topic), payload)
            /\ row.topic.publisher # PUB =>
                  /\ "integration" \in DOMAIN payload
                  /\ payload.integration = row.topic.publisher

\* In the file that is validated against, the value topic that is derived from
\* accepted metadata exists: the integration it names, or else PUB, may publish
\* any value there.  The one exception are the points of equipment whose state
\* an integration owns, for which the file has no such channel.
MetadataHasValue ==
    \A row \in LoadedMetadata : \A payload \in Accepted(row) :
        LET ownedState == /\ "integration" \in DOMAIN payload
                          /\ row.topic.pointType \in {"Status", "Available"}
                          /\ row.topic.objectType # "System"
        IN  edition = "file" /\ ~ownedState =>
                \A value \in Wholes \cup Decimals \cup {Null}, quality \in Wholes :
                    Accepts(ValueTopic(row.topic, payload),
                            Render([value |-> value, timestamp |-> Placeholder,
                                    quality |-> quality], Now))
==============================================================================
