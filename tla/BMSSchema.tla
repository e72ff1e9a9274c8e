------------------------------ MODULE BMSSchema ------------------------------
(***************************************************************************)
(* The schema file dummy-bms validates against (schemas/asyncapi/bms, which *)
(* calls itself version 1.0.0), as its differences from the catalogue the   *)
(* viewer publishes, and the validator of a message against such a file.    *)
(***************************************************************************)
EXTENDS BMSCatalog

-----------------------------------------------------------------------------
(* The differences of the file.                                            *)

FileRackPoints ==
    [RackPoints EXCEPT
        !.RackLeakDetectTray = AllOf({IntegrationPublisherFields, StateText})]

FileRackRequests == RackRequests \cup {"RackLeakDetectTray"}

Heartbeat(point, fields) ==
    AllOf({MetadataBase, PointType(point),
           Object({"objectName", "objectId"}, [objectName |-> Text, objectId |-> Text]), fields})

FileIntegrationHeartbeats == {"HeartbeatTimestampIntegration", "HeartbeatEchoIntegration"}

FileSystemPoints ==
    [p \in SystemBmsPoints \cup FileIntegrationHeartbeats |->
        IF p \in ElectricalPoints THEN SystemEquipmentPoints[p]
        ELSE Heartbeat(p, IF p \in FileIntegrationHeartbeats THEN IntegrationPublisherFields
                          ELSE Optional([scope |-> Text]))]

\* Phases may also be numbered.
WithNumberedPhases(message) ==
    IF "phase" \in DOMAIN message.fields
    THEN [message EXCEPT !.fields.phase = @ \cup {"1", "2", "3"}]
    ELSE message

FileChannel(channel) ==
    [channel EXCEPT !.messages = [m \in DOMAIN @ |-> WithNumberedPhases(@[m])]]

\* An integration may own the generic points of any object type but Rack.
GenericIntegrationValues ==
    {Value(AnyIntegration, object, {"GenericPoint"}) :
        object \in {"PowerMeter", "BESS", "UPS", "ATS", "Generator", "Shunt", "Breaker", "CDU",
                    "CoolingTower", "HX", "CRAH", "CRAC", "AHU", "Chiller", "Valve", "Pump",
                    "Fan", "Damper", "Sensor", "Tank", "GenericObject", "System"}}

\* The file has channels of its own for racks and for systems.
FileChannels ==
    LET rewritten == {Value(PUB, "Rack", DOMAIN RackPoints \ FileRackRequests),
                      Metadata("Rack", Rack(FileRackPoints)),
                      Value(AnyIntegration, "Rack", FileRackRequests),
                      Value(PUB, "System", SystemBmsPoints),
                      Metadata("System", FileSystemPoints),
                      Value(AnyIntegration, "System", FileIntegrationHeartbeats \cup ElectricalPoints)}
        shared == {c \in ViewerChannels : c.objectType \notin {"Rack", "System"}}
    IN  {FileChannel(c) : c \in shared \cup rewritten} \cup GenericIntegrationValues

-----------------------------------------------------------------------------
(* The validator.  A topic is a record of its segments after BMS/v1; the    *)
(* tag path, which may hold several, is one of them.                        *)

\* matchTopicAddress: the literal segments agree; {pointType} and {tagPath}
\* take any segment.
MatchTopicAddress(channel, topic) ==
    /\ channel.publisher \in {topic.publisher, AnyIntegration}
    /\ channel.type = topic.type
    /\ channel.objectType = topic.objectType

TopicParameters(channel, topic) ==
    IF channel.publisher = AnyIntegration
    THEN [integration |-> topic.publisher, pointType |-> topic.pointType,
          tagPath |-> topic.tagPath]
    ELSE [pointType |-> topic.pointType, tagPath |-> topic.tagPath]

ValidateChannelParams(channel, topic) == topic.pointType \in channel.pointTypes

\* MUTANT: the fields are not compared with the topic.
IgnorePayloadTopicParameters(params, payload) == TRUE

\* A field that has the name of a topic parameter must have its value.
ValidatePayloadTopicParameters(params, payload) ==
    \A name \in DOMAIN params \cap DOMAIN payload : payload[name] = params[name]

ValidateChannelMessages(channel, params, payload) ==
    \E m \in DOMAIN channel.messages :
        /\ Valid(channel.messages[m], payload)
        /\ ValidatePayloadTopicParameters(params, payload)

ValidateMessage(channels, topic, payload) ==
    \E c \in channels :
        /\ MatchTopicAddress(c, topic)
        /\ ValidateChannelParams(c, topic)
        /\ ValidateChannelMessages(c, TopicParameters(c, topic), payload)

-----------------------------------------------------------------------------
(* What the catalogues promise of a message the validator accepts.          *)

\* The metadata topic of a point, and the value topic its metadata gives: the
\* integration that the metadata names takes the place of PUB.
MetadataTopic(topic) == [topic EXCEPT !.publisher = PUB, !.type = "Metadata"]

ValueTopic(topic, payload) ==
    [topic EXCEPT !.type = "Value",
                  !.publisher = IF "integration" \in DOMAIN payload
                                THEN payload.integration ELSE PUB]
==============================================================================
