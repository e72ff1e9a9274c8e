--------------------------- MODULE MCBMSCatalogue ----------------------------
(***************************************************************************)
(* The load of one row, for every point type of every object type of both   *)
(* editions of the catalogue and for payloads that put the optional fields  *)
(* together in every way that matters.                                      *)
(***************************************************************************)
EXTENDS BMSValues, CataloguePromises

MCEditions == [file |-> FileChannels, viewer |-> ViewerChannels]

\* The points an object type has in either edition, and one it has not.
PointsOf(objectType) ==
    UNION {c.pointTypes : c \in {d \in FileChannels \cup ViewerChannels :
                                    d.objectType = objectType}}
        \cup {IF objectType = "Rack" THEN "GenericPoint" ELSE "RackPower"}

Identities ==
    {<<>>, RackPlace, Named, Named @@ [servesId |-> "<list>"], [associateId |-> "name"],
     Named @@ [associateId |-> "name"]}

Units(objectType) == IF objectType = "Rack" THEN {"C", "LPM", "kPa", "%", "kW"} ELSE {"C"}

MeasuresOf(objectType) ==
    {<<>>, [stateText |-> "<states>"], [engUnit |-> "C", stateText |-> "<states>"]}
        \cup {[engUnit |-> u] : u \in Units(objectType)}

ExtraFields ==
    {<<>>, [integration |-> "MEPAI"], [integration |-> Dated], [processArea |-> "<list>"],
     [processArea |-> "<list>", integration |-> "MEPAI"], [isSetpoint |-> "<true>"],
     [processArea |-> "<list>", phase |-> "1"], [phase |-> "A"], [scope |-> "name"]}

MetadataPayloads(objectType, pointType) ==
    {Point(objectType, pointType) @@ i @@ m @@ e :
        i \in Identities, m \in MeasuresOf(objectType), e \in ExtraFields}

\* Metadata that speaks of another point than its topic.
Misplaced(objectType, pointType) ==
    MetadataPayloads(objectType, "Available")
        \cup {Point("UPS", pointType) @@ Named @@ m @@ e :
                m \in MeasuresOf(objectType), e \in ExtraFields}

ValuePayloads == {Reading(v) : v \in {"<1>", "<21.5>", "<null>", "C"}}

\* The rows worth trying for a point.
RowsOf(objectType, pointType) ==
    {Row(0, Topic("PUB", "Metadata", objectType, pointType, "p"), payload) :
        payload \in MetadataPayloads(objectType, pointType) \cup Misplaced(objectType, pointType)}
    \cup
    {Row(0, Topic(publisher, "Value", objectType, pointType, "p"), payload) :
        publisher \in {"PUB", "MEPAI"},
        payload \in ValuePayloads \cup {Point(objectType, pointType) @@ [integration |-> "MEPAI"]}}
    \cup
    {Row(0, Topic("MEPAI", "Metadata", objectType, pointType, "p"), Point(objectType, pointType))}

\* The files are given by LoadInit, row by row.
MCScenarios == {}

\* The load alone, of one row; the flags have no part in it.
LoadInit ==
    /\ \E objectType \in ObjectTypes : \E pointType \in PointsOf(objectType) :
           \E row \in RowsOf(objectType, pointType) : scenario = <<row>>
    /\ Started
    /\ once = FALSE /\ qos = 0
LoadSpec == LoadInit /\ [][ReadRow \/ EndOfFile]_vars
==============================================================================
