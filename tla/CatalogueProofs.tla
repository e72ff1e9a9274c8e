---------------------------- MODULE CatalogueProofs ----------------------------
(***************************************************************************)
(* Proofs of what the catalogue promises, for any strings, lists and tables *)
(* of states, any file and any payload.                                     *)
(***************************************************************************)
EXTENDS CataloguePromises, DummyBMSProofs, SchemasProofs

-----------------------------------------------------------------------------
(* The parts messages are made of: what they know and what they demand.  The *)
(* editions differ in the values of the phase, which a claim about both      *)
(* spares.                                                                  *)

\* The parts that say which object and which point a message is about.
LEMMA BaseParts ==
    ASSUME NEW payload, NEW spared \in SUBSET {"phase"}, NEW x
    PROVE  /\ Fulfils(MetadataBase, payload, spared) <=>
                 /\ {"objectType", "pointType"} \subseteq DOMAIN payload
                 /\ payload.objectType \in Text /\ payload.pointType \in Text
           /\ Fulfils(PointType(x), payload, spared) <=>
                 ("pointType" \in DOMAIN payload => payload.pointType = x)
           /\ Fulfils(ObjectType(x), payload, spared) <=>
                 ("objectType" \in DOMAIN payload => payload.objectType = x)
           /\ Knows(MetadataBase) = {"objectType", "pointType"}
           /\ Knows(PointType(x)) = {"pointType"}
           /\ Knows(ObjectType(x)) = {"objectType"}
<1>1. Fulfils(MetadataBase, payload, spared) <=>
        /\ {"objectType", "pointType"} \subseteq DOMAIN payload
        /\ payload.objectType \in Text /\ payload.pointType \in Text
  BY ObjectFulfilled DEF MetadataBase
<1>2. Fulfils(PointType(x), payload, spared) <=>
        ("pointType" \in DOMAIN payload => payload.pointType = x)
  BY OptionalFulfilled DEF PointType
<1>3. Fulfils(ObjectType(x), payload, spared) <=>
        ("objectType" \in DOMAIN payload => payload.objectType = x)
  BY OptionalFulfilled DEF ObjectType
<1>4. Knows(MetadataBase) = {"objectType", "pointType"}
  BY ObjectKnows DEF MetadataBase
<1>5. Knows(PointType(x)) = {"pointType"} /\ Knows(ObjectType(x)) = {"objectType"}
  BY ObjectKnows DEF PointType, ObjectType
<1> QED
  BY <1>1, <1>2, <1>3, <1>4, <1>5

\* The parts that give a measure or an owner.
LEMMA MeasureParts ==
    ASSUME NEW payload, NEW spared \in SUBSET {"phase"}, NEW units
    PROVE  /\ Fulfils(EngUnit(units), payload, spared) <=>
                 "engUnit" \in DOMAIN payload /\ payload.engUnit \in units
           /\ Fulfils(StateText, payload, spared) <=>
                 "stateText" \in DOMAIN payload /\ payload.stateText \in StateTables
           /\ Fulfils(IsSetpoint, payload, spared) <=>
                 ("isSetpoint" \in DOMAIN payload => payload.isSetpoint \in Flags)
           /\ Fulfils(Owned, payload, spared) <=>
                 ("integration" \in DOMAIN payload => payload.integration \in Text)
           /\ Fulfils(IntegrationPublisherFields, payload, spared) <=>
                 "integration" \in DOMAIN payload /\ payload.integration \in Text
           /\ Knows(EngUnit(units)) = {"engUnit"}
           /\ Knows(StateText) = {"stateText"}
           /\ Knows(IsSetpoint) = {"isSetpoint"}
           /\ Knows(Owned) = {"integration"}
           /\ Knows(IntegrationPublisherFields) = {"integration"}
<1>1. Fulfils(EngUnit(units), payload, spared) <=>
        "engUnit" \in DOMAIN payload /\ payload.engUnit \in units
  BY ObjectFulfilled DEF EngUnit
<1>2. Fulfils(StateText, payload, spared) <=>
        "stateText" \in DOMAIN payload /\ payload.stateText \in StateTables
  BY ObjectFulfilled DEF StateText
<1>3. Fulfils(IsSetpoint, payload, spared) <=>
        ("isSetpoint" \in DOMAIN payload => payload.isSetpoint \in Flags)
  BY OptionalFulfilled DEF IsSetpoint
<1>4. Fulfils(Owned, payload, spared) <=>
        ("integration" \in DOMAIN payload => payload.integration \in Text)
  BY OptionalFulfilled DEF Owned
<1>5. Fulfils(IntegrationPublisherFields, payload, spared) <=>
        "integration" \in DOMAIN payload /\ payload.integration \in Text
  BY ObjectFulfilled DEF IntegrationPublisherFields
<1>6. Knows(EngUnit(units)) = {"engUnit"} /\ Knows(StateText) = {"stateText"}
  BY ObjectKnows DEF EngUnit, StateText
<1>7. /\ Knows(IsSetpoint) = {"isSetpoint"} /\ Knows(Owned) = {"integration"}
      /\ Knows(IntegrationPublisherFields) = {"integration"}
  BY ObjectKnows DEF IsSetpoint, Owned, IntegrationPublisherFields
<1> QED
  BY <1>1, <1>2, <1>3, <1>4, <1>5, <1>6, <1>7

\* The parts that give a place or a name.
LEMMA PlaceParts ==
    ASSUME NEW payload, NEW spared \in SUBSET {"phase"}
    PROVE  /\ Fulfils(RackLocationIdentifiers, payload, spared) <=>
                 /\ {"rackLocationName", "rackLocationId"} \subseteq DOMAIN payload
                 /\ payload.rackLocationName \in Text /\ payload.rackLocationId \in Text
           /\ Fulfils(PowerMeterIdentifiers, payload, spared) <=>
                 /\ {"objectName", "objectId", "servesId"} \subseteq DOMAIN payload
                 /\ payload.objectName \in Text /\ payload.objectId \in Text
                 /\ payload.servesId \in Lists
           /\ Knows(RackLocationIdentifiers) = {"rackLocationName", "rackLocationId"}
           /\ Knows(PowerMeterIdentifiers) = {"objectName", "objectId", "servesId"}
<1>1. Fulfils(RackLocationIdentifiers, payload, spared) <=>
        /\ {"rackLocationName", "rackLocationId"} \subseteq DOMAIN payload
        /\ payload.rackLocationName \in Text /\ payload.rackLocationId \in Text
  BY ObjectFulfilled DEF RackLocationIdentifiers
<1>2. Fulfils(PowerMeterIdentifiers, payload, spared) <=>
        /\ {"objectName", "objectId", "servesId"} \subseteq DOMAIN payload
        /\ payload.objectName \in Text /\ payload.objectId \in Text
        /\ payload.servesId \in Lists
  BY ObjectFulfilled DEF PowerMeterIdentifiers
<1>3. Knows(RackLocationIdentifiers) = {"rackLocationName", "rackLocationId"}
  BY ObjectKnows DEF RackLocationIdentifiers
<1>4. Knows(PowerMeterIdentifiers) = {"objectName", "objectId", "servesId"}
  BY ObjectKnows DEF PowerMeterIdentifiers
<1> QED
  BY <1>1, <1>2, <1>3, <1>4

\* Equipment is named, or associated with a named object, and never both.
LEMMA IdentityPart ==
    ASSUME NEW payload, NEW spared \in SUBSET {"phase"}
    PROVE  /\ Fulfils(EquipmentIdentifiers, payload, spared) <=>
                 /\ \A f \in {"objectName", "objectId", "associateId"} \cap DOMAIN payload :
                        payload[f] \in Text
                 /\ \A f \in {"processArea", "servesId"} \cap DOMAIN payload : payload[f] \in Lists
                 /\ \/ /\ {"objectName", "objectId"} \subseteq DOMAIN payload
                       /\ "associateId" \notin DOMAIN payload
                    \/ /\ "associateId" \in DOMAIN payload
                       /\ {"objectName", "objectId", "servesId"} \cap DOMAIN payload = {}
           /\ Knows(EquipmentIdentifiers) =
                 {"processArea", "objectName", "objectId", "servesId", "associateId"}
<1> DEFINE fields == [processArea |-> Lists, objectName |-> Text, objectId |-> Text,
                      servesId |-> Lists, associateId |-> Text]
           named == Alternative({"objectName", "objectId"}, {"associateId"})
           associated == Alternative({"associateId"}, {"objectName", "objectId", "servesId"})
<1>1. EquipmentIdentifiers = AllOf({Optional(fields), OneOf({named, associated})})
  BY DEF EquipmentIdentifiers
<1>2. named # associated
  <2>1. named.needs # associated.needs
    BY DEF Alternative
  <2> QED
    BY <2>1
<1>3. Fulfils(OneOf({named, associated}), payload, spared) <=>
        ~(Fits(named, payload) <=> Fits(associated, payload))
  BY <1>2, OneOfTwo
<1>4. Fulfils(Optional(fields), payload, spared) <=>
        \A f \in (DOMAIN payload \cap DOMAIN fields) \ spared : payload[f] \in fields[f]
  BY OptionalFulfilled
<1>5. Knows(Optional(fields)) = DOMAIN fields
  BY ObjectKnows
<1>6. DOMAIN fields = {"processArea", "objectName", "objectId", "servesId", "associateId"}
  OBVIOUS
<1>7. Knows(OneOf({named, associated})) = {}
  BY OneOfSchema
<1>8. Fits(named, payload) <=>
        {"objectName", "objectId"} \subseteq DOMAIN payload /\ "associateId" \notin DOMAIN payload
  BY DEF Fits, Alternative
<1>9. Fits(associated, payload) <=>
        /\ "associateId" \in DOMAIN payload
        /\ {"objectName", "objectId", "servesId"} \cap DOMAIN payload = {}
  BY DEF Fits, Alternative
<1>10. (\A f \in (DOMAIN payload \cap DOMAIN fields) \ spared : payload[f] \in fields[f]) <=>
         /\ \A f \in {"objectName", "objectId", "associateId"} \cap DOMAIN payload :
                payload[f] \in Text
         /\ \A f \in {"processArea", "servesId"} \cap DOMAIN payload : payload[f] \in Lists
  BY <1>6
<1> HIDE DEF fields, named, associated
<1>11. Fulfils(EquipmentIdentifiers, payload, spared) <=>
         /\ Fulfils(Optional(fields), payload, spared)
         /\ Fulfils(OneOf({named, associated}), payload, spared)
  BY <1>1, AllOfFulfilled
<1>12. \A f : f \in Knows(EquipmentIdentifiers) <=> f \in DOMAIN fields
  BY <1>1, <1>5, <1>7, AllOfKnows
<1> QED
  BY <1>3, <1>4, <1>6, <1>8, <1>9, <1>10, <1>11, <1>12

\* A measurement has a unit or a table of states, and never both.
LEMMA ModePart ==
    ASSUME NEW payload, NEW spared \in SUBSET {"phase"}
    PROVE  /\ Fulfils(EquipmentMeasurementMode, payload, spared) <=>
                 /\ "engUnit" \in DOMAIN payload => payload.engUnit \in Text
                 /\ "stateText" \in DOMAIN payload => payload.stateText \in StateTables
                 /\ ~("engUnit" \in DOMAIN payload <=> "stateText" \in DOMAIN payload)
           /\ Knows(EquipmentMeasurementMode) = {"engUnit", "stateText"}
<1> DEFINE fields == [engUnit |-> Text, stateText |-> StateTables]
           unit == Alternative({"engUnit"}, {})
           states == Alternative({"stateText"}, {})
<1>1. EquipmentMeasurementMode = AllOf({Optional(fields), OneOf({unit, states})})
  BY DEF EquipmentMeasurementMode
<1>2. unit # states
  <2>1. unit.needs # states.needs
    BY DEF Alternative
  <2> QED
    BY <2>1
<1>3. Fulfils(OneOf({unit, states}), payload, spared) <=>
        ~(Fits(unit, payload) <=> Fits(states, payload))
  BY <1>2, OneOfTwo
<1>4. Fulfils(Optional(fields), payload, spared) <=>
        \A f \in (DOMAIN payload \cap DOMAIN fields) \ spared : payload[f] \in fields[f]
  BY OptionalFulfilled
<1>5. Knows(Optional(fields)) = DOMAIN fields
  BY ObjectKnows
<1>6. DOMAIN fields = {"engUnit", "stateText"}
  OBVIOUS
<1>7. Knows(OneOf({unit, states})) = {}
  BY OneOfSchema
<1>8. /\ Fits(unit, payload) <=> "engUnit" \in DOMAIN payload
      /\ Fits(states, payload) <=> "stateText" \in DOMAIN payload
  BY DEF Fits, Alternative
<1>9. (\A f \in (DOMAIN payload \cap DOMAIN fields) \ spared : payload[f] \in fields[f]) <=>
        /\ "engUnit" \in DOMAIN payload => payload.engUnit \in Text
        /\ "stateText" \in DOMAIN payload => payload.stateText \in StateTables
  BY <1>6
<1> HIDE DEF fields, unit, states
<1>10. Fulfils(EquipmentMeasurementMode, payload, spared) <=>
         /\ Fulfils(Optional(fields), payload, spared)
         /\ Fulfils(OneOf({unit, states}), payload, spared)
  BY <1>1, AllOfFulfilled
<1>11. \A f : f \in Knows(EquipmentMeasurementMode) <=> f \in DOMAIN fields
  BY <1>1, <1>5, <1>7, AllOfKnows
<1> QED
  BY <1>3, <1>4, <1>6, <1>8, <1>9, <1>10, <1>11

\* A generic point may be owned, have a phase, and have a unit or a table of
\* states or neither.
LEMMA GenericPart ==
    ASSUME NEW payload, NEW spared \in SUBSET {"phase"}
    PROVE  /\ Fulfils(GenericPointFields, payload, spared) <=>
                 /\ "pointType" \in DOMAIN payload => payload.pointType = "GenericPoint"
                 /\ "integration" \in DOMAIN payload => payload.integration \in Text
                 /\ "isSetpoint" \in DOMAIN payload => payload.isSetpoint \in Flags
                 /\ "processArea" \in DOMAIN payload /\ payload.processArea \in Lists
                 /\ "phase" \in DOMAIN payload \ spared => payload.phase \in Phases
                 /\ "engUnit" \in DOMAIN payload => payload.engUnit \in Text
                 /\ "stateText" \in DOMAIN payload => payload.stateText \in StateTables
                 /\ ~("engUnit" \in DOMAIN payload /\ "stateText" \in DOMAIN payload)
           /\ Knows(GenericPointFields) =
                 {"pointType", "integration", "isSetpoint", "processArea", "phase", "engUnit",
                  "stateText"}
<1> DEFINE area == Object({"processArea"}, [processArea |-> Lists])
           fields == [phase |-> Phases, engUnit |-> Text, stateText |-> StateTables]
           noStates == Alternative({}, {"stateText"})
           noUnit == Alternative({}, {"engUnit"})
<1>1. GenericPointFields = AllOf({PointType("GenericPoint"), Owned, IsSetpoint, area,
                                  Optional(fields), AnyOf({noStates, noUnit})})
  BY DEF GenericPointFields
<1>2. Fulfils(AnyOf({noStates, noUnit}), payload, spared) <=>
        Fits(noStates, payload) \/ Fits(noUnit, payload)
  BY AnyOfTwo
<1>3. Fulfils(area, payload, spared) <=>
        "processArea" \in DOMAIN payload /\ payload.processArea \in Lists
  BY ObjectFulfilled
<1>4. Fulfils(Optional(fields), payload, spared) <=>
        \A f \in (DOMAIN payload \cap DOMAIN fields) \ spared : payload[f] \in fields[f]
  BY OptionalFulfilled
<1>5. Knows(area) = {"processArea"} /\ Knows(Optional(fields)) = DOMAIN fields
  BY ObjectKnows
<1>6. DOMAIN fields = {"phase", "engUnit", "stateText"}
  OBVIOUS
<1>7. Knows(AnyOf({noStates, noUnit})) = {}
  BY AnyOfSchema
<1>8. /\ Fits(noStates, payload) <=> "stateText" \notin DOMAIN payload
      /\ Fits(noUnit, payload) <=> "engUnit" \notin DOMAIN payload
  BY DEF Fits, Alternative
<1>9. (\A f \in (DOMAIN payload \cap DOMAIN fields) \ spared : payload[f] \in fields[f]) <=>
        /\ "phase" \in DOMAIN payload \ spared => payload.phase \in Phases
        /\ "engUnit" \in DOMAIN payload => payload.engUnit \in Text
        /\ "stateText" \in DOMAIN payload => payload.stateText \in StateTables
  BY <1>6
<1> HIDE DEF area, fields, noStates, noUnit
<1>10. Fulfils(GenericPointFields, payload, spared) <=>
         /\ Fulfils(PointType("GenericPoint"), payload, spared)
         /\ Fulfils(Owned, payload, spared) /\ Fulfils(IsSetpoint, payload, spared)
         /\ Fulfils(area, payload, spared) /\ Fulfils(Optional(fields), payload, spared)
         /\ Fulfils(AnyOf({noStates, noUnit}), payload, spared)
  BY <1>1, AllOfFulfilled
<1>11. /\ Fulfils(Owned, payload, spared) <=>
             ("integration" \in DOMAIN payload => payload.integration \in Text)
       /\ Fulfils(IsSetpoint, payload, spared) <=>
             ("isSetpoint" \in DOMAIN payload => payload.isSetpoint \in Flags)
       /\ Knows(Owned) = {"integration"} /\ Knows(IsSetpoint) = {"isSetpoint"}
  BY MeasureParts
<1>12. /\ Fulfils(PointType("GenericPoint"), payload, spared) <=>
             ("pointType" \in DOMAIN payload => payload.pointType = "GenericPoint")
       /\ Knows(PointType("GenericPoint")) = {"pointType"}
  BY BaseParts
<1>13. \A f : f \in Knows(GenericPointFields) <=>
          \/ f \in Knows(PointType("GenericPoint")) \/ f \in Knows(Owned)
          \/ f \in Knows(IsSetpoint) \/ f \in Knows(area) \/ f \in Knows(Optional(fields))
          \/ f \in Knows(AnyOf({noStates, noUnit}))
  BY <1>1, AllOfKnows
<1>14. \A f : f \in Knows(GenericPointFields) <=>
          f \in {"pointType", "integration", "isSetpoint", "processArea", "phase", "engUnit",
                 "stateText"}
  BY <1>5, <1>6, <1>7, <1>11, <1>12, <1>13
<1> QED
  BY <1>2, <1>3, <1>4, <1>8, <1>9, <1>10, <1>11, <1>12, <1>14

-----------------------------------------------------------------------------
(* What a message is made of, besides the names of its object and point: a   *)
(* place, which says what the point belongs to, and the part of the point.   *)

\* The fields of the places.
PlaceFields ==
    {"rackLocationName", "rackLocationId", "objectName", "objectId", "servesId", "processArea",
     "associateId"}

\* The fields of the parts of points.
PartFields ==
    {"engUnit", "stateText", "isSetpoint", "integration", "processArea", "phase", "pointType",
     "scope"}

\* The fields that name equipment.
Naming == {"objectName", "objectId", "servesId"}

\* A place names or associates, and not both.
IsPlace(place) ==
    /\ Knows(place) \subseteq PlaceFields
    /\ \A payload : \A spared \in SUBSET {"phase"} :
          /\ Fulfils(place, payload, spared)
          /\ "associateId" \in DOMAIN payload \cap Knows(place)
          => Naming \cap DOMAIN payload = {}

\* The part of a point never takes a unit and a table of states.
IsPart(part) ==
    /\ Knows(part) \subseteq PartFields
    /\ \A payload : \A spared \in SUBSET {"phase"} :
          Fulfils(part, payload, spared) =>
              ~({"engUnit", "stateText"} \subseteq DOMAIN payload \cap Knows(part))

\* It demands that the owner is named.
DemandsOwner(part) ==
    \A payload : \A spared \in SUBSET {"phase"} :
        Fulfils(part, payload, spared) => "integration" \in DOMAIN payload

\* A message of an object type is put together from its place and its part.
Message(s, object, m, place, part) ==
    /\ IsSchema(s)
    /\ \A payload, spared :
          Fulfils(s, payload, spared) <=>
              /\ Fulfils(MetadataBase, payload, spared)
              /\ Fulfils(PointType(m), payload, spared)
              /\ Fulfils(place, payload, spared)
              /\ Fulfils(part, payload, spared)
              /\ m \notin AnyObject => Fulfils(ObjectType(object), payload, spared)
    /\ Knows(s) = {"objectType", "pointType"} \cup Knows(place) \cup Knows(part)

\* The places.
LEMMA ThePlaces ==
    /\ IsPlace(RackLocationIdentifiers) /\ IsPlace(PowerMeterIdentifiers)
    /\ IsPlace(EquipmentIdentifiers) /\ IsPlace(Optional(<<>>))
    /\ IsPlace(Object({"objectName", "objectId"}, [objectName |-> Text, objectId |-> Text]))
<1>1. IsPlace(RackLocationIdentifiers) /\ IsPlace(PowerMeterIdentifiers)
  <2>1. /\ Knows(RackLocationIdentifiers) = {"rackLocationName", "rackLocationId"}
        /\ Knows(PowerMeterIdentifiers) = {"objectName", "objectId", "servesId"}
    BY PlaceParts
  <2> QED
    BY <2>1 DEF IsPlace, PlaceFields
<1>2. IsPlace(EquipmentIdentifiers)
  <2>1. Knows(EquipmentIdentifiers) \subseteq PlaceFields
    BY IdentityPart DEF PlaceFields
  <2>2. ASSUME NEW payload, NEW spared \in SUBSET {"phase"},
               Fulfils(EquipmentIdentifiers, payload, spared), "associateId" \in DOMAIN payload
        PROVE  Naming \cap DOMAIN payload = {}
    BY <2>2, IdentityPart DEF Naming
  <2> QED
    BY <2>1, <2>2 DEF IsPlace
<1>3. Knows(Optional(<<>>)) = {}
  BY NothingKnown
<1>4. Knows(Object({"objectName", "objectId"}, [objectName |-> Text, objectId |-> Text])) =
        {"objectName", "objectId"}
  BY ObjectKnows
<1>5. IsPlace(Optional(<<>>))
  BY <1>3 DEF IsPlace
<1>6. IsPlace(Object({"objectName", "objectId"}, [objectName |-> Text, objectId |-> Text]))
  BY <1>4 DEF IsPlace, PlaceFields
<1> QED
  BY <1>1, <1>2, <1>5, <1>6

\* The parts of points: those with a measure of one kind, and
LEMMA PlainParts ==
    ASSUME NEW units
    PROVE  /\ IsPart(EngUnit(units)) /\ "integration" \notin Knows(EngUnit(units))
           /\ IsPart(StateText) /\ "integration" \notin Knows(StateText)
           /\ IsPart(AllOf({EngUnit(units), IsSetpoint}))
           /\ "integration" \notin Knows(AllOf({EngUnit(units), IsSetpoint}))
           /\ IsPart(Optional(<<>>)) /\ "integration" \notin Knows(Optional(<<>>))
           /\ IsPart(Optional([scope |-> Text]))
           /\ "integration" \notin Knows(Optional([scope |-> Text]))
<1>1. /\ Knows(EngUnit(units)) = {"engUnit"} /\ Knows(StateText) = {"stateText"}
      /\ Knows(IsSetpoint) = {"isSetpoint"}
  BY MeasureParts
<1>2. Knows(AllOf({EngUnit(units), IsSetpoint})) = {"engUnit", "isSetpoint"}
  BY <1>1, AllOfTwo
<1>3. Knows(Optional(<<>>)) = {} /\ Knows(Optional([scope |-> Text])) = {"scope"}
  BY ObjectKnows, NothingKnown
<1>4. ASSUME NEW s, Knows(s) \subseteq PartFields,
             Knows(s) \cap {"engUnit", "stateText"} # {"engUnit", "stateText"}
      PROVE  IsPart(s)
  BY <1>4 DEF IsPart
<1>5. IsPart(EngUnit(units)) /\ IsPart(StateText)
  BY <1>1, <1>4 DEF PartFields
<1>6. IsPart(AllOf({EngUnit(units), IsSetpoint}))
  BY <1>2, <1>4 DEF PartFields
<1>7. IsPart(Optional(<<>>)) /\ IsPart(Optional([scope |-> Text]))
  BY <1>3, <1>4 DEF PartFields
<1> QED
  BY <1>1, <1>2, <1>3, <1>5, <1>6, <1>7

\* those that know an owner, and those that demand one,
LEMMA OwnedParts ==
    ASSUME NEW units
    PROVE  /\ IsPart(AllOf({StateText, Owned}))
           /\ IsPart(AllOf({IntegrationPublisherFields, StateText}))
           /\ IsPart(AllOf({IntegrationPublisherFields, EngUnit(units)}))
           /\ IsPart(AllOf({IntegrationPublisherFields, Optional([scope |-> Text])}))
           /\ IsPart(IntegrationPublisherFields)
           /\ DemandsOwner(AllOf({IntegrationPublisherFields, StateText}))
           /\ DemandsOwner(AllOf({IntegrationPublisherFields, EngUnit(units)}))
           /\ DemandsOwner(AllOf({IntegrationPublisherFields, Optional([scope |-> Text])}))
           /\ DemandsOwner(IntegrationPublisherFields)
<1>1. /\ Knows(EngUnit(units)) = {"engUnit"} /\ Knows(StateText) = {"stateText"}
      /\ Knows(Owned) = {"integration"} /\ Knows(IntegrationPublisherFields) = {"integration"}
      /\ Knows(Optional([scope |-> Text])) = {"scope"}
  BY MeasureParts, ObjectKnows
<1>2. ASSUME NEW s, Knows(s) \subseteq PartFields,
             Knows(s) \cap {"engUnit", "stateText"} # {"engUnit", "stateText"}
      PROVE  IsPart(s)
  BY <1>2 DEF IsPart
<1>3. IsPart(AllOf({StateText, Owned}))
  BY <1>1, <1>2, AllOfTwo DEF PartFields
<1>4. IsPart(AllOf({IntegrationPublisherFields, StateText}))
  BY <1>1, <1>2, AllOfTwo DEF PartFields
<1>5. IsPart(AllOf({IntegrationPublisherFields, EngUnit(units)}))
  BY <1>1, <1>2, AllOfTwo DEF PartFields
<1>6. IsPart(AllOf({IntegrationPublisherFields, Optional([scope |-> Text])}))
  BY <1>1, <1>2, AllOfTwo DEF PartFields
<1>7. IsPart(IntegrationPublisherFields)
  BY <1>1, <1>2 DEF PartFields
<1>8. DemandsOwner(IntegrationPublisherFields)
  BY MeasureParts DEF DemandsOwner
<1>9. ASSUME NEW s PROVE DemandsOwner(AllOf({IntegrationPublisherFields, s}))
  <2>1. \A payload, spared :
           Fulfils(AllOf({IntegrationPublisherFields, s}), payload, spared) =>
               Fulfils(IntegrationPublisherFields, payload, spared)
    BY AllOfTwo
  <2> QED
    BY <1>8, <2>1 DEF DemandsOwner
<1> QED
  BY <1>3, <1>4, <1>5, <1>6, <1>7, <1>8, <1>9

\* and those that choose.
LEMMA ChoosingParts ==
    /\ IsPart(EquipmentMeasurementMode) /\ "integration" \notin Knows(EquipmentMeasurementMode)
    /\ IsPart(AllOf({EquipmentMeasurementMode, IsSetpoint}))
    /\ "integration" \notin Knows(AllOf({EquipmentMeasurementMode, IsSetpoint}))
    /\ IsPart(GenericPointFields)
<1>1. /\ Knows(EquipmentMeasurementMode) = {"engUnit", "stateText"}
      /\ Knows(IsSetpoint) = {"isSetpoint"}
  BY ModePart, MeasureParts
<1>2. Knows(AllOf({EquipmentMeasurementMode, IsSetpoint})) = {"engUnit", "stateText", "isSetpoint"}
  BY <1>1, AllOfTwo
<1>3. Knows(GenericPointFields) \subseteq PartFields
  BY GenericPart DEF PartFields
<1>4. ASSUME NEW payload, NEW spared \in SUBSET {"phase"},
             Fulfils(EquipmentMeasurementMode, payload, spared)
      PROVE  ~({"engUnit", "stateText"} \subseteq DOMAIN payload)
  BY <1>4, ModePart
<1>5. ASSUME NEW payload, NEW spared \in SUBSET {"phase"},
             Fulfils(GenericPointFields, payload, spared)
      PROVE  ~({"engUnit", "stateText"} \subseteq DOMAIN payload)
  BY <1>5, GenericPart
<1>6. IsPart(EquipmentMeasurementMode)
  BY <1>1, <1>4 DEF IsPart, PartFields
<1>7. IsPart(GenericPointFields)
  BY <1>3, <1>5 DEF IsPart
<1>8. IsPart(AllOf({EquipmentMeasurementMode, IsSetpoint}))
  <2>1. \A payload, spared :
           Fulfils(AllOf({EquipmentMeasurementMode, IsSetpoint}), payload, spared) =>
               Fulfils(EquipmentMeasurementMode, payload, spared)
    BY AllOfTwo
  <2> QED
    BY <1>2, <1>4, <2>1 DEF IsPart, PartFields
<1> QED
  BY <1>1, <1>2, <1>6, <1>7, <1>8

-----------------------------------------------------------------------------
(* The points of each kind of object.                                       *)

\* The parts of the points of equipment, by their form.
LEMMA EquipmentForms ==
    ASSUME NEW m \in DOMAIN EquipmentPoints
    PROVE  \/ m = "GenericPoint" /\ EquipmentPoints[m] = GenericPointFields
           \/ /\ m \in {"Status", "Available"}
              /\ EquipmentPoints[m] = AllOf({StateText, Owned})
           \/ /\ m \in {"LiquidTemperature", "AirTemperature"}
              /\ EquipmentPoints[m] = AllOf({EngUnit({"C"}), IsSetpoint})
           \/ /\ m \in {"LiquidDifferentialPressure", "LiquidFlow", "LiquidPressure",
                        "AirDifferentialPressure", "AirRelativeHumidity", "AirFlow", "AirPressure"}
              /\ EquipmentPoints[m] = AllOf({EquipmentMeasurementMode, IsSetpoint})
           \/ /\ m \in {"ValvePosition", "PumpSpeed", "FanSpeed", "DamperPosition"}
              /\ EquipmentPoints[m] = EquipmentMeasurementMode
           \/ m = "LeakDetect" /\ EquipmentPoints[m] = StateText
           \/ m = "Sound" /\ EquipmentPoints[m] = EngUnit(Text)
           \/ /\ m = "LiquidTemperatureSpRequest"
              /\ EquipmentPoints[m] = AllOf({IntegrationPublisherFields, EngUnit({"C"})})
<1>1. DOMAIN EquipmentPoints =
        {"GenericPoint", "Status", "Available", "LiquidTemperature", "AirTemperature",
         "LiquidDifferentialPressure", "LiquidFlow", "LiquidPressure", "AirDifferentialPressure",
         "AirRelativeHumidity", "AirFlow", "AirPressure", "ValvePosition", "PumpSpeed", "FanSpeed",
         "DamperPosition", "LeakDetect", "Sound", "LiquidTemperatureSpRequest"}
  BY DEF EquipmentPoints
<1>2. /\ EquipmentPoints["GenericPoint"] = GenericPointFields
      /\ EquipmentPoints["Status"] = AllOf({StateText, Owned})
      /\ EquipmentPoints["Available"] = AllOf({StateText, Owned})
      /\ EquipmentPoints["LiquidTemperature"] = AllOf({EngUnit({"C"}), IsSetpoint})
      /\ EquipmentPoints["AirTemperature"] = AllOf({EngUnit({"C"}), IsSetpoint})
  BY DEF EquipmentPoints, GenericEquipmentPoint, Status, Available, LiquidTemperature, AirTemperature
<1>3. \A x \in {"LiquidDifferentialPressure", "LiquidFlow", "LiquidPressure",
                "AirDifferentialPressure", "AirRelativeHumidity", "AirFlow", "AirPressure"} :
         EquipmentPoints[x] = AllOf({EquipmentMeasurementMode, IsSetpoint})
  BY DEF EquipmentPoints, LiquidDifferentialPressure, LiquidFlow, LiquidPressure,
         AirDifferentialPressure, AirRelativeHumidity, AirFlow, AirPressure
<1>4. \A x \in {"ValvePosition", "PumpSpeed", "FanSpeed", "DamperPosition"} :
         EquipmentPoints[x] = EquipmentMeasurementMode
  BY DEF EquipmentPoints, ValvePosition, PumpSpeed, FanSpeed, DamperPosition
<1>5. /\ EquipmentPoints["LeakDetect"] = StateText
      /\ EquipmentPoints["Sound"] = EngUnit(Text)
      /\ EquipmentPoints["LiquidTemperatureSpRequest"] =
            AllOf({IntegrationPublisherFields, EngUnit({"C"})})
  BY DEF EquipmentPoints, LeakDetect, Sound, LiquidTemperatureSpRequest
<1> QED
  BY <1>1, <1>2, <1>3, <1>4, <1>5

\* Only these of the points of equipment can have an owner.
OwnablePoints == {"Status", "Available", "GenericPoint", "LiquidTemperatureSpRequest"}

\* The points of equipment are parts; few of them know an owner, and a request
\* demands one.
LEMMA EquipmentParts ==
    ASSUME NEW m \in DOMAIN EquipmentPoints
    PROVE  /\ IsPart(EquipmentPoints[m])
           /\ "integration" \in Knows(EquipmentPoints[m]) => m \in OwnablePoints
           /\ m \in SpRequest => DemandsOwner(EquipmentPoints[m])
<1> DEFINE part == EquipmentPoints[m]
<1>1. CASE m = "GenericPoint" /\ part = GenericPointFields
  BY <1>1, ChoosingParts DEF OwnablePoints, SpRequest
<1>2. CASE m \in {"Status", "Available"} /\ part = AllOf({StateText, Owned})
  BY <1>2, OwnedParts DEF OwnablePoints, SpRequest
<1>3. CASE m \notin SpRequest /\ part = AllOf({EngUnit({"C"}), IsSetpoint})
  BY <1>3, PlainParts
<1>4. CASE m \notin SpRequest /\ part = AllOf({EquipmentMeasurementMode, IsSetpoint})
  BY <1>4, ChoosingParts
<1>5. CASE m \notin SpRequest /\ part = EquipmentMeasurementMode
  BY <1>5, ChoosingParts
<1>6. CASE m \notin SpRequest /\ part = StateText
  BY <1>6, PlainParts
<1>7. CASE m \notin SpRequest /\ part = EngUnit(Text)
  BY <1>7, PlainParts
<1>8. CASE /\ m = "LiquidTemperatureSpRequest"
           /\ part = AllOf({IntegrationPublisherFields, EngUnit({"C"})})
  BY <1>8, OwnedParts DEF OwnablePoints
<1> HIDE DEF part
<1>9. part = EquipmentPoints[m]
  BY DEF part
<1> QED
  BY <1>1, <1>2, <1>3, <1>4, <1>5, <1>6, <1>7, <1>8, <1>9, EquipmentForms DEF SpRequest

\* The messages of equipment, of any object type.
LEMMA EquipmentMessage ==
    ASSUME NEW object, NEW points \in SUBSET DOMAIN EquipmentPoints, NEW m \in points
    PROVE  Message(Of(object, points)[m], object, m, EquipmentIdentifiers, EquipmentPoints[m])
<1> DEFINE parts == {EquipmentMetadataBase, PointType(m), EquipmentPoints[m]}
                      \cup IF m = "GenericPoint" THEN {} ELSE {ObjectType(object)}
<1>1. Of(object, points)[m] = AllOf(parts)
  BY DEF Of
<1>2. m \in AnyObject <=> m = "GenericPoint"
  BY EquipmentForms DEF AnyObject
<1>3. /\ \A payload, spared :
            Fulfils(EquipmentMetadataBase, payload, spared) <=>
                /\ Fulfils(MetadataBase, payload, spared)
                /\ Fulfils(EquipmentIdentifiers, payload, spared)
      /\ Knows(EquipmentMetadataBase) = Knows(MetadataBase) \cup Knows(EquipmentIdentifiers)
  BY AllOfTwo DEF EquipmentMetadataBase
<1>4. ASSUME NEW payload, NEW spared
      PROVE  Fulfils(AllOf(parts), payload, spared) <=>
               /\ Fulfils(EquipmentMetadataBase, payload, spared)
               /\ Fulfils(PointType(m), payload, spared)
               /\ Fulfils(EquipmentPoints[m], payload, spared)
               /\ m # "GenericPoint" => Fulfils(ObjectType(object), payload, spared)
  BY AllOfFulfilled
<1>5. ASSUME NEW f
      PROVE  f \in Knows(AllOf(parts)) <=>
               \/ f \in Knows(EquipmentMetadataBase) \/ f \in Knows(PointType(m))
               \/ f \in Knows(EquipmentPoints[m])
               \/ m # "GenericPoint" /\ f \in Knows(ObjectType(object))
  BY AllOfKnows
<1>6. /\ Knows(MetadataBase) = {"objectType", "pointType"} /\ Knows(PointType(m)) = {"pointType"}
      /\ Knows(ObjectType(object)) = {"objectType"}
  BY BaseParts
<1>7. Knows(AllOf(parts)) =
        {"objectType", "pointType"} \cup Knows(EquipmentIdentifiers) \cup Knows(EquipmentPoints[m])
  <2> HIDE DEF parts
  <2>1. \A f : f \in Knows(AllOf(parts)) <=>
            \/ f \in {"objectType", "pointType"} \/ f \in Knows(EquipmentIdentifiers)
            \/ f \in Knows(EquipmentPoints[m])
    BY <1>3, <1>5, <1>6
  <2> QED
    BY <2>1
<1> HIDE DEF parts
<1> QED
  BY <1>1, <1>2, <1>3, <1>4, <1>7, TheyAreSchemas DEF Message

\* The parts of the points of racks, in either edition.
LEMMA RackForms ==
    /\ DOMAIN RackPoints =
          {"RackLiquidSupplyTemperature", "RackLiquidReturnTemperature", "RackLiquidFlow",
           "RackLiquidDifferentialPressure", "RackLiquidDifferentialPressureSp",
           "RackControlValvePosition", "RackPower", "RackLeakDetect", "RackLeakSensorFault",
           "RackLeakDetectTray", "RackLiquidIsolationStatus", "RackElectricalIsolationStatus",
           "RackLiquidIsolationRequest", "RackElectricalIsolationRequest"}
    /\ \A m \in {"RackLiquidSupplyTemperature", "RackLiquidReturnTemperature"} :
          RackPoints[m] = EngUnit({"C"})
    /\ RackPoints["RackLiquidFlow"] = EngUnit({"LPM"})
    /\ RackPoints["RackLiquidDifferentialPressure"] = EngUnit({"kPa"})
    /\ RackPoints["RackLiquidDifferentialPressureSp"] = AllOf({EngUnit({"kPa"}), IsSetpoint})
    /\ RackPoints["RackControlValvePosition"] = EngUnit({"%"})
    /\ RackPoints["RackPower"] = EngUnit({"kW"})
    /\ \A m \in {"RackLeakDetect", "RackLeakSensorFault", "RackLeakDetectTray",
                 "RackLiquidIsolationStatus", "RackElectricalIsolationStatus"} :
          RackPoints[m] = StateText
    /\ \A m \in RackRequests : RackPoints[m] = AllOf({IntegrationPublisherFields, StateText})
<1>1. DOMAIN RackPoints =
          {"RackLiquidSupplyTemperature", "RackLiquidReturnTemperature", "RackLiquidFlow",
           "RackLiquidDifferentialPressure", "RackLiquidDifferentialPressureSp",
           "RackControlValvePosition", "RackPower", "RackLeakDetect", "RackLeakSensorFault",
           "RackLeakDetectTray", "RackLiquidIsolationStatus", "RackElectricalIsolationStatus",
           "RackLiquidIsolationRequest", "RackElectricalIsolationRequest"}
  BY DEF RackPoints
<1>2. /\ \A m \in {"RackLiquidSupplyTemperature", "RackLiquidReturnTemperature"} :
            RackPoints[m] = EngUnit({"C"})
      /\ RackPoints["RackLiquidFlow"] = EngUnit({"LPM"})
      /\ RackPoints["RackLiquidDifferentialPressure"] = EngUnit({"kPa"})
      /\ RackPoints["RackLiquidDifferentialPressureSp"] = AllOf({EngUnit({"kPa"}), IsSetpoint})
      /\ RackPoints["RackControlValvePosition"] = EngUnit({"%"})
      /\ RackPoints["RackPower"] = EngUnit({"kW"})
  BY DEF RackPoints, RackLiquidSupplyTemperature, RackLiquidReturnTemperature, RackLiquidFlow,
         RackLiquidDifferentialPressure, RackLiquidDifferentialPressureSp,
         RackControlValvePosition, RackPower
<1>3. \A m \in {"RackLeakDetect", "RackLeakSensorFault", "RackLeakDetectTray",
                "RackLiquidIsolationStatus", "RackElectricalIsolationStatus"} :
          RackPoints[m] = StateText
  BY DEF RackPoints, RackLeakDetect, RackLeakSensorFault, RackLeakDetectTray,
         RackLiquidIsolationStatus, RackElectricalIsolationStatus
<1>4. \A m \in RackRequests : RackPoints[m] = AllOf({IntegrationPublisherFields, StateText})
  BY DEF RackPoints, RackRequests, RackLiquidIsolationRequest, RackElectricalIsolationRequest
<1> QED
  BY <1>1, <1>2, <1>3, <1>4

\* The file's racks differ in the leak detection of trays.
LEMMA FileRackForms ==
    /\ DOMAIN FileRackPoints = DOMAIN RackPoints
    /\ \A m \in DOMAIN RackPoints \ {"RackLeakDetectTray"} : FileRackPoints[m] = RackPoints[m]
    /\ FileRackPoints["RackLeakDetectTray"] = AllOf({IntegrationPublisherFields, StateText})
<1>1. "RackLeakDetectTray" \in DOMAIN RackPoints
  BY RackForms
<1> QED
  BY <1>1 DEF FileRackPoints

\* The points of racks, in either edition, are parts, and those with an owner are
\* exactly the requests.
LEMMA RackParts ==
    /\ \A m \in DOMAIN RackPoints :
          /\ IsPart(RackPoints[m])
          /\ "integration" \in Knows(RackPoints[m]) => m \in RackRequests
          /\ m \in RackRequests => DemandsOwner(RackPoints[m])
    /\ \A m \in DOMAIN FileRackPoints :
          /\ IsPart(FileRackPoints[m])
          /\ "integration" \in Knows(FileRackPoints[m]) => m \in FileRackRequests
          /\ m \in FileRackRequests => DemandsOwner(FileRackPoints[m])
<1>1. ASSUME NEW m \in DOMAIN RackPoints
      PROVE  /\ IsPart(RackPoints[m])
             /\ "integration" \in Knows(RackPoints[m]) => m \in RackRequests
             /\ m \in RackRequests => DemandsOwner(RackPoints[m])
  <2>1. CASE m \in RackRequests
    <3>1. RackPoints[m] = AllOf({IntegrationPublisherFields, StateText})
      BY <2>1, RackForms
    <3> QED
      BY <2>1, <3>1, OwnedParts
  <2>2. CASE m \notin RackRequests
    <3>1. \/ RackPoints[m] = StateText
          \/ RackPoints[m] = AllOf({EngUnit({"kPa"}), IsSetpoint})
          \/ \E units : RackPoints[m] = EngUnit(units)
      BY <2>2, RackForms DEF RackRequests
    <3>2. IsPart(RackPoints[m]) /\ "integration" \notin Knows(RackPoints[m])
      BY <3>1, PlainParts
    <3> QED
      BY <2>2, <3>2
  <2> QED
    BY <2>1, <2>2
<1>2. ASSUME NEW m \in DOMAIN FileRackPoints
      PROVE  /\ IsPart(FileRackPoints[m])
             /\ "integration" \in Knows(FileRackPoints[m]) => m \in FileRackRequests
             /\ m \in FileRackRequests => DemandsOwner(FileRackPoints[m])
  <2>1. CASE m = "RackLeakDetectTray"
    <3>1. FileRackPoints[m] = AllOf({IntegrationPublisherFields, StateText})
      BY <2>1, FileRackForms
    <3> QED
      BY <2>1, <3>1, OwnedParts DEF FileRackRequests
  <2>2. CASE m # "RackLeakDetectTray"
    BY <1>1, <2>2, FileRackForms DEF FileRackRequests
  <2> QED
    BY <2>1, <2>2
<1> QED
  BY <1>1, <1>2

\* The messages of racks, in either edition.
LEMMA RackMessage ==
    ASSUME NEW points \in {RackPoints, FileRackPoints}, NEW m \in DOMAIN points
    PROVE  Message(Rack(points)[m], "Rack", m, RackLocationIdentifiers, points[m])
<1> DEFINE parts == {MetadataBase, RackLocationIdentifiers, ObjectType("Rack"), PointType(m), points[m]}
<1>1. Rack(points)[m] = AllOf(parts)
  BY DEF Rack
<1>2. m \notin AnyObject
  BY RackForms, FileRackForms DEF AnyObject
<1>3. ASSUME NEW payload, NEW spared
      PROVE  Fulfils(AllOf(parts), payload, spared) <=>
               /\ Fulfils(MetadataBase, payload, spared)
               /\ Fulfils(PointType(m), payload, spared)
               /\ Fulfils(RackLocationIdentifiers, payload, spared)
               /\ Fulfils(points[m], payload, spared)
               /\ Fulfils(ObjectType("Rack"), payload, spared)
  BY AllOfFulfilled
<1>4. ASSUME NEW f
      PROVE  f \in Knows(AllOf(parts)) <=>
               \/ f \in Knows(MetadataBase) \/ f \in Knows(RackLocationIdentifiers)
               \/ f \in Knows(ObjectType("Rack")) \/ f \in Knows(PointType(m))
               \/ f \in Knows(points[m])
  BY AllOfKnows
<1>5. /\ Knows(MetadataBase) = {"objectType", "pointType"} /\ Knows(PointType(m)) = {"pointType"}
      /\ Knows(ObjectType("Rack")) = {"objectType"}
  BY BaseParts
<1> HIDE DEF parts
<1>6. \A f : f \in Knows(AllOf(parts)) <=>
          \/ f \in {"objectType", "pointType"} \/ f \in Knows(RackLocationIdentifiers)
          \/ f \in Knows(points[m])
  BY <1>4, <1>5
<1>7. Knows(AllOf(parts)) =
        {"objectType", "pointType"} \cup Knows(RackLocationIdentifiers) \cup Knows(points[m])
  BY <1>6
<1> QED
  BY <1>1, <1>2, <1>3, <1>7, TheyAreSchemas DEF Message

\* The parts of the points of power meters.
LEMMA MeterForms ==
    /\ DOMAIN PowerMeterPoints =
          {"Voltage", "PowerFactor", "Frequency", "ApparentPower", "ActivePower", "Current",
           "CurrentLimit", "PhaseCurrent", "GenericPoint"}
    /\ \A m \in {"Voltage", "Frequency", "ApparentPower", "ActivePower", "Current",
                 "CurrentLimit"} : PowerMeterPoints[m] = EngUnit(Text)
    /\ PowerMeterPoints["PowerFactor"] = Optional(<<>>)
    /\ PowerMeterPoints["PhaseCurrent"] =
          AllOf({EngUnit(Text), Object({"phase"}, [phase |-> Phases])})
    /\ PowerMeterPoints["GenericPoint"] = GenericPointFields
BY DEF PowerMeterPoints, Voltage, PowerFactor, Frequency, ApparentPower, ActivePower, Current,
       CurrentLimit, PhaseCurrent, GenericPowerMeterPoint

\* The points of meters are parts, and only the generic one can have an owner.
LEMMA MeterParts ==
    ASSUME NEW m \in DOMAIN PowerMeterPoints
    PROVE  /\ IsPart(PowerMeterPoints[m])
           /\ "integration" \in Knows(PowerMeterPoints[m]) => m = "GenericPoint"
<1>1. CASE m = "GenericPoint"
  BY <1>1, MeterForms, ChoosingParts
<1>2. CASE m = "PhaseCurrent"
  <2> DEFINE phase == Object({"phase"}, [phase |-> Phases])
  <2>1. Knows(phase) = {"phase"}
    BY ObjectKnows
  <2>2. Knows(EngUnit(Text)) = {"engUnit"}
    BY MeasureParts
  <2>3. PowerMeterPoints[m] = AllOf({EngUnit(Text), phase})
    BY <1>2, MeterForms
  <2> HIDE DEF phase
  <2>4. Knows(PowerMeterPoints[m]) = {"engUnit", "phase"}
    BY <2>1, <2>2, <2>3, AllOfTwo
  <2> QED
    BY <2>4 DEF IsPart, PartFields
<1>3. CASE m \notin {"GenericPoint", "PhaseCurrent"}
  <2>1. PowerMeterPoints[m] = EngUnit(Text) \/ PowerMeterPoints[m] = Optional(<<>>)
    BY <1>3, MeterForms
  <2> QED
    BY <2>1, PlainParts
<1> QED
  BY <1>1, <1>2, <1>3

\* The messages of power meters.
LEMMA MeterMessage ==
    ASSUME NEW m \in DOMAIN PowerMeterPoints
    PROVE  Message(Meter(PowerMeterPoints)[m], "PowerMeter", m, PowerMeterIdentifiers,
                   PowerMeterPoints[m])
<1> DEFINE parts == {PowerMeterMetadataBase, PointType(m), PowerMeterPoints[m]}
                      \cup IF m = "GenericPoint" THEN {} ELSE {ObjectType("PowerMeter")}
<1>1. Meter(PowerMeterPoints)[m] = AllOf(parts)
  BY DEF Meter
<1>2. m \in AnyObject <=> m = "GenericPoint"
  BY MeterForms DEF AnyObject
<1>3. /\ \A payload, spared :
            Fulfils(PowerMeterMetadataBase, payload, spared) <=>
                /\ Fulfils(MetadataBase, payload, spared)
                /\ Fulfils(PowerMeterIdentifiers, payload, spared)
      /\ Knows(PowerMeterMetadataBase) = Knows(MetadataBase) \cup Knows(PowerMeterIdentifiers)
  BY AllOfTwo DEF PowerMeterMetadataBase
<1>4. ASSUME NEW payload, NEW spared
      PROVE  Fulfils(AllOf(parts), payload, spared) <=>
               /\ Fulfils(PowerMeterMetadataBase, payload, spared)
               /\ Fulfils(PointType(m), payload, spared)
               /\ Fulfils(PowerMeterPoints[m], payload, spared)
               /\ m # "GenericPoint" => Fulfils(ObjectType("PowerMeter"), payload, spared)
  BY AllOfFulfilled
<1>5. ASSUME NEW f
      PROVE  f \in Knows(AllOf(parts)) <=>
               \/ f \in Knows(PowerMeterMetadataBase) \/ f \in Knows(PointType(m))
               \/ f \in Knows(PowerMeterPoints[m])
               \/ m # "GenericPoint" /\ f \in Knows(ObjectType("PowerMeter"))
  BY AllOfKnows
<1>6. /\ Knows(MetadataBase) = {"objectType", "pointType"} /\ Knows(PointType(m)) = {"pointType"}
      /\ Knows(ObjectType("PowerMeter")) = {"objectType"}
  BY BaseParts
<1> HIDE DEF parts
<1>7. \A f : f \in Knows(AllOf(parts)) <=>
          \/ f \in {"objectType", "pointType"} \/ f \in Knows(PowerMeterIdentifiers)
          \/ f \in Knows(PowerMeterPoints[m])
  BY <1>3, <1>5, <1>6
<1>8. Knows(AllOf(parts)) =
        {"objectType", "pointType"} \cup Knows(PowerMeterIdentifiers) \cup Knows(PowerMeterPoints[m])
  BY <1>7
<1> QED
  BY <1>1, <1>2, <1>3, <1>4, <1>8, TheyAreSchemas DEF Message

\* Messages without an object type of their own, from their parts.
LEMMA SystemMessage ==
    ASSUME NEW m \in AnyObject, NEW place, NEW part, NEW s, IsSchema(s),
           \A payload, spared :
               Fulfils(s, payload, spared) <=>
                   /\ Fulfils(MetadataBase, payload, spared)
                   /\ Fulfils(PointType(m), payload, spared)
                   /\ Fulfils(place, payload, spared)
                   /\ Fulfils(part, payload, spared),
           \A f : f \in Knows(s) <=>
                      \/ f \in Knows(MetadataBase) \/ f \in Knows(PointType(m))
                      \/ f \in Knows(place) \/ f \in Knows(part)
    PROVE  Message(s, "System", m, place, part)
<1>1. Knows(MetadataBase) = {"objectType", "pointType"} /\ Knows(PointType(m)) = {"pointType"}
  BY BaseParts
<1>2. \A f : f \in Knows(s) <=>
          f \in {"objectType", "pointType"} \/ f \in Knows(place) \/ f \in Knows(part)
  BY <1>1
<1>3. Knows(s) = {"objectType", "pointType"} \cup Knows(place) \cup Knows(part)
  BY <1>2
<1> QED
  BY <1>3 DEF Message

\* Nothing is demanded by no field.
LEMMA NothingDemanded ==
    ASSUME NEW payload, NEW spared PROVE Fulfils(Optional(<<>>), payload, spared)
<1>1. DOMAIN <<>> = {}
  OBVIOUS
<1> QED
  BY <1>1, OptionalFulfilled

\* The places of the heartbeats and of the points of systems, and the part that
\* names the scope of a heartbeat.
Nowhere == Optional(<<>>)
Scoped == Optional([scope |-> Text])
OfSystem == Object({"objectName", "objectId"}, [objectName |-> Text, objectId |-> Text])

\* The heartbeats of the published catalogue.
LEMMA ViewerHeartbeats ==
    /\ Message(HeartbeatTimestampBms, "System", "HeartbeatTimestampBms", Nowhere, Scoped)
    /\ Message(HeartbeatEchoBms, "System", "HeartbeatEchoBms", Nowhere, IntegrationPublisherFields)
    /\ Message(HearbeatTimestampIntegration, "System", "HearbeatTimestampIntegration", Nowhere,
               IntegrationPublisherFields)
    /\ Message(HeartbeatEchoIntegration, "System", "HeartbeatEchoIntegration", Nowhere,
               AllOf({IntegrationPublisherFields, Scoped}))
<1>1. Knows(Nowhere) = {} /\ \A payload, spared : Fulfils(Nowhere, payload, spared)
  BY NothingKnown, NothingDemanded DEF Nowhere
<1>2. Message(HeartbeatTimestampBms, "System", "HeartbeatTimestampBms", Nowhere, Scoped)
  <2> DEFINE m == "HeartbeatTimestampBms"
             s == HeartbeatTimestampBms
  <2>1. s = AllOf({MetadataBase, PointType(m), Scoped})
    BY DEF HeartbeatTimestampBms, Scoped
  <2>0. IsSchema(s)
    BY <2>1, TheyAreSchemas
  <2>2. m \in AnyObject
    BY DEF AnyObject
  <2>3. \A payload, spared : Fulfils(s, payload, spared) <=>
            /\ Fulfils(MetadataBase, payload, spared) /\ Fulfils(PointType(m), payload, spared)
            /\ Fulfils(Scoped, payload, spared)
    BY <2>1, AllOfFulfilled
  <2>4. \A f : f \in Knows(s) <=>
            f \in Knows(MetadataBase) \/ f \in Knows(PointType(m)) \/ f \in Knows(Scoped)
    BY <2>1, AllOfKnows
  <2> HIDE DEF m, s
  <2>5. Message(s, "System", m, Nowhere, Scoped)
    BY <1>1, <2>0, <2>2, <2>3, <2>4, SystemMessage
  <2> QED
    BY <2>5 DEF m, s
<1>3. Message(HeartbeatEchoBms, "System", "HeartbeatEchoBms", Nowhere, IntegrationPublisherFields)
  <2> DEFINE m == "HeartbeatEchoBms"
             s == HeartbeatEchoBms
             part == IntegrationPublisherFields
  <2>1. s = AllOf({MetadataBase, PointType(m), part})
    BY DEF HeartbeatEchoBms, IntegrationPublisherFields
  <2>0. IsSchema(s)
    BY <2>1, TheyAreSchemas
  <2>2. m \in AnyObject
    BY DEF AnyObject
  <2>3. \A payload, spared : Fulfils(s, payload, spared) <=>
            /\ Fulfils(MetadataBase, payload, spared) /\ Fulfils(PointType(m), payload, spared)
            /\ Fulfils(part, payload, spared)
    BY <2>1, AllOfFulfilled
  <2>4. \A f : f \in Knows(s) <=>
            f \in Knows(MetadataBase) \/ f \in Knows(PointType(m)) \/ f \in Knows(part)
    BY <2>1, AllOfKnows
  <2> HIDE DEF m, s, part
  <2>5. Message(s, "System", m, Nowhere, part)
    BY <1>1, <2>0, <2>2, <2>3, <2>4, SystemMessage
  <2> QED
    BY <2>5 DEF m, s, part
<1>4. Message(HearbeatTimestampIntegration, "System", "HearbeatTimestampIntegration", Nowhere,
              IntegrationPublisherFields)
  <2> DEFINE m == "HearbeatTimestampIntegration"
             s == HearbeatTimestampIntegration
             part == IntegrationPublisherFields
  <2>1. s = AllOf({MetadataBase, part, PointType(m)})
    BY DEF HearbeatTimestampIntegration
  <2>0. IsSchema(s)
    BY <2>1, TheyAreSchemas
  <2>2. m \in AnyObject
    BY DEF AnyObject
  <2>3. \A payload, spared : Fulfils(s, payload, spared) <=>
            /\ Fulfils(MetadataBase, payload, spared) /\ Fulfils(PointType(m), payload, spared)
            /\ Fulfils(part, payload, spared)
    BY <2>1, AllOfFulfilled
  <2>4. \A f : f \in Knows(s) <=>
            f \in Knows(MetadataBase) \/ f \in Knows(PointType(m)) \/ f \in Knows(part)
    BY <2>1, AllOfKnows
  <2> HIDE DEF m, s, part
  <2>5. Message(s, "System", m, Nowhere, part)
    BY <1>1, <2>0, <2>2, <2>3, <2>4, SystemMessage
  <2> QED
    BY <2>5 DEF m, s, part
<1>5. Message(HeartbeatEchoIntegration, "System", "HeartbeatEchoIntegration", Nowhere,
              AllOf({IntegrationPublisherFields, Scoped}))
  <2> DEFINE m == "HeartbeatEchoIntegration"
             s == HeartbeatEchoIntegration
             part == AllOf({IntegrationPublisherFields, Scoped})
  <2>1. s = AllOf({MetadataBase, IntegrationPublisherFields, PointType(m), Scoped})
    BY DEF HeartbeatEchoIntegration, Scoped
  <2>0. IsSchema(s)
    BY <2>1, TheyAreSchemas
  <2>2. m \in AnyObject
    BY DEF AnyObject
  <2>3. /\ \A payload, spared : Fulfils(part, payload, spared) <=>
              /\ Fulfils(IntegrationPublisherFields, payload, spared)
              /\ Fulfils(Scoped, payload, spared)
        /\ \A f : f \in Knows(part) <=> f \in Knows(IntegrationPublisherFields) \/ f \in Knows(Scoped)
    BY AllOfFulfilled, AllOfKnows
  <2>4. \A payload, spared : Fulfils(s, payload, spared) <=>
            /\ Fulfils(MetadataBase, payload, spared) /\ Fulfils(PointType(m), payload, spared)
            /\ Fulfils(IntegrationPublisherFields, payload, spared)
            /\ Fulfils(Scoped, payload, spared)
    BY <2>1, AllOfFulfilled
  <2>5. \A f : f \in Knows(s) <=>
            \/ f \in Knows(MetadataBase) \/ f \in Knows(PointType(m))
            \/ f \in Knows(IntegrationPublisherFields) \/ f \in Knows(Scoped)
    BY <2>1, AllOfKnows
  <2> HIDE DEF m, s, part
  <2>6. Message(s, "System", m, Nowhere, part)
    BY <1>1, <2>0, <2>2, <2>3, <2>4, <2>5, SystemMessage
  <2> QED
    BY <2>6 DEF m, s, part
<1> QED
  BY <1>2, <1>3, <1>4, <1>5

\* The heartbeats of the file.
LEMMA FileHeartbeats ==
    ASSUME NEW m \in AnyObject, NEW part
    PROVE  Message(Heartbeat(m, part), "System", m, OfSystem, part)
<1> DEFINE s == Heartbeat(m, part)
<1>1. s = AllOf({MetadataBase, PointType(m), OfSystem, part})
  BY DEF Heartbeat, OfSystem
<1>2. \A payload, spared : Fulfils(s, payload, spared) <=>
          /\ Fulfils(MetadataBase, payload, spared) /\ Fulfils(PointType(m), payload, spared)
          /\ Fulfils(OfSystem, payload, spared) /\ Fulfils(part, payload, spared)
  BY <1>1, AllOfFulfilled
<1>3. \A f : f \in Knows(s) <=>
          \/ f \in Knows(MetadataBase) \/ f \in Knows(PointType(m))
          \/ f \in Knows(OfSystem) \/ f \in Knows(part)
  BY <1>1, AllOfKnows
<1>4. IsSchema(s)
  BY <1>1, TheyAreSchemas
<1> HIDE DEF s
<1>5. Message(s, "System", m, OfSystem, part)
  BY <1>2, <1>3, <1>4, SystemMessage
<1> QED
  BY <1>5 DEF s

-----------------------------------------------------------------------------
(* The channels of the published catalogue, by the type of their object.    *)

\* The types of equipment, by the points they have.
ElectricalTypes == {"BESS", "UPS", "ATS", "Generator", "Shunt", "Breaker"}
MechanicalTypes == {"CoolingTower", "HX", "CRAH", "CRAC", "AHU", "Chiller", "Tank"}
ActuatorTypes == {"Valve", "Pump", "Fan", "Damper"}
RequestedTypes == {"CDU", "GenericObject"}
EquipmentTypes ==
    ElectricalTypes \cup MechanicalTypes \cup ActuatorTypes \cup RequestedTypes \cup {"Sensor"}

\* The points that the metadata channel of a type of equipment lists.
PointsOfType(object) ==
    CASE object \in ElectricalTypes -> ElectricalPoints
      [] object \in MechanicalTypes -> MechanicalPoints
      [] object = "CDU" -> MechanicalPoints \cup SpRequest
      [] object = "GenericObject" -> MechanicalPoints \cup SpRequest \cup {"Sound"}
      [] object = "Sensor" -> SensorPoints
      [] object = "Valve" -> Actuator("ValvePosition")
      [] object = "Pump" -> Actuator("PumpSpeed")
      [] object = "Fan" -> Actuator("FanSpeed")
      [] object = "Damper" -> Actuator("DamperPosition")

\* The two channels that every type of equipment has.
EquipmentMetadata(object) == Metadata(object, Of(object, PointsOfType(object)))
EquipmentValue(object) == Value(PUB, object, PointsOfType(object) \ SpRequest)

\* The points of a type are points of equipment; only two types have requests.
LEMMA PointSets ==
    ASSUME NEW object \in EquipmentTypes
    PROVE  /\ PointsOfType(object) \subseteq DOMAIN EquipmentPoints
           /\ IF object \in RequestedTypes THEN SpRequest \subseteq PointsOfType(object)
              ELSE PointsOfType(object) \cap SpRequest = {}
<1> USE DEF EquipmentTypes, ElectricalTypes, MechanicalTypes, ActuatorTypes, RequestedTypes
<1>1. /\ ElectricalPoints \subseteq DOMAIN EquipmentPoints
      /\ MeasuredPoints \subseteq DOMAIN EquipmentPoints
      /\ SpRequest \subseteq DOMAIN EquipmentPoints
      /\ {"ValvePosition", "PumpSpeed", "FanSpeed", "DamperPosition", "Sound"}
            \subseteq DOMAIN EquipmentPoints
  BY DEF ElectricalPoints, MeasuredPoints, SpRequest, EquipmentPoints
<1>2. /\ ElectricalPoints \cap SpRequest = {} /\ MeasuredPoints \cap SpRequest = {}
      /\ {"ValvePosition", "PumpSpeed", "FanSpeed", "DamperPosition", "Sound"} \cap SpRequest = {}
      /\ {"Available", "GenericPoint"} \subseteq ElectricalPoints
  BY DEF ElectricalPoints, MeasuredPoints, SpRequest
<1>3. /\ MechanicalPoints \subseteq DOMAIN EquipmentPoints /\ SensorPoints \subseteq DOMAIN EquipmentPoints
      /\ MechanicalPoints \cap SpRequest = {} /\ SensorPoints \cap SpRequest = {}
  BY <1>1, <1>2 DEF MechanicalPoints, SensorPoints
<1>4. ASSUME NEW p \in {"ValvePosition", "PumpSpeed", "FanSpeed", "DamperPosition"}
      PROVE  Actuator(p) \subseteq DOMAIN EquipmentPoints /\ Actuator(p) \cap SpRequest = {}
  BY <1>1, <1>2 DEF Actuator
<1>5. CASE object \in ElectricalTypes
  <2>1. PointsOfType(object) = ElectricalPoints
    BY <1>5 DEF PointsOfType
  <2> QED
    BY <1>1, <1>2, <1>5, <2>1
<1>6. CASE object \in MechanicalTypes
  <2>1. PointsOfType(object) = MechanicalPoints
    BY <1>6 DEF PointsOfType
  <2> QED
    BY <1>3, <1>6, <2>1
<1>7. CASE object \in RequestedTypes
  <2>1. \/ PointsOfType(object) = MechanicalPoints \cup SpRequest
        \/ PointsOfType(object) = MechanicalPoints \cup SpRequest \cup {"Sound"}
    BY <1>7 DEF PointsOfType
  <2> QED
    BY <1>1, <1>3, <1>7, <2>1
<1>8. CASE object = "Sensor"
  <2>1. PointsOfType(object) = SensorPoints
    BY <1>8 DEF PointsOfType
  <2> QED
    BY <1>3, <1>8, <2>1
<1>9. CASE object \in ActuatorTypes
  <2>1. \E p \in {"ValvePosition", "PumpSpeed", "FanSpeed", "DamperPosition"} :
           PointsOfType(object) = Actuator(p)
    BY <1>9 DEF PointsOfType
  <2> QED
    BY <1>4, <1>9, <2>1
<1> QED
  BY <1>5, <1>6, <1>7, <1>8, <1>9

\* The metadata channels of equipment, by that function.
LEMMA EquipmentMetadataChannels ==
    /\ BessMetadata = EquipmentMetadata("BESS")
    /\ UpsMetadata = EquipmentMetadata("UPS")
    /\ AtsMetadata = EquipmentMetadata("ATS")
    /\ GeneratorMetadata = EquipmentMetadata("Generator")
    /\ ShuntMetadata = EquipmentMetadata("Shunt")
    /\ BreakerMetadata = EquipmentMetadata("Breaker")
    /\ CoolingTowerMetadata = EquipmentMetadata("CoolingTower")
    /\ HxMetadata = EquipmentMetadata("HX")
    /\ CrahMetadata = EquipmentMetadata("CRAH")
    /\ CracMetadata = EquipmentMetadata("CRAC")
    /\ AhuMetadata = EquipmentMetadata("AHU")
    /\ ChillerMetadata = EquipmentMetadata("Chiller")
    /\ TankMetadata = EquipmentMetadata("Tank")
    /\ ValveMetadata = EquipmentMetadata("Valve")
    /\ PumpMetadata = EquipmentMetadata("Pump")
    /\ FanMetadata = EquipmentMetadata("Fan")
    /\ DamperMetadata = EquipmentMetadata("Damper")
    /\ CduMetadata = EquipmentMetadata("CDU")
    /\ GenericObjectMetadata = EquipmentMetadata("GenericObject")
    /\ SensorMetadata = EquipmentMetadata("Sensor")
<1>1. /\ BessMetadata = EquipmentMetadata("BESS")
      /\ UpsMetadata = EquipmentMetadata("UPS")
      /\ AtsMetadata = EquipmentMetadata("ATS")
      /\ GeneratorMetadata = EquipmentMetadata("Generator")
      /\ ShuntMetadata = EquipmentMetadata("Shunt")
      /\ BreakerMetadata = EquipmentMetadata("Breaker")
  BY DEF BessMetadata, UpsMetadata, AtsMetadata, GeneratorMetadata, ShuntMetadata,
         BreakerMetadata, EquipmentMetadata, PointsOfType, ElectricalTypes, MechanicalTypes
<1>2. /\ CoolingTowerMetadata = EquipmentMetadata("CoolingTower")
      /\ HxMetadata = EquipmentMetadata("HX")
      /\ CrahMetadata = EquipmentMetadata("CRAH")
      /\ CracMetadata = EquipmentMetadata("CRAC")
      /\ AhuMetadata = EquipmentMetadata("AHU")
      /\ ChillerMetadata = EquipmentMetadata("Chiller")
      /\ TankMetadata = EquipmentMetadata("Tank")
  BY DEF CoolingTowerMetadata, HxMetadata, CrahMetadata, CracMetadata, AhuMetadata,
         ChillerMetadata, TankMetadata, EquipmentMetadata, PointsOfType, ElectricalTypes,
         MechanicalTypes
<1>3. /\ ValveMetadata = EquipmentMetadata("Valve")
      /\ PumpMetadata = EquipmentMetadata("Pump")
      /\ FanMetadata = EquipmentMetadata("Fan")
      /\ DamperMetadata = EquipmentMetadata("Damper")
  BY DEF ValveMetadata, PumpMetadata, FanMetadata, DamperMetadata, EquipmentMetadata,
         PointsOfType, ElectricalTypes, MechanicalTypes
<1>4. /\ CduMetadata = EquipmentMetadata("CDU")
      /\ GenericObjectMetadata = EquipmentMetadata("GenericObject")
      /\ SensorMetadata = EquipmentMetadata("Sensor")
  BY DEF CduMetadata, GenericObjectMetadata, SensorMetadata, EquipmentMetadata,
         PointsOfType, ElectricalTypes, MechanicalTypes
<1> QED
  BY <1>1, <1>2, <1>3, <1>4

\* And its channels for values under PUB.
LEMMA EquipmentValueChannels ==
    /\ BessValue = EquipmentValue("BESS")
    /\ UpsValue = EquipmentValue("UPS")
    /\ AtsValue = EquipmentValue("ATS")
    /\ GeneratorValue = EquipmentValue("Generator")
    /\ ShuntValue = EquipmentValue("Shunt")
    /\ BreakerValue = EquipmentValue("Breaker")
    /\ CoolingTowerValue = EquipmentValue("CoolingTower")
    /\ HxValue = EquipmentValue("HX")
    /\ CrahValue = EquipmentValue("CRAH")
    /\ CracValue = EquipmentValue("CRAC")
    /\ AhuValue = EquipmentValue("AHU")
    /\ ChillerValue = EquipmentValue("Chiller")
    /\ TankValue = EquipmentValue("Tank")
    /\ ValveValue = EquipmentValue("Valve")
    /\ PumpValue = EquipmentValue("Pump")
    /\ FanValue = EquipmentValue("Fan")
    /\ DamperValue = EquipmentValue("Damper")
    /\ CduValue = EquipmentValue("CDU")
    /\ GenericObjectValue = EquipmentValue("GenericObject")
    /\ SensorValue = EquipmentValue("Sensor")
<1> USE DEF EquipmentTypes, ElectricalTypes, MechanicalTypes, ActuatorTypes, RequestedTypes
<1>1. ASSUME NEW object \in EquipmentTypes \ RequestedTypes
      PROVE  EquipmentValue(object) = Value(PUB, object, PointsOfType(object))
  <2>1. PointsOfType(object) \ SpRequest = PointsOfType(object)
    BY PointSets
  <2> QED
    BY <2>1 DEF EquipmentValue
<1>2. /\ BessValue = Value(PUB, "BESS", PointsOfType("BESS"))
      /\ UpsValue = Value(PUB, "UPS", PointsOfType("UPS"))
      /\ AtsValue = Value(PUB, "ATS", PointsOfType("ATS"))
      /\ GeneratorValue = Value(PUB, "Generator", PointsOfType("Generator"))
      /\ ShuntValue = Value(PUB, "Shunt", PointsOfType("Shunt"))
      /\ BreakerValue = Value(PUB, "Breaker", PointsOfType("Breaker"))
  BY DEF BessValue, UpsValue, AtsValue, GeneratorValue, ShuntValue, BreakerValue,
         PointsOfType
<1>3. /\ CoolingTowerValue = Value(PUB, "CoolingTower", PointsOfType("CoolingTower"))
      /\ HxValue = Value(PUB, "HX", PointsOfType("HX"))
      /\ CrahValue = Value(PUB, "CRAH", PointsOfType("CRAH"))
      /\ CracValue = Value(PUB, "CRAC", PointsOfType("CRAC"))
      /\ AhuValue = Value(PUB, "AHU", PointsOfType("AHU"))
      /\ ChillerValue = Value(PUB, "Chiller", PointsOfType("Chiller"))
      /\ TankValue = Value(PUB, "Tank", PointsOfType("Tank"))
  BY DEF CoolingTowerValue, HxValue, CrahValue, CracValue, AhuValue, ChillerValue,
         TankValue, PointsOfType
<1>4. /\ ValveValue = Value(PUB, "Valve", PointsOfType("Valve"))
      /\ PumpValue = Value(PUB, "Pump", PointsOfType("Pump"))
      /\ FanValue = Value(PUB, "Fan", PointsOfType("Fan"))
      /\ DamperValue = Value(PUB, "Damper", PointsOfType("Damper"))
  BY DEF ValveValue, PumpValue, FanValue, DamperValue, PointsOfType
<1>5. /\ SensorValue = Value(PUB, "Sensor", PointsOfType("Sensor"))
  BY DEF SensorValue, PointsOfType
<1>6. MechanicalPoints \cap SpRequest = {} /\ "Sound" \notin SpRequest
  BY DEF MechanicalPoints, ElectricalPoints, MeasuredPoints, SpRequest
<1>7. /\ PointsOfType("CDU") = MechanicalPoints \cup SpRequest
      /\ PointsOfType("GenericObject") = MechanicalPoints \cup SpRequest \cup {"Sound"}
  BY DEF PointsOfType
<1>8. /\ PointsOfType("CDU") \ SpRequest = MechanicalPoints
      /\ PointsOfType("GenericObject") \ SpRequest = MechanicalPoints \cup {"Sound"}
  BY <1>6, <1>7
<1>9. CduValue = EquipmentValue("CDU") /\ GenericObjectValue = EquipmentValue("GenericObject")
  BY <1>8 DEF CduValue, GenericObjectValue, EquipmentValue
<1> QED
  BY <1>1, <1>2, <1>3, <1>4, <1>5, <1>9

\* Every channel of the published catalogue is one of these.
LEMMA ViewerTable ==
    /\ \A c \in ViewerChannels :
          \/ c \in {RackMetadata, PowerMeterMetadata, SystemMetadata}
          \/ c \in {RackBmsValue, RackIntegrationValue, PowerMeterValue, SystemBmsValue,
                    SystemIntegrationValue}
          \/ \E object \in EquipmentTypes : c \in {EquipmentMetadata(object), EquipmentValue(object)}
          \/ \E object \in RequestedTypes : c = Value(AnyIntegration, object, SpRequest)
    /\ {RackMetadata, PowerMeterMetadata, SystemMetadata, PowerMeterValue} \subseteq ViewerChannels
    /\ \A object \in EquipmentTypes :
          EquipmentMetadata(object) \in ViewerChannels /\ EquipmentValue(object) \in ViewerChannels
    /\ \A object \in RequestedTypes : Value(AnyIntegration, object, SpRequest) \in ViewerChannels
<1> DEFINE metadata ==
      {BessMetadata, UpsMetadata, AtsMetadata, GeneratorMetadata, ShuntMetadata,
       BreakerMetadata, CoolingTowerMetadata, HxMetadata, CrahMetadata, CracMetadata,
       AhuMetadata, ChillerMetadata, TankMetadata, ValveMetadata, PumpMetadata,
       FanMetadata, DamperMetadata, CduMetadata, GenericObjectMetadata, SensorMetadata}
    values ==
      {BessValue, UpsValue, AtsValue, GeneratorValue, ShuntValue, BreakerValue,
       CoolingTowerValue, HxValue, CrahValue, CracValue, AhuValue, ChillerValue,
       TankValue, ValveValue, PumpValue, FanValue, DamperValue, CduValue,
       GenericObjectValue, SensorValue}
    own ==
      {RackMetadata, PowerMeterMetadata, SystemMetadata, RackBmsValue, RackIntegrationValue,
       PowerMeterValue, SystemBmsValue, SystemIntegrationValue}
    requests == {CduIntegrationValue, GenericObjectIntegrationValue}
<1>1. ViewerChannels = metadata \cup values \cup own \cup requests
  BY DEF ViewerChannels
<1>2. /\ \A c \in metadata : \E object \in EquipmentTypes : c = EquipmentMetadata(object)
      /\ \A object \in EquipmentTypes : EquipmentMetadata(object) \in metadata
  BY EquipmentMetadataChannels
     DEF EquipmentTypes, ElectricalTypes, MechanicalTypes, ActuatorTypes, RequestedTypes
<1>3. /\ \A c \in values : \E object \in EquipmentTypes : c = EquipmentValue(object)
      /\ \A object \in EquipmentTypes : EquipmentValue(object) \in values
  BY EquipmentValueChannels
     DEF EquipmentTypes, ElectricalTypes, MechanicalTypes, ActuatorTypes, RequestedTypes
<1>4. /\ \A c \in requests : \E object \in RequestedTypes : c = Value(AnyIntegration, object, SpRequest)
      /\ \A object \in RequestedTypes : Value(AnyIntegration, object, SpRequest) \in requests
  BY DEF RequestedTypes, CduIntegrationValue, GenericObjectIntegrationValue
<1>5. /\ {RackMetadata, PowerMeterMetadata, SystemMetadata, PowerMeterValue} \subseteq own
      /\ \A c \in own :
            \/ c \in {RackMetadata, PowerMeterMetadata, SystemMetadata}
            \/ c \in {RackBmsValue, RackIntegrationValue, PowerMeterValue, SystemBmsValue,
                      SystemIntegrationValue}
  OBVIOUS
<1> HIDE DEF metadata, values, own, requests
<1> QED
  BY <1>1, <1>2, <1>3, <1>4, <1>5

-----------------------------------------------------------------------------
(* What the messages of a metadata channel accept.                          *)

\* A payload a message accepts, but for the values of its phase.
Taken(s, payload) == Fulfils(s, payload, {"phase"}) /\ DOMAIN payload \subseteq Knows(s)

\* Such a payload names its point and object, and can be read in one way.
Clear(object, m, payload) ==
    /\ {"objectType", "pointType"} \subseteq DOMAIN payload /\ payload.pointType = m
    /\ m \notin AnyObject => payload.objectType = object
    /\ ~({"engUnit", "stateText"} \subseteq DOMAIN payload)
    /\ "associateId" \in DOMAIN payload => Naming \cap DOMAIN payload = {}

\* And so does one that a message of any object type takes; it can have an owner
\* only if the part of the point knows of one, and must if the part demands it.
LEMMA MessageIsClear ==
    ASSUME NEW s, NEW object, NEW m, NEW place, NEW part,
           Message(s, object, m, place, part), IsPlace(place), IsPart(part),
           NEW payload, Taken(s, payload)
    PROVE  /\ Clear(object, m, payload)
           /\ "integration" \in DOMAIN payload => "integration" \in Knows(part)
           /\ DemandsOwner(part) => "integration" \in DOMAIN payload
<1> DEFINE spared == {"phase"}
<1>1. spared \in SUBSET {"phase"}
  OBVIOUS
<1>2. /\ Fulfils(MetadataBase, payload, spared) /\ Fulfils(PointType(m), payload, spared)
      /\ Fulfils(place, payload, spared) /\ Fulfils(part, payload, spared)
      /\ m \notin AnyObject => Fulfils(ObjectType(object), payload, spared)
  BY DEF Taken, Message
<1>3. DOMAIN payload \subseteq {"objectType", "pointType"} \cup Knows(place) \cup Knows(part)
  BY DEF Taken, Message
<1> HIDE DEF spared
<1>4. {"objectType", "pointType"} \subseteq DOMAIN payload /\ payload.pointType = m
  BY <1>1, <1>2, BaseParts
<1>5. m \notin AnyObject => payload.objectType = object
  BY <1>1, <1>2, <1>4, BaseParts
<1>6. ~({"engUnit", "stateText"} \subseteq DOMAIN payload)
  <2>1. Knows(place) \cap {"engUnit", "stateText"} = {}
    BY DEF IsPlace, PlaceFields
  <2>2. ~({"engUnit", "stateText"} \subseteq DOMAIN payload \cap Knows(part))
    BY <1>1, <1>2 DEF IsPart
  <2> QED
    BY <1>3, <2>1, <2>2
<1>7. "associateId" \in DOMAIN payload => Naming \cap DOMAIN payload = {}
  <2>1. "associateId" \notin Knows(part)
    BY DEF IsPart, PartFields
  <2>2. "associateId" \in DOMAIN payload \cap Knows(place) => Naming \cap DOMAIN payload = {}
    BY <1>1, <1>2 DEF IsPlace
  <2> QED
    BY <1>3, <2>1, <2>2
<1>8. "integration" \in DOMAIN payload => "integration" \in Knows(part)
  <2>1. "integration" \notin Knows(place)
    BY DEF IsPlace, PlaceFields
  <2> QED
    BY <1>3, <2>1
<1>9. DemandsOwner(part) => "integration" \in DOMAIN payload
  BY <1>1, <1>2 DEF DemandsOwner
<1> QED
  BY <1>4, <1>5, <1>6, <1>7, <1>8, <1>9 DEF Clear

\* The heartbeats the BMS sends, by their names in the file.
FileBmsHeartbeats == {"HeartbeatTimestampBms", "HeartbeatEchoBms"}

\* The points of systems, in either edition.
LEMMA SystemTable ==
    /\ DOMAIN SystemPoints =
          ElectricalPoints \cup {"HeartbeatTimestampBms", "HeartbeatEchoBms",
                                 "HearbeatTimestampIntegration", "HeartbeatEchoIntegration"}
    /\ \A m \in ElectricalPoints : SystemPoints[m] = Of("System", ElectricalPoints)[m]
    /\ SystemPoints["HeartbeatTimestampBms"] = HeartbeatTimestampBms
    /\ SystemPoints["HeartbeatEchoBms"] = HeartbeatEchoBms
    /\ SystemPoints["HearbeatTimestampIntegration"] = HearbeatTimestampIntegration
    /\ SystemPoints["HeartbeatEchoIntegration"] = HeartbeatEchoIntegration
    /\ DOMAIN FileSystemPoints =
          ElectricalPoints \cup FileBmsHeartbeats \cup FileIntegrationHeartbeats
    /\ \A m \in ElectricalPoints : FileSystemPoints[m] = Of("System", ElectricalPoints)[m]
    /\ \A m \in FileBmsHeartbeats : FileSystemPoints[m] = Heartbeat(m, Scoped)
    /\ \A m \in FileIntegrationHeartbeats :
          FileSystemPoints[m] = Heartbeat(m, IntegrationPublisherFields)
<1>1. /\ \A m \in ElectricalPoints : SystemEquipmentPoints[m] = Of("System", ElectricalPoints)[m]
      /\ FileBmsHeartbeats \cap FileIntegrationHeartbeats = {}
      /\ ElectricalPoints \cap (FileBmsHeartbeats \cup FileIntegrationHeartbeats) = {}
      /\ SystemBmsPoints = FileBmsHeartbeats \cup ElectricalPoints
  BY DEF SystemEquipmentPoints, FileBmsHeartbeats, FileIntegrationHeartbeats, ElectricalPoints,
         SystemBmsPoints
<1>2. DOMAIN SystemHeartbeats = {"HeartbeatTimestampBms", "HeartbeatEchoBms",
                                 "HearbeatTimestampIntegration", "HeartbeatEchoIntegration"}
  BY DEF SystemHeartbeats
<1>3. ElectricalPoints \cap DOMAIN SystemHeartbeats = {}
  BY <1>2 DEF ElectricalPoints
<1>4. /\ SystemHeartbeats["HeartbeatTimestampBms"] = HeartbeatTimestampBms
      /\ SystemHeartbeats["HeartbeatEchoBms"] = HeartbeatEchoBms
      /\ SystemHeartbeats["HearbeatTimestampIntegration"] = HearbeatTimestampIntegration
      /\ SystemHeartbeats["HeartbeatEchoIntegration"] = HeartbeatEchoIntegration
  BY DEF SystemHeartbeats
<1>5. /\ DOMAIN SystemPoints = ElectricalPoints \cup DOMAIN SystemHeartbeats
      /\ \A m \in ElectricalPoints : SystemPoints[m] = Of("System", ElectricalPoints)[m]
      /\ \A m \in DOMAIN SystemHeartbeats : SystemPoints[m] = SystemHeartbeats[m]
  BY <1>1, <1>3 DEF SystemPoints
<1>6. /\ DOMAIN FileSystemPoints = SystemBmsPoints \cup FileIntegrationHeartbeats
      /\ \A m \in ElectricalPoints : FileSystemPoints[m] = Of("System", ElectricalPoints)[m]
      /\ \A m \in FileBmsHeartbeats : FileSystemPoints[m] = Heartbeat(m, Scoped)
      /\ \A m \in FileIntegrationHeartbeats :
            FileSystemPoints[m] = Heartbeat(m, IntegrationPublisherFields)
  BY <1>1 DEF FileSystemPoints, Scoped
<1> QED
  BY <1>1, <1>2, <1>4, <1>5, <1>6

-----------------------------------------------------------------------------
(* The metadata channels of the two editions.                               *)

\* Numbered phases are all the file adds to a message.
LEMMA NumberedPhases ==
    ASSUME NEW s, IsSchema(s), NEW payload
    PROVE  /\ IsSchema(WithNumberedPhases(s))
           /\ Knows(WithNumberedPhases(s)) = Knows(s)
           /\ Taken(WithNumberedPhases(s), payload) <=> Taken(s, payload)
           /\ Valid(s, payload) => Valid(WithNumberedPhases(s), payload)
<1> DEFINE t == WithNumberedPhases(s)
<1>1. CASE "phase" \notin DOMAIN s.fields
  BY <1>1 DEF WithNumberedPhases
<1>2. CASE "phase" \in DOMAIN s.fields
  <2>1. t = [s EXCEPT !.fields.phase = s.fields.phase \cup {"1", "2", "3"}]
    BY <1>2 DEF WithNumberedPhases
  <2>2. /\ DOMAIN t = DOMAIN s
        /\ t.required = s.required /\ t.choices = s.choices
        /\ t.fields = [s.fields EXCEPT !.phase = s.fields.phase \cup {"1", "2", "3"}]
    BY <2>1 DEF IsSchema
  <2>3. /\ DOMAIN t.fields = DOMAIN s.fields
        /\ \A f \in DOMAIN s.fields : f # "phase" => t.fields[f] = s.fields[f]
        /\ s.fields["phase"] \subseteq t.fields["phase"]
    BY <1>2, <2>2
  <2> HIDE DEF t
  <2>4. IsSchema(t) /\ Knows(t) = Knows(s)
    BY <2>2, <2>3 DEF IsSchema, Knows
  <2>5. Taken(t, payload) <=> Taken(s, payload)
    BY <2>2, <2>3 DEF Taken, Fulfils, Knows
  <2>6. Valid(s, payload) => Valid(t, payload)
    BY <2>2, <2>3 DEF Valid
  <2> QED
    BY <2>4, <2>5, <2>6 DEF t
<1> QED
  BY <1>1, <1>2

\* A message takes what it accepts.
LEMMA ValidIsTaken ==
    ASSUME NEW s, NEW payload, Valid(s, payload) PROVE Taken(s, payload)
BY DEF Valid, Taken, Fulfils, Knows

\* A channel of the file is the channel it is made of, but for its messages.
LEMMA FileChannelIs ==
    ASSUME NEW publisher, NEW type, NEW object, NEW points, NEW messages
    PROVE  FileChannel(Channel(publisher, type, object, points, messages)) =
             Channel(publisher, type, object, points,
                     [m \in DOMAIN messages |-> WithNumberedPhases(messages[m])])
BY DEF FileChannel, Channel

\* A metadata channel as the file has it: its phases are numbers.
FileMetadata(object, messages) ==
    Metadata(object, [m \in DOMAIN messages |-> WithNumberedPhases(messages[m])])

\* The messages of the metadata channel of each object type.
MetadataTypes == EquipmentTypes \cup {"Rack", "PowerMeter", "System"}

\* In the published catalogue,
MessagesOf(object) ==
    CASE object = "Rack" -> Rack(RackPoints)
      [] object = "PowerMeter" -> Meter(PowerMeterPoints)
      [] object = "System" -> SystemPoints
      [] OTHER -> Of(object, PointsOfType(object))

\* and in the file.
FileMessagesOf(object) ==
    CASE object = "Rack" -> Rack(FileRackPoints)
      [] object = "System" -> FileSystemPoints
      [] OTHER -> MessagesOf(object)

\* What a metadata channel is made of, and what it becomes in the file.
LEMMA MetadataIs ==
    ASSUME NEW object, NEW messages
    PROVE  /\ Metadata(object, messages).type = "Metadata"
           /\ Metadata(object, messages).publisher = PUB
           /\ Metadata(object, messages).objectType = object
           /\ Metadata(object, messages).pointTypes = DOMAIN messages
           /\ Metadata(object, messages).messages = messages
           /\ FileChannel(Metadata(object, messages)) = FileMetadata(object, messages)
<1>1. FileChannel(Metadata(object, messages)) = FileMetadata(object, messages)
  <2> DEFINE numbered == [m \in DOMAIN messages |-> WithNumberedPhases(messages[m])]
  <2>1. FileChannel(Metadata(object, messages)) =
          Channel(PUB, "Metadata", object, DOMAIN messages, numbered)
    BY FileChannelIs DEF Metadata
  <2>2. DOMAIN numbered = DOMAIN messages
    OBVIOUS
  <2> QED
    BY <2>1, <2>2 DEF FileMetadata, Metadata
<1> QED
  BY <1>1 DEF Metadata, Channel

\* What a value channel is made of.
LEMMA ValueIs ==
    ASSUME NEW publisher, NEW object, NEW points
    PROVE  /\ Value(publisher, object, points).type = "Value"
           /\ Value(publisher, object, points).publisher = publisher
           /\ Value(publisher, object, points).objectType = object
           /\ Value(publisher, object, points).pointTypes = points
           /\ Value(publisher, object, points).messages = [value |-> ValueMessage]
           /\ FileChannel(Value(publisher, object, points)) = Value(publisher, object, points)
<1>1. FileChannel(Value(publisher, object, points)) = Value(publisher, object, points)
  <2> DEFINE messages == [value |-> ValueMessage]
  <2>1. WithNumberedPhases(ValueMessage) = ValueMessage
    BY DEF WithNumberedPhases, ValueMessage, Object
  <2>2. [m \in DOMAIN messages |-> WithNumberedPhases(messages[m])] = messages
    BY <2>1
  <2> QED
    BY <2>2, FileChannelIs DEF Value
<1> QED
  BY <1>1 DEF Value, Channel

-----------------------------------------------------------------------------
(* The facts about all metadata messages of an edition.                     *)

\* The points that can have an owner in the file, and those that must.
FileOwnable(object) ==
    CASE object = "Rack" -> FileRackRequests
      [] object = "PowerMeter" -> {"GenericPoint"}
      [] object = "System" -> ElectricalPoints \cup FileIntegrationHeartbeats
      [] OTHER -> OwnablePoints

\* The points that must have an owner in the file.
FileOwned(object) ==
    CASE object = "Rack" -> FileRackRequests
      [] object = "System" -> FileIntegrationHeartbeats
      [] OTHER -> SpRequest

\* The types are what they are called.
LEMMA TypeNames ==
    /\ EquipmentTypes \cap {"Rack", "PowerMeter", "System"} = {}
    /\ \A object \in EquipmentTypes :
          /\ MessagesOf(object) = Of(object, PointsOfType(object))
          /\ FileMessagesOf(object) = Of(object, PointsOfType(object))
          /\ FileOwnable(object) = OwnablePoints /\ FileOwned(object) = SpRequest
    /\ MessagesOf("Rack") = Rack(RackPoints) /\ FileMessagesOf("Rack") = Rack(FileRackPoints)
    /\ MessagesOf("PowerMeter") = Meter(PowerMeterPoints)
    /\ FileMessagesOf("PowerMeter") = Meter(PowerMeterPoints)
    /\ MessagesOf("System") = SystemPoints /\ FileMessagesOf("System") = FileSystemPoints
<1>1. EquipmentTypes \cap {"Rack", "PowerMeter", "System"} = {}
  BY DEF EquipmentTypes, ElectricalTypes, MechanicalTypes, ActuatorTypes, RequestedTypes
<1>2. \A object \in EquipmentTypes :
         /\ MessagesOf(object) = Of(object, PointsOfType(object))
         /\ FileMessagesOf(object) = Of(object, PointsOfType(object))
         /\ FileOwnable(object) = OwnablePoints /\ FileOwned(object) = SpRequest
  BY <1>1 DEF MessagesOf, FileMessagesOf, FileOwnable, FileOwned
<1>3. /\ MessagesOf("Rack") = Rack(RackPoints) /\ FileMessagesOf("Rack") = Rack(FileRackPoints)
      /\ MessagesOf("PowerMeter") = Meter(PowerMeterPoints)
      /\ FileMessagesOf("PowerMeter") = Meter(PowerMeterPoints)
      /\ MessagesOf("System") = SystemPoints /\ FileMessagesOf("System") = FileSystemPoints
  BY DEF MessagesOf, FileMessagesOf
<1> QED
  BY <1>1, <1>2, <1>3

\* What a payload that a message of equipment takes tells: its point, that few
\* points have an owner, and that a request has one.
LEMMA EquipmentFacts ==
    ASSUME NEW object, NEW points \in SUBSET DOMAIN EquipmentPoints, NEW m \in points,
           NEW payload, Taken(Of(object, points)[m], payload)
    PROVE  /\ Clear(object, m, payload)
           /\ "integration" \in DOMAIN payload => m \in OwnablePoints
           /\ m \in SpRequest => "integration" \in DOMAIN payload
<1>1. Message(Of(object, points)[m], object, m, EquipmentIdentifiers, EquipmentPoints[m])
  BY EquipmentMessage
<1> QED
  BY <1>1, EquipmentParts, ThePlaces, MessageIsClear

\* The same of racks, in either edition,
LEMMA RackFacts ==
    /\ \A m \in DOMAIN RackPoints : \A payload :
          Taken(Rack(RackPoints)[m], payload) => Clear("Rack", m, payload)
    /\ \A m \in DOMAIN FileRackPoints : \A payload :
          Taken(Rack(FileRackPoints)[m], payload) =>
              /\ Clear("Rack", m, payload)
              /\ "integration" \in DOMAIN payload <=> m \in FileRackRequests
<1>1. ASSUME NEW m \in DOMAIN RackPoints, NEW payload, Taken(Rack(RackPoints)[m], payload)
      PROVE  Clear("Rack", m, payload)
  <2>1. Message(Rack(RackPoints)[m], "Rack", m, RackLocationIdentifiers, RackPoints[m])
    BY RackMessage
  <2> QED
    BY <1>1, <2>1, RackParts, ThePlaces, MessageIsClear
<1>2. ASSUME NEW m \in DOMAIN FileRackPoints, NEW payload, Taken(Rack(FileRackPoints)[m], payload)
      PROVE  /\ Clear("Rack", m, payload)
             /\ "integration" \in DOMAIN payload <=> m \in FileRackRequests
  <2>1. Message(Rack(FileRackPoints)[m], "Rack", m, RackLocationIdentifiers, FileRackPoints[m])
    BY RackMessage
  <2> QED
    BY <1>2, <2>1, RackParts, ThePlaces, MessageIsClear
<1> QED
  BY <1>1, <1>2

\* of meters
LEMMA MeterFacts ==
    ASSUME NEW m \in DOMAIN PowerMeterPoints, NEW payload, Taken(Meter(PowerMeterPoints)[m], payload)
    PROVE  /\ Clear("PowerMeter", m, payload)
           /\ "integration" \in DOMAIN payload => m = "GenericPoint"
<1>1. Message(Meter(PowerMeterPoints)[m], "PowerMeter", m, PowerMeterIdentifiers, PowerMeterPoints[m])
  BY MeterMessage
<1> QED
  BY <1>1, MeterParts, ThePlaces, MessageIsClear

\* and of systems.
LEMMA SystemFacts ==
    /\ \A m \in DOMAIN SystemPoints : \A payload :
          Taken(SystemPoints[m], payload) => Clear("System", m, payload)
    /\ \A m \in DOMAIN FileSystemPoints : \A payload :
          Taken(FileSystemPoints[m], payload) =>
              /\ Clear("System", m, payload)
              /\ "integration" \in DOMAIN payload =>
                    m \in ElectricalPoints \cup FileIntegrationHeartbeats
              /\ m \in FileIntegrationHeartbeats => "integration" \in DOMAIN payload
<1>1. ElectricalPoints \in SUBSET DOMAIN EquipmentPoints
  BY DEF ElectricalPoints, EquipmentPoints
<1>2. ASSUME NEW m \in ElectricalPoints, NEW payload,
             Taken(Of("System", ElectricalPoints)[m], payload)
      PROVE  Clear("System", m, payload)
  BY <1>1, <1>2, EquipmentFacts
<1>3. /\ IsPlace(Nowhere) /\ IsPlace(OfSystem) /\ IsPart(Scoped) /\ "integration" \notin Knows(Scoped)
      /\ IsPart(IntegrationPublisherFields) /\ DemandsOwner(IntegrationPublisherFields)
      /\ IsPart(AllOf({IntegrationPublisherFields, Scoped}))
  BY ThePlaces, PlainParts, OwnedParts DEF Nowhere, OfSystem, Scoped
<1>4. ASSUME NEW m \in DOMAIN SystemPoints, NEW payload, Taken(SystemPoints[m], payload)
      PROVE  Clear("System", m, payload)
  <2>1. CASE m \in ElectricalPoints
    BY <1>2, <1>4, <2>1, SystemTable
  <2>2. CASE m \notin ElectricalPoints
    <3>1. \E part : IsPart(part) /\ Message(SystemPoints[m], "System", m, Nowhere, part)
      BY <1>3, <1>4, <2>2, SystemTable, ViewerHeartbeats
    <3> QED
      BY <1>3, <1>4, <3>1, MessageIsClear
  <2> QED
    BY <2>1, <2>2
<1>5. ASSUME NEW m \in DOMAIN FileSystemPoints, NEW payload, Taken(FileSystemPoints[m], payload)
      PROVE  /\ Clear("System", m, payload)
             /\ "integration" \in DOMAIN payload =>
                   m \in ElectricalPoints \cup FileIntegrationHeartbeats
             /\ m \in FileIntegrationHeartbeats => "integration" \in DOMAIN payload
  <2>1. CASE m \in ElectricalPoints
    <3>1. m \notin FileIntegrationHeartbeats
      BY <2>1 DEF ElectricalPoints, FileIntegrationHeartbeats
    <3> QED
      BY <1>2, <1>5, <2>1, <3>1, SystemTable
  <2>2. CASE m \in FileBmsHeartbeats
    <3>1. m \notin FileIntegrationHeartbeats /\ m \in AnyObject
      BY <2>2 DEF FileBmsHeartbeats, FileIntegrationHeartbeats, AnyObject
    <3>2. Message(FileSystemPoints[m], "System", m, OfSystem, Scoped)
      BY <2>2, <3>1, SystemTable, FileHeartbeats
    <3> QED
      BY <1>3, <1>5, <3>1, <3>2, MessageIsClear
  <2>3. CASE m \in FileIntegrationHeartbeats
    <3>1. m \in AnyObject
      BY <2>3 DEF FileIntegrationHeartbeats, AnyObject
    <3>2. Message(FileSystemPoints[m], "System", m, OfSystem, IntegrationPublisherFields)
      BY <2>3, <3>1, SystemTable, FileHeartbeats
    <3> QED
      BY <1>3, <1>5, <2>3, <3>2, MessageIsClear
  <2> QED
    BY <1>5, <2>1, <2>2, <2>3, SystemTable
<1> QED
  BY <1>4, <1>5

\* So a payload taken by any message of the published catalogue tells its point.
LEMMA ViewerMessageFacts ==
    ASSUME NEW object \in MetadataTypes, NEW m \in DOMAIN MessagesOf(object), NEW payload,
           Taken(MessagesOf(object)[m], payload)
    PROVE  Clear(object, m, payload)
<1>1. CASE object = "Rack"
  <2>1. DOMAIN Rack(RackPoints) = DOMAIN RackPoints
    BY DEF Rack
  <2> QED
    BY <1>1, <2>1, TypeNames, RackFacts
<1>2. CASE object = "PowerMeter"
  <2>1. DOMAIN Meter(PowerMeterPoints) = DOMAIN PowerMeterPoints
    BY DEF Meter
  <2> QED
    BY <1>2, <2>1, TypeNames, MeterFacts
<1>3. CASE object = "System"
  BY <1>3, TypeNames, SystemFacts
<1>4. CASE object \in EquipmentTypes
  <2>1. DOMAIN Of(object, PointsOfType(object)) = PointsOfType(object)
    BY DEF Of
  <2>2. PointsOfType(object) \in SUBSET DOMAIN EquipmentPoints
    BY <1>4, PointSets
  <2> QED
    BY <1>4, <2>1, <2>2, TypeNames, EquipmentFacts
<1> QED
  BY <1>1, <1>2, <1>3, <1>4 DEF MetadataTypes

\* In the file it tells as well who may own the point and who must.
LEMMA FileMessageFacts ==
    ASSUME NEW object \in MetadataTypes, NEW m \in DOMAIN FileMessagesOf(object), NEW payload,
           Taken(FileMessagesOf(object)[m], payload)
    PROVE  /\ Clear(object, m, payload)
           /\ "integration" \in DOMAIN payload => m \in FileOwnable(object)
           /\ m \in FileOwned(object) => "integration" \in DOMAIN payload
<1>1. CASE object = "Rack"
  <2>1. DOMAIN Rack(FileRackPoints) = DOMAIN FileRackPoints
    BY DEF Rack
  <2>2. FileOwnable(object) = FileRackRequests /\ FileOwned(object) = FileRackRequests
    BY <1>1 DEF FileOwnable, FileOwned
  <2> QED
    BY <1>1, <2>1, <2>2, TypeNames, RackFacts
<1>2. CASE object = "PowerMeter"
  <2>1. DOMAIN Meter(PowerMeterPoints) = DOMAIN PowerMeterPoints
    BY DEF Meter
  <2>2. FileOwnable(object) = {"GenericPoint"} /\ FileOwned(object) = SpRequest
    BY <1>2 DEF FileOwnable, FileOwned
  <2>3. DOMAIN PowerMeterPoints \cap SpRequest = {}
    BY MeterForms DEF SpRequest
  <2> QED
    BY <1>2, <2>1, <2>2, <2>3, TypeNames, MeterFacts
<1>3. CASE object = "System"
  <2>1. /\ FileOwnable(object) = ElectricalPoints \cup FileIntegrationHeartbeats
        /\ FileOwned(object) = FileIntegrationHeartbeats
    BY <1>3 DEF FileOwnable, FileOwned
  <2> QED
    BY <1>3, <2>1, TypeNames, SystemFacts
<1>4. CASE object \in EquipmentTypes
  <2>1. DOMAIN Of(object, PointsOfType(object)) = PointsOfType(object)
    BY DEF Of
  <2>2. PointsOfType(object) \in SUBSET DOMAIN EquipmentPoints
    BY <1>4, PointSets
  <2> QED
    BY <1>4, <2>1, <2>2, TypeNames, EquipmentFacts
<1> QED
  BY <1>1, <1>2, <1>3, <1>4 DEF MetadataTypes

-----------------------------------------------------------------------------
(* The channels of the file.                                                *)

\* The object types whose generic points an integration may own.
GenericTypes == EquipmentTypes \cup {"PowerMeter", "System"}

\* The value channels that differ in the file.
RackFileValue == Value(PUB, "Rack", DOMAIN RackPoints \ FileRackRequests)
RackFileIntegration == Value(AnyIntegration, "Rack", FileRackRequests)
SystemFileValue == Value(PUB, "System", SystemBmsPoints)
SystemFileIntegration ==
    Value(AnyIntegration, "System", FileIntegrationHeartbeats \cup ElectricalPoints)

\* Every type has the metadata channel of its messages.
LEMMA MetadataOfTypes ==
    /\ RackMetadata = Metadata("Rack", MessagesOf("Rack"))
    /\ PowerMeterMetadata = Metadata("PowerMeter", MessagesOf("PowerMeter"))
    /\ SystemMetadata = Metadata("System", MessagesOf("System"))
    /\ \A object \in EquipmentTypes :
          EquipmentMetadata(object) = Metadata(object, MessagesOf(object))
BY TypeNames DEF RackMetadata, PowerMeterMetadata, SystemMetadata, EquipmentMetadata

\* The value channel of systems is a value channel.
LEMMA SystemBmsValueIs ==
    SystemBmsValue.type = "Value" /\ SystemBmsValue.objectType = "System"
BY DEF SystemBmsValue, Channel

\* The channels both editions share, as they are in the published catalogue.
LEMMA SharedTable ==
    ASSUME NEW c \in ViewerChannels, c.objectType \notin {"Rack", "System"}
    PROVE  \/ c = PowerMeterMetadata \/ c = PowerMeterValue
           \/ \E object \in EquipmentTypes : c \in {EquipmentMetadata(object), EquipmentValue(object)}
           \/ \E object \in RequestedTypes : c = Value(AnyIntegration, object, SpRequest)
<1>1. RackMetadata.objectType = "Rack" /\ SystemMetadata.objectType = "System"
  BY MetadataIs DEF RackMetadata, SystemMetadata
<1>2. RackBmsValue.objectType = "Rack" /\ RackIntegrationValue.objectType = "Rack"
  BY ValueIs DEF RackBmsValue, RackIntegrationValue
<1>3. SystemIntegrationValue.objectType = "System"
  BY ValueIs DEF SystemIntegrationValue
<1> QED
  BY <1>1, <1>2, <1>3, SystemBmsValueIs, ViewerTable

\* Every channel of the file is one of these.
LEMMA FileTable ==
    /\ \A c \in FileChannels :
          \/ \E object \in MetadataTypes : c = FileMetadata(object, FileMessagesOf(object))
          \/ \E object \in EquipmentTypes : c = EquipmentValue(object)
          \/ \E object \in RequestedTypes : c = Value(AnyIntegration, object, SpRequest)
          \/ \E object \in GenericTypes : c = Value(AnyIntegration, object, {"GenericPoint"})
          \/ c \in {PowerMeterValue, RackFileValue, RackFileIntegration, SystemFileValue,
                    SystemFileIntegration}
    /\ \A object \in MetadataTypes : FileMetadata(object, FileMessagesOf(object)) \in FileChannels
    /\ \A object \in EquipmentTypes : EquipmentValue(object) \in FileChannels
    /\ \A object \in RequestedTypes : Value(AnyIntegration, object, SpRequest) \in FileChannels
    /\ \A object \in GenericTypes : Value(AnyIntegration, object, {"GenericPoint"}) \in FileChannels
    /\ {PowerMeterValue, RackFileValue, RackFileIntegration, SystemFileValue,
        SystemFileIntegration} \subseteq FileChannels
<1> DEFINE shared == {c \in ViewerChannels : c.objectType \notin {"Rack", "System"}}
           rack == Metadata("Rack", Rack(FileRackPoints))
           system == Metadata("System", FileSystemPoints)
           rewritten == {RackFileValue, rack, RackFileIntegration, SystemFileValue, system,
                         SystemFileIntegration}
           numbered == {FileChannel(c) : c \in shared \cup rewritten}
<1>1. FileChannels = numbered \cup GenericIntegrationValues
  BY DEF FileChannels, RackFileValue, RackFileIntegration, SystemFileValue, SystemFileIntegration
<1>2. \A c : c \in GenericIntegrationValues <=>
          \E object \in GenericTypes : c = Value(AnyIntegration, object, {"GenericPoint"})
  BY DEF GenericIntegrationValues, GenericTypes, EquipmentTypes, ElectricalTypes, MechanicalTypes,
         ActuatorTypes, RequestedTypes
<1>3. /\ FileChannel(rack) = FileMetadata("Rack", FileMessagesOf("Rack"))
      /\ FileChannel(system) = FileMetadata("System", FileMessagesOf("System"))
  BY TypeNames, MetadataIs
<1>4. /\ FileChannel(RackFileValue) = RackFileValue
      /\ FileChannel(RackFileIntegration) = RackFileIntegration
      /\ FileChannel(SystemFileValue) = SystemFileValue
      /\ FileChannel(SystemFileIntegration) = SystemFileIntegration
      /\ FileChannel(PowerMeterValue) = PowerMeterValue
  BY ValueIs DEF RackFileValue, RackFileIntegration, SystemFileValue, SystemFileIntegration,
                 PowerMeterValue
<1>5. FileChannel(PowerMeterMetadata) = FileMetadata("PowerMeter", FileMessagesOf("PowerMeter"))
  BY TypeNames, MetadataIs, MetadataOfTypes
<1>6. \A object \in EquipmentTypes :
         /\ FileChannel(EquipmentMetadata(object)) = FileMetadata(object, FileMessagesOf(object))
         /\ FileChannel(EquipmentValue(object)) = EquipmentValue(object)
  BY TypeNames, MetadataIs, MetadataOfTypes, ValueIs DEF EquipmentValue
<1>7. \A object : FileChannel(Value(AnyIntegration, object, SpRequest)) =
                      Value(AnyIntegration, object, SpRequest)
  BY ValueIs
<1>8. ASSUME NEW c \in shared
      PROVE  \/ \E object \in MetadataTypes :
                    FileChannel(c) = FileMetadata(object, FileMessagesOf(object))
             \/ \E object \in EquipmentTypes : FileChannel(c) = EquipmentValue(object)
             \/ \E object \in RequestedTypes :
                    FileChannel(c) = Value(AnyIntegration, object, SpRequest)
             \/ FileChannel(c) = PowerMeterValue
  <2>1. \/ c = PowerMeterMetadata \/ c = PowerMeterValue
        \/ \E object \in EquipmentTypes : c \in {EquipmentMetadata(object), EquipmentValue(object)}
        \/ \E object \in RequestedTypes : c = Value(AnyIntegration, object, SpRequest)
    BY SharedTable
  <2>2. "PowerMeter" \in MetadataTypes /\ EquipmentTypes \subseteq MetadataTypes
    BY DEF MetadataTypes
  <2> QED
    BY <1>4, <1>5, <1>6, <1>7, <2>1, <2>2
<1>9. /\ PowerMeterMetadata \in shared /\ PowerMeterValue \in shared
      /\ \A object \in EquipmentTypes :
            EquipmentMetadata(object) \in shared /\ EquipmentValue(object) \in shared
      /\ \A object \in RequestedTypes : Value(AnyIntegration, object, SpRequest) \in shared
  <2>1. PowerMeterMetadata.objectType = "PowerMeter" /\ PowerMeterValue.objectType = "PowerMeter"
    BY MetadataIs, ValueIs DEF PowerMeterMetadata, PowerMeterValue
  <2>2. \A object : /\ EquipmentMetadata(object).objectType = object
                    /\ EquipmentValue(object).objectType = object
                    /\ Value(AnyIntegration, object, SpRequest).objectType = object
    BY MetadataIs, ValueIs DEF EquipmentMetadata, EquipmentValue
  <2>3. RequestedTypes \subseteq EquipmentTypes
    BY DEF EquipmentTypes
  <2>4. \A object \in EquipmentTypes : object \notin {"Rack", "System"}
    BY TypeNames
  <2> QED
    BY <2>1, <2>2, <2>3, <2>4, ViewerTable
<1>10. \A c \in shared \cup rewritten : FileChannel(c) \in FileChannels
  BY <1>1
<1>11. \A c \in numbered : \E d \in shared \cup rewritten : c = FileChannel(d)
  OBVIOUS
<1>12. \A d \in rewritten : d \in {RackFileValue, RackFileIntegration, SystemFileValue,
                                   SystemFileIntegration} \/ d = rack \/ d = system
  OBVIOUS
<1>13. {RackFileValue, RackFileIntegration, SystemFileValue, SystemFileIntegration, rack, system}
           \subseteq rewritten
  OBVIOUS
<1> HIDE DEF shared, rewritten, numbered, rack, system
<1>14. "Rack" \in MetadataTypes /\ "System" \in MetadataTypes
  BY DEF MetadataTypes
<1>15. ASSUME NEW c \in FileChannels
       PROVE  \/ \E object \in MetadataTypes : c = FileMetadata(object, FileMessagesOf(object))
              \/ \E object \in EquipmentTypes : c = EquipmentValue(object)
              \/ \E object \in RequestedTypes : c = Value(AnyIntegration, object, SpRequest)
              \/ \E object \in GenericTypes : c = Value(AnyIntegration, object, {"GenericPoint"})
              \/ c \in {PowerMeterValue, RackFileValue, RackFileIntegration, SystemFileValue,
                        SystemFileIntegration}
  <2>1. CASE c \in GenericIntegrationValues
    BY <1>2, <2>1
  <2>2. CASE c \in numbered
    <3>1. PICK d \in shared \cup rewritten : c = FileChannel(d)
      BY <1>11, <2>2
    <3>2. CASE d \in shared
      BY <1>8, <3>1, <3>2
    <3>3. CASE d \in rewritten
      BY <1>3, <1>4, <1>12, <1>14, <3>1, <3>3
    <3> QED
      BY <3>1, <3>2, <3>3
  <2> QED
    BY <1>1, <2>1, <2>2
<1>16. \A object \in MetadataTypes : FileMetadata(object, FileMessagesOf(object)) \in FileChannels
  BY <1>3, <1>5, <1>6, <1>9, <1>10, <1>13 DEF MetadataTypes
<1>17. /\ \A object \in EquipmentTypes : EquipmentValue(object) \in FileChannels
       /\ \A object \in RequestedTypes : Value(AnyIntegration, object, SpRequest) \in FileChannels
  BY <1>6, <1>7, <1>9, <1>10
<1>18. \A object \in GenericTypes : Value(AnyIntegration, object, {"GenericPoint"}) \in FileChannels
  BY <1>1, <1>2
<1>19. {PowerMeterValue, RackFileValue, RackFileIntegration, SystemFileValue,
        SystemFileIntegration} \subseteq FileChannels
  BY <1>4, <1>9, <1>10, <1>13
<1> QED
  BY <1>15, <1>16, <1>17, <1>18, <1>19

\* In either edition an object type has one metadata channel.
LEMMA ViewerMetadata ==
    ASSUME NEW c \in ViewerChannels, c.type = "Metadata"
    PROVE  c.objectType \in MetadataTypes /\ c = Metadata(c.objectType, MessagesOf(c.objectType))
<1>1. \A d \in {RackBmsValue, RackIntegrationValue, PowerMeterValue, SystemBmsValue,
                SystemIntegrationValue} : d.type = "Value"
  BY ValueIs, SystemBmsValueIs
     DEF RackBmsValue, RackIntegrationValue, PowerMeterValue, SystemIntegrationValue
<1>2. \A object : EquipmentValue(object).type = "Value"
  BY ValueIs DEF EquipmentValue
<1>3. \A object : Value(AnyIntegration, object, SpRequest).type = "Value"
  BY ValueIs
<1>4. \/ c \in {RackMetadata, PowerMeterMetadata, SystemMetadata}
      \/ \E object \in EquipmentTypes : c = EquipmentMetadata(object)
  BY <1>1, <1>2, <1>3, ViewerTable
<1>5. \E object \in MetadataTypes : c = Metadata(object, MessagesOf(object))
  BY <1>4, MetadataOfTypes DEF MetadataTypes
<1> QED
  BY <1>5, MetadataIs

\* The metadata channel of the file, from the messages it numbers.
LEMMA FileMetadataIs ==
    ASSUME NEW object, NEW messages
    PROVE  /\ FileMetadata(object, messages).type = "Metadata"
           /\ FileMetadata(object, messages).publisher = PUB
           /\ FileMetadata(object, messages).objectType = object
           /\ FileMetadata(object, messages).pointTypes = DOMAIN messages
           /\ DOMAIN FileMetadata(object, messages).messages = DOMAIN messages
           /\ \A m \in DOMAIN messages :
                 FileMetadata(object, messages).messages[m] = WithNumberedPhases(messages[m])
<1> DEFINE numbered == [m \in DOMAIN messages |-> WithNumberedPhases(messages[m])]
<1>1. FileMetadata(object, messages) = Metadata(object, numbered)
  BY DEF FileMetadata
<1>2. /\ DOMAIN numbered = DOMAIN messages
      /\ \A m \in DOMAIN messages : numbered[m] = WithNumberedPhases(messages[m])
  OBVIOUS
<1> HIDE DEF numbered
<1> QED
  BY <1>1, <1>2, MetadataIs

\* Every metadata channel of the file is that of its type.
LEMMA FileMetadataChannels ==
    ASSUME NEW c \in FileChannels, c.type = "Metadata"
    PROVE  /\ c.objectType \in MetadataTypes
           /\ c = FileMetadata(c.objectType, FileMessagesOf(c.objectType))
<1>1. \A d \in {PowerMeterValue, RackFileValue, RackFileIntegration, SystemFileValue,
                SystemFileIntegration} : d.type = "Value"
  BY ValueIs DEF PowerMeterValue, RackFileValue, RackFileIntegration, SystemFileValue,
                 SystemFileIntegration
<1>2. \A object : EquipmentValue(object).type = "Value"
  BY ValueIs DEF EquipmentValue
<1>3. \A object, points : Value(AnyIntegration, object, points).type = "Value"
  BY ValueIs
<1>4. \E object \in MetadataTypes : c = FileMetadata(object, FileMessagesOf(object))
  BY <1>1, <1>2, <1>3, FileTable
<1> QED
  BY <1>4, FileMetadataIs

-----------------------------------------------------------------------------
(* Metadata that an edition accepts.                                        *)

\* The messages of the file are schemas.
LEMMA FileMessagesAreSchemas ==
    ASSUME NEW object \in MetadataTypes, NEW m \in DOMAIN FileMessagesOf(object)
    PROVE  IsSchema(FileMessagesOf(object)[m])
<1>1. CASE object = "Rack"
  <2>1. m \in DOMAIN FileRackPoints
    BY <1>1, TypeNames DEF Rack
  <2>2. Message(Rack(FileRackPoints)[m], "Rack", m, RackLocationIdentifiers, FileRackPoints[m])
    BY <2>1, RackMessage
  <2> QED
    BY <1>1, <2>2, TypeNames DEF Message
<1>2. CASE object = "PowerMeter"
  <2>1. m \in DOMAIN PowerMeterPoints
    BY <1>2, TypeNames DEF Meter
  <2>2. Message(Meter(PowerMeterPoints)[m], "PowerMeter", m, PowerMeterIdentifiers,
                PowerMeterPoints[m])
    BY <2>1, MeterMessage
  <2> QED
    BY <1>2, <2>2, TypeNames DEF Message
<1>3. CASE object = "System"
  <2>1. m \in DOMAIN FileSystemPoints /\ FileMessagesOf(object) = FileSystemPoints
    BY <1>3, TypeNames
  <2>2. CASE m \in ElectricalPoints
    <3>1. FileSystemPoints[m] = Of("System", ElectricalPoints)[m]
      BY <2>2, SystemTable
    <3> QED
      BY <2>1, <2>2, <3>1, TheyAreSchemas DEF Of
  <2>3. CASE m \notin ElectricalPoints
    <3>1. \E part : FileSystemPoints[m] = Heartbeat(m, part)
      BY <2>1, <2>3, SystemTable
    <3> QED
      BY <2>1, <3>1, TheyAreSchemas DEF Heartbeat
  <2> QED
    BY <2>2, <2>3
<1>4. CASE object \in EquipmentTypes
  <2>1. FileMessagesOf(object) = Of(object, PointsOfType(object))
    BY <1>4, TypeNames
  <2> QED
    BY <2>1, TheyAreSchemas DEF Of
<1> QED
  BY <1>1, <1>2, <1>3, <1>4 DEF MetadataTypes

\* Metadata is read with the one metadata channel of its object type, and says
\* plainly what it is about; in the file it can have an owner, or must have
\* one, by its point.
LEMMA MetadataReading ==
    ASSUME NEW e \in DOMAIN Editions, NEW c \in Editions[e], c.type = "Metadata"
    PROVE  /\ c.publisher = PUB /\ c.pointTypes = DOMAIN c.messages /\ c.objectType \in MetadataTypes
           /\ e = "file" => DOMAIN c.messages = DOMAIN FileMessagesOf(c.objectType)
           /\ \A m \in DOMAIN c.messages : \A payload :
                 Valid(c.messages[m], payload) =>
                     /\ Clear(c.objectType, m, payload)
                     /\ e = "file" =>
                           /\ "integration" \in DOMAIN payload => m \in FileOwnable(c.objectType)
                           /\ m \in FileOwned(c.objectType) => "integration" \in DOMAIN payload
           /\ \A d \in Editions[e] : d.type = "Metadata" /\ d.objectType = c.objectType => d = c
<1>1. \/ e = "viewer" /\ Editions[e] = ViewerChannels
      \/ e = "file" /\ Editions[e] = FileChannels
  BY CatalogueAssumption
<1> DEFINE object == c.objectType
<1>2. CASE e = "viewer" /\ Editions[e] = ViewerChannels
  <2>1. object \in MetadataTypes /\ c = Metadata(object, MessagesOf(object))
    BY <1>2, ViewerMetadata
  <2>2. \A d \in ViewerChannels : d.type = "Metadata" => d = Metadata(d.objectType, MessagesOf(d.objectType))
    BY ViewerMetadata
  <2>3. c.publisher = PUB /\ c.pointTypes = DOMAIN c.messages /\ c.messages = MessagesOf(object)
    BY <2>1, MetadataIs
  <2>4. ASSUME NEW m \in DOMAIN c.messages, NEW payload, Valid(c.messages[m], payload)
        PROVE  Clear(object, m, payload)
    <3>1. Taken(MessagesOf(object)[m], payload)
      BY <2>3, <2>4, ValidIsTaken
    <3> QED
      BY <2>1, <2>3, <3>1, ViewerMessageFacts
  <2>5. \A d \in Editions[e] : d.type = "Metadata" /\ d.objectType = c.objectType => d = c
    BY <1>2, <2>1, <2>2
  <2> QED
    BY <1>2, <2>1, <2>3, <2>4, <2>5
<1>3. CASE e = "file" /\ Editions[e] = FileChannels
  <2>1. object \in MetadataTypes /\ c = FileMetadata(object, FileMessagesOf(object))
    BY <1>3, FileMetadataChannels
  <2>2. \A d \in FileChannels : d.type = "Metadata" =>
            d = FileMetadata(d.objectType, FileMessagesOf(d.objectType))
    BY FileMetadataChannels
  <2>3. /\ c.publisher = PUB /\ c.pointTypes = DOMAIN c.messages
        /\ DOMAIN c.messages = DOMAIN FileMessagesOf(object)
        /\ \A m \in DOMAIN FileMessagesOf(object) :
              c.messages[m] = WithNumberedPhases(FileMessagesOf(object)[m])
    BY <2>1, FileMetadataIs
  <2>4. ASSUME NEW m \in DOMAIN c.messages, NEW payload, Valid(c.messages[m], payload)
        PROVE  /\ Clear(object, m, payload)
               /\ "integration" \in DOMAIN payload => m \in FileOwnable(object)
               /\ m \in FileOwned(object) => "integration" \in DOMAIN payload
    <3>1. IsSchema(FileMessagesOf(object)[m])
      BY <2>1, <2>3, FileMessagesAreSchemas
    <3>2. Taken(WithNumberedPhases(FileMessagesOf(object)[m]), payload)
      BY <2>3, <2>4, ValidIsTaken
    <3>3. Taken(FileMessagesOf(object)[m], payload)
      BY <3>1, <3>2, NumberedPhases
    <3> QED
      BY <2>1, <2>3, <3>3, FileMessageFacts
  <2>5. \A d \in Editions[e] : d.type = "Metadata" /\ d.objectType = c.objectType => d = c
    BY <1>3, <2>1, <2>2
  <2> QED
    BY <1>3, <2>1, <2>3, <2>4, <2>5
<1> QED
  BY <1>1, <1>2, <1>3

-----------------------------------------------------------------------------
(* The rows that are loaded.                                                *)

\* What the load has let pass: a row's payload, rendered at the time 0, is
\* accepted.
LEMMA LoadedRow ==
    ASSUME LInv, NEW row \in LoadedRows
    PROVE  /\ edition \in DOMAIN Editions
           /\ ParseTopicType(row.topic)
           /\ Accepts(row.topic, Render(row.payload, Epoch))
           /\ {"publisher", "type"} \subseteq DOMAIN row.topic
           /\ row.topic.publisher \in Text
<1>1. PICK i \in 1..entries : row = scenario[i]
  BY DEF LoadedRows
<1>2. Acceptable(scenario[i]) /\ edition \in DOMAIN Editions
  BY DEF LInv, Loaded, TypeOK
<1>3. scenario \in Scenarios /\ i \in DOMAIN scenario
  BY <1>1, FileShape
<1> QED
  BY <1>1, <1>2, <1>3, DummyBMSAssumption, TopicAssumption
     DEF Acceptable, EntryFromRecord, RenderPayload, Accepts

\* Loaded metadata is one message of the one channel for its object type, the
\* message for the point of its topic, as it is tried and as it is published.
LEMMA LoadedMetadataReading ==
    ASSUME LInv, NEW row \in LoadedMetadata, NEW payload \in Accepted(row)
    PROVE  \E c \in Editions[edition] :
              /\ MatchTopicAddress(c, row.topic) /\ c.type = "Metadata"
              /\ row.topic.pointType \in DOMAIN c.messages
              /\ Valid(c.messages[row.topic.pointType], payload)
              /\ payload.pointType = row.topic.pointType
<1> DEFINE topic == row.topic
<1>1. row \in LoadedRows /\ topic.type = "Metadata"
  BY DEF LoadedMetadata
<1>2. edition \in DOMAIN Editions /\ Accepts(topic, payload)
  BY <1>1, LoadedRow DEF Accepted
<1>3. PICK c \in Editions[edition] :
          /\ MatchTopicAddress(c, topic)
          /\ ValidateChannelMessages(c, TopicParameters(c, topic), payload)
  BY <1>2 DEF Accepts, ValidateMessage
<1>4. c.type = "Metadata"
  BY <1>1, <1>3 DEF MatchTopicAddress
<1>5. PICK m \in DOMAIN c.messages :
          /\ Valid(c.messages[m], payload)
          /\ ValidatePayloadTopicParameters(TopicParameters(c, topic), payload)
  BY <1>3 DEF ValidateChannelMessages
<1>6. "pointType" \in DOMAIN payload /\ payload.pointType = m
  BY <1>2, <1>4, <1>5, MetadataReading DEF Clear
<1>7. /\ "pointType" \in DOMAIN TopicParameters(c, topic)
      /\ TopicParameters(c, topic).pointType = topic.pointType
  BY DEF TopicParameters
<1>8. payload.pointType = topic.pointType
  BY <1>5, <1>6, <1>7 DEF ValidatePayloadTopicParameters
<1> HIDE DEF topic
<1>9. /\ MatchTopicAddress(c, topic) /\ c.type = "Metadata"
      /\ topic.pointType \in DOMAIN c.messages
      /\ Valid(c.messages[topic.pointType], payload)
      /\ payload.pointType = topic.pointType
  BY <1>3, <1>4, <1>5, <1>6, <1>8
<1> QED
  BY <1>9 DEF topic

\* Whatever the load accepts as metadata can be read in one way only: as one
\* message of one channel, with a unit or states and a name or an association,
\* never both.
THEOREM OneReading == Spec => []Unambiguous
<1>1. ASSUME LInv, NEW row \in LoadedMetadata, NEW payload \in Accepted(row),
             NEW r \in Readings(row.topic, payload), NEW s \in Readings(row.topic, payload)
      PROVE  r = s
  <2>1. edition \in DOMAIN Editions /\ row.topic.type = "Metadata"
    BY <1>1, LoadedRow DEF LoadedMetadata
  <2>2. PICK c \in Editions[edition] : \E m \in DOMAIN c.messages :
            MatchTopicAddress(c, row.topic) /\ Valid(c.messages[m], payload) /\ r = <<c, m>>
    BY DEF Readings
  <2>3. PICK m \in DOMAIN c.messages :
            MatchTopicAddress(c, row.topic) /\ Valid(c.messages[m], payload) /\ r = <<c, m>>
    BY <2>2
  <2>4. PICK d \in Editions[edition] : \E n \in DOMAIN d.messages :
            MatchTopicAddress(d, row.topic) /\ Valid(d.messages[n], payload) /\ s = <<d, n>>
    BY DEF Readings
  <2>5. PICK n \in DOMAIN d.messages :
            MatchTopicAddress(d, row.topic) /\ Valid(d.messages[n], payload) /\ s = <<d, n>>
    BY <2>4
  <2>6. c.type = "Metadata" /\ d.type = "Metadata" /\ d.objectType = c.objectType
    BY <2>1, <2>3, <2>5 DEF MatchTopicAddress
  <2>7. c = d
    BY <2>1, <2>6, MetadataReading
  <2>8. payload.pointType = m /\ payload.pointType = n
    BY <2>1, <2>3, <2>5, <2>6, MetadataReading DEF Clear
  <2> QED
    BY <2>3, <2>5, <2>7, <2>8
<1>2. ASSUME LInv, NEW row \in LoadedMetadata, NEW payload \in Accepted(row)
      PROVE  /\ ~({"engUnit", "stateText"} \subseteq DOMAIN payload)
             /\ "associateId" \in DOMAIN payload =>
                   {"objectName", "objectId", "servesId"} \cap DOMAIN payload = {}
  <2>1. edition \in DOMAIN Editions
    BY <1>2, LoadedRow DEF LoadedMetadata
  <2>2. PICK c \in Editions[edition] :
            /\ c.type = "Metadata" /\ row.topic.pointType \in DOMAIN c.messages
            /\ Valid(c.messages[row.topic.pointType], payload)
    BY <1>2, LoadedMetadataReading
  <2>3. Clear(c.objectType, row.topic.pointType, payload)
    BY <2>1, <2>2, MetadataReading
  <2> QED
    BY <2>3 DEF Clear, Naming
<1>3. IInv => Unambiguous
  BY <1>1, <1>2 DEF IInv, Unambiguous
<1> QED
  BY <1>3, Invariance, PTL

\* Loaded metadata is about the point of its topic, as it is tried and as it is
\* published.
THEOREM MetadataNamesItsPoint == Spec => []NamesItsPoint
<1>1. ASSUME LInv, NEW row \in LoadedMetadata, NEW payload \in Accepted(row)
      PROVE  /\ payload.pointType = row.topic.pointType
             /\ row.topic.pointType \notin AnyObject =>
                   payload.objectType = row.topic.objectType
  <2> DEFINE m == row.topic.pointType
  <2>1. edition \in DOMAIN Editions
    BY <1>1, LoadedRow DEF LoadedMetadata
  <2>2. PICK c \in Editions[edition] :
            /\ MatchTopicAddress(c, row.topic) /\ c.type = "Metadata"
            /\ m \in DOMAIN c.messages /\ Valid(c.messages[m], payload)
            /\ payload.pointType = m
    BY <1>1, LoadedMetadataReading
  <2>3. Clear(c.objectType, m, payload)
    BY <2>1, <2>2, MetadataReading
  <2>4. c.objectType = row.topic.objectType
    BY <2>2 DEF MatchTopicAddress
  <2> QED
    BY <2>3, <2>4 DEF Clear
<1>2. IInv => NamesItsPoint
  BY <1>1 DEF IInv, NamesItsPoint
<1> QED
  BY <1>2, Invariance, PTL

-----------------------------------------------------------------------------
(* From metadata to its value, in the file.                                 *)

\* A value message takes any number or null, with a time and a quality.
LEMMA ReadingIsValid ==
    ASSUME NEW payload, DOMAIN payload = {"value", "timestamp", "quality"},
           payload.value \in Wholes \cup Decimals \cup {Null},
           payload.timestamp \in Wholes, payload.quality \in Wholes
    PROVE  Valid(ValueMessage, payload)
<1>1. /\ ValueMessage.required = {"value", "timestamp", "quality"}
      /\ ValueMessage.choices = {}
      /\ DOMAIN ValueMessage.fields = {"value", "timestamp", "quality"}
      /\ ValueMessage.fields.value = Wholes \cup Decimals \cup {Null}
      /\ ValueMessage.fields.timestamp = Wholes /\ ValueMessage.fields.quality = Wholes
  BY DEF ValueMessage, Object
<1> QED
  BY <1>1 DEF Valid

\* Such a reading is accepted wherever a value channel lists the point: none of
\* its fields has the name of a segment of the topic.
LEMMA ReadingIsAccepted ==
    ASSUME NEW channels, NEW publisher, NEW points, NEW topic,
           Value(publisher, topic.objectType, points) \in channels,
           topic.type = "Value", publisher \in {topic.publisher, AnyIntegration},
           topic.pointType \in points,
           NEW payload, DOMAIN payload = {"value", "timestamp", "quality"},
           Valid(ValueMessage, payload)
    PROVE  ValidateMessage(channels, topic, payload)
<1> DEFINE c == Value(publisher, topic.objectType, points)
<1>1. /\ c.type = "Value" /\ c.publisher = publisher /\ c.objectType = topic.objectType
      /\ c.pointTypes = points /\ c.messages = [value |-> ValueMessage]
  BY ValueIs
<1>2. c \in channels
  OBVIOUS
<1> HIDE DEF c
<1>3. MatchTopicAddress(c, topic) /\ ValidateChannelParams(c, topic)
  BY <1>1 DEF MatchTopicAddress, ValidateChannelParams
<1>4. DOMAIN TopicParameters(c, topic) \subseteq {"integration", "pointType", "tagPath"}
  BY DEF TopicParameters
<1>5. ValidatePayloadTopicParameters(TopicParameters(c, topic), payload)
  BY <1>4 DEF ValidatePayloadTopicParameters
<1>6. "value" \in DOMAIN c.messages /\ Valid(c.messages["value"], payload)
  BY <1>1
<1>7. ValidateChannelMessages(c, TopicParameters(c, topic), payload)
  BY <1>5, <1>6 DEF ValidateChannelMessages
<1> QED
  BY <1>2, <1>3, <1>7 DEF ValidateMessage

\* The file has a channel for the values of every point its metadata describes:
\* one for integrations where a point can have an owner, but for equipment's
\* states, and one for PUB where it need not have one.
LEMMA ValueChannels ==
    ASSUME NEW object \in MetadataTypes, NEW m \in DOMAIN FileMessagesOf(object)
    PROVE  /\ m \in FileOwnable(object) /\ (m \in {"Status", "Available"} => object = "System") =>
                 \E points : /\ Value(AnyIntegration, object, points) \in FileChannels
                             /\ m \in points
           /\ m \notin FileOwned(object) =>
                 \E points : Value(PUB, object, points) \in FileChannels /\ m \in points
<1>1. CASE object = "Rack"
  <2>1. m \in DOMAIN RackPoints
    BY <1>1, TypeNames, FileRackForms DEF Rack
  <2>2. FileOwnable(object) = FileRackRequests /\ FileOwned(object) = FileRackRequests
    BY <1>1 DEF FileOwnable, FileOwned
  <2>3. RackFileValue \in FileChannels /\ RackFileIntegration \in FileChannels
    BY FileTable
  <2> QED
    BY <1>1, <2>1, <2>2, <2>3 DEF RackFileValue, RackFileIntegration
<1>2. CASE object = "PowerMeter"
  <2>1. m \in DOMAIN PowerMeterPoints
    BY <1>2, TypeNames DEF Meter
  <2>2. FileOwnable(object) = {"GenericPoint"}
    BY <1>2 DEF FileOwnable
  <2>3. PowerMeterValue \in FileChannels
    BY FileTable
  <2>4. Value(AnyIntegration, "PowerMeter", {"GenericPoint"}) \in FileChannels
    BY FileTable DEF GenericTypes
  <2> QED
    BY <1>2, <2>1, <2>2, <2>3, <2>4 DEF PowerMeterValue
<1>3. CASE object = "System"
  <2>1. m \in DOMAIN FileSystemPoints
    BY <1>3, TypeNames
  <2>2. /\ FileOwnable(object) = ElectricalPoints \cup FileIntegrationHeartbeats
        /\ FileOwned(object) = FileIntegrationHeartbeats
    BY <1>3 DEF FileOwnable, FileOwned
  <2>3. SystemFileValue \in FileChannels /\ SystemFileIntegration \in FileChannels
    BY FileTable
  <2>4. m \notin FileIntegrationHeartbeats => m \in SystemBmsPoints
    BY <2>1, SystemTable DEF SystemBmsPoints, FileBmsHeartbeats
  <2> QED
    BY <1>3, <2>2, <2>3, <2>4 DEF SystemFileValue, SystemFileIntegration
<1>4. CASE object \in EquipmentTypes
  <2>1. m \in PointsOfType(object)
    BY <1>4, TypeNames DEF Of
  <2>2. FileOwnable(object) = OwnablePoints /\ FileOwned(object) = SpRequest /\ object # "System"
    BY <1>4, TypeNames
  <2>3. EquipmentValue(object) \in FileChannels
    BY <1>4, FileTable
  <2>4. Value(AnyIntegration, object, {"GenericPoint"}) \in FileChannels
    BY <1>4, FileTable DEF GenericTypes
  <2>5. m \in SpRequest => Value(AnyIntegration, object, SpRequest) \in FileChannels
    BY <1>4, <2>1, PointSets, FileTable
  <2>6. ASSUME m \in FileOwnable(object), m \notin {"Status", "Available"}
        PROVE  m = "GenericPoint" \/ m \in SpRequest
    BY <2>2, <2>6 DEF OwnablePoints, SpRequest
  <2>7. m \notin FileOwned(object) =>
          \E points : Value(PUB, object, points) \in FileChannels /\ m \in points
    BY <2>1, <2>2, <2>3 DEF EquipmentValue
  <2> QED
    BY <2>2, <2>4, <2>5, <2>6, <2>7
<1> QED
  BY <1>1, <1>2, <1>3, <1>4 DEF MetadataTypes

\* What accepted metadata announces can be published: the topic it gives for its
\* values is one the file has, for the owner it names or else for PUB.
THEOREM MetadataAnnouncesItsValue == Spec => []MetadataHasValue
<1>1. ASSUME LInv, NEW row \in LoadedMetadata, NEW payload \in Accepted(row), edition = "file",
             ~ /\ "integration" \in DOMAIN payload
               /\ row.topic.pointType \in {"Status", "Available"}
               /\ row.topic.objectType # "System",
             NEW value \in Wholes \cup Decimals \cup {Null}, NEW quality \in Wholes
      PROVE  Accepts(ValueTopic(row.topic, payload),
                     Render([value |-> value, timestamp |-> Placeholder, quality |-> quality], Now))
  <2> DEFINE m == row.topic.pointType
             object == row.topic.objectType
             topic == ValueTopic(row.topic, payload)
             reading == Render([value |-> value, timestamp |-> Placeholder,
                                quality |-> quality], Now)
  <2>1. edition \in DOMAIN Editions /\ {"publisher", "type"} \subseteq DOMAIN row.topic
    BY <1>1, LoadedRow DEF LoadedMetadata
  <2>2. PICK c \in Editions[edition] :
            /\ MatchTopicAddress(c, row.topic) /\ c.type = "Metadata"
            /\ m \in DOMAIN c.messages /\ Valid(c.messages[m], payload)
            /\ payload.pointType = m
    BY <1>1, LoadedMetadataReading
  <2>3. c.objectType = object
    BY <2>2 DEF MatchTopicAddress
  <2>4. object \in MetadataTypes /\ m \in DOMAIN FileMessagesOf(object)
    BY <1>1, <2>1, <2>2, <2>3, MetadataReading
  <2>5. /\ "integration" \in DOMAIN payload => m \in FileOwnable(object)
        /\ m \in FileOwned(object) => "integration" \in DOMAIN payload
    BY <1>1, <2>1, <2>2, <2>3, MetadataReading
  <2>7. /\ topic.type = "Value" /\ topic.objectType = object /\ topic.pointType = m
        /\ "integration" \notin DOMAIN payload => topic.publisher = PUB
    BY <2>1 DEF ValueTopic
  <2>8. /\ DOMAIN reading = {"value", "timestamp", "quality"}
        /\ reading.value \in Wholes \cup Decimals \cup {Null}
        /\ reading.timestamp \in Wholes /\ reading.quality \in Wholes
    <3>1. /\ Placeholder \in Templates /\ Rendering[Placeholder][Now] \in Wholes
          /\ value \notin Templates /\ quality \notin Templates
      BY DummyBMSAssumption
    <3>2. /\ DOMAIN reading = {"value", "timestamp", "quality"}
          /\ reading.value = value /\ reading.timestamp = Rendering[Placeholder][Now]
          /\ reading.quality = quality
      BY <3>1 DEF Render
    <3> QED
      BY <3>1, <3>2
  <2> HIDE DEF reading, topic
  <2>9. Valid(ValueMessage, reading)
    BY <2>8, ReadingIsValid
  <2>10. Editions[edition] = FileChannels
    BY <1>1, CatalogueAssumption
  <2>11. CASE "integration" \in DOMAIN payload
    <3>1. PICK points : Value(AnyIntegration, object, points) \in FileChannels /\ m \in points
      BY <1>1, <2>4, <2>5, <2>11, ValueChannels
    <3> QED
      BY <2>7, <2>8, <2>9, <2>10, <3>1, ReadingIsAccepted DEF Accepts, topic, reading
  <2>12. CASE "integration" \notin DOMAIN payload
    <3>1. PICK points : Value(PUB, object, points) \in FileChannels /\ m \in points
      BY <2>4, <2>5, <2>12, ValueChannels
    <3> QED
      BY <2>7, <2>8, <2>9, <2>10, <2>12, <3>1, ReadingIsAccepted DEF Accepts, topic, reading
  <2> QED
    BY <2>11, <2>12
<1>2. IInv => MetadataHasValue
  BY <1>1 DEF IInv, MetadataHasValue
<1> QED
  BY <1>2, Invariance, PTL

-----------------------------------------------------------------------------
(* Descriptions of points.                                                  *)

\* The segments of a topic that a description repeats are strings.
Textual(topic) == {topic.publisher, topic.objectType, topic.pointType} \subseteq Text

\* Which of the groups a field can come from.
LEMMA FieldGroups ==
    /\ \A place \in Places :
          place \cap {"objectType", "pointType", "engUnit", "stateText", "integration", "processArea",
                      "phase", "isSetpoint", "scope", "associateId", "tagPath"} = {}
    /\ \A measure \in Measures : measure \subseteq {"engUnit", "stateText"}
    /\ \A extra \in Extras : extra \subseteq {"processArea", "phase", "integration"}
BY DEF Places, Measures, Extras

\* A description has the fields it is put together from, each with a value of
\* its kind.
Describes(w, topic, place, measure, extra, unit) ==
    /\ DOMAIN w = {"objectType", "pointType"} \cup place \cup measure \cup extra
    /\ {"objectType", "pointType"} \subseteq DOMAIN w
    /\ {"isSetpoint", "scope", "associateId", "tagPath"} \cap DOMAIN w = {}
    /\ w.objectType = topic.objectType /\ w.objectType \in Text
    /\ w.pointType = topic.pointType /\ w.pointType \in Text
    /\ IF "engUnit" \in measure
       THEN "engUnit" \in DOMAIN w /\ w.engUnit = unit /\ w.engUnit \in Text
       ELSE "engUnit" \notin DOMAIN w
    /\ IF "stateText" \in measure
       THEN "stateText" \in DOMAIN w /\ w.stateText \in StateTables
       ELSE "stateText" \notin DOMAIN w
    /\ IF "integration" \in extra
       THEN /\ "integration" \in DOMAIN w
            /\ w.integration = topic.publisher /\ w.integration \in Text
       ELSE "integration" \notin DOMAIN w
    /\ IF "processArea" \in extra
       THEN "processArea" \in DOMAIN w /\ w.processArea \in Lists
       ELSE "processArea" \notin DOMAIN w
    /\ IF "phase" \in extra THEN "phase" \in DOMAIN w /\ w.phase \in Phases
       ELSE "phase" \notin DOMAIN w
    /\ \A f \in place : f \in {"rackLocationName", "rackLocationId", "objectName", "objectId"} =>
          f \in DOMAIN w /\ w[f] \in Text
    /\ "servesId" \in place => "servesId" \in DOMAIN w /\ w.servesId \in Lists

\* The names the catalogues fix.
LEMMA TheNames ==
    /\ \A x \in {"C", "LPM", "kPa", "%", "kW"} \cup {"A", "B", "C", "1", "2", "3"} : x \in Names
    /\ \A c \in FileChannels \cup ViewerChannels :
          c.objectType \in Names /\ c.pointTypes \subseteq Names
<1> DEFINE ofChannels ==
      UNION {{c.objectType} \cup c.pointTypes : c \in FileChannels \cup ViewerChannels}
<1>1. Names = {"C", "LPM", "kPa", "%", "kW"} \cup {"A", "B", "C", "1", "2", "3"} \cup ofChannels
  BY DEF Names
<1>2. \A c \in FileChannels \cup ViewerChannels :
         c.objectType \in ofChannels /\ c.pointTypes \subseteq ofChannels
  OBVIOUS
<1> HIDE DEF ofChannels
<1> QED
  BY <1>1, <1>2

\* They are strings.
LEMMA NamesAreText ==
    /\ SampleUnits \subseteq Text /\ "C" \in Text
    /\ \A c \in FileChannels \cup ViewerChannels :
          c.objectType \in Text /\ c.pointTypes \subseteq Text
<1>1. Names \subseteq Text
  BY CatalogueAssumption
<1>2. \A x \in SampleUnits : x \in Names
  BY TheNames DEF SampleUnits
<1> QED
  BY <1>1, <1>2, TheNames DEF SampleUnits

\* The descriptions are built that way.
LEMMA DescriptionFields ==
    ASSUME NEW topic, Textual(topic), NEW place \in Places, NEW measure \in Measures,
           NEW extra \in Extras, NEW unit \in SampleUnits,
           NEW w, w = Description(topic, place, measure, extra, unit)
    PROVE  Describes(w, topic, place, measure, extra, unit)
<1> DEFINE sample == Sample(topic, unit)
<1>1. /\ sample.rackLocationName \in Text /\ sample.rackLocationId \in Text
      /\ sample.objectName \in Text /\ sample.objectId \in Text
  <2>1. (CHOOSE t \in Text : TRUE) \in Text
    <3>1. "C" \in Text
      BY NamesAreText
    <3> QED
      BY <3>1
  <2> QED
    BY <2>1 DEF Sample
<1>2. sample.servesId \in Lists /\ sample.processArea \in Lists
  <2>1. (CHOOSE l \in Lists : TRUE) \in Lists
    BY CatalogueAssumption
  <2> QED
    BY <2>1 DEF Sample
<1>3. sample.stateText \in StateTables
  <2>1. (CHOOSE s \in StateTables : TRUE) \in StateTables
    BY CatalogueAssumption
  <2> QED
    BY <2>1 DEF Sample
<1>4. /\ sample.engUnit = unit /\ sample.phase = "A" /\ sample.integration = topic.publisher
      /\ sample.objectType = topic.objectType /\ sample.pointType = topic.pointType
  BY DEF Sample
<1>5. unit \in Text /\ "A" \in Phases
  BY NamesAreText DEF Phases
<1>6. /\ DOMAIN w = {"objectType", "pointType"} \cup place \cup measure \cup extra
      /\ \A f \in DOMAIN w : w[f] = sample[f]
  BY DEF Description
<1>7. /\ place \cap {"objectType", "pointType", "engUnit", "stateText", "integration", "processArea",
                     "phase", "isSetpoint", "scope", "associateId", "tagPath"} = {}
      /\ measure \subseteq {"engUnit", "stateText"}
      /\ extra \subseteq {"processArea", "phase", "integration"}
  BY FieldGroups
<1> HIDE DEF sample
<1>8. {topic.publisher, topic.objectType, topic.pointType} \subseteq Text
  BY DEF Textual
<1>9. /\ {"objectType", "pointType"} \subseteq DOMAIN w
      /\ {"isSetpoint", "scope", "associateId", "tagPath"} \cap DOMAIN w = {}
      /\ w.objectType = topic.objectType /\ w.objectType \in Text
      /\ w.pointType = topic.pointType /\ w.pointType \in Text
  BY <1>4, <1>6, <1>7, <1>8
<1>10. /\ IF "engUnit" \in measure
          THEN "engUnit" \in DOMAIN w /\ w.engUnit = unit /\ w.engUnit \in Text
          ELSE "engUnit" \notin DOMAIN w
       /\ IF "stateText" \in measure
          THEN "stateText" \in DOMAIN w /\ w.stateText \in StateTables
          ELSE "stateText" \notin DOMAIN w
  BY <1>3, <1>4, <1>5, <1>6, <1>7
<1>11. IF "integration" \in extra
       THEN /\ "integration" \in DOMAIN w
            /\ w.integration = topic.publisher /\ w.integration \in Text
       ELSE "integration" \notin DOMAIN w
  BY <1>4, <1>6, <1>7, <1>8
<1>12. /\ IF "processArea" \in extra
          THEN "processArea" \in DOMAIN w /\ w.processArea \in Lists
          ELSE "processArea" \notin DOMAIN w
       /\ IF "phase" \in extra THEN "phase" \in DOMAIN w /\ w.phase \in Phases
          ELSE "phase" \notin DOMAIN w
  BY <1>2, <1>4, <1>5, <1>6, <1>7
<1>13. /\ \A f \in place : f \in {"rackLocationName", "rackLocationId", "objectName", "objectId"} =>
             f \in DOMAIN w /\ w[f] \in Text
       /\ "servesId" \in place => "servesId" \in DOMAIN w /\ w.servesId \in Lists
  BY <1>1, <1>2, <1>6
<1> QED
  BY <1>6, <1>9, <1>10, <1>11, <1>12, <1>13 DEF Describes

\* The part of a point is met by a description with this measure and these
\* extra fields, and has room for them and for an owner if it knows of one.
Suits(topic, part, measure, extra, unit) ==
    /\ measure \in Measures /\ extra \in Extras /\ unit \in SampleUnits
    /\ measure \cup extra \subseteq Knows(part)
    /\ "integration" \in Knows(part) => "integration" \in extra
    /\ \A place \in Places : Fulfils(part, Description(topic, place, measure, extra, unit), {})

DescribedPart(topic, part) == \E measure, extra, unit : Suits(topic, part, measure, extra, unit)

\* So is its place.
DescribedPlace(topic, place) ==
    \E where \in Places :
        /\ where \subseteq Knows(place)
        /\ \A measure \in Measures, extra \in Extras, unit \in SampleUnits :
              Fulfils(place, Description(topic, where, measure, extra, unit), {})

\* Points with a unit.
LEMMA UnitSuits ==
    ASSUME NEW topic, Textual(topic), NEW units, NEW unit \in SampleUnits, unit \in units
    PROVE  /\ DescribedPart(topic, EngUnit(units))
           /\ DescribedPart(topic, AllOf({EngUnit(units), IsSetpoint}))
           /\ DescribedPart(topic, AllOf({IntegrationPublisherFields, EngUnit(units)}))
           /\ DescribedPart(topic, AllOf({EngUnit(units), Object({"phase"}, [phase |-> Phases])}))
<1> DEFINE phase == Object({"phase"}, [phase |-> Phases])
<1>1. {} \in SUBSET {"phase"}
  OBVIOUS
<1>2. /\ {"engUnit"} \in Measures
      /\ {} \in Extras /\ {"integration"} \in Extras /\ {"phase"} \in Extras
  BY DEF Measures, Extras
<1>3. /\ Knows(EngUnit(units)) = {"engUnit"} /\ Knows(IsSetpoint) = {"isSetpoint"}
      /\ Knows(IntegrationPublisherFields) = {"integration"} /\ Knows(phase) = {"phase"}
  <2>1. Knows(phase) = {"phase"}
    BY ObjectKnows
  <2> QED
    BY <1>1, <2>1, MeasureParts
<1>4. ASSUME NEW place \in Places, NEW extra \in Extras,
             NEW w, w = Description(topic, place, {"engUnit"}, extra, unit)
      PROVE  /\ Fulfils(EngUnit(units), w, {}) /\ Fulfils(IsSetpoint, w, {})
             /\ "integration" \in extra => Fulfils(IntegrationPublisherFields, w, {})
             /\ "phase" \in extra => Fulfils(phase, w, {})
  <2>0. Describes(w, topic, place, {"engUnit"}, extra, unit)
    BY <1>2, <1>4, DescriptionFields
  <2>1. /\ "engUnit" \in DOMAIN w /\ w.engUnit = unit /\ "isSetpoint" \notin DOMAIN w
        /\ "integration" \in extra => "integration" \in DOMAIN w /\ w.integration \in Text
        /\ "phase" \in extra => "phase" \in DOMAIN w /\ w.phase \in Phases
    BY <2>0 DEF Describes
  <2>2. Fulfils(EngUnit(units), w, {}) /\ Fulfils(IsSetpoint, w, {})
    BY <1>1, <2>1, MeasureParts
  <2>3. "integration" \in extra => Fulfils(IntegrationPublisherFields, w, {})
    BY <1>1, <2>1, MeasureParts
  <2>4. "phase" \in extra => Fulfils(phase, w, {})
    BY <2>1, ObjectFulfilled
  <2> QED
    BY <2>2, <2>3, <2>4
<1> HIDE DEF phase
<1>5. Suits(topic, EngUnit(units), {"engUnit"}, {}, unit)
  BY <1>2, <1>3, <1>4 DEF Suits
<1>6. Suits(topic, AllOf({EngUnit(units), IsSetpoint}), {"engUnit"}, {}, unit)
  BY <1>2, <1>3, <1>4, AllOfTwo DEF Suits
<1>7. Suits(topic, AllOf({IntegrationPublisherFields, EngUnit(units)}), {"engUnit"},
            {"integration"}, unit)
  BY <1>2, <1>3, <1>4, AllOfTwo DEF Suits
<1>8. Suits(topic, AllOf({EngUnit(units), phase}), {"engUnit"}, {"phase"}, unit)
  BY <1>2, <1>3, <1>4, AllOfTwo DEF Suits
<1> QED
  BY <1>5, <1>6, <1>7, <1>8 DEF DescribedPart, phase

\* Points with states.
LEMMA StatesSuit ==
    ASSUME NEW topic, Textual(topic)
    PROVE  /\ DescribedPart(topic, StateText)
           /\ DescribedPart(topic, AllOf({StateText, Owned}))
           /\ DescribedPart(topic, AllOf({IntegrationPublisherFields, StateText}))
<1>1. {} \in SUBSET {"phase"}
  OBVIOUS
<1>2. {"stateText"} \in Measures /\ {} \in Extras /\ {"integration"} \in Extras /\ "C" \in SampleUnits
  BY DEF Measures, Extras, SampleUnits
<1>3. /\ Knows(StateText) = {"stateText"} /\ Knows(Owned) = {"integration"}
      /\ Knows(IntegrationPublisherFields) = {"integration"}
  BY MeasureParts
<1>4. ASSUME NEW place \in Places, NEW extra \in Extras,
             NEW w, w = Description(topic, place, {"stateText"}, extra, "C")
      PROVE  /\ Fulfils(StateText, w, {}) /\ Fulfils(Owned, w, {})
             /\ "integration" \in extra => Fulfils(IntegrationPublisherFields, w, {})
  <2>0. Describes(w, topic, place, {"stateText"}, extra, "C")
    BY <1>2, <1>4, DescriptionFields
  <2>1. /\ "stateText" \in DOMAIN w /\ w.stateText \in StateTables
        /\ "integration" \in DOMAIN w => w.integration \in Text
        /\ "integration" \in extra => "integration" \in DOMAIN w
    BY <2>0 DEF Describes
  <2> QED
    BY <1>1, <2>1, MeasureParts
<1>5. Suits(topic, StateText, {"stateText"}, {}, "C")
  BY <1>2, <1>3, <1>4 DEF Suits
<1>6. Suits(topic, AllOf({StateText, Owned}), {"stateText"}, {"integration"}, "C")
  BY <1>2, <1>3, <1>4, AllOfTwo DEF Suits
<1>7. Suits(topic, AllOf({IntegrationPublisherFields, StateText}), {"stateText"},
            {"integration"}, "C")
  BY <1>2, <1>3, <1>4, AllOfTwo DEF Suits
<1> QED
  BY <1>5, <1>6, <1>7 DEF DescribedPart

\* Points that choose between a unit and states, and generic points.
LEMMA ChoiceSuits ==
    ASSUME NEW topic, Textual(topic)
    PROVE  /\ DescribedPart(topic, EquipmentMeasurementMode)
           /\ DescribedPart(topic, AllOf({EquipmentMeasurementMode, IsSetpoint}))
           /\ topic.pointType = "GenericPoint" => DescribedPart(topic, GenericPointFields)
<1>1. {} \in SUBSET {"phase"}
  OBVIOUS
<1>2. /\ {"engUnit"} \in Measures /\ {} \in Measures /\ {} \in Extras
      /\ {"processArea", "integration"} \in Extras /\ "C" \in SampleUnits
  BY DEF Measures, Extras, SampleUnits
<1>3. /\ Knows(EquipmentMeasurementMode) = {"engUnit", "stateText"}
      /\ Knows(IsSetpoint) = {"isSetpoint"}
      /\ Knows(GenericPointFields) = {"pointType", "integration", "isSetpoint", "processArea",
                                      "phase", "engUnit", "stateText"}
  BY ModePart, MeasureParts, GenericPart
<1>4. ASSUME NEW place \in Places, NEW w, w = Description(topic, place, {"engUnit"}, {}, "C")
      PROVE  Fulfils(EquipmentMeasurementMode, w, {}) /\ Fulfils(IsSetpoint, w, {})
  <2>0. Describes(w, topic, place, {"engUnit"}, {}, "C")
    BY <1>2, <1>4, DescriptionFields
  <2>1. /\ "engUnit" \in DOMAIN w /\ w.engUnit \in Text
        /\ "stateText" \notin DOMAIN w /\ "isSetpoint" \notin DOMAIN w
    BY <2>0 DEF Describes
  <2> QED
    BY <1>1, <2>1, ModePart, MeasureParts
<1>5. ASSUME NEW place \in Places, topic.pointType = "GenericPoint",
             NEW w, w = Description(topic, place, {}, {"processArea", "integration"}, "C")
      PROVE  Fulfils(GenericPointFields, w, {})
  <2>0. Describes(w, topic, place, {}, {"processArea", "integration"}, "C")
    BY <1>2, <1>5, DescriptionFields
  <2>1. /\ "engUnit" \notin DOMAIN w /\ "stateText" \notin DOMAIN w /\ "isSetpoint" \notin DOMAIN w
        /\ "phase" \notin DOMAIN w /\ "processArea" \in DOMAIN w /\ "integration" \in DOMAIN w
    BY <1>5, <2>0 DEF Describes
  <2>2. /\ w.pointType = "GenericPoint"
        /\ "integration" \in DOMAIN w => w.integration \in Text
        /\ "processArea" \in DOMAIN w => w.processArea \in Lists
    BY <1>5, <2>0 DEF Describes
  <2> QED
    BY <1>1, <2>1, <2>2, GenericPart
<1>6. Suits(topic, EquipmentMeasurementMode, {"engUnit"}, {}, "C")
  BY <1>2, <1>3, <1>4 DEF Suits
<1>7. Suits(topic, AllOf({EquipmentMeasurementMode, IsSetpoint}), {"engUnit"}, {}, "C")
  BY <1>2, <1>3, <1>4, AllOfTwo DEF Suits
<1>8. topic.pointType = "GenericPoint" =>
        Suits(topic, GenericPointFields, {}, {"processArea", "integration"}, "C")
  BY <1>2, <1>3, <1>5 DEF Suits
<1> QED
  BY <1>6, <1>7, <1>8 DEF DescribedPart

\* Heartbeats, and points that ask for nothing.
LEMMA HeartbeatSuits ==
    ASSUME NEW topic, Textual(topic)
    PROVE  /\ DescribedPart(topic, Optional(<<>>))
           /\ DescribedPart(topic, Scoped)
           /\ DescribedPart(topic, IntegrationPublisherFields)
           /\ DescribedPart(topic, AllOf({IntegrationPublisherFields, Scoped}))
<1>1. {} \in SUBSET {"phase"}
  OBVIOUS
<1>2. {} \in Measures /\ {} \in Extras /\ {"integration"} \in Extras /\ "C" \in SampleUnits
  BY DEF Measures, Extras, SampleUnits
<1>3. /\ Knows(Optional(<<>>)) = {} /\ Knows(Scoped) = {"scope"}
      /\ Knows(IntegrationPublisherFields) = {"integration"}
  <2>1. Knows(Scoped) = {"scope"}
    BY ObjectKnows DEF Scoped
  <2> QED
    BY <1>1, <2>1, NothingKnown, MeasureParts
<1>4. ASSUME NEW place \in Places, NEW extra \in Extras,
             NEW w, w = Description(topic, place, {}, extra, "C")
      PROVE  /\ Fulfils(Optional(<<>>), w, {}) /\ Fulfils(Scoped, w, {})
             /\ "integration" \in extra => Fulfils(IntegrationPublisherFields, w, {})
  <2>0. Describes(w, topic, place, {}, extra, "C")
    BY <1>2, <1>4, DescriptionFields
  <2>1. /\ "scope" \notin DOMAIN w
        /\ "integration" \in extra => "integration" \in DOMAIN w /\ w.integration \in Text
    BY <2>0 DEF Describes
  <2>2. Fulfils(Scoped, w, {})
    BY <2>1, OptionalFulfilled DEF Scoped
  <2>3. "integration" \in extra => Fulfils(IntegrationPublisherFields, w, {})
    BY <1>1, <2>1, MeasureParts
  <2> QED
    BY <2>2, <2>3, NothingDemanded
<1>5. Suits(topic, Optional(<<>>), {}, {}, "C")
  BY <1>2, <1>3, <1>4 DEF Suits
<1>6. Suits(topic, Scoped, {}, {}, "C")
  BY <1>2, <1>3, <1>4 DEF Suits
<1>7. Suits(topic, IntegrationPublisherFields, {}, {"integration"}, "C")
  BY <1>2, <1>3, <1>4 DEF Suits
<1>8. Suits(topic, AllOf({IntegrationPublisherFields, Scoped}), {}, {"integration"}, "C")
  BY <1>2, <1>3, <1>4, AllOfTwo DEF Suits
<1> QED
  BY <1>5, <1>6, <1>7, <1>8 DEF DescribedPart

-----------------------------------------------------------------------------
(* Every point can be described.                                            *)

\* Each place has a description.
LEMMA PlacesDescribed ==
    ASSUME NEW topic, Textual(topic)
    PROVE  /\ DescribedPlace(topic, RackLocationIdentifiers)
           /\ DescribedPlace(topic, PowerMeterIdentifiers)
           /\ DescribedPlace(topic, EquipmentIdentifiers)
           /\ DescribedPlace(topic, Nowhere) /\ DescribedPlace(topic, OfSystem)
<1> DEFINE rack == {"rackLocationName", "rackLocationId"}
           named == {"objectName", "objectId"}
           meter == {"objectName", "objectId", "servesId"}
<1>1. {} \in SUBSET {"phase"}
  OBVIOUS
<1>2. {} \in Places /\ rack \in Places /\ named \in Places /\ meter \in Places
  BY DEF Places
<1>3. /\ Knows(RackLocationIdentifiers) = rack /\ Knows(PowerMeterIdentifiers) = meter
      /\ named \subseteq Knows(EquipmentIdentifiers)
  BY <1>1, PlaceParts, IdentityPart
<1>4. named = Knows(OfSystem)
  BY ObjectKnows DEF OfSystem
<1>5. ASSUME NEW place \in Places, NEW measure \in Measures, NEW extra \in Extras,
             NEW unit \in SampleUnits,
             NEW w, w = Description(topic, place, measure, extra, unit)
      PROVE  /\ place = rack => Fulfils(RackLocationIdentifiers, w, {})
             /\ place = meter => Fulfils(PowerMeterIdentifiers, w, {})
             /\ place = named => Fulfils(EquipmentIdentifiers, w, {}) /\ Fulfils(OfSystem, w, {})
             /\ Fulfils(Nowhere, w, {})
  <2>0. Describes(w, topic, place, measure, extra, unit)
    BY <1>5, DescriptionFields
  <2>1. place = rack => /\ rack \subseteq DOMAIN w
                        /\ w.rackLocationName \in Text /\ w.rackLocationId \in Text
    BY <2>0 DEF Describes
  <2>2. named \subseteq place => /\ named \subseteq DOMAIN w
                                 /\ w.objectName \in Text /\ w.objectId \in Text
    BY <2>0 DEF Describes
  <2>3. "servesId" \in place => "servesId" \in DOMAIN w /\ w.servesId \in Lists
    BY <2>0 DEF Describes
  <2>4. "associateId" \notin DOMAIN w /\ ("processArea" \in DOMAIN w => w.processArea \in Lists)
    BY <2>0 DEF Describes
  <2>5. place = named => "servesId" \notin DOMAIN w
    <3>1. "servesId" \notin measure /\ "servesId" \notin extra
      BY FieldGroups
    <3> QED
      BY <2>0, <3>1 DEF Describes
  <2>6. place = rack => Fulfils(RackLocationIdentifiers, w, {})
    BY <1>1, <2>1, PlaceParts
  <2>7. place = meter => Fulfils(PowerMeterIdentifiers, w, {})
    BY <1>1, <2>2, <2>3, PlaceParts
  <2>8. place = named => Fulfils(EquipmentIdentifiers, w, {})
    BY <1>1, <2>2, <2>4, <2>5, IdentityPart
  <2>9. place = named => Fulfils(OfSystem, w, {})
    BY <2>2, ObjectFulfilled DEF OfSystem
  <2> QED
    BY <2>6, <2>7, <2>8, <2>9, NothingDemanded DEF Nowhere
<1> HIDE DEF rack, named, meter
<1>6. DescribedPlace(topic, RackLocationIdentifiers)
  BY <1>2, <1>3, <1>5 DEF DescribedPlace
<1>7. DescribedPlace(topic, PowerMeterIdentifiers)
  BY <1>2, <1>3, <1>5 DEF DescribedPlace
<1>8. DescribedPlace(topic, EquipmentIdentifiers)
  BY <1>2, <1>3, <1>5 DEF DescribedPlace
<1>9. DescribedPlace(topic, Nowhere)
  <2>1. {} \subseteq Knows(Nowhere)
    OBVIOUS
  <2> QED
    BY <1>2, <1>5, <2>1 DEF DescribedPlace
<1>10. DescribedPlace(topic, OfSystem)
  BY <1>2, <1>4, <1>5 DEF DescribedPlace
<1> QED
  BY <1>6, <1>7, <1>8, <1>9, <1>10

\* A message accepts a description of the point of a topic, and one with an
\* owner if it knows of owners.
Describable(s, topic) ==
    \E payload \in Descriptions(topic) :
        /\ Valid(s, payload)
        /\ "pointType" \in DOMAIN payload /\ payload.pointType = topic.pointType
        /\ "tagPath" \notin DOMAIN payload
        /\ "integration" \in Knows(s) =>
              "integration" \in DOMAIN payload /\ payload.integration = topic.publisher

\* A message is describable when its place and its part are.
LEMMA MessageDescribed ==
    ASSUME NEW topic, Textual(topic), NEW s, NEW place, NEW part,
           Message(s, topic.objectType, topic.pointType, place, part), IsPlace(place),
           DescribedPlace(topic, place), DescribedPart(topic, part)
    PROVE  Describable(s, topic)
<1>1. PICK where \in Places :
          /\ where \subseteq Knows(place)
          /\ \A measure \in Measures, extra \in Extras, unit \in SampleUnits :
                Fulfils(place, Description(topic, where, measure, extra, unit), {})
  BY DEF DescribedPlace
<1>2. PICK measure, extra, unit : Suits(topic, part, measure, extra, unit)
  BY DEF DescribedPart
<1>3. /\ measure \in Measures /\ extra \in Extras /\ unit \in SampleUnits
      /\ measure \cup extra \subseteq Knows(part)
      /\ "integration" \in Knows(part) => "integration" \in extra
  BY <1>2 DEF Suits
<1> DEFINE w == Description(topic, where, measure, extra, unit)
<1>4. Fulfils(part, w, {}) /\ Fulfils(place, w, {})
  BY <1>1, <1>2, <1>3 DEF Suits
<1>5. w \in Descriptions(topic)
  BY <1>1, <1>3 DEF Descriptions
<1>6. Describes(w, topic, where, measure, extra, unit)
  BY <1>1, <1>3, DescriptionFields
<1> HIDE DEF w
<1>7. /\ {"objectType", "pointType"} \subseteq DOMAIN w /\ "tagPath" \notin DOMAIN w
      /\ w.objectType = topic.objectType /\ w.objectType \in Text
      /\ w.pointType = topic.pointType /\ w.pointType \in Text
      /\ "integration" \in extra =>
            "integration" \in DOMAIN w /\ w.integration = topic.publisher
  BY <1>6 DEF Describes
<1>8. {} \in SUBSET {"phase"}
  OBVIOUS
<1>9. /\ Fulfils(MetadataBase, w, {}) /\ Fulfils(PointType(topic.pointType), w, {})
      /\ Fulfils(ObjectType(topic.objectType), w, {})
  BY <1>7, <1>8, BaseParts
<1>10. /\ Fulfils(s, w, {})
       /\ Knows(s) = {"objectType", "pointType"} \cup Knows(place) \cup Knows(part)
  BY <1>4, <1>9 DEF Message
<1>11. DOMAIN w \subseteq Knows(s)
  <2>1. DOMAIN w = {"objectType", "pointType"} \cup where \cup measure \cup extra
    BY <1>6 DEF Describes
  <2> QED
    BY <1>1, <1>3, <1>10, <2>1
<1>12. Valid(s, w)
  BY <1>10, <1>11, ValidIsFulfilled
<1>13. "integration" \in Knows(s) => "integration" \in extra
  <2>1. "integration" \notin Knows(place)
    BY DEF IsPlace, PlaceFields
  <2> QED
    BY <1>3, <1>10, <2>1
<1> QED
  BY <1>5, <1>7, <1>12, <1>13 DEF Describable

\* Every message of equipment,
LEMMA EquipmentDescribable ==
    ASSUME NEW topic, Textual(topic), NEW points \in SUBSET DOMAIN EquipmentPoints,
           topic.pointType \in points
    PROVE  Describable(Of(topic.objectType, points)[topic.pointType], topic)
<1> DEFINE m == topic.pointType
           part == EquipmentPoints[m]
<1>1. "C" \in {"C"} /\ "C" \in SampleUnits /\ "C" \in Text
  BY NamesAreText DEF SampleUnits
<1>2. DescribedPart(topic, part)
  <2>1. CASE m = "GenericPoint" /\ part = GenericPointFields
    BY <2>1, ChoiceSuits
  <2>2. CASE part = AllOf({StateText, Owned}) \/ part = StateText
    BY <2>2, StatesSuit
  <2>3. CASE part = EquipmentMeasurementMode \/ part = AllOf({EquipmentMeasurementMode, IsSetpoint})
    BY <2>3, ChoiceSuits
  <2>4. CASE part = EngUnit(Text)
    BY <1>1, <2>4, UnitSuits
  <2>5. CASE \/ part = AllOf({EngUnit({"C"}), IsSetpoint})
             \/ part = AllOf({IntegrationPublisherFields, EngUnit({"C"})})
    BY <1>1, <2>5, UnitSuits
  <2>6. \/ m = "GenericPoint" /\ part = GenericPointFields
        \/ part = AllOf({StateText, Owned}) \/ part = StateText
        \/ part = EquipmentMeasurementMode \/ part = AllOf({EquipmentMeasurementMode, IsSetpoint})
        \/ part = EngUnit(Text)
        \/ part = AllOf({EngUnit({"C"}), IsSetpoint})
        \/ part = AllOf({IntegrationPublisherFields, EngUnit({"C"})})
    BY EquipmentForms
  <2> HIDE DEF m, part
  <2> QED
    BY <2>1, <2>2, <2>3, <2>4, <2>5, <2>6
<1>3. Message(Of(topic.objectType, points)[m], topic.objectType, m, EquipmentIdentifiers, part)
  BY EquipmentMessage
<1> HIDE DEF part
<1> QED
  BY <1>2, <1>3, PlacesDescribed, ThePlaces, MessageDescribed

\* of racks,
LEMMA RackDescribable ==
    ASSUME NEW topic, Textual(topic), topic.objectType = "Rack",
           NEW points \in {RackPoints, FileRackPoints}, topic.pointType \in DOMAIN points
    PROVE  Describable(Rack(points)[topic.pointType], topic)
<1> DEFINE m == topic.pointType
           part == points[m]
<1>1. /\ {"C", "LPM", "kPa", "%", "kW"} \subseteq SampleUnits
      /\ "C" \in {"C"} /\ "LPM" \in {"LPM"} /\ "kPa" \in {"kPa"} /\ "%" \in {"%"} /\ "kW" \in {"kW"}
  BY DEF SampleUnits
<1>2. DescribedPart(topic, part)
  <2>1. CASE part = StateText \/ part = AllOf({IntegrationPublisherFields, StateText})
    BY <2>1, StatesSuit
  <2>2. CASE part = EngUnit({"C"})
    BY <1>1, <2>2, UnitSuits
  <2>3. CASE part = EngUnit({"LPM"})
    BY <1>1, <2>3, UnitSuits
  <2>4. CASE part = EngUnit({"kPa"}) \/ part = AllOf({EngUnit({"kPa"}), IsSetpoint})
    BY <1>1, <2>4, UnitSuits
  <2>5. CASE part = EngUnit({"%"})
    BY <1>1, <2>5, UnitSuits
  <2>6. CASE part = EngUnit({"kW"})
    BY <1>1, <2>6, UnitSuits
  <2>7. m \in DOMAIN RackPoints
    BY FileRackForms
  <2>8. \/ part = RackPoints[m]
        \/ part = AllOf({IntegrationPublisherFields, StateText})
    BY <2>7, FileRackForms
  <2>9. \/ RackPoints[m] = StateText
        \/ RackPoints[m] = AllOf({IntegrationPublisherFields, StateText})
        \/ RackPoints[m] = EngUnit({"C"}) \/ RackPoints[m] = EngUnit({"LPM"})
        \/ RackPoints[m] = EngUnit({"kPa"}) \/ RackPoints[m] = AllOf({EngUnit({"kPa"}), IsSetpoint})
        \/ RackPoints[m] = EngUnit({"%"}) \/ RackPoints[m] = EngUnit({"kW"})
    BY <2>7, RackForms DEF RackRequests
  <2> HIDE DEF part, m
  <2> QED
    BY <2>1, <2>2, <2>3, <2>4, <2>5, <2>6, <2>8, <2>9
<1>3. Message(Rack(points)[m], "Rack", m, RackLocationIdentifiers, part)
  BY RackMessage
<1> HIDE DEF part
<1> QED
  BY <1>2, <1>3, PlacesDescribed, ThePlaces, MessageDescribed

\* of power meters,
LEMMA MeterDescribable ==
    ASSUME NEW topic, Textual(topic), topic.objectType = "PowerMeter",
           topic.pointType \in DOMAIN PowerMeterPoints
    PROVE  Describable(Meter(PowerMeterPoints)[topic.pointType], topic)
<1> DEFINE m == topic.pointType
           part == PowerMeterPoints[m]
<1>1. "C" \in SampleUnits /\ "C" \in Text
  BY NamesAreText DEF SampleUnits
<1>2. DescribedPart(topic, part)
  <2>1. CASE m = "GenericPoint"
    BY <2>1, MeterForms, ChoiceSuits
  <2>2. CASE m = "PhaseCurrent"
    BY <1>1, <2>2, MeterForms, UnitSuits
  <2>3. CASE m = "PowerFactor"
    BY <2>3, MeterForms, HeartbeatSuits
  <2>4. CASE m \notin {"GenericPoint", "PhaseCurrent", "PowerFactor"}
    <3>1. part = EngUnit(Text)
      BY <2>4, MeterForms
    <3> QED
      BY <1>1, <3>1, UnitSuits
  <2> QED
    BY <2>1, <2>2, <2>3, <2>4
<1>3. Message(Meter(PowerMeterPoints)[m], "PowerMeter", m, PowerMeterIdentifiers, part)
  BY MeterMessage
<1> HIDE DEF part
<1> QED
  BY <1>2, <1>3, PlacesDescribed, ThePlaces, MessageDescribed

\* and of systems is describable.
LEMMA SystemDescribable ==
    ASSUME NEW topic, Textual(topic), topic.objectType = "System"
    PROVE  /\ topic.pointType \in DOMAIN SystemPoints =>
                 Describable(SystemPoints[topic.pointType], topic)
           /\ topic.pointType \in DOMAIN FileSystemPoints =>
                 Describable(FileSystemPoints[topic.pointType], topic)
<1> DEFINE m == topic.pointType
<1>1. CASE m \in ElectricalPoints
  <2>1. ElectricalPoints \in SUBSET DOMAIN EquipmentPoints
    BY DEF ElectricalPoints, EquipmentPoints
  <2>2. Describable(Of("System", ElectricalPoints)[m], topic)
    BY <1>1, <2>1, EquipmentDescribable
  <2>3. /\ SystemPoints[m] = Of("System", ElectricalPoints)[m]
        /\ FileSystemPoints[m] = Of("System", ElectricalPoints)[m]
    BY <1>1, SystemTable
  <2> QED
    BY <2>2, <2>3
<1>2. CASE m \notin ElectricalPoints
  <2>1. ASSUME NEW s, NEW place \in {Nowhere, OfSystem},
               NEW part \in {Scoped, IntegrationPublisherFields,
                             AllOf({IntegrationPublisherFields, Scoped})},
               Message(s, "System", m, place, part)
        PROVE  Describable(s, topic)
    <3>1. DescribedPart(topic, part)
      BY HeartbeatSuits
    <3>2. IsPlace(place) /\ DescribedPlace(topic, place)
      BY PlacesDescribed, ThePlaces DEF Nowhere, OfSystem
    <3> QED
      BY <2>1, <3>1, <3>2, MessageDescribed
  <2>2. ASSUME m \in DOMAIN SystemPoints PROVE Describable(SystemPoints[m], topic)
    <3>1. \E part \in {Scoped, IntegrationPublisherFields, AllOf({IntegrationPublisherFields, Scoped})} :
              Message(SystemPoints[m], "System", m, Nowhere, part)
      BY <1>2, <2>2, SystemTable, ViewerHeartbeats
    <3> QED
      BY <2>1, <3>1
  <2>3. ASSUME m \in DOMAIN FileSystemPoints PROVE Describable(FileSystemPoints[m], topic)
    <3>1. m \in FileBmsHeartbeats \cup FileIntegrationHeartbeats /\ m \in AnyObject
      BY <1>2, <2>3, SystemTable DEF FileBmsHeartbeats, FileIntegrationHeartbeats, AnyObject
    <3>2. PICK part \in {Scoped, IntegrationPublisherFields} :
              FileSystemPoints[m] = Heartbeat(m, part)
      BY <3>1, SystemTable
    <3>3. Message(FileSystemPoints[m], "System", m, OfSystem, part)
      BY <3>1, <3>2, FileHeartbeats
    <3> QED
      BY <2>1, <3>3
  <2> QED
    BY <2>2, <2>3
<1> QED
  BY <1>1, <1>2

-----------------------------------------------------------------------------
(* From a value to its metadata, in either edition.                         *)

\* In either edition every message of a metadata channel is describable.
LEMMA AllDescribable ==
    ASSUME NEW topic, Textual(topic), topic.objectType \in MetadataTypes
    PROVE  /\ topic.pointType \in DOMAIN MessagesOf(topic.objectType) =>
                 Describable(MessagesOf(topic.objectType)[topic.pointType], topic)
           /\ topic.pointType \in DOMAIN FileMessagesOf(topic.objectType) =>
                 Describable(FileMessagesOf(topic.objectType)[topic.pointType], topic)
<1> DEFINE object == topic.objectType
           m == topic.pointType
<1>1. CASE object = "Rack"
  <2>1. /\ MessagesOf(object) = Rack(RackPoints) /\ FileMessagesOf(object) = Rack(FileRackPoints)
        /\ DOMAIN Rack(RackPoints) = DOMAIN RackPoints
        /\ DOMAIN Rack(FileRackPoints) = DOMAIN FileRackPoints
    BY <1>1, TypeNames DEF Rack
  <2> QED
    BY <1>1, <2>1, RackDescribable
<1>2. CASE object = "PowerMeter"
  <2>1. /\ MessagesOf(object) = Meter(PowerMeterPoints)
        /\ FileMessagesOf(object) = Meter(PowerMeterPoints)
        /\ DOMAIN Meter(PowerMeterPoints) = DOMAIN PowerMeterPoints
    BY <1>2, TypeNames DEF Meter
  <2> QED
    BY <1>2, <2>1, MeterDescribable
<1>3. CASE object = "System"
  BY <1>3, TypeNames, SystemDescribable
<1>4. CASE object \in EquipmentTypes
  <2>1. /\ MessagesOf(object) = Of(object, PointsOfType(object))
        /\ FileMessagesOf(object) = Of(object, PointsOfType(object))
        /\ DOMAIN Of(object, PointsOfType(object)) = PointsOfType(object)
    BY <1>4, TypeNames DEF Of
  <2>2. PointsOfType(object) \in SUBSET DOMAIN EquipmentPoints
    BY <1>4, PointSets
  <2> QED
    BY <2>1, <2>2, EquipmentDescribable
<1> QED
  BY <1>1, <1>2, <1>3, <1>4 DEF MetadataTypes

\* The messages that know of an owner.
LEMMA OwnersKnown ==
    /\ \A object : \A points \in SUBSET DOMAIN EquipmentPoints : \A m \in points \cap OwnablePoints :
          "integration" \in Knows(Of(object, points)[m])
    /\ \A m \in RackRequests : "integration" \in Knows(Rack(RackPoints)[m])
    /\ \A m \in FileRackRequests : "integration" \in Knows(Rack(FileRackPoints)[m])
    /\ "integration" \in Knows(Meter(PowerMeterPoints)["GenericPoint"])
    /\ \A m \in {"HearbeatTimestampIntegration", "HeartbeatEchoIntegration"} :
          "integration" \in Knows(SystemPoints[m])
    /\ \A m \in FileIntegrationHeartbeats : "integration" \in Knows(FileSystemPoints[m])
<1>1. ASSUME NEW s, NEW object, NEW m, NEW place, NEW part, Message(s, object, m, place, part),
             "integration" \in Knows(part)
      PROVE  "integration" \in Knows(s)
  BY <1>1 DEF Message
<1>2. /\ "integration" \in Knows(IntegrationPublisherFields) /\ "integration" \in Knows(Owned)
      /\ "integration" \in Knows(GenericPointFields)
  <2>1. {} \in SUBSET {"phase"}
    OBVIOUS
  <2> QED
    BY <2>1, MeasureParts, GenericPart
<1>3. ASSUME NEW s
      PROVE  /\ "integration" \in Knows(AllOf({IntegrationPublisherFields, s}))
             /\ "integration" \in Knows(AllOf({s, Owned}))
  <2>1. /\ Knows(AllOf({IntegrationPublisherFields, s})) = Knows(IntegrationPublisherFields) \cup Knows(s)
        /\ Knows(AllOf({s, Owned})) = Knows(s) \cup Knows(Owned)
    BY AllOfTwo
  <2> QED
    BY <1>2, <2>1
<1>4. ASSUME NEW object, NEW points \in SUBSET DOMAIN EquipmentPoints,
             NEW m \in points \cap OwnablePoints
      PROVE  "integration" \in Knows(Of(object, points)[m])
  <2>1. \/ EquipmentPoints[m] = GenericPointFields \/ EquipmentPoints[m] = AllOf({StateText, Owned})
        \/ EquipmentPoints[m] = AllOf({IntegrationPublisherFields, EngUnit({"C"})})
    BY EquipmentForms DEF OwnablePoints
  <2>2. "integration" \in Knows(EquipmentPoints[m])
    BY <1>2, <1>3, <2>1
  <2> QED
    BY <1>1, <2>2, EquipmentMessage
<1>5. ASSUME NEW m \in RackRequests PROVE "integration" \in Knows(Rack(RackPoints)[m])
  <2>1. m \in DOMAIN RackPoints
    BY RackForms DEF RackRequests
  <2>2. "integration" \in Knows(RackPoints[m])
    BY <1>3, RackForms
  <2> QED
    BY <1>1, <2>1, <2>2, RackMessage
<1>6. ASSUME NEW m \in FileRackRequests PROVE "integration" \in Knows(Rack(FileRackPoints)[m])
  <2>1. m \in DOMAIN FileRackPoints
    BY RackForms, FileRackForms DEF FileRackRequests, RackRequests
  <2>2. FileRackPoints[m] = AllOf({IntegrationPublisherFields, StateText})
    BY <2>1, RackForms, FileRackForms DEF FileRackRequests, RackRequests
  <2>3. "integration" \in Knows(FileRackPoints[m])
    BY <1>3, <2>2
  <2> QED
    BY <1>1, <2>1, <2>3, RackMessage
<1>7. "integration" \in Knows(Meter(PowerMeterPoints)["GenericPoint"])
  <2>1. "GenericPoint" \in DOMAIN PowerMeterPoints /\ PowerMeterPoints["GenericPoint"] = GenericPointFields
    BY MeterForms
  <2> QED
    BY <1>1, <1>2, <2>1, MeterMessage
<1>8. ASSUME NEW m \in {"HearbeatTimestampIntegration", "HeartbeatEchoIntegration"}
      PROVE  "integration" \in Knows(SystemPoints[m])
  <2>1. CASE m = "HearbeatTimestampIntegration"
    BY <1>1, <1>2, <2>1, SystemTable, ViewerHeartbeats
  <2>2. CASE m = "HeartbeatEchoIntegration"
    BY <1>1, <1>3, <2>2, SystemTable, ViewerHeartbeats
  <2> QED
    BY <2>1, <2>2
<1>9. ASSUME NEW m \in FileIntegrationHeartbeats PROVE "integration" \in Knows(FileSystemPoints[m])
  <2>1. m \in AnyObject
    BY DEF FileIntegrationHeartbeats, AnyObject
  <2>2. Message(FileSystemPoints[m], "System", m, OfSystem, IntegrationPublisherFields)
    BY <2>1, SystemTable, FileHeartbeats
  <2> QED
    BY <1>1, <1>2, <2>2
<1> QED
  BY <1>4, <1>5, <1>6, <1>7, <1>8, <1>9

\* The points of the two kinds of value channels of the published catalogue have
\* metadata, which knows of owners where any integration may publish.
LEMMA ViewerValueChannels ==
    ASSUME NEW c \in ViewerChannels, c.type = "Value", NEW m \in c.pointTypes
    PROVE  /\ c.objectType \in MetadataTypes /\ m \in DOMAIN MessagesOf(c.objectType)
           /\ c.publisher = PUB \/ "integration" \in Knows(MessagesOf(c.objectType)[m])
<1>1. c \notin {RackMetadata, PowerMeterMetadata, SystemMetadata}
  BY MetadataIs DEF RackMetadata, PowerMeterMetadata, SystemMetadata
<1>2. \A object : c # EquipmentMetadata(object)
  BY MetadataIs DEF EquipmentMetadata
<1>3. \/ c \in {RackBmsValue, RackIntegrationValue, PowerMeterValue, SystemBmsValue,
                SystemIntegrationValue}
      \/ \E object \in EquipmentTypes : c = EquipmentValue(object)
      \/ \E object \in RequestedTypes : c = Value(AnyIntegration, object, SpRequest)
  BY <1>1, <1>2, ViewerTable
<1>4. /\ {"Rack", "PowerMeter", "System"} \subseteq MetadataTypes /\ EquipmentTypes \subseteq MetadataTypes
      /\ RequestedTypes \subseteq EquipmentTypes
  BY DEF MetadataTypes, EquipmentTypes
<1>5. CASE c = RackBmsValue \/ c = RackIntegrationValue
  <2>1. MessagesOf("Rack") = Rack(RackPoints) /\ DOMAIN Rack(RackPoints) = DOMAIN RackPoints
    BY TypeNames DEF Rack
  <2>2. CASE c = RackBmsValue
    <3>1. c.objectType = "Rack" /\ c.publisher = PUB /\ m \in DOMAIN RackPoints
      BY <2>2, ValueIs DEF RackBmsValue
    <3> QED
      BY <1>4, <2>1, <3>1
  <2>3. CASE c = RackIntegrationValue
    <3>1. c.objectType = "Rack" /\ m \in RackRequests
      BY <2>3, ValueIs DEF RackIntegrationValue
    <3>2. m \in DOMAIN RackPoints
      BY <3>1, RackForms DEF RackRequests
    <3> QED
      BY <1>4, <2>1, <3>1, <3>2, OwnersKnown
  <2> QED
    BY <1>5, <2>2, <2>3
<1>6. CASE c = PowerMeterValue
  <2>1. c.objectType = "PowerMeter" /\ c.publisher = PUB /\ m \in DOMAIN PowerMeterPoints
    BY <1>6, ValueIs DEF PowerMeterValue
  <2>2. DOMAIN MessagesOf("PowerMeter") = DOMAIN PowerMeterPoints
    BY TypeNames DEF Meter
  <2> QED
    BY <1>4, <2>1, <2>2
<1>7. CASE c = SystemBmsValue
  <2>1. c.objectType = "System" /\ c.publisher = PUB /\ m \in SystemBmsPoints
    BY <1>7 DEF SystemBmsValue, Channel
  <2>2. SystemBmsPoints \subseteq DOMAIN MessagesOf("System")
    BY TypeNames, SystemTable DEF SystemBmsPoints
  <2> QED
    BY <1>4, <2>1, <2>2
<1>8. CASE c = SystemIntegrationValue
  <2>1. /\ c.objectType = "System"
        /\ m \in {"HearbeatTimestampIntegration", "HeartbeatEchoIntegration"}
    BY <1>8, ValueIs DEF SystemIntegrationValue
  <2>2. MessagesOf("System") = SystemPoints /\ m \in DOMAIN SystemPoints
    BY <2>1, TypeNames, SystemTable
  <2> QED
    BY <1>4, <2>1, <2>2, OwnersKnown
<1>9. ASSUME NEW object \in EquipmentTypes, c = EquipmentValue(object)
      PROVE  /\ c.objectType \in MetadataTypes /\ m \in DOMAIN MessagesOf(c.objectType)
             /\ c.publisher = PUB
  <2>1. c.objectType = object /\ c.publisher = PUB /\ m \in PointsOfType(object)
    BY <1>9, ValueIs DEF EquipmentValue
  <2>2. DOMAIN MessagesOf(object) = PointsOfType(object)
    BY TypeNames DEF Of
  <2> QED
    BY <1>4, <2>1, <2>2
<1>10. ASSUME NEW object \in RequestedTypes, c = Value(AnyIntegration, object, SpRequest)
       PROVE  /\ c.objectType \in MetadataTypes /\ m \in DOMAIN MessagesOf(c.objectType)
              /\ "integration" \in Knows(MessagesOf(c.objectType)[m])
  <2>1. c.objectType = object /\ m \in SpRequest /\ object \in EquipmentTypes
    BY <1>4, <1>10, ValueIs
  <2>2. MessagesOf(object) = Of(object, PointsOfType(object))
    BY <2>1, TypeNames
  <2>3. PointsOfType(object) \in SUBSET DOMAIN EquipmentPoints /\ m \in PointsOfType(object)
    BY <2>1, PointSets
  <2>4. m \in OwnablePoints
    BY <2>1 DEF SpRequest, OwnablePoints
  <2>5. DOMAIN Of(object, PointsOfType(object)) = PointsOfType(object)
    BY DEF Of
  <2> QED
    BY <1>4, <2>1, <2>2, <2>3, <2>4, <2>5, OwnersKnown
<1> QED
  BY <1>3, <1>5, <1>6, <1>7, <1>8, <1>9, <1>10

\* And so do those of the file.
LEMMA FileValueChannels ==
    ASSUME NEW c \in FileChannels, c.type = "Value", NEW m \in c.pointTypes
    PROVE  /\ c.objectType \in MetadataTypes /\ m \in DOMAIN FileMessagesOf(c.objectType)
           /\ c.publisher = PUB \/ "integration" \in Knows(FileMessagesOf(c.objectType)[m])
<1>1. \A object : c # FileMetadata(object, FileMessagesOf(object))
  BY FileMetadataIs
<1>2. \/ \E object \in EquipmentTypes : c = EquipmentValue(object)
      \/ \E object \in RequestedTypes : c = Value(AnyIntegration, object, SpRequest)
      \/ \E object \in GenericTypes : c = Value(AnyIntegration, object, {"GenericPoint"})
      \/ c \in {PowerMeterValue, RackFileValue, RackFileIntegration, SystemFileValue,
                SystemFileIntegration}
  BY <1>1, FileTable
<1>3. /\ {"Rack", "PowerMeter", "System"} \subseteq MetadataTypes /\ EquipmentTypes \subseteq MetadataTypes
      /\ RequestedTypes \subseteq EquipmentTypes
  BY DEF MetadataTypes, EquipmentTypes
<1>4. ASSUME NEW object \in EquipmentTypes
      PROVE  /\ FileMessagesOf(object) = Of(object, PointsOfType(object))
             /\ DOMAIN FileMessagesOf(object) = PointsOfType(object)
             /\ PointsOfType(object) \in SUBSET DOMAIN EquipmentPoints
             /\ "GenericPoint" \in PointsOfType(object)
  <2>1. FileMessagesOf(object) = Of(object, PointsOfType(object))
    BY TypeNames
  <2>2. "GenericPoint" \in PointsOfType(object)
    BY DEF PointsOfType, EquipmentTypes, ElectricalTypes, MechanicalTypes, ActuatorTypes,
           RequestedTypes, ElectricalPoints, MechanicalPoints, SensorPoints, Actuator
  <2> QED
    BY <2>1, <2>2, PointSets DEF Of
<1>5. CASE c = PowerMeterValue
  <2>1. c.objectType = "PowerMeter" /\ c.publisher = PUB /\ m \in DOMAIN PowerMeterPoints
    BY <1>5, ValueIs DEF PowerMeterValue
  <2>2. DOMAIN FileMessagesOf("PowerMeter") = DOMAIN PowerMeterPoints
    BY TypeNames DEF Meter
  <2> QED
    BY <1>3, <2>1, <2>2
<1>6. CASE c = RackFileValue \/ c = RackFileIntegration
  <2>1. /\ FileMessagesOf("Rack") = Rack(FileRackPoints)
        /\ DOMAIN FileMessagesOf("Rack") = DOMAIN RackPoints
    BY TypeNames, FileRackForms DEF Rack
  <2>2. CASE c = RackFileValue
    <3>1. c.objectType = "Rack" /\ c.publisher = PUB /\ m \in DOMAIN RackPoints
      BY <2>2, ValueIs DEF RackFileValue
    <3> QED
      BY <1>3, <2>1, <3>1
  <2>3. CASE c = RackFileIntegration
    <3>1. c.objectType = "Rack" /\ m \in FileRackRequests
      BY <2>3, ValueIs DEF RackFileIntegration
    <3>2. m \in DOMAIN RackPoints
      BY <3>1, RackForms DEF FileRackRequests, RackRequests
    <3> QED
      BY <1>3, <2>1, <3>1, <3>2, OwnersKnown
  <2> QED
    BY <1>6, <2>2, <2>3
<1>7. CASE c = SystemFileValue
  <2>1. c.objectType = "System" /\ c.publisher = PUB /\ m \in SystemBmsPoints
    BY <1>7, ValueIs DEF SystemFileValue
  <2>2. SystemBmsPoints \subseteq DOMAIN FileMessagesOf("System")
    BY TypeNames, SystemTable DEF SystemBmsPoints, FileBmsHeartbeats
  <2> QED
    BY <1>3, <2>1, <2>2
<1>8. /\ FileMessagesOf("System") = FileSystemPoints
      /\ \A n \in ElectricalPoints \cup FileIntegrationHeartbeats :
            /\ n \in DOMAIN FileSystemPoints /\ "integration" \in Knows(FileSystemPoints[n])
  <2>1. ElectricalPoints \in SUBSET DOMAIN EquipmentPoints /\ ElectricalPoints \subseteq OwnablePoints
    BY DEF ElectricalPoints, EquipmentPoints, OwnablePoints
  <2>2. \A n \in ElectricalPoints : "integration" \in Knows(Of("System", ElectricalPoints)[n])
    BY <2>1, OwnersKnown
  <2> QED
    BY <2>2, TypeNames, SystemTable, OwnersKnown
<1>9. CASE c = SystemFileIntegration
  <2>1. c.objectType = "System" /\ m \in FileIntegrationHeartbeats \cup ElectricalPoints
    BY <1>9, ValueIs DEF SystemFileIntegration
  <2> QED
    BY <1>3, <1>8, <2>1
<1>10. ASSUME NEW object \in EquipmentTypes, c = EquipmentValue(object)
       PROVE  /\ c.objectType \in MetadataTypes /\ m \in DOMAIN FileMessagesOf(c.objectType)
              /\ c.publisher = PUB
  <2>1. c.objectType = object /\ c.publisher = PUB /\ m \in PointsOfType(object)
    BY <1>10, ValueIs DEF EquipmentValue
  <2> QED
    BY <1>3, <1>4, <2>1
<1>11. ASSUME NEW object \in RequestedTypes, c = Value(AnyIntegration, object, SpRequest)
       PROVE  /\ c.objectType \in MetadataTypes /\ m \in DOMAIN FileMessagesOf(c.objectType)
              /\ "integration" \in Knows(FileMessagesOf(c.objectType)[m])
  <2>1. c.objectType = object /\ m \in SpRequest /\ object \in EquipmentTypes
    BY <1>3, <1>11, ValueIs
  <2>2. m \in PointsOfType(object)
    BY <2>1, PointSets
  <2>3. m \in OwnablePoints
    BY <2>1 DEF SpRequest, OwnablePoints
  <2> QED
    BY <1>3, <1>4, <2>1, <2>2, <2>3, OwnersKnown
<1>12. ASSUME NEW object \in GenericTypes, c = Value(AnyIntegration, object, {"GenericPoint"})
       PROVE  /\ c.objectType \in MetadataTypes /\ m \in DOMAIN FileMessagesOf(c.objectType)
              /\ "integration" \in Knows(FileMessagesOf(c.objectType)[m])
  <2>1. c.objectType = object /\ m = "GenericPoint" /\ m \in OwnablePoints /\ m \in ElectricalPoints
    BY <1>12, ValueIs DEF OwnablePoints, ElectricalPoints
  <2>2. CASE object \in EquipmentTypes
    BY <1>3, <1>4, <2>1, <2>2, OwnersKnown
  <2>3. CASE object = "PowerMeter"
    <3>1. /\ FileMessagesOf("PowerMeter") = Meter(PowerMeterPoints)
          /\ m \in DOMAIN FileMessagesOf("PowerMeter")
      BY <2>1, TypeNames, MeterForms DEF Meter
    <3> QED
      BY <1>3, <2>1, <2>3, <3>1, OwnersKnown
  <2>4. CASE object = "System"
    BY <1>3, <1>8, <2>1, <2>4
  <2> QED
    BY <2>2, <2>3, <2>4 DEF GenericTypes
<1> QED
  BY <1>2, <1>5, <1>6, <1>7, <1>9, <1>10, <1>11, <1>12

\* Both promises, edition by edition: the point of a value is described by a
\* message of the metadata channel of its object type.
LEMMA MetadataChannels ==
    ASSUME NEW e \in DOMAIN Editions, NEW c \in Editions[e], c.type = "Value",
           NEW topic, topic.objectType = c.objectType, topic.pointType \in c.pointTypes,
           topic.publisher \in Text
    PROVE  \E d \in Editions[e] :
              /\ d.publisher = PUB /\ d.type = "Metadata" /\ d.objectType = topic.objectType
              /\ topic.pointType \in d.pointTypes /\ topic.pointType \in DOMAIN d.messages
              /\ Describable(d.messages[topic.pointType], topic)
              /\ c.publisher = PUB \/ "integration" \in Knows(d.messages[topic.pointType])
<1> DEFINE object == topic.objectType
           m == topic.pointType
<1>1. Textual(topic)
  <2>1. c \in FileChannels \cup ViewerChannels
    BY CatalogueAssumption
  <2>2. topic.objectType \in Text /\ topic.pointType \in Text
    BY <2>1, NamesAreText
  <2> QED
    BY <2>2 DEF Textual
<1>2. \/ e = "viewer" /\ Editions[e] = ViewerChannels
      \/ e = "file" /\ Editions[e] = FileChannels
  BY CatalogueAssumption
<1>3. CASE e = "viewer" /\ Editions[e] = ViewerChannels
  <2>1. /\ object \in MetadataTypes /\ m \in DOMAIN MessagesOf(object)
        /\ c.publisher = PUB \/ "integration" \in Knows(MessagesOf(object)[m])
    BY <1>3, ViewerValueChannels
  <2>2. Describable(MessagesOf(object)[m], topic)
    BY <1>1, <2>1, AllDescribable
  <2> DEFINE d == Metadata(object, MessagesOf(object))
  <2>3. d \in ViewerChannels
    BY <2>1, MetadataOfTypes, ViewerTable DEF MetadataTypes
  <2>4. /\ d.publisher = PUB /\ d.type = "Metadata" /\ d.objectType = object
        /\ d.pointTypes = DOMAIN MessagesOf(object) /\ d.messages = MessagesOf(object)
    BY MetadataIs
  <2> HIDE DEF d
  <2> QED
    BY <1>3, <2>1, <2>2, <2>3, <2>4
<1>4. CASE e = "file" /\ Editions[e] = FileChannels
  <2>1. /\ object \in MetadataTypes /\ m \in DOMAIN FileMessagesOf(object)
        /\ c.publisher = PUB \/ "integration" \in Knows(FileMessagesOf(object)[m])
    BY <1>4, FileValueChannels
  <2> DEFINE s == FileMessagesOf(object)[m]
             d == FileMetadata(object, FileMessagesOf(object))
  <2>2. Describable(s, topic)
    BY <1>1, <2>1, AllDescribable
  <2>3. IsSchema(s)
    BY <2>1, FileMessagesAreSchemas
  <2>4. d \in FileChannels
    BY <2>1, FileTable
  <2>5. /\ d.publisher = PUB /\ d.type = "Metadata" /\ d.objectType = object
        /\ d.pointTypes = DOMAIN FileMessagesOf(object)
        /\ DOMAIN d.messages = DOMAIN FileMessagesOf(object)
        /\ d.messages[m] = WithNumberedPhases(s)
    BY <2>1, FileMetadataIs
  <2> HIDE DEF d, s
  <2>6. Knows(WithNumberedPhases(s)) = Knows(s)
    BY <2>3, NumberedPhases
  <2>7. Describable(WithNumberedPhases(s), topic)
    BY <2>2, <2>3, <2>6, NumberedPhases DEF Describable
  <2>8. c.publisher = PUB \/ "integration" \in Knows(s)
    BY <2>1 DEF s
  <2> QED
    BY <1>4, <2>1, <2>4, <2>5, <2>6, <2>7, <2>8
<1> QED
  BY <1>2, <1>3, <1>4

\* Whoever may publish a value finds its point described, in either edition and
\* whoever the integration is: its description is accepted under the metadata
\* topic and names the integration.
THEOREM ValueIsDescribed == Spec => []ValueHasMetadata
<1>1. ASSUME LInv, NEW row \in LoadedRows, row.topic.type = "Value"
      PROVE  \E payload \in Descriptions(row.topic) :
                /\ Accepts(MetadataTopic(row.topic), payload)
                /\ row.topic.publisher # PUB =>
                      /\ "integration" \in DOMAIN payload
                      /\ payload.integration = row.topic.publisher
  <2> DEFINE topic == row.topic
             described == MetadataTopic(topic)
             m == topic.pointType
  <2>1. /\ edition \in DOMAIN Editions /\ Accepts(topic, Render(row.payload, Epoch))
        /\ {"publisher", "type"} \subseteq DOMAIN topic /\ topic.publisher \in Text
    BY <1>1, LoadedRow
  <2>2. PICK c \in Editions[edition] : MatchTopicAddress(c, topic) /\ ValidateChannelParams(c, topic)
    BY <2>1 DEF Accepts, ValidateMessage
  <2>3. /\ c.type = "Value" /\ c.objectType = topic.objectType /\ m \in c.pointTypes
        /\ c.publisher \in {topic.publisher, AnyIntegration}
    BY <1>1, <2>2 DEF MatchTopicAddress, ValidateChannelParams
  <2>4. PICK d \in Editions[edition] :
            /\ d.publisher = PUB /\ d.type = "Metadata" /\ d.objectType = topic.objectType
            /\ m \in d.pointTypes /\ m \in DOMAIN d.messages
            /\ Describable(d.messages[m], topic)
            /\ c.publisher = PUB \/ "integration" \in Knows(d.messages[m])
    BY <2>1, <2>3, MetadataChannels
  <2>5. PICK payload \in Descriptions(topic) :
            /\ Valid(d.messages[m], payload)
            /\ "pointType" \in DOMAIN payload /\ payload.pointType = m
            /\ "tagPath" \notin DOMAIN payload
            /\ "integration" \in Knows(d.messages[m]) =>
                  "integration" \in DOMAIN payload /\ payload.integration = topic.publisher
    BY <2>4 DEF Describable
  <2>6. /\ described.publisher = PUB /\ described.type = "Metadata"
        /\ described.objectType = topic.objectType /\ described.pointType = m
    BY <2>1 DEF MetadataTopic
  <2> HIDE DEF described
  <2>7. MatchTopicAddress(d, described) /\ ValidateChannelParams(d, described)
    BY <2>4, <2>6 DEF MatchTopicAddress, ValidateChannelParams
  <2>8. ValidatePayloadTopicParameters(TopicParameters(d, described), payload)
    <3>1. PUB # AnyIntegration
      BY DEF PUB, AnyIntegration
    <3>2. TopicParameters(d, described) = [pointType |-> m, tagPath |-> described.tagPath]
      BY <2>4, <2>6, <3>1 DEF TopicParameters
    <3> QED
      BY <2>5, <3>2 DEF ValidatePayloadTopicParameters
  <2>9. ValidateMessage(Editions[edition], described, payload)
    BY <2>4, <2>5, <2>7, <2>8 DEF ValidateMessage, ValidateChannelMessages
  <2>10. topic.publisher # PUB =>
           "integration" \in DOMAIN payload /\ payload.integration = topic.publisher
    <3>1. topic.publisher # PUB => c.publisher # PUB
      BY <2>3 DEF PUB, AnyIntegration
    <3> QED
      BY <2>4, <2>5, <3>1
  <2> QED
    BY <2>5, <2>9, <2>10 DEF Accepts, described
<1>2. IInv => ValueHasMetadata
  BY <1>1 DEF IInv, ValueHasMetadata
<1> QED
  BY <1>2, Invariance, PTL

-----------------------------------------------------------------------------
(* The replay: rendered with another time, a payload stays acceptable as     *)
(* long as the kinds of its values do.                                      *)

\* A value that may take the place of another: of the same kinds, and the same
\* if the catalogues fix it.
Replaces(w, v) ==
    /\ \A kind \in {Text, Lists, StateTables, Flags, Wholes, Decimals, {Null}} :
          v \in kind => w \in kind
    /\ v \in Names => w = v

\* A set of values that is left by none that takes the place of a member.
Closed(S) == \A v \in S : \A w : Replaces(w, v) => w \in S

\* A schema that another time cannot make refuse what it accepts: the values it
\* allows are closed, and it knows no tag path, which a topic would fix.
Steadfast(s) ==
    /\ "tagPath" \notin Knows(s)
    /\ \A f \in Knows(s) : Closed(s.fields[f])

\* A payload and what may take its place, field by field.
ReplacesAll(late, early) ==
    /\ DOMAIN late = DOMAIN early
    /\ \A f \in DOMAIN early : Replaces(late[f], early[f])

\* The kinds are closed, and so is what the catalogues fix.
LEMMA ClosedKinds ==
    /\ Closed(Text) /\ Closed(Lists) /\ Closed(StateTables) /\ Closed(Flags) /\ Closed(Wholes)
    /\ Closed(Wholes \cup Decimals \cup {Null})
    /\ \A S : S \subseteq Names => Closed(S)
    /\ \A S, T : Closed(S) /\ Closed(T) => Closed(S \cup T)
<1>1. ASSUME NEW kind \in {Text, Lists, StateTables, Flags, Wholes, Decimals, {Null}}
      PROVE  Closed(kind)
  BY DEF Closed, Replaces
<1>2. \A S : S \subseteq Names => Closed(S)
  BY DEF Closed, Replaces
<1>3. \A S, T : Closed(S) /\ Closed(T) => Closed(S \cup T)
  BY DEF Closed
<1>4. Closed(Wholes \cup Decimals \cup {Null})
  <2>1. Closed(Wholes) /\ Closed(Decimals) /\ Closed({Null})
    BY <1>1
  <2> QED
    BY <1>3, <2>1
<1> QED
  BY <1>1, <1>2, <1>3, <1>4

\* An object schema of closed sets is steadfast,
LEMMA ObjectSteadfast ==
    ASSUME NEW required, NEW fields, "tagPath" \notin DOMAIN fields,
           \A f \in DOMAIN fields : Closed(fields[f])
    PROVE  Steadfast(Object(required, fields)) /\ Steadfast(Optional(fields))
<1>1. /\ Object(required, fields).fields = fields
      /\ Optional(fields).fields = fields
  BY DEF Object, Optional
<1> QED
  BY <1>1 DEF Steadfast, Knows

\* so is what knows no field,
LEMMA NothingSteadfast ==
    ASSUME NEW s, Knows(s) = {} PROVE Steadfast(s)
BY DEF Steadfast

\* allOf of steadfast schemas,
LEMMA AllOfSteadfast ==
    ASSUME NEW S, \A s \in S : Steadfast(s)
    PROVE  Steadfast(AllOf(S))
<1>1. "tagPath" \notin Knows(AllOf(S))
  BY AllOfKnows DEF Steadfast
<1>2. ASSUME NEW f \in Knows(AllOf(S)), NEW v \in AllOf(S).fields[f], NEW w, Replaces(w, v)
      PROVE  w \in AllOf(S).fields[f]
  <2>1. \A s \in S : f \in Knows(s) => v \in s.fields[f]
    BY AllOfValues
  <2>2. \A s \in S : f \in Knows(s) => w \in s.fields[f]
    BY <1>2, <2>1 DEF Steadfast, Closed
  <2> QED
    BY <2>2, AllOfValues
<1> QED
  BY <1>1, <1>2 DEF Steadfast, Closed

\* and a steadfast schema whose phases are numbered.
LEMMA NumberedSteadfast ==
    ASSUME NEW s, IsSchema(s), Steadfast(s)
    PROVE  Steadfast(WithNumberedPhases(s))
<1> DEFINE t == WithNumberedPhases(s)
<1>1. Closed({"1", "2", "3"})
  <2>1. {"1", "2", "3"} \subseteq Names
    BY TheNames
  <2> QED
    BY <2>1, ClosedKinds
<1>2. CASE "phase" \notin DOMAIN s.fields
  BY <1>2 DEF WithNumberedPhases
<1>3. CASE "phase" \in DOMAIN s.fields
  <2>1. t = [s EXCEPT !.fields.phase = s.fields.phase \cup {"1", "2", "3"}]
    BY <1>3 DEF WithNumberedPhases
  <2>2. t.fields = [s.fields EXCEPT !.phase = s.fields.phase \cup {"1", "2", "3"}]
    BY <2>1 DEF IsSchema
  <2>3. /\ DOMAIN t.fields = DOMAIN s.fields
        /\ \A f \in DOMAIN s.fields : f # "phase" => t.fields[f] = s.fields[f]
        /\ t.fields["phase"] = s.fields["phase"] \cup {"1", "2", "3"}
    BY <1>3, <2>2
  <2> HIDE DEF t
  <2>4. Closed(s.fields["phase"] \cup {"1", "2", "3"})
    BY <1>1, <1>3, ClosedKinds DEF Steadfast, Knows
  <2>5. \A f \in DOMAIN s.fields : Closed(t.fields[f])
    BY <2>3, <2>4 DEF Steadfast, Knows
  <2>6. Steadfast(t)
    BY <2>3, <2>5 DEF Steadfast, Knows
  <2> QED
    BY <2>6 DEF t
<1> QED
  BY <1>2, <1>3

\* The parts of messages are steadfast.
LEMMA PlainSteadfast ==
    /\ Steadfast(MetadataBase) /\ Steadfast(StateText) /\ Steadfast(IsSetpoint)
    /\ Steadfast(Owned) /\ Steadfast(IntegrationPublisherFields) /\ Steadfast(EngUnit(Text))
    /\ Steadfast(RackLocationIdentifiers) /\ Steadfast(PowerMeterIdentifiers)
    /\ Steadfast(Scoped) /\ Steadfast(OfSystem) /\ Steadfast(Nowhere) /\ Steadfast(ValueMessage)
    /\ Steadfast(Object({"phase"}, [phase |-> Phases]))
    /\ Steadfast(Object({"processArea"}, [processArea |-> Lists]))
    /\ Steadfast(Optional([phase |-> Phases, engUnit |-> Text, stateText |-> StateTables]))
    /\ Steadfast(Optional([engUnit |-> Text, stateText |-> StateTables]))
    /\ Steadfast(Optional([processArea |-> Lists, objectName |-> Text, objectId |-> Text,
                           servesId |-> Lists, associateId |-> Text]))
<1>1. Closed(Phases)
  <2>1. Phases \subseteq Names
    BY TheNames DEF Phases
  <2> QED
    BY <2>1, ClosedKinds
<1>2. /\ Closed(Text) /\ Closed(Lists) /\ Closed(StateTables) /\ Closed(Flags) /\ Closed(Wholes)
      /\ Closed(Wholes \cup Decimals \cup {Null})
  BY ClosedKinds
<1>3. /\ Steadfast(MetadataBase) /\ Steadfast(StateText) /\ Steadfast(IsSetpoint)
      /\ Steadfast(Owned) /\ Steadfast(IntegrationPublisherFields) /\ Steadfast(EngUnit(Text))
  BY <1>2, ObjectSteadfast
     DEF MetadataBase, StateText, IsSetpoint, Owned, IntegrationPublisherFields, EngUnit
<1>4. /\ Steadfast(RackLocationIdentifiers) /\ Steadfast(PowerMeterIdentifiers)
      /\ Steadfast(Scoped) /\ Steadfast(OfSystem)
  BY <1>2, ObjectSteadfast DEF RackLocationIdentifiers, PowerMeterIdentifiers, Scoped, OfSystem
<1>5. Steadfast(Nowhere)
  BY NothingKnown, NothingSteadfast DEF Nowhere
<1>6. Steadfast(ValueMessage)
  BY <1>2, ObjectSteadfast DEF ValueMessage
<1>7. /\ Steadfast(Object({"phase"}, [phase |-> Phases]))
      /\ Steadfast(Object({"processArea"}, [processArea |-> Lists]))
  BY <1>1, <1>2, ObjectSteadfast
<1>8. Steadfast(Optional([phase |-> Phases, engUnit |-> Text, stateText |-> StateTables]))
  BY <1>1, <1>2, ObjectSteadfast
<1>9. Steadfast(Optional([engUnit |-> Text, stateText |-> StateTables]))
  BY <1>2, ObjectSteadfast
<1>10. Steadfast(Optional([processArea |-> Lists, objectName |-> Text, objectId |-> Text,
                           servesId |-> Lists, associateId |-> Text]))
  BY <1>2, ObjectSteadfast
<1> QED
  BY <1>3, <1>4, <1>5, <1>6, <1>7, <1>8, <1>9, <1>10

\* So are those that fix a name or a unit,
LEMMA FixedSteadfast ==
    /\ \A x \in Names : Steadfast(PointType(x)) /\ Steadfast(ObjectType(x))
    /\ \A x \in {"C", "LPM", "kPa", "%", "kW"} : Steadfast(EngUnit({x}))
<1>1. ASSUME NEW x \in Names
      PROVE  /\ Steadfast(PointType(x)) /\ Steadfast(ObjectType(x)) /\ Steadfast(EngUnit({x}))
  <2>1. Closed({x})
    <3>1. {x} \subseteq Names
      BY <1>1
    <3> QED
      BY <3>1, ClosedKinds
  <2> QED
    BY <2>1, ObjectSteadfast DEF PointType, ObjectType, EngUnit
<1>2. \A x \in {"C", "LPM", "kPa", "%", "kW"} : x \in Names
  BY TheNames
<1> QED
  BY <1>1, <1>2

\* and those that choose between fields.
LEMMA ChoosingSteadfast ==
    /\ Steadfast(EquipmentMetadataBase) /\ Steadfast(EquipmentMeasurementMode)
    /\ "GenericPoint" \in Names /\ Steadfast(GenericPointFields)
<1>1. \A alternatives : Steadfast(OneOf(alternatives)) /\ Steadfast(AnyOf(alternatives))
  BY OneOfSchema, AnyOfSchema, NothingSteadfast
<1>2. Steadfast(EquipmentIdentifiers)
  BY <1>1, PlainSteadfast, AllOfSteadfast DEF EquipmentIdentifiers
<1>3. Steadfast(EquipmentMetadataBase)
  BY <1>2, PlainSteadfast, AllOfSteadfast DEF EquipmentMetadataBase
<1>4. Steadfast(EquipmentMeasurementMode)
  BY <1>1, PlainSteadfast, AllOfSteadfast DEF EquipmentMeasurementMode
<1>5. "GenericPoint" \in Names
  <2>1. PowerMeterMetadata \in ViewerChannels
    BY ViewerTable
  <2>2. PowerMeterMetadata.pointTypes = DOMAIN Meter(PowerMeterPoints)
    BY MetadataIs DEF PowerMeterMetadata
  <2>3. "GenericPoint" \in DOMAIN Meter(PowerMeterPoints)
    BY MeterForms DEF Meter
  <2> QED
    BY <2>1, <2>2, <2>3, TheNames
<1>6. Steadfast(GenericPointFields)
  <2>1. Steadfast(PointType("GenericPoint"))
    BY <1>5, FixedSteadfast
  <2> QED
    BY <1>1, <2>1, PlainSteadfast, AllOfSteadfast DEF GenericPointFields
<1> QED
  BY <1>3, <1>4, <1>5, <1>6

\* The points of equipment, racks and power meters are steadfast.
LEMMA PointsSteadfast ==
    /\ \A m \in DOMAIN EquipmentPoints : Steadfast(EquipmentPoints[m])
    /\ \A m \in DOMAIN RackPoints : Steadfast(RackPoints[m]) /\ Steadfast(FileRackPoints[m])
    /\ \A m \in DOMAIN PowerMeterPoints : Steadfast(PowerMeterPoints[m])
<1>1. \A a, b : Steadfast(a) /\ Steadfast(b) => Steadfast(AllOf({a, b}))
  BY AllOfSteadfast
<1>2. /\ Steadfast(EngUnit({"C"})) /\ Steadfast(EngUnit({"LPM"})) /\ Steadfast(EngUnit({"kPa"}))
      /\ Steadfast(EngUnit({"%"})) /\ Steadfast(EngUnit({"kW"}))
  BY FixedSteadfast
<1>3. ASSUME NEW m \in DOMAIN EquipmentPoints PROVE Steadfast(EquipmentPoints[m])
  <2>1. /\ Steadfast(AllOf({StateText, Owned}))
        /\ Steadfast(AllOf({EngUnit({"C"}), IsSetpoint}))
        /\ Steadfast(AllOf({EquipmentMeasurementMode, IsSetpoint}))
        /\ Steadfast(AllOf({IntegrationPublisherFields, EngUnit({"C"})}))
    BY <1>1, <1>2, PlainSteadfast, ChoosingSteadfast
  <2> QED
    BY <2>1, PlainSteadfast, ChoosingSteadfast, EquipmentForms
<1>4. Steadfast(AllOf({IntegrationPublisherFields, StateText}))
  BY <1>1, PlainSteadfast
<1>5. ASSUME NEW m \in DOMAIN RackPoints PROVE Steadfast(RackPoints[m])
  <2>1. Steadfast(AllOf({EngUnit({"kPa"}), IsSetpoint}))
    BY <1>1, <1>2, PlainSteadfast
  <2> QED
    BY <1>2, <1>4, <2>1, PlainSteadfast, RackForms DEF RackRequests
<1>6. ASSUME NEW m \in DOMAIN RackPoints PROVE Steadfast(FileRackPoints[m])
  BY <1>4, <1>5, FileRackForms
<1>7. ASSUME NEW m \in DOMAIN PowerMeterPoints PROVE Steadfast(PowerMeterPoints[m])
  <2>1. Steadfast(AllOf({EngUnit(Text), Object({"phase"}, [phase |-> Phases])}))
    BY <1>1, PlainSteadfast
  <2>2. Steadfast(Optional(<<>>))
    BY PlainSteadfast DEF Nowhere
  <2> QED
    BY <2>1, <2>2, PlainSteadfast, ChoosingSteadfast, MeterForms
<1> QED
  BY <1>3, <1>5, <1>6, <1>7

\* The messages of every object type are steadfast, in both editions.
LEMMA MessagesSteadfast ==
    ASSUME NEW object \in MetadataTypes
    PROVE  /\ \A m \in DOMAIN MessagesOf(object) : Steadfast(MessagesOf(object)[m])
           /\ \A m \in DOMAIN FileMessagesOf(object) : Steadfast(FileMessagesOf(object)[m])
<1>1. /\ object \in Names
      /\ DOMAIN MessagesOf(object) \subseteq Names /\ DOMAIN FileMessagesOf(object) \subseteq Names
  <2> DEFINE c == Metadata(object, MessagesOf(object))
             d == FileMetadata(object, FileMessagesOf(object))
  <2>1. c \in ViewerChannels /\ d \in FileChannels
    BY MetadataOfTypes, ViewerTable, FileTable DEF MetadataTypes
  <2>2. /\ c.objectType = object /\ c.pointTypes = DOMAIN MessagesOf(object)
        /\ d.pointTypes = DOMAIN FileMessagesOf(object)
    BY MetadataIs, FileMetadataIs
  <2> HIDE DEF c, d
  <2> QED
    BY <2>1, <2>2, TheNames
<1>2. \A x \in Names : Steadfast(PointType(x)) /\ Steadfast(ObjectType(x))
  BY FixedSteadfast
<1>3. ASSUME NEW points \in SUBSET DOMAIN EquipmentPoints, NEW m \in points, m \in Names
      PROVE  Steadfast(Of(object, points)[m])
  <2>1. Steadfast(EquipmentPoints[m])
    BY PointsSteadfast
  <2> DEFINE parts == {EquipmentMetadataBase, PointType(m), EquipmentPoints[m]}
                          \cup IF m = "GenericPoint" THEN {} ELSE {ObjectType(object)}
  <2>2. \A s \in parts : Steadfast(s)
    BY <1>1, <1>2, <1>3, <2>1, ChoosingSteadfast
  <2>3. Of(object, points)[m] = AllOf(parts)
    BY DEF Of
  <2> HIDE DEF parts
  <2> QED
    BY <2>2, <2>3, AllOfSteadfast
<1>4. ASSUME NEW points, NEW m \in DOMAIN points, m \in Names, Steadfast(points[m]), object = "Rack"
      PROVE  Steadfast(Rack(points)[m])
  <2> DEFINE parts ==
        {MetadataBase, RackLocationIdentifiers, ObjectType("Rack"), PointType(m), points[m]}
  <2>1. \A s \in parts : Steadfast(s)
    BY <1>1, <1>2, <1>4, PlainSteadfast
  <2>2. Rack(points)[m] = AllOf(parts)
    BY DEF Rack
  <2> HIDE DEF parts
  <2> QED
    BY <2>1, <2>2, AllOfSteadfast
<1>5. ASSUME NEW m \in DOMAIN PowerMeterPoints, m \in Names, object = "PowerMeter"
      PROVE  Steadfast(Meter(PowerMeterPoints)[m])
  <2> DEFINE parts == {PowerMeterMetadataBase, PointType(m), PowerMeterPoints[m]}
                          \cup IF m = "GenericPoint" THEN {} ELSE {ObjectType("PowerMeter")}
  <2>1. Steadfast(PowerMeterMetadataBase) /\ Steadfast(PowerMeterPoints[m])
    BY PlainSteadfast, PointsSteadfast, AllOfSteadfast DEF PowerMeterMetadataBase
  <2>2. \A s \in parts : Steadfast(s)
    BY <1>1, <1>2, <1>5, <2>1
  <2>3. Meter(PowerMeterPoints)[m] = AllOf(parts)
    BY DEF Meter
  <2> HIDE DEF parts
  <2> QED
    BY <2>2, <2>3, AllOfSteadfast
<1>6. ASSUME NEW m \in Names, NEW part, Steadfast(part) PROVE Steadfast(Heartbeat(m, part))
  <2>1. Heartbeat(m, part) = AllOf({MetadataBase, PointType(m), OfSystem, part})
    BY DEF Heartbeat, OfSystem
  <2>2. \A s \in {MetadataBase, PointType(m), OfSystem, part} : Steadfast(s)
    BY <1>2, <1>6, PlainSteadfast
  <2> QED
    BY <2>1, <2>2, AllOfSteadfast
<1>7. CASE object \in EquipmentTypes
  <2>1. /\ MessagesOf(object) = Of(object, PointsOfType(object))
        /\ FileMessagesOf(object) = Of(object, PointsOfType(object))
    BY <1>7, TypeNames
  <2>2. PointsOfType(object) \in SUBSET DOMAIN EquipmentPoints
    BY <1>7, PointSets
  <2>3. DOMAIN Of(object, PointsOfType(object)) = PointsOfType(object)
    BY DEF Of
  <2> QED
    BY <1>1, <1>3, <2>1, <2>2, <2>3
<1>8. CASE object = "Rack"
  <2>1. MessagesOf(object) = Rack(RackPoints) /\ FileMessagesOf(object) = Rack(FileRackPoints)
    BY <1>8, TypeNames
  <2>2. /\ DOMAIN Rack(RackPoints) = DOMAIN RackPoints
        /\ DOMAIN Rack(FileRackPoints) = DOMAIN RackPoints /\ DOMAIN FileRackPoints = DOMAIN RackPoints
    BY FileRackForms DEF Rack
  <2> QED
    BY <1>1, <1>4, <1>8, <2>1, <2>2, PointsSteadfast
<1>9. CASE object = "PowerMeter"
  <2>1. MessagesOf(object) = Meter(PowerMeterPoints) /\ FileMessagesOf(object) = Meter(PowerMeterPoints)
    BY <1>9, TypeNames
  <2>2. DOMAIN Meter(PowerMeterPoints) = DOMAIN PowerMeterPoints
    BY DEF Meter
  <2> QED
    BY <1>1, <1>5, <1>9, <2>1, <2>2
<1>10. CASE object = "System"
  <2>1. MessagesOf(object) = SystemPoints /\ FileMessagesOf(object) = FileSystemPoints
    BY <1>10, TypeNames
  <2>2. ASSUME NEW m \in ElectricalPoints, m \in Names
        PROVE  Steadfast(Of("System", ElectricalPoints)[m])
    <3>1. ElectricalPoints \in SUBSET DOMAIN EquipmentPoints
      BY DEF ElectricalPoints, EquipmentPoints
    <3> QED
      BY <1>3, <1>10, <2>2, <3>1
  <2>3. ASSUME NEW m \in DOMAIN SystemPoints PROVE Steadfast(SystemPoints[m])
    <3>1. m \in Names
      BY <1>1, <2>1
    <3>2. CASE m \in ElectricalPoints
      BY <2>2, <3>1, <3>2, SystemTable
    <3>3. CASE m = "HeartbeatTimestampBms"
      <4>1. \A s \in {MetadataBase, PointType(m), Scoped} : Steadfast(s)
        BY <1>2, <3>1, PlainSteadfast
      <4>2. SystemPoints[m] = AllOf({MetadataBase, PointType(m), Scoped})
        BY <3>3, SystemTable DEF HeartbeatTimestampBms, Scoped
      <4> QED
        BY <4>1, <4>2, AllOfSteadfast
    <3>4. CASE m = "HeartbeatEchoBms"
      <4>1. \A s \in {MetadataBase, PointType(m), IntegrationPublisherFields} : Steadfast(s)
        BY <1>2, <3>1, PlainSteadfast
      <4>2. SystemPoints[m] = AllOf({MetadataBase, PointType(m), IntegrationPublisherFields})
        BY <3>4, SystemTable DEF HeartbeatEchoBms, IntegrationPublisherFields
      <4> QED
        BY <4>1, <4>2, AllOfSteadfast
    <3>5. CASE m = "HearbeatTimestampIntegration"
      <4>1. \A s \in {MetadataBase, IntegrationPublisherFields, PointType(m)} : Steadfast(s)
        BY <1>2, <3>1, PlainSteadfast
      <4>2. SystemPoints[m] = AllOf({MetadataBase, IntegrationPublisherFields, PointType(m)})
        BY <3>5, SystemTable DEF HearbeatTimestampIntegration
      <4> QED
        BY <4>1, <4>2, AllOfSteadfast
    <3>6. CASE m = "HeartbeatEchoIntegration"
      <4>1. \A s \in {MetadataBase, IntegrationPublisherFields, PointType(m), Scoped} : Steadfast(s)
        BY <1>2, <3>1, PlainSteadfast
      <4>2. SystemPoints[m] = AllOf({MetadataBase, IntegrationPublisherFields, PointType(m), Scoped})
        BY <3>6, SystemTable DEF HeartbeatEchoIntegration, Scoped
      <4> QED
        BY <4>1, <4>2, AllOfSteadfast
    <3> QED
      BY <3>2, <3>3, <3>4, <3>5, <3>6, SystemTable
  <2>4. ASSUME NEW m \in DOMAIN FileSystemPoints PROVE Steadfast(FileSystemPoints[m])
    <3>1. m \in Names
      BY <1>1, <2>1
    <3>2. CASE m \in ElectricalPoints
      BY <2>2, <3>1, <3>2, SystemTable
    <3>3. CASE m \in FileBmsHeartbeats \cup FileIntegrationHeartbeats
      <4>1. Steadfast(Heartbeat(m, Scoped)) /\ Steadfast(Heartbeat(m, IntegrationPublisherFields))
        BY <1>6, <3>1, PlainSteadfast
      <4> QED
        BY <3>3, <4>1, SystemTable
    <3> QED
      BY <3>2, <3>3, SystemTable
  <2> QED
    BY <2>1, <2>3, <2>4
<1> QED
  BY <1>7, <1>8, <1>9, <1>10 DEF MetadataTypes

\* So are the messages of every channel; the points and messages of a channel
\* that an integration publishes to are those of values.
LEMMA ChannelsSteadfast ==
    ASSUME NEW e \in DOMAIN Editions, NEW c \in Editions[e]
    PROVE  /\ \A m \in DOMAIN c.messages : Steadfast(c.messages[m])
           /\ c.pointTypes \subseteq Names
           /\ c.publisher = AnyIntegration =>
                 \A m \in DOMAIN c.messages : "integration" \notin Knows(c.messages[m])
<1>1. \/ e = "viewer" /\ c \in ViewerChannels
      \/ e = "file" /\ c \in FileChannels
  BY CatalogueAssumption
<1>2. c.pointTypes \subseteq Names
  BY <1>1, TheNames
<1>3. "integration" \notin Knows(ValueMessage)
  BY ObjectKnows DEF ValueMessage
<1>4. PUB # AnyIntegration
  BY DEF PUB, AnyIntegration
<1>5. ASSUME NEW publisher, NEW object, NEW points, c = Value(publisher, object, points)
      PROVE  /\ \A m \in DOMAIN c.messages : Steadfast(c.messages[m])
             /\ \A m \in DOMAIN c.messages : "integration" \notin Knows(c.messages[m])
  <2>1. c.messages = [value |-> ValueMessage]
    BY <1>5, ValueIs
  <2>2. \A m \in DOMAIN c.messages : c.messages[m] = ValueMessage
    BY <2>1
  <2> QED
    BY <1>3, <2>2, PlainSteadfast
<1>6. CASE c = SystemBmsValue
  <2>1. c.messages = [value |-> ValueMessage, HeartbeatEchoBms |-> HeartbeatEchoBms]
    BY <1>6 DEF SystemBmsValue, Channel
  <2>2. c.publisher = PUB
    BY <1>6 DEF SystemBmsValue, Channel
  <2>3. Steadfast(HeartbeatEchoBms)
    <3>1. "System" \in MetadataTypes
      BY DEF MetadataTypes
    <3>2. MessagesOf("System") = SystemPoints
      BY TypeNames
    <3>3. "HeartbeatEchoBms" \in DOMAIN SystemPoints
      BY SystemTable
    <3>4. Steadfast(SystemPoints["HeartbeatEchoBms"])
      BY <3>1, <3>2, <3>3, MessagesSteadfast
    <3> QED
      BY <3>4, SystemTable
  <2>4. DOMAIN c.messages = {"value", "HeartbeatEchoBms"}
        /\ c.messages["value"] = ValueMessage /\ c.messages["HeartbeatEchoBms"] = HeartbeatEchoBms
    BY <2>1
  <2> QED
    BY <1>2, <1>4, <2>2, <2>3, <2>4, PlainSteadfast
<1>7. ASSUME NEW object \in MetadataTypes, c = Metadata(object, MessagesOf(object))
      PROVE  c.publisher = PUB /\ \A m \in DOMAIN c.messages : Steadfast(c.messages[m])
  <2>1. c.publisher = PUB /\ c.messages = MessagesOf(object)
    BY <1>7, MetadataIs
  <2> QED
    BY <2>1, MessagesSteadfast
<1>8. ASSUME NEW object \in MetadataTypes, c = FileMetadata(object, FileMessagesOf(object))
      PROVE  c.publisher = PUB /\ \A m \in DOMAIN c.messages : Steadfast(c.messages[m])
  <2> DEFINE messages == FileMessagesOf(object)
  <2>1. /\ c.publisher = PUB /\ DOMAIN c.messages = DOMAIN messages
        /\ \A m \in DOMAIN messages : c.messages[m] = WithNumberedPhases(messages[m])
    BY <1>8, FileMetadataIs
  <2>2. \A m \in DOMAIN messages : IsSchema(messages[m]) /\ Steadfast(messages[m])
    BY FileMessagesAreSchemas, MessagesSteadfast
  <2> HIDE DEF messages
  <2>3. \A m \in DOMAIN messages : Steadfast(WithNumberedPhases(messages[m]))
    BY <2>2, NumberedSteadfast
  <2> QED
    BY <2>1, <2>3
<1>9. \/ \E publisher, object, points : c = Value(publisher, object, points)
      \/ c = SystemBmsValue
      \/ \E object \in MetadataTypes : c = Metadata(object, MessagesOf(object))
      \/ \E object \in MetadataTypes : c = FileMetadata(object, FileMessagesOf(object))
  <2>1. CASE c \in ViewerChannels
    <3>1. \A object \in EquipmentTypes : EquipmentMetadata(object) = Metadata(object, MessagesOf(object))
      BY MetadataOfTypes
    <3>2. CASE c \in {RackMetadata, PowerMeterMetadata, SystemMetadata}
      BY <3>2, MetadataOfTypes DEF MetadataTypes
    <3>3. CASE c \in {RackBmsValue, RackIntegrationValue, PowerMeterValue, SystemBmsValue,
                      SystemIntegrationValue}
      BY <3>3 DEF RackBmsValue, RackIntegrationValue, PowerMeterValue, SystemIntegrationValue
    <3>4. CASE \E object \in EquipmentTypes : c \in {EquipmentMetadata(object), EquipmentValue(object)}
      BY <3>1, <3>4 DEF MetadataTypes, EquipmentValue
    <3> QED
      BY <2>1, <3>2, <3>3, <3>4, ViewerTable
  <2>2. CASE c \in FileChannels
    <3>1. CASE \E object \in EquipmentTypes : c = EquipmentValue(object)
      BY <3>1 DEF EquipmentValue
    <3>2. CASE c \in {PowerMeterValue, RackFileValue, RackFileIntegration, SystemFileValue,
                      SystemFileIntegration}
      BY <3>2 DEF PowerMeterValue, RackFileValue, RackFileIntegration, SystemFileValue,
                  SystemFileIntegration
    <3> QED
      BY <2>2, <3>1, <3>2, FileTable
  <2> QED
    BY <1>1, <2>1, <2>2
<1> QED
  BY <1>2, <1>4, <1>5, <1>6, <1>7, <1>8, <1>9

\* What takes the place of a payload that a steadfast message accepts is
\* accepted too.
LEMMA SteadfastValid ==
    ASSUME NEW s, Steadfast(s), NEW early, NEW late, ReplacesAll(late, early), Valid(s, early)
    PROVE  Valid(s, late)
<1>1. DOMAIN late = DOMAIN early
  BY DEF ReplacesAll
<1>2. ASSUME NEW c, Settles(c, early) PROVE Settles(c, late)
  <2>1. \A a : Fits(a, early) <=> Fits(a, late)
    BY <1>1 DEF Fits
  <2>2. {a \in c.of : Fits(a, early)} = {a \in c.of : Fits(a, late)}
    BY <2>1
  <2> QED
    BY <1>2, <2>2 DEF Settles
<1>3. \A f \in DOMAIN late : late[f] \in s.fields[f]
  BY <1>1 DEF Steadfast, Closed, ReplacesAll, Valid, Knows
<1> QED
  BY <1>1, <1>2, <1>3 DEF Valid

\* And whatever the validator accepts under a topic.
LEMMA StillAccepted ==
    ASSUME NEW e \in DOMAIN Editions, NEW topic, NEW early, NEW late, ReplacesAll(late, early),
           ValidateMessage(Editions[e], topic, early)
    PROVE  ValidateMessage(Editions[e], topic, late)
<1>1. PICK c \in Editions[e] :
          /\ MatchTopicAddress(c, topic) /\ ValidateChannelParams(c, topic)
          /\ ValidateChannelMessages(c, TopicParameters(c, topic), early)
  BY DEF ValidateMessage
<1> DEFINE params == TopicParameters(c, topic)
<1>2. PICK m \in DOMAIN c.messages :
          Valid(c.messages[m], early) /\ ValidatePayloadTopicParameters(params, early)
  BY <1>1 DEF ValidateChannelMessages
<1>3. Steadfast(c.messages[m])
  BY ChannelsSteadfast
<1>4. Valid(c.messages[m], late)
  BY <1>2, <1>3, SteadfastValid
<1>5. DOMAIN late = DOMAIN early /\ DOMAIN early \subseteq Knows(c.messages[m])
  BY <1>2 DEF ReplacesAll, Valid, Knows
<1>6. "tagPath" \notin DOMAIN early
  BY <1>3, <1>5 DEF Steadfast
<1>7. "integration" \notin DOMAIN params \cap DOMAIN early
  <2>1. CASE c.publisher = AnyIntegration
    BY <1>5, <2>1, ChannelsSteadfast
  <2>2. CASE c.publisher # AnyIntegration
    BY <2>2 DEF TopicParameters
  <2> QED
    BY <2>1, <2>2
<1>8. DOMAIN params \subseteq {"integration", "pointType", "tagPath"}
      /\ params.pointType = topic.pointType
  BY DEF TopicParameters
<1>9. topic.pointType \in Names
  BY <1>1, ChannelsSteadfast DEF ValidateChannelParams
<1> HIDE DEF params
<1>10. ASSUME "pointType" \in DOMAIN params \cap DOMAIN early
       PROVE  late.pointType = params.pointType
  <2>1. early.pointType = topic.pointType
    BY <1>2, <1>8, <1>10 DEF ValidatePayloadTopicParameters
  <2>2. Replaces(late.pointType, early.pointType)
    BY <1>10 DEF ReplacesAll
  <2> QED
    BY <1>8, <1>9, <2>1, <2>2 DEF Replaces
<1>11. ValidatePayloadTopicParameters(params, late)
  BY <1>5, <1>6, <1>7, <1>8, <1>10 DEF ValidatePayloadTopicParameters
<1>12. ValidateChannelMessages(c, params, late)
  BY <1>4, <1>11 DEF ValidateChannelMessages
<1> QED
  BY <1>1, <1>12 DEF ValidateMessage, params

\* A row the load has accepted does not fail in the middle of the replay, as
\* long as the time it is rendered with leaves the kinds of its values alone.
THEOREM SteadyRowsNeverFail == Spec => SteadyRowsRender
<1>1. ASSUME NEW payload, Steady(payload)
      PROVE  ReplacesAll(Render(payload, Now), Render(payload, Epoch))
  <2>1. /\ DOMAIN Render(payload, Now) = DOMAIN payload
        /\ DOMAIN Render(payload, Epoch) = DOMAIN payload
    BY DEF Render
  <2>2. ASSUME NEW f \in DOMAIN payload
        PROVE  Replaces(Render(payload, Now)[f], Render(payload, Epoch)[f])
    <3>1. CASE payload[f] \in Templates
      <4>1. /\ Render(payload, Now)[f] = Rendering[payload[f]][Now]
            /\ Render(payload, Epoch)[f] = Rendering[payload[f]][Epoch]
        BY <3>1 DEF Render
      <4>2. SteadyTemplate(payload[f]) /\ Rendering[payload[f]][Epoch] \notin Names
        BY <1>1, <3>1, CatalogueAssumption DEF Steady
      <4> QED
        BY <4>1, <4>2 DEF SteadyTemplate, Replaces
    <3>2. CASE payload[f] \notin Templates
      <4>1. Render(payload, Now)[f] = payload[f] /\ Render(payload, Epoch)[f] = payload[f]
        BY <3>2 DEF Render
      <4> QED
        BY <4>1 DEF Replaces
    <3> QED
      BY <3>1, <3>2
  <2> QED
    BY <2>1, <2>2 DEF ReplacesAll
<1>2. ASSUME LInv, pc = "render", Steady(scenario[next].payload)
      PROVE  RenderPayload(scenario[next], Now)
  <2>1. Acceptable(scenario[next]) /\ edition \in DOMAIN Editions
    BY <1>2, RowAtHand DEF AtRow, LInv, TypeOK
  <2>2. ValidateMessage(Editions[edition], scenario[next].topic,
                        Render(scenario[next].payload, Epoch))
    BY <2>1 DEF Acceptable, RenderPayload
  <2>3. ReplacesAll(Render(scenario[next].payload, Now), Render(scenario[next].payload, Epoch))
    BY <1>1, <1>2
  <2> QED
    BY <2>1, <2>2, <2>3, StillAccepted DEF RenderPayload
<1>3. ASSUME LInv, [Next]_vars, pc = "render", Steady(scenario[next].payload), pc' # pc
      PROVE  pc' # "failed"
  <2>1. RenderEntry
    BY <1>3 DEF Next, Program, Environment, vars, program, environment, ReadRow, EndOfFile, Connect,
                StartPass, FinishPass, WaitUntil, TimerFires, Canceled, PublishContext, Send,
                TokenDone, Interrupt, Tick, Deliver, LoseConnection, Restart, Ended
  <2> QED
    BY <1>2, <1>3, <2>1 DEF RenderEntry
<1>4. LInv /\ [Next]_vars => [pc = "render" /\ Steady(scenario[next].payload) => pc' # "failed"]_pc
  BY <1>3
<1>5. IInv => LInv
  BY DEF IInv
<1> QED
  BY <1>4, <1>5, Invariance, PTL DEF Spec, SteadyRowsRender
==============================================================================
