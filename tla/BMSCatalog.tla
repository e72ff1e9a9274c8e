----------------------------- MODULE BMSCatalog ------------------------------
(***************************************************************************)
(* The BMS event catalogue that the schema viewer publishes (version        *)
(* 2.1.0): the channels of the MQTT namespace BMS/v1 and the messages each  *)
(* admits.  A metadata channel has one message per point type, and messages *)
(* are keyed here by that point type; a value channel has the one value     *)
(* message, keyed "value".                                                  *)
(***************************************************************************)
EXTENDS Schemas

\* A literal segment of an address, and the segment {integration}.
PUB == "PUB"
AnyIntegration == "{integration}"

Channel(publisher, type, objectType, pointTypes, messages) ==
    [publisher |-> publisher, type |-> type, objectType |-> objectType,
     pointTypes |-> pointTypes, messages |-> messages]

-----------------------------------------------------------------------------
(* What messages are made of.                                              *)

ValueMessage ==
    Object({"value", "timestamp", "quality"},
           [value |-> Wholes \cup Decimals \cup {Null}, timestamp |-> Wholes,
            quality |-> Wholes])

MetadataBase ==
    Object({"objectType", "pointType"}, [objectType |-> Text, pointType |-> Text])

PointType(point) == Optional([pointType |-> {point}])
ObjectType(object) == Optional([objectType |-> {object}])
EngUnit(units) == Object({"engUnit"}, [engUnit |-> units])
StateText == Object({"stateText"}, [stateText |-> StateTables])
IsSetpoint == Optional([isSetpoint |-> Flags])
Owned == Optional([integration |-> Text])
Phases == {"A", "B", "C"}

RackLocationIdentifiers ==
    Object({"rackLocationName", "rackLocationId"},
           [rackLocationName |-> Text, rackLocationId |-> Text])

IntegrationPublisherFields == Object({"integration"}, [integration |-> Text])

PowerMeterIdentifiers ==
    Object({"objectName", "objectId", "servesId"},
           [objectName |-> Text, objectId |-> Text, servesId |-> Lists])

\* MUTANT: the named alternative does not rule the association out.
EquipmentIdentifiersLoose ==
    AllOf({Optional([processArea |-> Lists, objectName |-> Text, objectId |-> Text,
                     servesId |-> Lists, associateId |-> Text]),
           OneOf({Alternative({"objectName", "objectId"}, {}),
                  Alternative({"associateId"}, {"objectName", "objectId", "servesId"})})})

\* Equipment is named, or associated with a named object, and never both.
EquipmentIdentifiers ==
    AllOf({Optional([processArea |-> Lists, objectName |-> Text, objectId |-> Text,
                     servesId |-> Lists, associateId |-> Text]),
           OneOf({Alternative({"objectName", "objectId"}, {"associateId"}),
                  Alternative({"associateId"}, {"objectName", "objectId", "servesId"})})})

EquipmentMetadataBase == AllOf({MetadataBase, EquipmentIdentifiers})

\* A measurement has an engineering unit or a table of states, and never both.
EquipmentMeasurementMode ==
    AllOf({Optional([engUnit |-> Text, stateText |-> StateTables]),
           OneOf({Alternative({"engUnit"}, {}), Alternative({"stateText"}, {})})})

GenericPointFields ==
    AllOf({PointType("GenericPoint"), Owned, IsSetpoint,
           Object({"processArea"}, [processArea |-> Lists]),
           Optional([phase |-> Phases, engUnit |-> Text, stateText |-> StateTables]),
           AnyOf({Alternative({}, {"stateText"}), Alternative({}, {"engUnit"})})})

-----------------------------------------------------------------------------
(* Racks.                                                                  *)

\* Every rack message has these fields and its own.
Rack(points) ==
    [p \in DOMAIN points |->
        AllOf({MetadataBase, RackLocationIdentifiers, ObjectType("Rack"), PointType(p), points[p]})]

RackLiquidSupplyTemperature == EngUnit({"C"})
RackLiquidReturnTemperature == EngUnit({"C"})
RackLiquidFlow == EngUnit({"LPM"})
RackLiquidDifferentialPressure == EngUnit({"kPa"})
RackLiquidDifferentialPressureSp == AllOf({EngUnit({"kPa"}), IsSetpoint})
RackControlValvePosition == EngUnit({"%"})
RackPower == EngUnit({"kW"})
RackLeakDetect == StateText
RackLeakSensorFault == StateText
RackLeakDetectTray == StateText
RackLiquidIsolationStatus == StateText
RackElectricalIsolationStatus == StateText
RackLiquidIsolationRequest == AllOf({IntegrationPublisherFields, StateText})
RackElectricalIsolationRequest == AllOf({IntegrationPublisherFields, StateText})

RackPoints ==
    [RackLiquidSupplyTemperature      |-> RackLiquidSupplyTemperature,
     RackLiquidReturnTemperature      |-> RackLiquidReturnTemperature,
     RackLiquidFlow                   |-> RackLiquidFlow,
     RackLiquidDifferentialPressure   |-> RackLiquidDifferentialPressure,
     RackLiquidDifferentialPressureSp |-> RackLiquidDifferentialPressureSp,
     RackControlValvePosition         |-> RackControlValvePosition,
     RackPower                        |-> RackPower,
     RackLeakDetect                   |-> RackLeakDetect,
     RackLeakSensorFault              |-> RackLeakSensorFault,
     RackLeakDetectTray               |-> RackLeakDetectTray,
     RackLiquidIsolationStatus        |-> RackLiquidIsolationStatus,
     RackElectricalIsolationStatus    |-> RackElectricalIsolationStatus,
     RackLiquidIsolationRequest       |-> RackLiquidIsolationRequest,
     RackElectricalIsolationRequest   |-> RackElectricalIsolationRequest]

RackRequests == {"RackLiquidIsolationRequest", "RackElectricalIsolationRequest"}

Value(publisher, object, points) ==
    Channel(publisher, "Value", object, points, [value |-> ValueMessage])

Metadata(object, messages) ==
    Channel(PUB, "Metadata", object, DOMAIN messages, messages)

RackBmsValue ==
    Value(PUB, "Rack", DOMAIN RackPoints \ (RackRequests \cup {"RackLiquidDifferentialPressureSp"}))
RackMetadata == Metadata("Rack", Rack(RackPoints))
RackIntegrationValue == Value(AnyIntegration, "Rack", RackRequests)

-----------------------------------------------------------------------------
(* Power meters.                                                           *)

PowerMeterMetadataBase == AllOf({MetadataBase, PowerMeterIdentifiers})

\* Every message but the generic point's fixes the object type.
Meter(points) ==
    [p \in DOMAIN points |->
        AllOf({PowerMeterMetadataBase, PointType(p), points[p]}
                \cup IF p = "GenericPoint" THEN {} ELSE {ObjectType("PowerMeter")})]

Voltage == EngUnit(Text)
PowerFactor == Optional(<<>>)
Frequency == EngUnit(Text)
ApparentPower == EngUnit(Text)
ActivePower == EngUnit(Text)
Current == EngUnit(Text)
CurrentLimit == EngUnit(Text)
PhaseCurrent == AllOf({EngUnit(Text), Object({"phase"}, [phase |-> Phases])})
GenericPowerMeterPoint == GenericPointFields

PowerMeterPoints ==
    [Voltage |-> Voltage, PowerFactor |-> PowerFactor, Frequency |-> Frequency,
     ApparentPower |-> ApparentPower, ActivePower |-> ActivePower, Current |-> Current,
     CurrentLimit |-> CurrentLimit, PhaseCurrent |-> PhaseCurrent,
     GenericPoint |-> GenericPowerMeterPoint]

PowerMeterValue == Value(PUB, "PowerMeter", DOMAIN PowerMeterPoints)
PowerMeterMetadata == Metadata("PowerMeter", Meter(PowerMeterPoints))

-----------------------------------------------------------------------------
(* The points of equipment: what each message adds to the base.            *)

Status == AllOf({StateText, Owned})
Available == AllOf({StateText, Owned})
GenericEquipmentPoint == GenericPointFields
LiquidTemperature == AllOf({EngUnit({"C"}), IsSetpoint})
LiquidDifferentialPressure == AllOf({EquipmentMeasurementMode, IsSetpoint})
LiquidFlow == AllOf({EquipmentMeasurementMode, IsSetpoint})
LiquidPressure == AllOf({EquipmentMeasurementMode, IsSetpoint})
ValvePosition == EquipmentMeasurementMode
PumpSpeed == EquipmentMeasurementMode
FanSpeed == EquipmentMeasurementMode
DamperPosition == EquipmentMeasurementMode
AirTemperature == AllOf({EngUnit({"C"}), IsSetpoint})
AirDifferentialPressure == AllOf({EquipmentMeasurementMode, IsSetpoint})
AirRelativeHumidity == AllOf({EquipmentMeasurementMode, IsSetpoint})
AirFlow == AllOf({EquipmentMeasurementMode, IsSetpoint})
AirPressure == AllOf({EquipmentMeasurementMode, IsSetpoint})
LeakDetect == StateText
Sound == EngUnit(Text)
LiquidTemperatureSpRequest == AllOf({IntegrationPublisherFields, EngUnit({"C"})})

EquipmentPoints ==
    [Status |-> Status, Available |-> Available, GenericPoint |-> GenericEquipmentPoint,
     LiquidTemperature |-> LiquidTemperature,
     LiquidDifferentialPressure |-> LiquidDifferentialPressure,
     LiquidFlow |-> LiquidFlow, LiquidPressure |-> LiquidPressure,
     ValvePosition |-> ValvePosition, PumpSpeed |-> PumpSpeed, FanSpeed |-> FanSpeed,
     DamperPosition |-> DamperPosition, AirTemperature |-> AirTemperature,
     AirDifferentialPressure |-> AirDifferentialPressure,
     AirRelativeHumidity |-> AirRelativeHumidity, AirFlow |-> AirFlow,
     AirPressure |-> AirPressure, LeakDetect |-> LeakDetect, Sound |-> Sound,
     LiquidTemperatureSpRequest |-> LiquidTemperatureSpRequest]

\* The messages of an object type.  All but the generic point's fix that type.
Of(object, points) ==
    [p \in points |->
        AllOf({EquipmentMetadataBase, PointType(p), EquipmentPoints[p]}
                \cup IF p = "GenericPoint" THEN {} ELSE {ObjectType(object)})]

ElectricalPoints == {"Status", "Available", "GenericPoint"}
MeasuredPoints ==
    {"LiquidTemperature", "LiquidDifferentialPressure", "LiquidFlow", "LiquidPressure",
     "AirTemperature", "AirDifferentialPressure", "AirRelativeHumidity", "AirFlow",
     "AirPressure", "LeakDetect"}
MechanicalPoints ==
    ElectricalPoints \cup MeasuredPoints
        \cup {"ValvePosition", "PumpSpeed", "FanSpeed", "DamperPosition"}
Actuator(point) == {point, "Available", "GenericPoint"}
SensorPoints == MeasuredPoints \cup {"Sound", "Available", "GenericPoint"}
SpRequest == {"LiquidTemperatureSpRequest"}

-----------------------------------------------------------------------------
(* Electrical equipment.                                                   *)

\* MUTANT: the value channel forgets a point of the metadata channel.
BessValueForgets == Value(PUB, "BESS", {"Status", "GenericPoint"})

BessValue == Value(PUB, "BESS", ElectricalPoints)
BessMetadata == Metadata("BESS", Of("BESS", ElectricalPoints))
UpsValue == Value(PUB, "UPS", ElectricalPoints)
UpsMetadata == Metadata("UPS", Of("UPS", ElectricalPoints))
AtsValue == Value(PUB, "ATS", ElectricalPoints)
AtsMetadata == Metadata("ATS", Of("ATS", ElectricalPoints))
GeneratorValue == Value(PUB, "Generator", ElectricalPoints)
GeneratorMetadata == Metadata("Generator", Of("Generator", ElectricalPoints))
ShuntValue == Value(PUB, "Shunt", ElectricalPoints)
ShuntMetadata == Metadata("Shunt", Of("Shunt", ElectricalPoints))
BreakerValue == Value(PUB, "Breaker", ElectricalPoints)
BreakerMetadata == Metadata("Breaker", Of("Breaker", ElectricalPoints))

-----------------------------------------------------------------------------
(* Mechanical equipment.                                                   *)

CduValue == Value(PUB, "CDU", MechanicalPoints)
CduMetadata == Metadata("CDU", Of("CDU", MechanicalPoints \cup SpRequest))
CduIntegrationValue == Value(AnyIntegration, "CDU", SpRequest)
CoolingTowerValue == Value(PUB, "CoolingTower", MechanicalPoints)
CoolingTowerMetadata == Metadata("CoolingTower", Of("CoolingTower", MechanicalPoints))
HxValue == Value(PUB, "HX", MechanicalPoints)
HxMetadata == Metadata("HX", Of("HX", MechanicalPoints))
CrahValue == Value(PUB, "CRAH", MechanicalPoints)
CrahMetadata == Metadata("CRAH", Of("CRAH", MechanicalPoints))
CracValue == Value(PUB, "CRAC", MechanicalPoints)
CracMetadata == Metadata("CRAC", Of("CRAC", MechanicalPoints))
AhuValue == Value(PUB, "AHU", MechanicalPoints)
AhuMetadata == Metadata("AHU", Of("AHU", MechanicalPoints))
ChillerValue == Value(PUB, "Chiller", MechanicalPoints)
ChillerMetadata == Metadata("Chiller", Of("Chiller", MechanicalPoints))
ValveValue == Value(PUB, "Valve", Actuator("ValvePosition"))
ValveMetadata == Metadata("Valve", Of("Valve", Actuator("ValvePosition")))
PumpValue == Value(PUB, "Pump", Actuator("PumpSpeed"))
PumpMetadata == Metadata("Pump", Of("Pump", Actuator("PumpSpeed")))
FanValue == Value(PUB, "Fan", Actuator("FanSpeed"))
FanMetadata == Metadata("Fan", Of("Fan", Actuator("FanSpeed")))
DamperValue == Value(PUB, "Damper", Actuator("DamperPosition"))
DamperMetadata == Metadata("Damper", Of("Damper", Actuator("DamperPosition")))
\* MUTANT: the value channel lists points that sensors do not have.
SensorValueMechanical == Value(PUB, "Sensor", MechanicalPoints)

SensorValue == Value(PUB, "Sensor", SensorPoints)
SensorMetadata == Metadata("Sensor", Of("Sensor", SensorPoints))
TankValue == Value(PUB, "Tank", MechanicalPoints)
TankMetadata == Metadata("Tank", Of("Tank", MechanicalPoints))
GenericObjectValue == Value(PUB, "GenericObject", MechanicalPoints \cup {"Sound"})
GenericObjectMetadata ==
    Metadata("GenericObject", Of("GenericObject", MechanicalPoints \cup SpRequest \cup {"Sound"}))
GenericObjectIntegrationValue == Value(AnyIntegration, "GenericObject", SpRequest)

-----------------------------------------------------------------------------
(* Systems: the BMS itself, and the integrations.                          *)

HeartbeatEchoBms ==
    AllOf({MetadataBase, PointType("HeartbeatEchoBms"), Object({"integration"}, [integration |-> Text])})
HeartbeatTimestampBms ==
    AllOf({MetadataBase, PointType("HeartbeatTimestampBms"), Optional([scope |-> Text])})
HearbeatTimestampIntegration ==
    AllOf({MetadataBase, IntegrationPublisherFields, PointType("HearbeatTimestampIntegration")})
HeartbeatEchoIntegration ==
    AllOf({MetadataBase, IntegrationPublisherFields, PointType("HeartbeatEchoIntegration"),
           Optional([scope |-> Text])})

SystemEquipmentPoints == Of("System", ElectricalPoints)

SystemHeartbeats ==
    [HeartbeatTimestampBms |-> HeartbeatTimestampBms, HeartbeatEchoBms |-> HeartbeatEchoBms,
     HearbeatTimestampIntegration |-> HearbeatTimestampIntegration,
     HeartbeatEchoIntegration |-> HeartbeatEchoIntegration]

SystemPoints ==
    [p \in ElectricalPoints \cup DOMAIN SystemHeartbeats |->
        IF p \in ElectricalPoints THEN SystemEquipmentPoints[p] ELSE SystemHeartbeats[p]]

SystemBmsPoints == {"HeartbeatTimestampBms", "HeartbeatEchoBms"} \cup ElectricalPoints

\* The channel of the BMS's own values also lists a metadata message.
SystemBmsValue ==
    Channel(PUB, "Value", "System", SystemBmsPoints,
            [value |-> ValueMessage, HeartbeatEchoBms |-> HeartbeatEchoBms])
SystemMetadata == Metadata("System", SystemPoints)
SystemIntegrationValue ==
    Value(AnyIntegration, "System", {"HearbeatTimestampIntegration", "HeartbeatEchoIntegration"})

ViewerChannels ==
    {RackBmsValue, RackMetadata, RackIntegrationValue, PowerMeterValue, PowerMeterMetadata,
     BessValue, BessMetadata, UpsValue, UpsMetadata, AtsValue, AtsMetadata,
     GeneratorValue, GeneratorMetadata, ShuntValue, ShuntMetadata, BreakerValue,
     BreakerMetadata, CduValue, CduMetadata, CduIntegrationValue, CoolingTowerValue,
     CoolingTowerMetadata, HxValue, HxMetadata, CrahValue, CrahMetadata, CracValue,
     CracMetadata, AhuValue, AhuMetadata, ChillerValue, ChillerMetadata, ValveValue,
     ValveMetadata, PumpValue, PumpMetadata, FanValue, FanMetadata, DamperValue,
     DamperMetadata, SensorValue, SensorMetadata, TankValue, TankMetadata,
     GenericObjectValue, GenericObjectMetadata, GenericObjectIntegrationValue,
     SystemBmsValue, SystemMetadata, SystemIntegrationValue}
==============================================================================
