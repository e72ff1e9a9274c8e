------------------------------ MODULE BMSValues ------------------------------
(* The values payloads are made of in the checked instances, and the         *)
(* payloads and topics put together from them.                               *)
EXTENDS DummyBMS, TLC

ObjectTypes ==
    {"Rack", "PowerMeter", "BESS", "UPS", "ATS", "Generator", "Shunt", "Breaker", "CDU",
     "CoolingTower", "HX", "CRAH", "CRAC", "AHU", "Chiller", "Valve", "Pump", "Fan",
     "Damper", "Sensor", "Tank", "GenericObject", "System"}

PointTypes ==
    {"RackLiquidSupplyTemperature", "RackLiquidReturnTemperature", "RackLiquidFlow",
     "RackLiquidDifferentialPressure", "RackLiquidDifferentialPressureSp",
     "RackControlValvePosition", "RackPower", "RackLeakDetect", "RackLeakSensorFault",
     "RackLeakDetectTray", "RackLiquidIsolationStatus", "RackElectricalIsolationStatus",
     "RackLiquidIsolationRequest", "RackElectricalIsolationRequest",
     "Voltage", "PowerFactor", "Frequency", "ApparentPower", "ActivePower", "Current",
     "CurrentLimit", "PhaseCurrent", "GenericPoint", "Status", "Available",
     "LiquidTemperature", "LiquidDifferentialPressure", "LiquidFlow", "LiquidPressure",
     "ValvePosition", "PumpSpeed", "FanSpeed", "DamperPosition", "AirTemperature",
     "AirDifferentialPressure", "AirRelativeHumidity", "AirFlow", "AirPressure",
     "LeakDetect", "Sound", "LiquidTemperatureSpRequest", "HeartbeatTimestampBms",
     "HeartbeatEchoBms", "HearbeatTimestampIntegration", "HeartbeatTimestampIntegration",
     "HeartbeatEchoIntegration"}

MCText ==
    ObjectTypes \cup PointTypes \cup
    {"C", "LPM", "kPa", "%", "kW", "A", "B", "1", "2", "3", "name", "PUB", "MEPAI", "x 0", "x now"}

MCLists == {"<list>"}
MCStateTables == {"<states>"}
MCFlags == {"<true>"}
MCWholes == {"<0>", "<1>", "<1.0>", "<now>"}
MCDecimals == {"<21.5>", "<1.now>"}
MCNull == "<null>"

\* A time, a number with the time behind its point, and a text with the time in
\* it: the number is whole only at the time 0.
MCPlaceholder == "{{timestamp_ms}}"
Versioned == "1.{{timestamp_ms}}"
Dated == "x {{timestamp_ms}}"
MCTemplates == {MCPlaceholder, Versioned, Dated}
MCEpoch == "epoch"
MCNow == "now"
MCRendering ==
    (MCPlaceholder :> [epoch |-> "<0>", now |-> "<now>"])
        @@ (Versioned :> [epoch |-> "<1.0>", now |-> "<1.now>"])
        @@ (Dated :> [epoch |-> "x 0", now |-> "x now"])

Topic(publisher, type, objectType, pointType, tagPath) ==
    [publisher |-> publisher, type |-> type, objectType |-> objectType,
     pointType |-> pointType, tagPath |-> tagPath]

Row(offset, topic, payload) == [offset |-> offset, topic |-> topic, payload |-> payload]

Reading(value) ==
    [value |-> value, timestamp |-> Placeholder, quality |-> "<1>"]

Point(objectType, pointType) == [objectType |-> objectType, pointType |-> pointType]

RackPlace == [rackLocationName |-> "name", rackLocationId |-> "name"]
Named == [objectName |-> "name", objectId |-> "name"]
==============================================================================
