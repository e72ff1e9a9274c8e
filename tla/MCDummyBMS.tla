----------------------------- MODULE MCDummyBMS ------------------------------
(* A small instance of DummyBMS for TLC: files of up to two rows about two   *)
(* points, among them files that must be refused because of their last row,  *)
(* and one whose last row is accepted and cannot be rendered later.          *)
EXTENDS BMSValues

MCEditions == [file |-> FileChannels]

Power(type) == Topic("PUB", type, "Rack", "RackPower", "r1")
Request(publisher, type) ==
    Topic(publisher, type, "Rack", "RackLiquidIsolationRequest", "r2")

PowerMeta == Point("Rack", "RackPower") @@ RackPlace @@ [engUnit |-> "kW"]
RequestMeta ==
    Point("Rack", "RackLiquidIsolationRequest") @@ RackPlace
        @@ [stateText |-> "<states>", integration |-> "MEPAI"]

MCScenarios ==
    {<<Row(0, Power("Metadata"), PowerMeta), Row(1, Power("Value"), Reading("<21.5>"))>>,
     <<Row(0, Request("PUB", "Metadata"), RequestMeta),
       Row(0, Request("MEPAI", "Value"), Reading("<1>"))>>,
     <<Row(0, Power("Value"), Reading("<null>"))>>,
     <<Row(0, Power("Metadata"), [PowerMeta EXCEPT !.rackLocationName = Dated]),
       Row(1, Power("Value"), [Reading("<1>") EXCEPT !.timestamp = Versioned])>>,
     <<>>,
     <<Row(1, Power("Metadata"), PowerMeta), Row(0, Power("Value"), Reading("<1>"))>>,
     <<Row(0, Power("Metadata"), PowerMeta), Row(1, Power("Value"), Reading("{{now}}"))>>,
     <<Row(0, Power("Metadata"), PowerMeta),
       Row(0, Request("MEPAI", "Metadata"), RequestMeta)>>,
     <<Row(0, Power("Metadata"), PowerMeta),
       Row(0, Request("PUB", "Metadata"), PowerMeta)>>,
     <<Row(-1, Power("Metadata"), PowerMeta)>>}
==============================================================================
