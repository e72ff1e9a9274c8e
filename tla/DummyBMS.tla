------------------------------- MODULE DummyBMS ------------------------------
(***************************************************************************)
(* The dummy BMS: it loads a scenario (a CSV file of offset, topic and      *)
(* payload), checks every row against a schema file, connects to the MQTT   *)
(* broker and replays the rows, pass after pass, until it is interrupted.   *)
(* The broker, the connection to it and the operator who starts the program *)
(* again, perhaps with another scenario, are the environment.               *)
(***************************************************************************)
EXTENDS BMSSchema, Integers, Sequences

CONSTANTS
    Scenarios,      \* the files: sequences of rows [offset, topic, payload]
    Editions,       \* Editions[name]: the channels of a schema file
    Templates,      \* what stands in the file for a value and holds {{timestamp_ms}}
    Placeholder,    \* the one that holds nothing else
    Epoch, Now,     \* the times a payload is rendered at: by the load, and later
    Rendering,      \* Rendering[template][instant]: the value that comes of it
    MaxRuns,        \* bound on how often the program is started
    MaxPasses,      \* bound on the passes of one run
    MaxElapsed      \* bound on the time since a pass began

ASSUME DummyBMSAssumption ==
    /\ MaxRuns \in Nat /\ MaxPasses \in Nat \ {0} /\ MaxElapsed \in Nat
    /\ Placeholder \in Templates
    /\ \A instant \in {Epoch, Now} : Rendering[Placeholder][instant] \in Wholes
    /\ Templates \cap UNION {Text, Lists, StateTables, Flags, Wholes, Decimals, {Null}} = {}
    /\ \A s \in Scenarios :
          /\ Len(s) \in Nat /\ DOMAIN s = 1..Len(s)
          /\ \A i \in DOMAIN s : {"publisher", "type"} \subseteq DOMAIN s[i].topic

\* The publisher of a topic is a string.
ASSUME TopicAssumption ==
    \A s \in Scenarios : \A i \in DOMAIN s : s[i].topic.publisher \in Text

VARIABLES
    \* the program
    scenario,       \* the rows of its file
    edition,        \* the schema file it was given
    once,           \* the flag --once
    qos,            \* the flag --qos
    pc,             \* where it is
    entries,        \* how many rows are loaded
    next,           \* the entry PublishOnce is at
    elapsed,        \* time since PublishOnce's startedAt
    pass,           \* main's pass
    cancelled,      \* the context of signal.NotifyContext is done
    \* the environment
    runs,           \* how often the program was started
    link,           \* "up", or "lost" once the connection has broken
    transit,        \* packets handed to the connection, not yet at the broker
    delivered,      \* packets of this run the broker has passed on, in order
    retained        \* the packets the broker keeps, by topic

program == <<scenario, edition, once, qos, entries, next, pass>>
environment == <<elapsed, runs, link, transit, delivered, retained>>
vars == <<program, pc, cancelled, environment>>

Ended == {"done", "failed", "killed"}

-----------------------------------------------------------------------------
(* ReadScenario.                                                           *)

\* parseOffset: a duration that parses and is not negative.
ParseOffset(offset) == offset \in Nat

\* parseTopicType: BMS publishes all metadata.
ParseTopicType(topic) ==
    /\ topic.type \in {"Value", "Metadata"}
    /\ topic.type = "Metadata" => topic.publisher = PUB

\* ReplaceAll, and the JSON that comes of it: the time is put in wherever the
\* placeholder stands, also inside a number, a string or a list.  (A field whose
\* name holds it is one no schema knows, with either time, and is left out.)
Render(payload, instant) ==
    [f \in DOMAIN payload |-> IF payload[f] \in Templates THEN Rendering[payload[f]][instant]
                              ELSE payload[f]]

\* Entry.RenderPayload succeeds.
RenderPayload(row, instant) ==
    ValidateMessage(Editions[edition], row.topic, Render(row.payload, instant))

EntryFromRecord(row) == ParseOffset(row.offset) /\ ParseTopicType(row.topic)

\* MUTANT: a row is not tried against the schema when it is loaded.
ReadRowUntried ==
    /\ pc = "load"
    /\ entries < Len(scenario)
    /\ IF /\ EntryFromRecord(scenario[entries + 1])
          /\ entries > 0 => scenario[entries + 1].offset >= scenario[entries].offset
       THEN entries' = entries + 1 /\ UNCHANGED pc
       ELSE pc' = "failed" /\ UNCHANGED entries
    /\ UNCHANGED <<scenario, edition, once, qos, next, pass, cancelled, environment>>

\* MUTANT: a row that cannot be used ends the load, and what was read before it
\* is replayed.
ReadRowBreaks ==
    /\ pc = "load"
    /\ entries < Len(scenario)
    /\ LET row == scenario[entries + 1]
       IN  IF /\ EntryFromRecord(row)
              /\ entries > 0 => row.offset >= scenario[entries].offset
              /\ RenderPayload(row, Epoch)
           THEN entries' = entries + 1 /\ UNCHANGED pc
           ELSE pc' = (IF entries = 0 THEN "failed" ELSE "connect") /\ UNCHANGED entries
    /\ UNCHANGED <<scenario, edition, once, qos, next, pass, cancelled, environment>>

ReadRow ==
    /\ pc = "load"
    /\ entries < Len(scenario)
    /\ LET row == scenario[entries + 1]
       IN  IF /\ EntryFromRecord(row)
              /\ entries > 0 => row.offset >= scenario[entries].offset
              /\ RenderPayload(row, Epoch)
           THEN entries' = entries + 1 /\ UNCHANGED pc
           ELSE pc' = "failed" /\ UNCHANGED entries
    /\ UNCHANGED <<scenario, edition, once, qos, next, pass, cancelled, environment>>

EndOfFile ==
    /\ pc = "load"
    /\ entries = Len(scenario)
    /\ pc' = IF entries = 0 THEN "failed" ELSE "connect"
    /\ UNCHANGED <<program, cancelled, environment>>

-----------------------------------------------------------------------------
(* main, after the load.                                                   *)

Connect ==
    /\ pc = "connect"
    /\ \/ link' = "up" /\ pc' = "pass"
       \/ link' = "lost" /\ pc' = "failed"
    /\ UNCHANGED <<program, cancelled, elapsed, runs, transit, delivered, retained>>

\* MUTANT: a pass starts at the row where the last one ended.
StartPassResumes ==
    /\ pc = "pass"
    /\ pass' = pass + 1
    /\ elapsed' = 0
    /\ pc' = "wait"
    /\ UNCHANGED <<scenario, edition, once, qos, entries, next, cancelled, runs, link, transit,
                   delivered, retained>>

StartPass ==
    /\ pc = "pass"
    /\ pass' = pass + 1
    /\ next' = 1
    /\ elapsed' = 0
    /\ pc' = "wait"
    /\ UNCHANGED <<scenario, edition, once, qos, entries, cancelled, runs, link, transit,
                   delivered, retained>>

\* MUTANT: --once is not looked at.
FinishPassAgain ==
    /\ pc = "finish"
    /\ \/ cancelled /\ pc' = "done"
       \/ ~cancelled /\ pass < MaxPasses /\ pc' = "pass"
    /\ UNCHANGED <<program, cancelled, environment>>

\* After a pass: --once ends the program, and so does a cancelled context.
FinishPass ==
    /\ pc = "finish"
    /\ \/ (once \/ cancelled) /\ pc' = "done"
       \/ ~once /\ ~cancelled /\ pass < MaxPasses /\ pc' = "pass"
    /\ UNCHANGED <<program, cancelled, environment>>

-----------------------------------------------------------------------------
(* PublishOnce, for one entry.  Where a select finds both of its channels   *)
(* ready, Go takes either.                                                 *)

\* MUTANT: the first row's offset counts for all rows.
DueWithTheFirst == elapsed >= scenario[1].offset

\* publishAt = startedAt + entry.Offset has come.
Due == elapsed >= scenario[next].offset

\* waitUntilContext: an entry that is due only looks at the context.
WaitUntil ==
    /\ pc = "wait"
    /\ pc' = IF ~Due THEN "sleep" ELSE IF cancelled THEN "done" ELSE "render"
    /\ UNCHANGED <<program, cancelled, environment>>

TimerFires ==
    /\ pc = "sleep"
    /\ Due
    /\ pc' = "render"
    /\ UNCHANGED <<program, cancelled, environment>>

\* MUTANT: the interrupt is an error like any other.
CanceledFails ==
    /\ pc \in {"sleep", "await"}
    /\ cancelled
    /\ pc' = "failed"
    /\ UNCHANGED <<program, cancelled, environment>>

\* MUTANT: the wait for the token (token.Wait) does not look at the context.
CanceledAsleep ==
    /\ pc = "sleep"
    /\ cancelled
    /\ pc' = "done"
    /\ UNCHANGED <<program, cancelled, environment>>

\* An error that is context.Canceled returns from main; any other is fatal.
Canceled ==
    /\ pc \in {"sleep", "await"}
    /\ cancelled
    /\ pc' = "done"
    /\ UNCHANGED <<program, cancelled, environment>>

RenderEntry ==
    /\ pc = "render"
    /\ pc' = IF RenderPayload(scenario[next], Now) THEN "publish" ELSE "failed"
    /\ UNCHANGED <<program, cancelled, environment>>

\* MUTANT: the context is not looked at before the message is published.
PublishUnasked ==
    /\ pc = "publish"
    /\ pc' = "send"
    /\ UNCHANGED <<program, cancelled, environment>>

\* PublishContext looks at the context before it publishes.
PublishContext ==
    /\ pc = "publish"
    /\ pc' = IF cancelled THEN "done" ELSE "send"
    /\ UNCHANGED <<program, cancelled, environment>>

\* MUTANTS: nothing is retained, and everything is.
PacketUnretained ==
    [run |-> runs, pass |-> pass, entry |-> next, sentAt |-> elapsed, afterCancel |-> cancelled,
     topic |-> scenario[next].topic, payload |-> Render(scenario[next].payload, Now),
     retain |-> FALSE]
PacketRetained == [PacketUnretained EXCEPT !.retain = TRUE]

Packet ==
    [run |-> runs, pass |-> pass, entry |-> next, sentAt |-> elapsed, afterCancel |-> cancelled,
     topic |-> scenario[next].topic, payload |-> Render(scenario[next].payload, Now),
     retain |-> scenario[next].topic.type = "Metadata"]

\* client.Publish queues the packet; a broken connection makes its token fail.
Send ==
    /\ pc = "send"
    /\ transit' = IF link = "up" THEN Append(transit, Packet) ELSE transit
    /\ pc' = "await"
    /\ UNCHANGED <<program, cancelled, elapsed, runs, link, delivered, retained>>

\* MUTANT: one row too many.
TokenDonePastTheEnd ==
    /\ pc = "await"
    /\ \/ /\ link = "up" /\ (qos = 0 \/ transit = <<>>)
          /\ IF next <= entries
             THEN next' = next + 1 /\ pc' = "wait"
             ELSE pc' = "finish" /\ UNCHANGED next
       \/ link = "lost" /\ pc' = "failed" /\ UNCHANGED next
    /\ UNCHANGED <<scenario, edition, once, qos, entries, pass, cancelled, environment>>

\* The token is done when the packet is on the wire (QoS 0) or the broker has
\* confirmed it (QoS 1 and 2), or with an error when the connection is lost.
TokenDone ==
    /\ pc = "await"
    /\ \/ /\ link = "up" /\ (qos = 0 \/ transit = <<>>)
          /\ IF next < entries
             THEN next' = next + 1 /\ pc' = "wait"
             ELSE pc' = "finish" /\ UNCHANGED next
       \/ link = "lost" /\ pc' = "failed" /\ UNCHANGED next
    /\ UNCHANGED <<scenario, edition, once, qos, entries, pass, cancelled, environment>>

-----------------------------------------------------------------------------
(* The environment.                                                        *)

\* SIGINT or SIGTERM: until the context exists it ends the program.
Interrupt ==
    /\ pc \notin Ended
    /\ ~cancelled
    /\ IF pc \in {"load", "connect"}
       THEN pc' = "killed" /\ UNCHANGED cancelled
       ELSE cancelled' = TRUE /\ UNCHANGED pc
    /\ UNCHANGED <<program, environment>>

Tick ==
    /\ elapsed < MaxElapsed
    /\ elapsed' = elapsed + 1
    /\ UNCHANGED <<program, pc, cancelled, runs, link, transit, delivered, retained>>

\* The broker takes the next packet of the connection, keeps it if it is to be
\* retained and passes it on.
Deliver ==
    /\ transit # <<>>
    /\ transit' = Tail(transit)
    /\ delivered' = Append(delivered, Head(transit))
    /\ LET packet == Head(transit) IN
       retained' = IF packet.retain
                   THEN [t \in DOMAIN retained \cup {packet.topic} |->
                            IF t = packet.topic THEN packet ELSE retained[t]]
                   ELSE retained
    /\ UNCHANGED <<program, pc, cancelled, elapsed, runs, link>>

\* The connection breaks, and what has not left with it is gone.
LoseConnection ==
    /\ link = "up"
    /\ pc \notin {"load", "connect"}
    /\ link' = "lost"
    /\ \E sent \in 0..Len(transit) : transit' = SubSeq(transit, 1, sent)
    /\ UNCHANGED <<program, pc, cancelled, elapsed, runs, delivered, retained>>

\* The program is started anew, when the broker is through with the old
\* connection.
Restart ==
    /\ pc \in Ended
    /\ transit = <<>>
    /\ runs < MaxRuns
    /\ runs' = runs + 1
    /\ scenario' \in Scenarios
    /\ pc' = "load"
    /\ entries' = 0 /\ next' = 1 /\ pass' = 0 /\ elapsed' = 0
    /\ cancelled' = FALSE
    /\ link' = "lost"
    /\ delivered' = <<>>
    /\ UNCHANGED <<edition, once, qos, transit, retained>>

-----------------------------------------------------------------------------
Started ==
    /\ edition \in DOMAIN Editions
    /\ once \in BOOLEAN
    /\ qos \in 0..2
    /\ pc = "load"
    /\ entries = 0 /\ next = 1 /\ pass = 0 /\ elapsed = 0
    /\ cancelled = FALSE
    /\ runs = 1
    /\ link = "lost"
    /\ transit = <<>> /\ delivered = <<>>
    /\ retained = <<>>

Init == scenario \in Scenarios /\ Started

Program ==
    \/ ReadRow \/ EndOfFile \/ Connect \/ StartPass \/ FinishPass \/ WaitUntil
    \/ TimerFires \/ Canceled \/ RenderEntry \/ PublishContext \/ Send \/ TokenDone

Environment == Interrupt \/ Tick \/ Deliver \/ LoseConnection \/ Restart

Next == Program \/ Environment

Spec == Init /\ [][Next]_vars

\* A goroutine that can run does, and time passes.  Nothing is assumed of the
\* broker or of the operator.
FairSpec == Spec /\ WF_vars(Program) /\ WF_vars(Tick)

-----------------------------------------------------------------------------
(* Properties of the replay.                                               *)

\* What this run has handed to the connection and not lost, in order.
Sent == delivered \o transit

Acceptable(row) == EntryFromRecord(row) /\ RenderPayload(row, Epoch)

\* Every variable has its type.
TypeOK ==
    /\ scenario \in Scenarios
    /\ edition \in DOMAIN Editions
    /\ once \in BOOLEAN /\ cancelled \in BOOLEAN
    /\ qos \in 0..2
    /\ pc \in {"load", "connect", "pass", "wait", "sleep", "render", "publish", "send",
               "await", "finish"} \cup Ended
    /\ entries \in 0..Len(scenario)
    /\ next \in 1..Len(scenario) \cup {1}
    /\ pass \in 0..MaxPasses
    /\ elapsed \in 0..MaxElapsed
    /\ runs \in 1..MaxRuns \cup {1}
    /\ link \in {"up", "lost"}

\* A run replays its file: its packets are the rows in the order of the file,
\* pass after pass, none twice and none left out (README: it replays that
\* sequence until it is stopped).
ReplayInOrder ==
    \A i \in DOMAIN Sent :
        /\ Sent[i].entry = 1 + ((i - 1) % Len(scenario))
        /\ Sent[i].pass = 1 + ((i - 1) \div Len(scenario))
        /\ Sent[i].topic = scenario[Sent[i].entry].topic

\* No row goes out before its offset into its own pass, whatever the passes
\* before it took (rows are scheduled by absolute publish time).
NotBefore == \A i \in DOMAIN Sent : Sent[i].sentAt >= scenario[Sent[i].entry].offset

\* Nothing is published from a file with a row that is not acceptable, even
\* when the row is the last one and the rows before it are fine.
AllRowsOrNone ==
    Sent # <<>> =>
        /\ \A i \in DOMAIN scenario : Acceptable(scenario[i])
        /\ \A i, j \in DOMAIN scenario : i < j => scenario[i].offset <= scenario[j].offset

\* The file gives the metadata of each of its values before the value.
Described(s) ==
    \A i \in DOMAIN s : s[i].topic.type = "Value" =>
        \E j \in 1..(i - 1) : s[j].topic = MetadataTopic(s[i].topic)

\* Whoever subscribes once a value has passed finds the metadata of this very
\* run's file under the value's point, and not what an earlier run, started
\* with another file, left retained at the broker.
ValueUnderItsMetadata ==
    Described(scenario) =>
        \A i \in DOMAIN delivered :
            delivered[i].topic.type = "Value" =>
                LET described == MetadataTopic(delivered[i].topic) IN
                /\ described \in DOMAIN retained
                /\ retained[described].run = runs

\* All that stays at the broker is metadata the schema accepts, under PUB.
RetainedIsMetadata ==
    \A t \in DOMAIN retained :
        /\ t.type = "Metadata" /\ t.publisher = PUB
        /\ ValidateMessage(Editions[edition], t, retained[t].payload)

\* After the interrupt at most the one packet already past PublishContext's
\* look at the context still goes out.
AtMostOneAfterCancel ==
    \A i, j \in DOMAIN Sent : Sent[i].afterCancel /\ Sent[j].afterCancel => i = j

\* The interrupt itself never makes the program fail: one that has failed after
\* it has lost its connection or met a row it could not render.
InterruptIsClean ==
    pc = "failed" /\ cancelled => link = "lost" \/ ~RenderPayload(scenario[next], Now)

\* Another time gives a template another value, of the same kind.
SteadyTemplate(t) ==
    \A kind \in {Text, Lists, StateTables, Flags, Wholes, Decimals, {Null}} :
        Rendering[t][Epoch] \in kind => Rendering[t][Now] \in kind

Steady(payload) ==
    \A f \in DOMAIN payload : payload[f] \in Templates => SteadyTemplate(payload[f])

\* The load tries a row with the time 0 and the replay renders it with another:
\* no row it has accepted fails in the middle of the replay, unless the time
\* changes what kind of value the row has (1.{{timestamp_ms}} is 1.0, an
\* integer for the schema, only when it is tried).
SteadyRowsRender ==
    [][pc = "render" /\ Steady(scenario[next].payload) => pc' # "failed"]_pc

\* An interrupted program ends, also when the broker never confirms a packet
\* and no matter how far away the next row is.
CancelledStops == cancelled ~> pc \in Ended

\* With --once, and a broker that takes what it is sent, the program ends.
OnceEnds == WF_vars(Deliver) => [](once => <>(pc \in Ended))
==============================================================================
