---------------------------- MODULE DummyBMSProofs -----------------------------
(***************************************************************************)
(* Proofs about DummyBMS, for all scenarios, schema files and bounds.       *)
(*                                                                         *)
(* The invariant IInv has two parts.  LInv is inductive by itself: the      *)
(* types, and that nothing is replayed before every row has been accepted   *)
(* (Loaded).  On top of it, Position says where the program is in the file  *)
(* by the number of packets handed over, which makes the facts of a new     *)
(* packet (Facts: its row, its pass, its time, its flag) those of its place *)
(* in the sequence; DueNow and Checked carry the comparison of the timer and *)
(* the validation of the rendered row to the step that publishes; Kept      *)
(* relates the broker to the packets it has passed on.                      *)
(* Position holds only of a connection that is up: a lost one may have      *)
(* taken packets with it, but then no packet is added.                      *)
(***************************************************************************)
EXTENDS DummyBMS, SequenceTheorems, TLAPS

\* The rows of all files, and the packets they give.
Rows == UNION {{s[i] : i \in DOMAIN s} : s \in Scenarios}

Packets ==
    [run : Nat, pass : Nat, entry : Nat, sentAt : Nat, afterCancel : BOOLEAN,
     topic : {r.topic : r \in Rows}, payload : {Render(r.payload, Now) : r \in Rows},
     retain : BOOLEAN]

\* What is under way and what has arrived are packets.
Channels == transit \in Seq(Packets) /\ delivered \in Seq(Packets)

\* Where the program is at a row, and where it replays.
AtRow == {"wait", "sleep", "render", "publish", "send", "await"}
Replaying == {"pass", "finish"} \cup AtRow

\* What the load has accepted, and that nothing is replayed before all is.
Loaded ==
    /\ \A i \in 1..entries : Acceptable(scenario[i])
    /\ \A i, j \in 1..entries : i < j => scenario[i].offset <= scenario[j].offset
    /\ pc \in {"load", "connect"} => pass = 0 /\ next = 1 /\ ~cancelled /\ Sent = <<>>
    /\ pc \in Replaying \cup {"connect"} => entries = Len(scenario) /\ entries > 0
    /\ Sent # <<>> => entries = Len(scenario) /\ entries > 0
    /\ pc = "pass" => pass < MaxPasses
    /\ pc \in AtRow \cup {"finish"} => pass > 0

\* The part of the invariant that is inductive by itself.
LInv == TypeOK /\ Channels /\ Loaded

\* Sequences that lose their tail.
LEMMA CutTail ==
    ASSUME NEW S, NEW a \in Seq(S), NEW b \in Seq(S), NEW k \in 0..Len(b)
    PROVE  /\ SubSeq(b, 1, k) \in Seq(S)
           /\ Len(a \o SubSeq(b, 1, k)) \in 0..Len(a \o b)
           /\ \A i \in 1..Len(a \o SubSeq(b, 1, k)) : (a \o SubSeq(b, 1, k))[i] = (a \o b)[i]
<1> DEFINE c == SubSeq(b, 1, k)
<1>1. Len(a) \in Nat /\ Len(b) \in Nat /\ k \in Nat /\ k <= Len(b)
  BY LenProperties
<1>2. \A i \in 1..k : b[i] \in S
  BY <1>1, ElementOfSeq
<1>3. c \in Seq(S) /\ Len(c) = k /\ \A i \in 1..k : c[i] = b[i]
  BY <1>1, <1>2, SubSeqProperties
<1> HIDE DEF c
<1>4. /\ Len(a \o b) = Len(a) + Len(b)
      /\ \A i \in 1..Len(a) + Len(b) :
            (a \o b)[i] = IF i <= Len(a) THEN a[i] ELSE b[i - Len(a)]
  BY ConcatProperties
<1>5. /\ Len(a \o c) = Len(a) + k
      /\ \A i \in 1..Len(a) + k :
            (a \o c)[i] = IF i <= Len(a) THEN a[i] ELSE c[i - Len(a)]
  BY <1>3, ConcatProperties
<1>6. \A i \in 1..Len(a) + k : (a \o c)[i] = (a \o b)[i]
  <2> SUFFICES ASSUME NEW i \in 1..Len(a) + k PROVE (a \o c)[i] = (a \o b)[i]
    OBVIOUS
  <2>1. i \in 1..Len(a) + Len(b) /\ (i > Len(a) => i - Len(a) \in 1..k)
    BY <1>1
  <2> QED
    BY <1>1, <1>3, <1>4, <1>5, <2>1
<1> QED
  BY <1>1, <1>3, <1>4, <1>5, <1>6 DEF c

\* A program that has just been started.
LEMMA LInit == Init => LInv
<1> SUFFICES ASSUME Init PROVE LInv
  OBVIOUS
<1>1. Len(scenario) \in Nat
  BY DummyBMSAssumption DEF Init
<1>2. Channels /\ Sent = <<>>
  BY DEF Init, Started, Channels, Sent
<1>3. TypeOK
  <2>1. once \in BOOLEAN /\ cancelled \in BOOLEAN
    BY DEF Init, Started
  <2>2. /\ entries \in 0..Len(scenario) /\ next \in 1..Len(scenario) \cup {1}
        /\ pass \in 0..MaxPasses /\ elapsed \in 0..MaxElapsed /\ runs \in 1..MaxRuns \cup {1}
    BY <1>1, DummyBMSAssumption DEF Init, Started
  <2> QED
    BY <2>1, <2>2 DEF Init, Started, TypeOK
<1>4. Loaded
  BY <1>2, <1>3 DEF Init, Started, Loaded, Replaying, AtRow
<1> QED
  BY <1>2, <1>3, <1>4 DEF LInv

\* The packet of the row at hand.
LEMMA PacketType ==
    ASSUME LInv, pc = "send"
    PROVE  Packet \in Packets /\ Packet.entry = next /\ Packet.pass = pass
<1>1. Len(scenario) \in Nat /\ DOMAIN scenario = 1..Len(scenario) /\ scenario \in Scenarios
  BY DummyBMSAssumption DEF LInv, TypeOK
<1>2. entries = Len(scenario) /\ entries > 0
  BY DEF LInv, Loaded, Replaying, AtRow
<1>3. next \in DOMAIN scenario
  BY <1>1, <1>2 DEF LInv, TypeOK
<1>4. scenario[next] \in Rows
  BY <1>1, <1>3 DEF Rows
<1>5. runs \in Nat /\ pass \in Nat /\ elapsed \in Nat /\ next \in Nat /\ cancelled \in BOOLEAN
  BY <1>1, DummyBMSAssumption DEF LInv, TypeOK
<1> QED
  BY <1>4, <1>5 DEF Packet, Packets

\* What a step does to the packets of the run: nothing, but for a packet more,
\* the loss of the last ones, or a new run.
LEMMA SentSteps ==
    ASSUME LInv, [Next]_vars
    PROVE  /\ Channels'
           /\ \/ Sent' = Sent
              \/ /\ Send /\ link = "up"
                 /\ Sent' = Append(Sent, Packet)
              \/ /\ LoseConnection
                 /\ \E n \in 0..Len(Sent) :
                       /\ Len(Sent') = n
                       /\ \A i \in 1..n : Sent'[i] = Sent[i]
              \/ Restart /\ Sent' = <<>>
<1> USE DEF Channels, LInv
<1>0. transit \in Seq(Packets) /\ delivered \in Seq(Packets)
  OBVIOUS
<1>1. CASE Send
  <2>1. Packet \in Packets
    BY <1>1, PacketType DEF Send
  <2>2. CASE link = "up"
    <3>1. transit' = Append(transit, Packet) /\ delivered' = delivered
      BY <1>1, <2>2 DEF Send
    <3>2. transit' = transit \o <<Packet>>
      BY <3>1, <2>1, AppendIsConcat
    <3>3. <<Packet>> \in Seq(Packets)
      BY <2>1
    <3>4. delivered \o (transit \o <<Packet>>) = (delivered \o transit) \o <<Packet>>
      BY <3>3, <1>0, ConcatAssociative
    <3>5. Sent \in Seq(Packets)
      BY <1>0, ConcatProperties DEF Sent
    <3>6. Sent' = Append(Sent, Packet)
      BY <3>1, <3>2, <3>4, <3>5, <2>1, AppendIsConcat DEF Sent
    <3> QED
      BY <1>1, <2>1, <2>2, <3>1, <3>6, AppendProperties
  <2>3. CASE link # "up"
    BY <1>1, <2>3 DEF Send, Sent
  <2> QED
    BY <2>2, <2>3
<1>2. CASE Deliver
  <2>1. transit # <<>> /\ transit' = Tail(transit) /\ delivered' = Append(delivered, Head(transit))
    BY <1>2 DEF Deliver
  <2>2. Head(transit) \in Packets /\ Tail(transit) \in Seq(Packets)
    BY <1>0, <2>1, HeadTailProperties
  <2>3. delivered' = delivered \o <<Head(transit)>> /\ <<Head(transit)>> \in Seq(Packets)
    BY <1>0, <2>1, <2>2, AppendIsConcat
  <2>4. transit = <<Head(transit)>> \o Tail(transit)
    BY <1>0, <2>1, <2>2
  <2>5. (delivered \o <<Head(transit)>>) \o Tail(transit)
            = delivered \o (<<Head(transit)>> \o Tail(transit))
    BY <1>0, <2>2, <2>3, ConcatAssociative
  <2>6. Sent' = Sent
    BY <2>1, <2>3, <2>4, <2>5 DEF Sent
  <2> QED
    BY <1>0, <2>1, <2>2, <2>6, AppendProperties
<1>3. CASE LoseConnection
  <2>1. PICK k \in 0..Len(transit) : transit' = SubSeq(transit, 1, k)
    BY <1>3 DEF LoseConnection
  <2>2. Sent' = delivered \o SubSeq(transit, 1, k) /\ delivered' = delivered
    BY <1>3, <2>1 DEF LoseConnection, Sent
  <2>3. /\ SubSeq(transit, 1, k) \in Seq(Packets)
        /\ Len(Sent') \in 0..Len(Sent)
        /\ \A i \in 1..Len(Sent') : Sent'[i] = Sent[i]
    <3> HIDE DEF Channels
    <3>1. /\ SubSeq(transit, 1, k) \in Seq(Packets)
          /\ Len(delivered \o SubSeq(transit, 1, k)) \in 0..Len(delivered \o transit)
          /\ \A i \in 1..Len(delivered \o SubSeq(transit, 1, k)) :
                (delivered \o SubSeq(transit, 1, k))[i] = (delivered \o transit)[i]
      BY <1>0, CutTail
    <3> QED
      BY <2>2, <3>1 DEF Sent
  <2>4. Channels'
    BY <1>0, <2>1, <2>2, <2>3
  <2> QED
    BY <1>3, <2>3, <2>4
<1>4. CASE Restart
  BY <1>4 DEF Restart, Sent
<1>5. CASE ReadRow \/ EndOfFile \/ Connect \/ StartPass \/ FinishPass \/ WaitUntil
           \/ TimerFires \/ Canceled \/ RenderEntry \/ PublishContext \/ TokenDone
           \/ Interrupt \/ Tick \/ UNCHANGED vars
  <2>1. transit' = transit /\ delivered' = delivered
    BY <1>5 DEF ReadRow, EndOfFile, Connect, StartPass, FinishPass, WaitUntil, TimerFires,
                Canceled, RenderEntry, PublishContext, TokenDone, Interrupt, Tick, vars,
                environment
  <2> QED
    BY <2>1 DEF Sent
<1> QED
  BY <1>1, <1>2, <1>3, <1>4, <1>5 DEF Next, Program, Environment

\* The rows of the file, and where the program is in it.
LEMMA FileShape ==
    ASSUME LInv
    PROVE  /\ scenario \in Scenarios /\ Len(scenario) \in Nat
           /\ DOMAIN scenario = 1..Len(scenario)
           /\ entries \in Nat /\ entries <= Len(scenario)
           /\ next \in Nat \ {0}
           /\ pc \in Replaying => next <= Len(scenario) /\ entries = Len(scenario)
BY DummyBMSAssumption DEF LInv, TypeOK, Loaded, Replaying, AtRow

\* Every step keeps the types.
LEMMA TypeStep ==
    ASSUME LInv, [Next]_vars
    PROVE  TypeOK'
<1> USE DEF Ended, program, environment
<1>0. TypeOK /\ Loaded
  BY DEF LInv
<1>00. /\ Len(scenario) \in Nat /\ MaxRuns \in Nat /\ MaxPasses \in Nat \ {0} /\ MaxElapsed \in Nat
       /\ entries \in Nat
  BY FileShape, DummyBMSAssumption
<1>1. CASE ReadRow
  BY <1>0, <1>00, <1>1 DEF ReadRow, TypeOK
<1>2. CASE EndOfFile
  BY <1>0, <1>2 DEF EndOfFile, TypeOK
<1>3. CASE Connect
  BY <1>0, <1>3 DEF Connect, TypeOK
<1>4. CASE StartPass
  <2>1. pass' \in 0..MaxPasses /\ elapsed' \in 0..MaxElapsed /\ next' \in 1..Len(scenario') \cup {1}
    BY <1>0, <1>00, <1>4 DEF StartPass, TypeOK, Loaded
  <2> QED
    BY <1>0, <1>4, <2>1 DEF StartPass, TypeOK
<1>5. CASE FinishPass
  BY <1>0, <1>5 DEF FinishPass, TypeOK
<1>6. CASE WaitUntil
  BY <1>0, <1>6 DEF WaitUntil, TypeOK
<1>7. CASE TimerFires
  BY <1>0, <1>7 DEF TimerFires, TypeOK
<1>8. CASE Canceled
  BY <1>0, <1>8 DEF Canceled, TypeOK
<1>9. CASE RenderEntry
  BY <1>0, <1>9 DEF RenderEntry, TypeOK
<1>10. CASE PublishContext
  BY <1>0, <1>10 DEF PublishContext, TypeOK
<1>11. CASE Send
  BY <1>0, <1>11 DEF Send, TypeOK
<1>12. CASE TokenDone
  <2>1. next' \in 1..Len(scenario) \cup {1}
    BY <1>0, <1>00, <1>12, FileShape DEF TokenDone, TypeOK, Replaying, AtRow
  <2> QED
    BY <1>0, <1>12, <2>1 DEF TokenDone, TypeOK
<1>13. CASE Interrupt
  BY <1>0, <1>13 DEF Interrupt, TypeOK
<1>14. CASE Tick
  <2>1. elapsed' \in 0..MaxElapsed
    BY <1>0, <1>00, <1>14 DEF Tick, TypeOK
  <2> QED
    BY <1>0, <1>14, <2>1 DEF Tick, TypeOK
<1>15. CASE Deliver
  BY <1>0, <1>15 DEF Deliver, TypeOK
<1>16. CASE LoseConnection
  BY <1>0, <1>16 DEF LoseConnection, TypeOK
<1>17. CASE Restart
  <2>1. Len(scenario') \in Nat
    BY <1>17, DummyBMSAssumption DEF Restart
  <2>2. /\ entries' \in 0..Len(scenario') /\ pass' \in 0..MaxPasses /\ elapsed' \in 0..MaxElapsed
        /\ runs' \in 1..MaxRuns \cup {1}
    BY <1>0, <1>00, <1>17, <2>1 DEF Restart, TypeOK
  <2> QED
    BY <1>0, <1>17, <2>2 DEF Restart, TypeOK
<1>18. CASE UNCHANGED vars
  BY <1>0, <1>18 DEF vars, TypeOK
<1> QED
  BY <1>1, <1>2, <1>3, <1>4, <1>5, <1>6, <1>7, <1>8, <1>9, <1>10, <1>11, <1>12, <1>13, <1>14,
     <1>15, <1>16, <1>17, <1>18 DEF Next, Program, Environment

\* The packets of the run are a sequence.
LEMMA SentIsSeq ==
    ASSUME LInv
    PROVE  Sent \in Seq(Packets) /\ Len(Sent) \in Nat /\ (Sent # <<>> <=> Len(Sent) > 0)
<1>1. Sent \in Seq(Packets)
  BY ConcatProperties DEF LInv, Channels, Sent
<1> QED
  BY <1>1, LenProperties, EmptySeq

\* Every step keeps what the load has accepted, and no step replays before it
\* is through.
LEMMA LoadedStep ==
    ASSUME LInv, [Next]_vars
    PROVE  Loaded'
<1> USE DEF Ended, program, environment, AtRow, Replaying
<1>0. TypeOK /\ Loaded
  BY DEF LInv
<1>00. /\ Len(scenario) \in Nat /\ entries \in Nat /\ entries <= Len(scenario)
       /\ MaxPasses \in Nat \ {0} /\ pass \in Nat
  <2>1. MaxPasses \in Nat \ {0} /\ pass \in 0..MaxPasses
    BY <1>0, DummyBMSAssumption DEF TypeOK
  <2> QED
    BY <2>1, FileShape
<1>000. Sent' = Sent \/ Send \/ LoseConnection \/ Restart
  BY SentSteps
<1>1. CASE ReadRow
  <2>1. /\ pc = "load" /\ entries < Len(scenario)
        /\ UNCHANGED <<scenario, edition, next, pass, cancelled>>
    BY <1>1 DEF ReadRow
  <2>2. Sent' = Sent /\ Sent = <<>>
    BY <1>0, <1>1, <2>1 DEF ReadRow, Loaded, Sent
  <2>3. CASE entries' = entries
    BY <1>0, <1>1, <2>1, <2>2, <2>3 DEF ReadRow, Loaded, Acceptable, RenderPayload
  <2>4. CASE entries' # entries
    <3> DEFINE row == scenario[entries + 1]
    <3>1. /\ entries' = entries + 1 /\ pc' = pc
          /\ EntryFromRecord(row) /\ RenderPayload(row, Epoch)
          /\ entries > 0 => row.offset >= scenario[entries].offset
      BY <1>1, <2>4 DEF ReadRow
    <3>2. \A i \in 1..(entries + 1) : Acceptable(scenario[i])
      BY <1>0, <1>00, <3>1 DEF Loaded, Acceptable
    <3>3. \A i \in 1..(entries + 1) : scenario[i].offset \in Nat
      BY <3>2 DEF Acceptable, EntryFromRecord, ParseOffset
    <3>4. \A i, j \in 1..entries : i < j => scenario[i].offset <= scenario[j].offset
      BY <1>0 DEF Loaded
    <3>5. \A i \in 1..entries : scenario[i].offset <= row.offset
      <4> SUFFICES ASSUME NEW i \in 1..entries PROVE scenario[i].offset <= row.offset
        OBVIOUS
      <4>1. scenario[i].offset \in Nat /\ scenario[entries].offset \in Nat /\ row.offset \in Nat
        BY <1>00, <3>3
      <4>2. row.offset >= scenario[entries].offset
        BY <1>00, <3>1
      <4>3. i = entries \/ scenario[i].offset <= scenario[entries].offset
        BY <1>00, <3>4
      <4> QED
        BY <4>1, <4>2, <4>3
    <3>6. \A i, j \in 1..(entries + 1) : i < j => scenario[i].offset <= scenario[j].offset
      BY <1>00, <3>4, <3>5
    <3>7. (\A i \in 1..entries : Acceptable(scenario[i]))'
      BY <2>1, <3>1, <3>2 DEF Acceptable, RenderPayload
    <3> QED
      BY <1>0, <2>1, <2>2, <3>1, <3>6, <3>7 DEF Loaded
  <2> QED
    BY <2>3, <2>4
<1>2. CASE EndOfFile
  BY <1>0, <1>00, <1>2 DEF EndOfFile, Loaded, Acceptable, RenderPayload, Sent
<1>3. CASE Connect
  BY <1>0, <1>00, <1>3 DEF Connect, Loaded, Acceptable, RenderPayload, Sent
<1>4. CASE StartPass
  BY <1>0, <1>00, <1>4 DEF StartPass, Loaded, Acceptable, RenderPayload, Sent
<1>5. CASE FinishPass
  BY <1>0, <1>00, <1>5 DEF FinishPass, Loaded, Acceptable, RenderPayload, Sent
<1>6. CASE WaitUntil
  BY <1>0, <1>6 DEF WaitUntil, Loaded, Acceptable, RenderPayload, Sent
<1>7. CASE TimerFires
  BY <1>0, <1>7 DEF TimerFires, Loaded, Acceptable, RenderPayload, Sent
<1>8. CASE Canceled
  BY <1>0, <1>8 DEF Canceled, Loaded, Acceptable, RenderPayload, Sent
<1>9. CASE RenderEntry
  BY <1>0, <1>9 DEF RenderEntry, Loaded, Acceptable, RenderPayload, Sent
<1>10. CASE PublishContext
  BY <1>0, <1>10 DEF PublishContext, Loaded, Acceptable, RenderPayload, Sent
<1>11. CASE Send
  BY <1>0, <1>11 DEF Send, Loaded, Acceptable, RenderPayload
<1>12. CASE TokenDone
  BY <1>0, <1>12 DEF TokenDone, Loaded, Acceptable, RenderPayload, Sent
<1>13. CASE Interrupt
  BY <1>0, <1>13 DEF Interrupt, Loaded, Acceptable, RenderPayload, Sent
<1>14. CASE Tick
  BY <1>0, <1>14 DEF Tick, Loaded, Acceptable, RenderPayload, Sent
<1>15. CASE Deliver
  <2>1. Sent' = Sent
    BY <1>15, SentSteps DEF Deliver, Send, LoseConnection, Restart
  <2> QED
    BY <1>0, <1>15, <2>1 DEF Deliver, Loaded, Acceptable, RenderPayload
<1>16. CASE LoseConnection
  <2>1. Sent # <<>> \/ Sent' = <<>>
    <3>1. PICK n \in 0..Len(Sent) : Len(Sent') = n \/ Sent' = Sent \/ Sent' = <<>>
      BY <1>16, SentSteps, SentIsSeq DEF LoseConnection, Send
    <3>2. Sent' \in Seq(Packets)
      BY SentSteps, ConcatProperties DEF Sent, Channels
    <3> QED
      BY <3>1, <3>2, SentIsSeq, EmptySeq
  <2> QED
    BY <1>0, <1>16, <2>1 DEF LoseConnection, Loaded, Acceptable, RenderPayload
<1>17. CASE Restart
  <2>1. Sent' = <<>>
    BY <1>17 DEF Restart, Sent
  <2> QED
    BY <1>17, <2>1 DEF Restart, Loaded
<1>18. CASE UNCHANGED vars
  BY <1>0, <1>18 DEF vars, Loaded, Acceptable, RenderPayload, Sent
<1> QED
  BY <1>1, <1>2, <1>3, <1>4, <1>5, <1>6, <1>7, <1>8, <1>9, <1>10, <1>11, <1>12, <1>13, <1>14,
     <1>15, <1>16, <1>17, <1>18 DEF Next, Program, Environment

\* So the first part of the invariant is inductive by itself.
LEMMA LStep == LInv /\ [Next]_vars => LInv'
BY TypeStep, SentSteps, LoadedStep DEF LInv

-----------------------------------------------------------------------------
(* What holds of every packet of the run.                                  *)

\* The i-th packet p is in its place and not early, carries what the file says,
\* and is retained if it is metadata, which is then valid and under PUB.
Fact(p, i) ==
    /\ p.entry = 1 + ((i - 1) % Len(scenario))
    /\ p.pass = 1 + ((i - 1) \div Len(scenario))
    /\ p.topic = scenario[p.entry].topic
    /\ p.sentAt >= scenario[p.entry].offset
    /\ p.run = runs
    /\ p.retain <=> p.topic.type = "Metadata"
    /\ p.retain => /\ p.topic.publisher = PUB
                   /\ ValidateMessage(Editions[edition], p.topic, p.payload)

Facts == \A i \in 1..Len(Sent) : Fact(Sent[i], i)

\* How many packets have gone out, as long as none can have been lost.
Gone ==
    IF pc \in {"pass", "finish"} THEN pass * entries
    ELSE (pass - 1) * entries + (IF pc = "await" THEN next ELSE next - 1)

Position == link = "up" /\ pc \in Replaying => Len(Sent) = Gone

\* A row is rendered and sent when it is due.
DueNow == pc \in {"render", "publish", "send"} => Due

\* A row is published as the schema has accepted it.
Checked == pc \in {"publish", "send"} => RenderPayload(scenario[next], Now)

\* After the interrupt one packet can go out, and then none.
OneLeft ==
    /\ \A i \in 1..Len(Sent) : Sent[i].afterCancel => cancelled /\ pc # "send"
    /\ \A i, j \in 1..Len(Sent) : Sent[i].afterCancel /\ Sent[j].afterCancel => i = j

\* Where the broker has passed on metadata of this run, that is what it keeps.
Kept ==
    /\ \A i \in 1..Len(delivered) : delivered[i].retain =>
          delivered[i].topic \in DOMAIN retained /\ retained[delivered[i].topic].run = runs
    /\ RetainedIsMetadata

\* The invariant.
IInv == LInv /\ Facts /\ Position /\ DueNow /\ Checked /\ OneLeft /\ Kept /\ InterruptIsClean

\* The place of a row in a pass.
LEMMA DivMod ==
    ASSUME NEW n \in Nat \ {0}, NEW q \in Nat, NEW r \in 0..(n - 1)
    PROVE  (q * n + r) % n = r /\ (q * n + r) \div n = q
OBVIOUS

\* A step back within a pass.
LEMMA Earlier ==
    ASSUME NEW n \in Nat \ {0}, NEW a \in Nat, NEW d \in Nat, d <= a % n
    PROVE  (a - d) % n = (a % n) - d
OBVIOUS

-----------------------------------------------------------------------------
(* Every step keeps the invariant.                                         *)

\* Only a new run takes another file.
LEMMA SameFile ==
    ASSUME [Next]_vars, ~Restart
    PROVE  UNCHANGED <<scenario, edition, once, qos, runs>>
BY DEF Next, Program, Environment, vars, program, environment, ReadRow, EndOfFile, Connect,
       StartPass, FinishPass, WaitUntil, TimerFires, Canceled, RenderEntry, PublishContext,
       Send, TokenDone, Interrupt, Tick, Deliver, LoseConnection

\* The row at hand is acceptable.
LEMMA RowAtHand ==
    ASSUME LInv, pc \in AtRow
    PROVE  /\ next \in 1..Len(scenario) /\ entries = Len(scenario)
           /\ Acceptable(scenario[next])
           /\ scenario[next].offset \in Nat
<1>1. next \in 1..Len(scenario) /\ entries = Len(scenario)
  BY FileShape DEF Replaying
<1>2. Acceptable(scenario[next])
  BY <1>1 DEF LInv, Loaded
<1> QED
  BY <1>1, <1>2 DEF Acceptable, EntryFromRecord, ParseOffset

\* While the connection holds, the packets are as many as the place in the file
\* and the number of the pass make them.
LEMMA PositionStep ==
    ASSUME LInv, Position, [Next]_vars
    PROVE  Position'
<1> USE DEF Position, Gone, Replaying, AtRow, program, environment, Ended
<1>0. /\ entries \in Nat /\ pass \in Nat /\ next \in Nat \ {0}
      /\ pc \in Replaying => next <= entries
  BY FileShape, DummyBMSAssumption DEF LInv, TypeOK
<1>00. Sent' = Sent \/ Send \/ LoseConnection \/ Restart
  BY SentSteps
<1>1. CASE Connect
  <2>1. Sent' = Sent /\ Sent = <<>> /\ pass = 0
    BY <1>1 DEF Connect, LInv, Loaded, Sent
  <2> QED
    BY <1>0, <1>1, <2>1, EmptySeq DEF Connect
<1>2. CASE StartPass
  BY <1>0, <1>2 DEF StartPass, Sent
<1>3. CASE Send
  <2>1. CASE link = "up"
    <3>1. Sent' = Append(Sent, Packet)
      BY <1>3, <2>1, SentSteps DEF Send, LoseConnection, Restart, Sent
    <3>2. Len(Sent') = Len(Sent) + 1
      BY <1>3, <3>1, PacketType, SentIsSeq, AppendProperties DEF Send
    <3> QED
      BY <1>0, <1>3, <3>2 DEF Send
  <2>2. CASE link # "up"
    BY <1>3, <2>2 DEF Send
  <2> QED
    BY <2>1, <2>2
<1>4. CASE TokenDone
  <2>1. Sent' = Sent
    BY <1>4 DEF TokenDone, Sent
  <2> QED
    BY <1>0, <1>4, <2>1 DEF TokenDone
<1>5. CASE LoseConnection
  BY <1>5 DEF LoseConnection
<1>6. CASE Restart
  BY <1>6 DEF Restart
<1>7. CASE Deliver
  BY <1>00, <1>7 DEF Deliver, Send, LoseConnection, Restart
<1>8. CASE ReadRow \/ EndOfFile
  BY <1>8 DEF ReadRow, EndOfFile, Sent
<1>9. CASE FinishPass \/ WaitUntil \/ TimerFires \/ Canceled \/ RenderEntry \/ PublishContext
  BY <1>9 DEF FinishPass, WaitUntil, TimerFires, Canceled, RenderEntry, PublishContext, Sent
<1>10. CASE Interrupt \/ Tick \/ UNCHANGED vars
  BY <1>10 DEF Interrupt, Tick, vars, Sent
<1> QED
  BY <1>1, <1>2, <1>3, <1>4, <1>5, <1>6, <1>7, <1>8, <1>9, <1>10 DEF Next, Program, Environment

\* A row that is due stays due: time goes on, and the pass begins before it.
LEMMA DueStep ==
    ASSUME LInv, DueNow, [Next]_vars
    PROVE  DueNow'
<1> USE DEF DueNow, Due, program, environment, Ended
<1>1. CASE Tick
  <2>1. CASE pc \in {"render", "publish", "send"}
    BY <1>1, <2>1, RowAtHand, DummyBMSAssumption DEF Tick, LInv, TypeOK, AtRow
  <2>2. CASE pc \notin {"render", "publish", "send"}
    BY <1>1, <2>2 DEF Tick
  <2> QED
    BY <2>1, <2>2
<1>2. CASE WaitUntil
  BY <1>2 DEF WaitUntil
<1>3. CASE TimerFires
  BY <1>3 DEF TimerFires
<1>4. CASE ReadRow \/ EndOfFile \/ Connect \/ StartPass \/ FinishPass \/ Canceled
  BY <1>4 DEF ReadRow, EndOfFile, Connect, StartPass, FinishPass, Canceled
<1>5. CASE RenderEntry \/ PublishContext \/ Send \/ TokenDone
  BY <1>5 DEF RenderEntry, PublishContext, Send, TokenDone
<1>6. CASE Interrupt \/ Deliver \/ LoseConnection \/ Restart \/ UNCHANGED vars
  BY <1>6 DEF Interrupt, Deliver, LoseConnection, Restart, vars
<1> QED
  BY <1>1, <1>2, <1>3, <1>4, <1>5, <1>6 DEF Next, Program, Environment

\* Nothing comes between the validation of a row and its publishing.
LEMMA CheckedStep ==
    ASSUME LInv, Checked, [Next]_vars
    PROVE  Checked'
<1> USE DEF Checked, RenderPayload, program, environment, Ended
<1>1. CASE RenderEntry \/ PublishContext \/ Send
  BY <1>1 DEF RenderEntry, PublishContext, Send
<1>2. CASE ReadRow \/ EndOfFile \/ Connect \/ StartPass \/ FinishPass
  BY <1>2 DEF ReadRow, EndOfFile, Connect, StartPass, FinishPass
<1>3. CASE WaitUntil \/ TimerFires \/ Canceled \/ TokenDone
  BY <1>3 DEF WaitUntil, TimerFires, Canceled, TokenDone
<1>4. CASE Interrupt \/ Tick \/ Deliver \/ LoseConnection \/ Restart \/ UNCHANGED vars
  BY <1>4 DEF Interrupt, Tick, Deliver, LoseConnection, Restart, vars
<1> QED
  BY <1>1, <1>2, <1>3, <1>4 DEF Next, Program, Environment

\* A packet that is sent is as it should be.
LEMMA PacketFact ==
    ASSUME LInv, Position, DueNow, Checked, Send, link = "up"
    PROVE  Fact(Packet, Len(Sent) + 1)
<1>1. pc = "send" /\ pc \in AtRow /\ pc \in Replaying
  BY DEF Send, AtRow, Replaying
<1>2. /\ next \in 1..Len(scenario) /\ entries = Len(scenario)
      /\ Acceptable(scenario[next])
  BY <1>1, RowAtHand
<1>3. pass \in Nat \ {0} /\ Len(scenario) \in Nat /\ next \in Nat
  BY <1>1, FileShape, DummyBMSAssumption DEF LInv, TypeOK, Loaded
<1>4. Len(Sent) = (pass - 1) * Len(scenario) + (next - 1)
  BY <1>1, <1>2 DEF Position, Gone
<1>5. Len(Sent) % Len(scenario) = next - 1 /\ Len(Sent) \div Len(scenario) = pass - 1
  <2>1. /\ Len(scenario) \in Nat \ {0} /\ pass - 1 \in Nat
        /\ next - 1 \in 0..(Len(scenario) - 1)
    BY <1>2, <1>3
  <2>2. /\ ((pass - 1) * Len(scenario) + (next - 1)) % Len(scenario) = next - 1
        /\ ((pass - 1) * Len(scenario) + (next - 1)) \div Len(scenario) = pass - 1
    BY <2>1, DivMod
  <2> QED
    BY <1>4, <2>2
<1>6. Len(Sent) + 1 - 1 = Len(Sent)
  BY SentIsSeq
<1>7. elapsed >= scenario[next].offset
  BY <1>1 DEF DueNow, Due
<1>8. scenario[next].topic.type = "Metadata" => scenario[next].topic.publisher = PUB
  BY <1>2 DEF Acceptable, EntryFromRecord, ParseTopicType
<1>9. ValidateMessage(Editions[edition], scenario[next].topic, Render(scenario[next].payload, Now))
  BY <1>1 DEF Checked, RenderPayload
<1>10. /\ Packet.entry = next /\ Packet.pass = pass /\ Packet.sentAt = elapsed /\ Packet.run = runs
       /\ Packet.topic = scenario[next].topic
       /\ Packet.payload = Render(scenario[next].payload, Now)
  BY DEF Packet
<1>11. Packet.retain <=> scenario[next].topic.type = "Metadata"
  BY DEF Packet
<1>12. Packet.entry = 1 + ((Len(Sent) + 1 - 1) % Len(scenario))
  BY <1>3, <1>5, <1>6, <1>10
<1>13. Packet.pass = 1 + ((Len(Sent) + 1 - 1) \div Len(scenario))
  BY <1>3, <1>5, <1>6, <1>10
<1> QED
  BY <1>7, <1>8, <1>9, <1>10, <1>11, <1>12, <1>13 DEF Fact

\* A packet that is sent has the facts of its place, and keeps them.
LEMMA FactsStep ==
    ASSUME LInv, Facts, Position, DueNow, Checked, [Next]_vars
    PROVE  Facts'
<1>1. CASE Restart
  <2>1. Sent' = <<>>
    BY <1>1 DEF Restart, Sent
  <2> QED
    BY <2>1, EmptySeq DEF Facts
<1>2. CASE ~Restart
  <2>1. \A p, i : Fact(p, i) => Fact(p, i)'
    BY <1>2, SameFile DEF Fact
  <2>2. CASE Sent' = Sent
    BY <2>1, <2>2 DEF Facts
  <2>3. CASE Send /\ link = "up" /\ Sent' = Append(Sent, Packet)
    <3>1. Packet \in Packets
      BY <2>3, PacketType DEF Send
    <3>2. /\ Len(Sent') = Len(Sent) + 1
          /\ \A i \in 1..Len(Sent) : Sent'[i] = Sent[i]
          /\ Sent'[Len(Sent) + 1] = Packet
      BY <2>3, <3>1, SentIsSeq, AppendProperties
    <3>3. Fact(Packet, Len(Sent) + 1)
      BY <2>3, PacketFact
    <3>4. \A i \in 1..Len(Sent') : Fact(Sent'[i], i)
      BY <3>2, <3>3, SentIsSeq DEF Facts
    <3> QED
      BY <2>1, <3>4 DEF Facts
  <2>4. CASE \E n \in 0..Len(Sent) :
                 Len(Sent') = n /\ \A i \in 1..n : Sent'[i] = Sent[i]
    <3>1. \A i \in 1..Len(Sent') : Fact(Sent'[i], i)
      BY <2>4, SentIsSeq DEF Facts
    <3> QED
      BY <2>1, <3>1 DEF Facts
  <2> QED
    BY <1>2, <2>2, <2>3, <2>4, SentSteps
<1> QED
  BY <1>1, <1>2

\* Only what was past the look at the context is sent after the interrupt.
LEMMA OneLeftStep ==
    ASSUME LInv, OneLeft, [Next]_vars
    PROVE  OneLeft'
<1> USE DEF program, environment, Ended
<1>1. CASE Restart
  <2>1. Sent' = <<>>
    BY <1>1 DEF Restart, Sent
  <2> QED
    BY <2>1, EmptySeq DEF OneLeft
<1>2. CASE Send /\ link = "up" /\ Sent' = Append(Sent, Packet)
  <2>1. Packet \in Packets
    BY <1>2, PacketType DEF Send
  <2>2. /\ Len(Sent') = Len(Sent) + 1
        /\ \A i \in 1..Len(Sent) : Sent'[i] = Sent[i]
        /\ Sent'[Len(Sent) + 1] = Packet
    BY <1>2, <2>1, SentIsSeq, AppendProperties
  <2>3. /\ \A i \in 1..Len(Sent) : ~Sent[i].afterCancel
        /\ pc' = "await" /\ cancelled' = cancelled
    BY <1>2 DEF Send, OneLeft
  <2>4. Packet.afterCancel => cancelled
    BY DEF Packet
  <2> QED
    BY <2>2, <2>3, <2>4, SentIsSeq DEF OneLeft
<1>3. CASE LoseConnection
  <2>1. Len(Sent') \in 0..Len(Sent) /\ \A i \in 1..Len(Sent') : Sent'[i] = Sent[i]
    <3>1. ~Send /\ ~Restart
      BY <1>3 DEF LoseConnection, Send, Restart
    <3>2. CASE Sent' = Sent
      BY <3>2, SentIsSeq
    <3>3. CASE Sent' # Sent
      BY <3>1, <3>3, SentSteps
    <3> QED
      BY <3>2, <3>3
  <2> QED
    BY <1>3, <2>1, SentIsSeq DEF OneLeft, LoseConnection
<1>4. CASE Sent' = Sent /\ ~Restart
  <2>1. cancelled => cancelled'
    BY <1>4 DEF Next, Program, Environment, vars, ReadRow, EndOfFile, Connect, StartPass,
                FinishPass, WaitUntil, TimerFires, Canceled, RenderEntry, PublishContext, Send,
                TokenDone, Interrupt, Tick, Deliver, LoseConnection
  <2>2. pc' = "send" => pc = "send" \/ ~cancelled
    BY <1>4 DEF Next, Program, Environment, vars, ReadRow, EndOfFile, Connect, StartPass,
                FinishPass, WaitUntil, TimerFires, Canceled, RenderEntry, PublishContext, Send,
                TokenDone, Interrupt, Tick, Deliver, LoseConnection
  <2> QED
    BY <1>4, <2>1, <2>2 DEF OneLeft
<1> QED
  BY <1>1, <1>2, <1>3, <1>4, SentSteps

\* What the broker has passed on are the first packets of the run.
LEMMA DeliveredFirst ==
    ASSUME LInv, Facts
    PROVE  /\ Len(delivered) \in Nat
           /\ \A i \in 1..Len(delivered) : i \in 1..Len(Sent) /\ delivered[i] = Sent[i]
           /\ \A i \in 1..Len(delivered) : Fact(delivered[i], i)
<1>1. delivered \in Seq(Packets) /\ transit \in Seq(Packets)
  BY DEF LInv, Channels
<1>2. Len(delivered) \in Nat /\ Len(transit) \in Nat
  BY <1>1, LenProperties
<1>3. /\ Len(Sent) = Len(delivered) + Len(transit)
      /\ \A i \in 1..Len(delivered) + Len(transit) :
            Sent[i] = IF i <= Len(delivered) THEN delivered[i]
                                             ELSE transit[i - Len(delivered)]
  BY <1>1, ConcatProperties DEF Sent
<1>4. \A i \in 1..Len(delivered) : i \in 1..Len(Sent) /\ delivered[i] = Sent[i]
  BY <1>2, <1>3
<1> QED
  BY <1>2, <1>4 DEF Facts

\* The packet at the head of the connection is the one after those.
LEMMA HeadFact ==
    ASSUME LInv, Facts, transit # <<>>
    PROVE  Head(transit) \in Packets /\ Fact(Head(transit), Len(delivered) + 1)
<1>1. delivered \in Seq(Packets) /\ transit \in Seq(Packets)
  BY DEF LInv, Channels
<1>2. /\ Len(delivered) \in Nat /\ Len(transit) \in Nat \ {0}
      /\ Head(transit) = transit[1] /\ Head(transit) \in Packets
  BY <1>1, LenProperties, EmptySeq, HeadTailProperties
<1>3. /\ Len(Sent) = Len(delivered) + Len(transit)
      /\ \A i \in 1..Len(delivered) + Len(transit) :
            Sent[i] = IF i <= Len(delivered) THEN delivered[i]
                                             ELSE transit[i - Len(delivered)]
  BY <1>1, ConcatProperties DEF Sent
<1>4. Len(delivered) + 1 \in 1..Len(Sent) /\ Sent[Len(delivered) + 1] = Head(transit)
  BY <1>2, <1>3
<1> QED
  BY <1>2, <1>4 DEF Facts

\* The broker keeps what it passes on, and no other step touches what it keeps;
\* a new run finds it there.
LEMMA KeptStep ==
    ASSUME LInv, Facts, Kept, [Next]_vars
    PROVE  Kept'
<1>1. CASE Deliver
  <2> DEFINE packet == Head(transit)
  <2>1. transit # <<>> /\ delivered' = Append(delivered, packet) /\ UNCHANGED <<edition, runs>>
    BY <1>1 DEF Deliver, program
  <2>2. packet \in Packets /\ Fact(packet, Len(delivered) + 1)
    BY <2>1, HeadFact
  <2>3. /\ Len(delivered) \in Nat
        /\ Len(delivered') = Len(delivered) + 1
        /\ \A i \in 1..Len(delivered) : delivered'[i] = delivered[i]
        /\ delivered'[Len(delivered) + 1] = packet
    BY <2>1, <2>2, LenProperties, AppendProperties DEF LInv, Channels
  <2>4. CASE ~packet.retain
    <3>1. retained' = retained
      BY <1>1, <2>4 DEF Deliver
    <3> QED
      BY <2>1, <2>3, <2>4, <3>1 DEF Kept, RetainedIsMetadata
  <2>5. CASE packet.retain
    <3>1. /\ DOMAIN retained' = DOMAIN retained \cup {packet.topic}
          /\ \A t \in DOMAIN retained' :
                retained'[t] = IF t = packet.topic THEN packet ELSE retained[t]
      BY <1>1, <2>5 DEF Deliver
    <3>2. /\ packet.run = runs /\ packet.topic.type = "Metadata" /\ packet.topic.publisher = PUB
          /\ ValidateMessage(Editions[edition], packet.topic, packet.payload)
      BY <2>2, <2>5 DEF Fact
    <3>3. RetainedIsMetadata'
      BY <2>1, <3>1, <3>2 DEF Kept, RetainedIsMetadata
    <3>4. \A i \in 1..Len(delivered') : delivered'[i].retain =>
             /\ delivered'[i].topic \in DOMAIN retained'
             /\ retained'[delivered'[i].topic].run = runs'
      BY <2>1, <2>3, <3>1, <3>2 DEF Kept
    <3> QED
      BY <3>3, <3>4 DEF Kept
  <2> QED
    BY <2>4, <2>5
<1>2. CASE Restart
  <2>1. delivered' = <<>> /\ UNCHANGED <<edition, retained>>
    BY <1>2 DEF Restart
  <2> QED
    BY <2>1, EmptySeq DEF Kept, RetainedIsMetadata
<1>3. CASE ~Deliver /\ ~Restart
  <2>1. UNCHANGED <<delivered, retained>>
    BY <1>3 DEF Next, Program, Environment, vars, environment, ReadRow, EndOfFile, Connect,
                StartPass, FinishPass, WaitUntil, TimerFires, Canceled, RenderEntry,
                PublishContext, Send, TokenDone, Interrupt, Tick, LoseConnection
  <2> QED
    BY <1>3, <2>1, SameFile DEF Kept, RetainedIsMetadata
<1> QED
  BY <1>1, <1>2, <1>3

\* A run fails before the context exists, on a connection that is lost, or on a
\* row that it cannot render.
LEMMA InterruptCleanStep ==
    ASSUME LInv, InterruptIsClean, [Next]_vars
    PROVE  InterruptIsClean'
<1> USE DEF InterruptIsClean, RenderPayload, Ended, program, environment
<1>1. CASE ReadRow \/ EndOfFile
  BY <1>1 DEF ReadRow, EndOfFile, LInv, Loaded
<1>2. CASE Connect
  BY <1>2 DEF Connect
<1>3. CASE RenderEntry
  BY <1>3 DEF RenderEntry
<1>4. CASE TokenDone
  BY <1>4 DEF TokenDone
<1>5. CASE StartPass \/ FinishPass \/ WaitUntil \/ TimerFires \/ Canceled \/ PublishContext \/ Send
  BY <1>5 DEF StartPass, FinishPass, WaitUntil, TimerFires, Canceled, PublishContext, Send
<1>6. CASE Interrupt \/ Tick \/ Deliver \/ LoseConnection \/ Restart \/ UNCHANGED vars
  BY <1>6 DEF Interrupt, Tick, Deliver, LoseConnection, Restart, vars
<1> QED
  BY <1>1, <1>2, <1>3, <1>4, <1>5, <1>6 DEF Next, Program, Environment

-----------------------------------------------------------------------------
(* The invariant.                                                          *)

\* A program that has just been started satisfies the invariant.
LEMMA IInit == Init => IInv
<1> SUFFICES ASSUME Init PROVE IInv
  OBVIOUS
<1>1. LInv
  BY LInit
<1>2. /\ Sent = <<>> /\ delivered = <<>> /\ retained = <<>> /\ pc = "load" /\ link = "lost"
  BY DEF Init, Started, Sent
<1>3. DOMAIN retained = {}
  BY <1>2
<1> QED
  BY <1>1, <1>2, <1>3, EmptySeq
     DEF IInv, Facts, Position, DueNow, Checked, OneLeft, Kept, RetainedIsMetadata, InterruptIsClean

\* Every step keeps it.
LEMMA IStep == IInv /\ [Next]_vars => IInv'
BY LStep, FactsStep, PositionStep, DueStep, CheckedStep, OneLeftStep, KeptStep, InterruptCleanStep DEF IInv

\* The invariant holds throughout: it is what the theorems below follow from.
THEOREM Invariance == Spec => []IInv
<1>1. Init => IInv
  BY IInit
<1>2. IInv /\ [Next]_vars => IInv'
  BY IStep
<1> QED
  BY <1>1, <1>2, PTL DEF Spec

\* Every variable has its type.
THEOREM TypeCorrect == Spec => []TypeOK
<1>1. IInv => TypeOK
  BY DEF IInv, LInv
<1> QED
  BY <1>1, Invariance, PTL

\* The packets of a run are the rows of its file, in order, pass after pass,
\* with none twice and none left out, whatever the file, the schema and the
\* interleaving of timers, broker, interrupts and lost connections.
THEOREM InOrder == Spec => []ReplayInOrder
<1>1. IInv => ReplayInOrder
  <2> SUFFICES ASSUME IInv PROVE ReplayInOrder
    OBVIOUS
  <2>1. DOMAIN Sent = 1..Len(Sent)
    BY SentIsSeq, LenProperties DEF IInv
  <2> QED
    BY <2>1 DEF IInv, Facts, Fact, ReplayInOrder
<1> QED
  BY <1>1, Invariance, PTL

\* No packet is handed over before its row's offset into its pass.
THEOREM NeverEarly == Spec => []NotBefore
<1>1. IInv => NotBefore
  <2> SUFFICES ASSUME IInv PROVE NotBefore
    OBVIOUS
  <2>1. DOMAIN Sent = 1..Len(Sent)
    BY SentIsSeq, LenProperties DEF IInv
  <2> QED
    BY <2>1 DEF IInv, Facts, Fact, NotBefore
<1> QED
  BY <1>1, Invariance, PTL

\* Where anything is published, every row of the file is acceptable, and the
\* offsets never go back.
THEOREM WholeFileAccepted == Spec => []AllRowsOrNone
<1>1. IInv => AllRowsOrNone
  BY FileShape DEF IInv, LInv, Loaded, AllRowsOrNone
<1> QED
  BY <1>1, Invariance, PTL

\* The broker retains metadata the schema accepts, under PUB, and nothing else,
\* over every restart with every other file.
THEOREM OnlyMetadataStays == Spec => []RetainedIsMetadata
<1>1. IInv => RetainedIsMetadata
  BY DEF IInv, Kept
<1> QED
  BY <1>1, Invariance, PTL

\* A row that describes another stands before it in the file, and has gone out
\* with it in the same pass: what is retained under its topic is this run's.
THEOREM MetadataOfThisRun == Spec => []ValueUnderItsMetadata
<1>1. IInv => ValueUnderItsMetadata
  <2> SUFFICES ASSUME IInv, Described(scenario), NEW i \in DOMAIN delivered,
                      delivered[i].topic.type = "Value"
               PROVE  /\ MetadataTopic(delivered[i].topic) \in DOMAIN retained
                      /\ retained[MetadataTopic(delivered[i].topic)].run = runs
    BY DEF ValueUnderItsMetadata
  <2> USE DEF IInv
  <2>1. i \in 1..Len(delivered) /\ i \in Nat \ {0}
    BY LenProperties DEF LInv, Channels
  <2>2. Fact(delivered[i], i) /\ Len(Sent) > 0
    BY <2>1, DeliveredFirst, SentIsSeq
  <2> DEFINE n == Len(scenario)
             e == delivered[i].entry
  <2>3. n \in Nat \ {0} /\ DOMAIN scenario = 1..n
    BY <2>2, SentIsSeq, FileShape DEF LInv, Loaded
  <2>4. e = 1 + ((i - 1) % n) /\ delivered[i].topic = scenario[e].topic
    BY <2>2 DEF Fact
  <2>5. e \in 1..n /\ e <= i
    BY <2>1, <2>3, <2>4
  <2>6. PICK j \in 1..(e - 1) : scenario[j].topic = MetadataTopic(delivered[i].topic)
    BY <2>3, <2>4, <2>5 DEF Described
  <2> DEFINE k == i - (e - j)
  <2>7. k \in 1..Len(delivered) /\ (k - 1) % n = j - 1
    <3> HIDE DEF e, n
    <3>1. i - 1 \in Nat /\ e \in Nat /\ j \in Nat \ {0} /\ j < e
      BY <2>1, <2>3, <2>5
    <3>2. (i - 1) % n = e - 1
      BY <2>1, <2>3, <2>4, <3>1
    <3>3. ((i - 1) - (e - j)) % n = ((i - 1) % n) - (e - j)
      <4>1. e - j \in Nat /\ e - j <= (i - 1) % n
        BY <3>1, <3>2
      <4> QED
        BY <2>3, <3>1, <4>1, Earlier
    <3>4. k - 1 = (i - 1) - (e - j) /\ k \in 1..Len(delivered)
      BY <2>1, <2>3, <2>5, <2>6
    <3>5. ((i - 1) % n) - (e - j) = j - 1
      BY <2>1, <2>3, <2>4, <2>6
    <3> QED
      BY <3>3, <3>4, <3>5
  <2>8. Fact(delivered[k], k)
    BY <2>7, DeliveredFirst
  <2>9. delivered[k].topic = MetadataTopic(delivered[i].topic)
    BY <2>6, <2>7, <2>8 DEF Fact
  <2>10. delivered[k].retain
    BY <2>8, <2>9 DEF Fact, MetadataTopic
  <2> QED
    BY <2>7, <2>9, <2>10 DEF Kept
<1> QED
  BY <1>1, Invariance, PTL

\* After the interrupt at most one packet goes out.
THEOREM AtMostOneMore == Spec => []AtMostOneAfterCancel
<1>1. IInv => AtMostOneAfterCancel
  <2> SUFFICES ASSUME IInv PROVE AtMostOneAfterCancel
    OBVIOUS
  <2>1. DOMAIN Sent = 1..Len(Sent)
    BY SentIsSeq, LenProperties DEF IInv
  <2> QED
    BY <2>1 DEF IInv, OneLeft, AtMostOneAfterCancel
<1> QED
  BY <1>1, Invariance, PTL

\* An interrupted program fails only on a lost connection or on a row that it
\* cannot render.
THEOREM CleanInterrupt == Spec => []InterruptIsClean
<1>1. IInv => InterruptIsClean
  BY DEF IInv
<1> QED
  BY <1>1, Invariance, PTL

==============================================================================
