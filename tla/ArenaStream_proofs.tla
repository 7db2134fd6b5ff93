------------------------- MODULE ArenaStream_proofs -------------------------
(***************************************************************************)
(* What a round on one connection shows and saves, for every kind of       *)
(* round, number of tokens and number of instructions, wherever it is      *)
(* stopped, steered, or fails; and, in the second half, that the readers   *)
(* of every wire format (WiredRound) have the same of it.                  *)
(***************************************************************************)
EXTENDS WiredRound, SequenceTheorems, TLAPS

(***************************************************************************)
(* The inductive invariant.                                                *)
(***************************************************************************)
Ended(s) == IF s \in Slots /\ producer[s] = "ended" THEN 1 ELSE 0
Pending  == IF steering THEN 1 ELSE 0   \* accepted, not yet announced

\* The flags, the driver and the counters of the generator agree.
Control ==
  /\ steering => torn /\ completed = 0
  /\ driver = "steered" => steering
  /\ driver # "generating" => Running = {}
  /\ completed =< Ended("A") + Ended("B")
  /\ gen + Pending =< accepted
  /\ \A i \in 1..Len(queue) : queue[i].type = "matchup_done" => completed # 0
  /\ consumer = "done" => driver = "ended"
  /\ failed => consumer # "reading"

\* The end of the response released the matchup.
Released == consumer = "done" => ~live

\* What the reader and the database have of the round.
View == [wire |-> wire, answer |-> answer, over |-> over,
         saved |-> saved, recorded |-> recorded]

\* The same after one more event.
After(v, e) ==
  [wire     |-> CASE e.type = "token" /\ e.slot \in Visible ->
                       [v.wire EXCEPT ![e.slot] = @ \o e.text]
                  [] e.type = "steered" -> [s \in Letters |-> << >>]
                  [] OTHER -> v.wire,
   answer   |-> IF e.type = "slot_done" /\ e.slot \in Visible
                  THEN [v.answer EXCEPT ![e.slot] = e.text] ELSE v.answer,
   over     |-> IF e.type = "matchup_done" THEN "matchup_done" ELSE v.over,
   saved    |-> IF e.type = "slot_done" /\ Persisted /\ v.saved[e.slot] = Absent
                  THEN [v.saved EXCEPT ![e.slot] = e.text] ELSE v.saved,
   recorded |-> IF e.type = "steered" /\ Persisted THEN v.recorded + 1 ELSE v.recorded]

Whole(v) ==
  /\ \A s \in Visible : v.answer[s] # Absent
  /\ Persisted => (\A s \in Slots : v.saved[s] # Absent) /\ v.recorded = accepted

\* An event that may follow what was read so far.
Legal(v, e) ==
  /\ e \in Events
  /\ v.over = None
  /\ e.type = "token" =>
       /\ e.slot \in Visible => v.answer[e.slot] = Absent
       /\ \A s \in Letters : \A i \in DOMAIN v.wire[s] : e.text = <<v.wire[s][i]>>
  /\ e.type = "slot_done" =>
       /\ e.slot \in Visible => v.answer[e.slot] = Absent /\ v.wire[e.slot] = e.text
       /\ Persisted => v.saved[e.slot] = Absent
  /\ e.type = "steered" =>
       /\ \A s \in Letters : v.answer[s] = Absent
       /\ Persisted => v.recorded \in 0..(accepted - 1)
  /\ e.type = "matchup_done" => Whole(v)

\* What will have been read once the queue is empty agrees with what the
\* producers have made and the driver has still to do.
Future(v) ==
  /\ v.wire \in [Letters -> Seq(0..MaxSteers)]
  /\ v.answer \in [Letters -> Texts \cup {Absent}]
  /\ v.saved \in [Letters -> Texts \cup {Absent}]
  /\ v.recorded \in Nat
  /\ v.over \in {None, "matchup_done"}
  /\ v.over = "matchup_done" => driver \in {"done", "ended"}
  /\ \A s \in Letters : \A i \in DOMAIN v.wire[s] : v.wire[s][i] = gen
  /\ driver # "ended" => \A s \in Visible : v.wire[s] = content[s]
  /\ \A s \in Letters : v.answer[s] # Absent =>
       s \in Visible /\ producer[s] = "ended" /\ completed # 0
  /\ \A s \in Letters : v.saved[s] # Absent =>
       s \in Slots /\ producer[s] = "ended" /\ completed # 0
  /\ ~Interrupted => \A s \in Slots : producer[s] = "ended" =>
       /\ s \in Visible => v.answer[s] # Absent
       /\ Persisted => v.saved[s] # Absent
  /\ Persisted => v.recorded + Pending = accepted

\* What is read while the events of q are taken one by one.
Steps(f, q) == \A i \in 1..Len(q) : /\ f[i] = After(f[i - 1], q[i])
                                    /\ Legal(f[i - 1], q[i])

\* The queue leads from u to what the producers have made.
Leads(u) == \E f : f[0] = u /\ Steps(f, queue) /\ Future(f[Len(queue)])

Queued == consumer = "reading" => Leads(View)

\* The reader's side of the invariant.
Reads ==
  /\ wire \in [Letters -> Seq(0..MaxSteers)]
  /\ over = "matchup_done" => completed # 0
  /\ failed /\ consumer # "done" => over = None
  /\ recorded =< accepted
  /\ WireIsAnswer /\ DoneIsWhole
  /\ \A s, t \in Letters : \A i \in DOMAIN wire[s] : \A j \in DOMAIN wire[t] :
       wire[s][i] = wire[t][j]

IndInv == TypeOK /\ Control /\ Released /\ Queued /\ Reads

USE Bounds, KindsAre DEF Letters, None

(***************************************************************************)
(* Types.                                                                  *)
(***************************************************************************)
\* A slot has one letter, and a reader of a slot that is generated.
LEMMA SlotsAre ==
  ASSUME CoreTypeOK
  PROVE  /\ "A" \in Slots /\ Slots \subseteq Letters /\ Visible \subseteq Slots
         /\ kind = "single" => Slots = {"A"}
         /\ kind # "single" => Slots = Letters
BY DEF CoreTypeOK, Slots, Visible

LEMMA TextAbsent == Absent \notin Texts
<1> SUFFICES ASSUME Absent \in Texts PROVE FALSE
  OBVIOUS
<1>1. PICK n \in 0..MaxTokens : Absent \in [1..n -> 0..MaxSteers]
  BY DEF Texts
<1>2. 1 \in DOMAIN Absent /\ Absent[1] = -1 /\ DOMAIN Absent = 1..n
  BY <1>1 DEF Absent
<1> QED BY <1>1, <1>2

LEMMA TextsAre ==
  /\ << >> \in Texts
  /\ \A t \in Texts : /\ t \in Seq(0..MaxSteers) /\ Len(t) =< MaxTokens
                      /\ \A g \in 0..MaxSteers : Len(t) < MaxTokens => Append(t, g) \in Texts
<1>1. << >> \in [1..0 -> 0..MaxSteers]
  OBVIOUS
<1>2. << >> \in Texts
  BY <1>1 DEF Texts
<1>3. ASSUME NEW t \in Texts
      PROVE  /\ t \in Seq(0..MaxSteers) /\ Len(t) =< MaxTokens
             /\ \A g \in 0..MaxSteers : Len(t) < MaxTokens => Append(t, g) \in Texts
  <2>1. PICK n \in 0..MaxTokens : t \in [1..n -> 0..MaxSteers]
    BY DEF Texts
  <2>2. t \in Seq(0..MaxSteers) /\ Len(t) = n
    BY <2>1
  <2>3. ASSUME NEW g \in 0..MaxSteers, Len(t) < MaxTokens PROVE Append(t, g) \in Texts
    <3>1. Append(t, g) \in Seq(0..MaxSteers) /\ Len(Append(t, g)) = n + 1
      BY <2>2, AppendProperties
    <3>2. Append(t, g) \in [1..(n + 1) -> 0..MaxSteers] /\ n + 1 \in 0..MaxTokens
      <4>1. PICK u : u = Append(t, g)
        OBVIOUS
      <4>2. u \in [1..Len(u) -> 0..MaxSteers] /\ Len(u) = n + 1
        BY <3>1, <4>1, LenProperties
      <4> QED BY <2>2, <2>3, <4>1, <4>2
    <3> QED BY <3>2 DEF Texts
  <2> QED BY <2>2, <2>3
<1> QED BY <1>2, <1>3

LEMMA EventsAre ==
  /\ \A s \in Slots, g \in 0..MaxSteers : Event("token", s, <<g>>) \in Events
  /\ \A s \in Slots, t \in Texts : Event("slot_done", s, t) \in Events
  /\ Event("steered", None, << >>) \in Events
  /\ Event("matchup_done", None, << >>) \in Events
BY DEF Events

LEMMA EventIs ==
  ASSUME NEW e \in Events
  PROVE  \/ \E s \in Slots, g \in 0..MaxSteers : e = Event("token", s, <<g>>)
         \/ \E s \in Slots, t \in Texts : e = Event("slot_done", s, t)
         \/ e = Event("steered", None, << >>)
         \/ e = Event("matchup_done", None, << >>)
BY DEF Events

\* The steps of the generator, the queue and the control plane keep the shape
\* of everything but what is read and saved.
CoreStep == Generating \/ PersistFails \/ GeneratorFinally \/ Stop \/ Steer

MakingTypeOK ==
  /\ {live, aborted, stopped, steering, torn, closed, failed} \subseteq BOOLEAN
  /\ completed \in 0..2 /\ gen \in 0..MaxSteers /\ accepted \in 0..MaxSteers
  /\ producer \in [Slots -> {"running", "ended"}]
  /\ content \in [Slots -> Texts]
  /\ driver \in {"generating", "done", "steered", "stopped", "ended"}
  /\ queue \in Seq(Events)
  /\ consumer \in {"reading", "finally", "draining", "done"}
  /\ kind \in Kinds /\ resolves \subseteq Slots /\ server \in {"up", "down"}

Still == UNCHANGED <<round, rows, wire, answer, over>>

LEMMA RoundStands ==
  ASSUME kind' = kind
  PROVE  Slots' = Slots /\ Visible' = Visible /\ Persisted' = Persisted /\ Events' = Events
BY DEF Slots, Visible, Persisted, Events

LEMMA CoreStill == ASSUME CoreStep, UNCHANGED out PROVE Still
BY DEF CoreStep, Still, Generating, Token, ProviderEnds, TornDown, UnhandledRejection,
       DriverEnds, DriverRestarts, PersistFails, GeneratorFinally, Stop, Steer, out, rows

LEMMA TokenType ==
  ASSUME MakingTypeOK, NEW s \in Slots, Token(s) PROVE MakingTypeOK'
<1> USE DEF MakingTypeOK, round, control, flags
<1>1. kind' = kind /\ Slots' = Slots /\ Events' = Events
  BY RoundStands DEF Token
<1>2. content' \in [Slots -> Texts]
  <2>1. Append(content[s], gen) \in Texts
    BY TextsAre DEF Token
  <2> QED BY <2>1 DEF Token
<1>3. queue' \in Seq(Events)
  <2>1. Event("token", s, <<gen>>) \in Events
    BY EventsAre
  <2> QED BY <2>1 DEF Token, Push
<1> QED BY <1>1, <1>2, <1>3 DEF Token

LEMMA LeavesType ==
  ASSUME MakingTypeOK, NEW s \in Slots, NEW outcome \in {"done", "steered", "stopped"},
         Leaves(s, outcome)
  PROVE  /\ producer' \in [Slots -> {"running", "ended"}]
         /\ driver' \in {"generating", "done", "steered", "stopped", "ended"}
BY DEF MakingTypeOK, Leaves

LEMMA EndsType ==
  ASSUME MakingTypeOK, Control, NEW s \in Slots, ProviderEnds(s) PROVE MakingTypeOK'
<1> USE DEF MakingTypeOK, round, control, flags
<1>1. kind' = kind /\ Slots' = Slots /\ Events' = Events
  BY RoundStands DEF ProviderEnds
<1>2. queue' \in Seq(Events)
  <2>1. content[s] \in Texts
    OBVIOUS
  <2>2. Event("slot_done", s, content[s]) \in Events /\ Event("matchup_done", None, << >>) \in Events
    BY <2>1, EventsAre
  <2> QED BY <2>2 DEF ProviderEnds, Push
<1>3. completed' \in 0..2
  <2>1. producer[s] = "running" /\ s \in {"A", "B"}
    BY DEF ProviderEnds, Running, Slots
  <2>2. completed =< 1
    BY <2>1 DEF Control, Ended
  <2> QED BY <2>2 DEF ProviderEnds
<1>4. /\ producer' \in [Slots -> {"running", "ended"}]
      /\ driver' \in {"generating", "done", "steered", "stopped", "ended"}
  BY LeavesType DEF ProviderEnds
<1> QED BY <1>1, <1>2, <1>3, <1>4 DEF ProviderEnds

LEMMA RestartsType ==
  ASSUME MakingTypeOK, Control, DriverRestarts PROVE MakingTypeOK'
<1> USE DEF MakingTypeOK, round, control, flags
<1>1. kind' = kind /\ Slots' = Slots /\ Events' = Events
  BY RoundStands DEF DriverRestarts
<1>2. queue' \in Seq(Events)
  <2>1. Event("steered", None, << >>) \in Events
    BY EventsAre
  <2> QED BY <2>1 DEF DriverRestarts, Announce, Push
<1>3. CASE Halted
  BY <1>1, <1>2, <1>3 DEF DriverRestarts, making
<1>4. CASE ~Halted
  <2>1. gen + 1 \in 0..MaxSteers
    BY DEF Control, Pending, DriverRestarts
  <2>2. content' \in [Slots -> Texts]
    BY <1>4, TextsAre DEF DriverRestarts, Restart
  <2>3. producer' \in [Slots -> {"running", "ended"}]
    BY <1>4 DEF DriverRestarts, Restart
  <2>4. /\ gen' = gen + 1 /\ completed' = 0 /\ torn' = FALSE /\ steering' = FALSE
        /\ driver' = "generating"
        /\ UNCHANGED <<kind, resolves, server, live, aborted, accepted, stopped, closed,
                       consumer, failed>>
    BY <1>4 DEF DriverRestarts, Restart
  <2>5. {live', aborted', stopped', steering', torn', closed', failed'} \subseteq BOOLEAN
    BY <2>4
  <2>6. completed' \in 0..2 /\ gen' \in 0..MaxSteers /\ accepted' \in 0..MaxSteers
    BY <2>1, <2>4
  <2>7. /\ driver' \in {"generating", "done", "steered", "stopped", "ended"}
        /\ consumer' \in {"reading", "finally", "draining", "done"}
        /\ kind' \in Kinds /\ resolves' \subseteq Slots' /\ server' \in {"up", "down"}
    BY <1>1, <2>4
  <2>8. producer' \in [Slots' -> {"running", "ended"}] /\ content' \in [Slots' -> Texts']
    BY <1>1, <2>2, <2>3 DEF Texts
  <2> QED BY <1>2, <2>5, <2>6, <2>7, <2>8, <1>1
<1> QED BY <1>3, <1>4

LEMMA CoreType ==
  ASSUME MakingTypeOK, Control, CoreStep PROVE MakingTypeOK'
<1>1. ASSUME NEW s \in Slots, TornDown(s) PROVE MakingTypeOK'
  <2>1. kind' = kind /\ Slots' = Slots /\ Events' = Events
    BY <1>1, RoundStands DEF TornDown, round
  <2>2. /\ producer' \in [Slots -> {"running", "ended"}]
        /\ driver' \in {"generating", "done", "steered", "stopped", "ended"}
    BY <1>1, LeavesType DEF TornDown
  <2> QED BY <1>1, <2>1, <2>2 DEF TornDown, MakingTypeOK, round, control, flags
<1>2. CASE UnhandledRejection
  <2>1. kind' = kind /\ Slots' = Slots /\ Events' = Events
    BY <1>2, RoundStands DEF UnhandledRejection, round
  <2> QED BY <1>2, <2>1 DEF UnhandledRejection, MakingTypeOK, round, control, making, flags
<1>3. CASE DriverEnds \/ GeneratorFinally \/ PersistFails
  <2>1. kind' = kind /\ Slots' = Slots /\ Events' = Events
    BY <1>3, RoundStands DEF DriverEnds, GeneratorFinally, PersistFails, round
  <2> QED BY <1>3, <2>1 DEF DriverEnds, Close, GeneratorFinally, Unwind, PersistFails,
             MakingTypeOK, round, control, making, flags
<1>4. CASE Stop \/ Steer
  <2>1. kind' = kind /\ Slots' = Slots /\ Events' = Events
    BY <1>4, RoundStands DEF Stop, Steer, round
  <2>2. CASE Stop
    BY <2>1, <2>2 DEF Stop, Close, MakingTypeOK, round, making
  <2>3. CASE Steer
    <3>1. accepted' \in 0..MaxSteers
      BY <2>3 DEF Steer, MakingTypeOK
    <3> QED BY <2>1, <2>3, <3>1 DEF Steer, MakingTypeOK, round, making
  <2> QED BY <1>4, <2>2, <2>3
<1> QED BY <1>1, <1>2, <1>3, <1>4, TokenType, EndsType, RestartsType DEF CoreStep, Generating

(***************************************************************************)
(* The flags, the driver and the counters.                                 *)
(***************************************************************************)
\* Events appended to the queue that say nothing of the end.
LEMMA QueueGrows ==
  ASSUME NEW q \in Seq(Events), NEW e \in Events, NEW P,
         \A i \in 1..Len(q) : q[i].type = "matchup_done" => P,
         e.type = "matchup_done" => P
  PROVE  \A i \in 1..Len(Append(q, e)) : Append(q, e)[i].type = "matchup_done" => P
<1>1. Len(Append(q, e)) = Len(q) + 1 /\ Append(q, e)[Len(q) + 1] = e
      /\ \A i \in 1..Len(q) : Append(q, e)[i] = q[i]
  BY AppendProperties
<1> QED BY <1>1

LEMMA LastLeaves ==
  ASSUME MakingTypeOK, NEW s \in Running, NEW outcome, Leaves(s, outcome)
  PROVE  /\ producer' = [producer EXCEPT ![s] = "ended"]
         /\ driver' = IF Running = {s} THEN outcome ELSE driver
         /\ Slots' = Slots => Running' = Running \ {s}
BY DEF MakingTypeOK, Leaves, Running

LEMMA ControlToken ==
  ASSUME MakingTypeOK, Control, NEW s \in Slots, Token(s) PROVE Control'
<1>1. Slots' = Slots
  BY RoundStands DEF Token, round
<1>2. queue' = Append(queue, Event("token", s, <<gen>>)) /\ queue \in Seq(Events)
      /\ Event("token", s, <<gen>>) \in Events
  BY EventsAre DEF Token, Push, MakingTypeOK
<1>3. \A i \in 1..Len(queue') : queue'[i].type = "matchup_done" => completed # 0
  BY <1>2, QueueGrows DEF Control, Event
<1> QED BY <1>1, <1>3 DEF Token, Control, control, flags, Pending, Ended, Running

LEMMA ControlEnds ==
  ASSUME MakingTypeOK, Control, NEW s \in Slots, ProviderEnds(s) PROVE Control'
<1>1. Slots' = Slots /\ s \in Running /\ s \in {"A", "B"} /\ completed \in Nat
  BY RoundStands DEF ProviderEnds, round, Slots, MakingTypeOK
<1>2. /\ completed' = completed + 1 /\ ~Interrupted /\ Leaves(s, "done")
      /\ UNCHANGED <<gen, accepted, live, stopped, steering, torn, consumer, failed>>
  BY DEF ProviderEnds, control, flags
<1>3. /\ producer' = [producer EXCEPT ![s] = "ended"]
      /\ driver' = (IF Running = {s} THEN "done" ELSE driver)
      /\ Running' = Running \ {s}
  BY <1>1, <1>2, LastLeaves
<1>4. completed' =< Ended("A")' + Ended("B")'
  <2>1. \A o \in {"A", "B"} : Ended(o)' = IF o = s THEN 1 ELSE Ended(o)
    BY <1>1, <1>3 DEF Ended, MakingTypeOK
  <2>2. Ended(s) = 0 /\ Ended("A") \in 0..1 /\ Ended("B") \in 0..1
    BY <1>1 DEF Ended, Running
  <2> QED BY <1>1, <1>2, <2>1, <2>2 DEF Control
<1>5. completed' # 0
  BY <1>1, <1>2
<1>6. driver = "generating" /\ ~steering
  BY <1>1, <1>2 DEF Control, Interrupted
<1>7. ~steering' /\ driver' \in {"generating", "done"} /\ (driver' # "generating" => Running' = {})
  BY <1>2, <1>3, <1>6
<1>8. consumer # "done"
  BY <1>6 DEF Control
<1> QED BY <1>2, <1>4, <1>5, <1>6, <1>7, <1>8 DEF Control, Pending

LEMMA ControlTorn ==
  ASSUME MakingTypeOK, Control, NEW s \in Slots, TornDown(s) PROVE Control'
<1>1. Slots' = Slots /\ s \in Running /\ s \in {"A", "B"}
  BY RoundStands DEF TornDown, round, Slots
<1>2. /\ Leaves(s, IF steering THEN "steered" ELSE "stopped")
      /\ UNCHANGED <<completed, gen, accepted, live, stopped, steering, torn, consumer, failed,
                     queue>>
  BY DEF TornDown, control, flags
<1>3. /\ producer' = [producer EXCEPT ![s] = "ended"]
      /\ driver' = (IF Running = {s} THEN IF steering THEN "steered" ELSE "stopped" ELSE driver)
      /\ Running' = Running \ {s}
  BY <1>1, <1>2, LastLeaves
<1>4. Ended("A") + Ended("B") =< Ended("A")' + Ended("B")'
      /\ Ended("A") + Ended("B") \in Nat /\ Ended("A")' + Ended("B")' \in Nat
  BY <1>1, <1>3 DEF Ended, MakingTypeOK
<1>5. completed \in Nat /\ completed' =< Ended("A")' + Ended("B")'
  BY <1>2, <1>4 DEF MakingTypeOK, Control
<1>6. driver = "generating"
  BY <1>1 DEF Control
<1>7. driver' = "steered" => steering
  BY <1>3, <1>6
<1>8. driver' # "generating" => Running' = {}
  BY <1>3, <1>6
<1> QED BY <1>2, <1>5, <1>6, <1>7, <1>8 DEF Control, Pending

LEMMA ControlRestarts ==
  ASSUME MakingTypeOK, Control, DriverRestarts PROVE Control'
<1>1. Slots' = Slots /\ steering /\ completed = 0 /\ Running = {}
  BY RoundStands DEF DriverRestarts, round, Control
<1>2. queue' = Append(queue, Event("steered", None, << >>)) /\ queue \in Seq(Events)
      /\ Event("steered", None, << >>) \in Events
  BY EventsAre DEF DriverRestarts, Announce, Push, MakingTypeOK
<1>3. \A i \in 1..Len(queue') : queue'[i].type = "matchup_done" => FALSE
  BY <1>1, <1>2, QueueGrows DEF Control, Event
<1>4. consumer # "done" /\ ~steering'
      /\ UNCHANGED <<accepted, live, stopped, consumer, failed>>
  BY DEF DriverRestarts, Control, control
<1>5. gen \in Nat /\ accepted \in Nat
  BY DEF MakingTypeOK
<1>6. CASE Halted
  <2>1. driver' = "ended" /\ UNCHANGED <<gen, producer, completed, torn>>
    BY <1>6 DEF DriverRestarts, making
  <2>2. Running' = Running /\ completed' =< Ended("A")' + Ended("B")'
    BY <1>1, <2>1 DEF Running, Ended, Control
  <2>3. gen' + Pending' =< accepted'
    BY <1>1, <1>4, <1>5, <2>1 DEF Control, Pending
  <2> QED BY <1>1, <1>3, <1>4, <2>1, <2>2, <2>3 DEF Control
<1>7. CASE ~Halted
  <2>1. driver' = "generating" /\ gen' = gen + 1 /\ completed' = 0
    BY <1>7 DEF DriverRestarts, Restart
  <2>2. Ended("A")' \in 0..1 /\ Ended("B")' \in 0..1
    BY DEF Ended
  <2>3. gen' + Pending' =< accepted'
    BY <1>1, <1>4, <1>5, <2>1 DEF Control, Pending
  <2> QED BY <1>3, <1>4, <2>1, <2>2, <2>3 DEF Control
<1> QED BY <1>6, <1>7

LEMMA ControlRest ==
  ASSUME MakingTypeOK, Control,
         \/ UnhandledRejection \/ DriverEnds \/ GeneratorFinally \/ PersistFails
         \/ Stop \/ Steer
  PROVE  Control'
<1>1. CASE UnhandledRejection
  <2>1. Slots' = Slots
    BY <1>1, RoundStands DEF UnhandledRejection, round
  <2> QED BY <1>1, <2>1 DEF UnhandledRejection, Control, control, making, flags, Pending, Ended,
             Running
<1>2. CASE DriverEnds
  <2>1. Slots' = Slots
    BY <1>2, RoundStands DEF DriverEnds, round
  <2> QED BY <1>2, <2>1 DEF DriverEnds, Close, Control, control, making, flags, Pending, Ended,
             Running
<1>3. CASE GeneratorFinally
  <2>1. Slots' = Slots
    BY <1>3, RoundStands DEF GeneratorFinally, round
  <2> QED BY <1>3, <2>1 DEF GeneratorFinally, Unwind, Control, control, making, Pending, Ended,
             Running
<1>4. CASE PersistFails
  <2>1. Slots' = Slots
    BY <1>4, RoundStands DEF PersistFails, round
  <2> QED BY <1>4, <2>1 DEF PersistFails, Control, control, making, flags, Pending, Ended,
             Running
<1>5. CASE Stop
  <2>1. Slots' = Slots
    BY <1>5, RoundStands DEF Stop, round
  <2> QED BY <1>5, <2>1 DEF Stop, Close, Control, making, Pending, Ended, Running
<1>6. CASE Steer
  <2>1. Slots' = Slots
    BY <1>6, RoundStands DEF Steer, round
  <2>2. completed = 0 /\ accepted' = accepted + 1 /\ gen' = gen /\ Pending' = 1 /\ gen =< accepted
    BY <1>6 DEF Steer, AcceptsSteer, making, Pending, Control, MakingTypeOK
  <2>3. gen' + Pending' =< accepted'
    BY <2>2 DEF MakingTypeOK
  <2> QED BY <1>6, <2>1, <2>2, <2>3 DEF Steer, Control, making, Ended, Running
<1> QED BY <1>1, <1>2, <1>3, <1>4, <1>5, <1>6

LEMMA ControlTaken ==
  ASSUME MakingTypeOK, Control, Take
  PROVE  MakingTypeOK' /\ Control'
<1>1. Slots' = Slots /\ Events' = Events
  BY RoundStands DEF Take, round
<1>2. /\ queue # << >> /\ queue' = Tail(queue) /\ queue \in Seq(Events)
      /\ consumer = "reading" /\ consumer' \in {"reading", "finally"}
      /\ UNCHANGED <<round, server, control, making, flags, driver, closed, failed>>
  BY DEF Take, Dealt, MakingTypeOK
<1>3. /\ queue' \in Seq(Events) /\ Len(queue') = Len(queue) - 1 /\ Len(queue) \in Nat
      /\ \A i \in 1..Len(queue') : queue'[i] = queue[i + 1]
  BY <1>2, HeadTailProperties
<1>4. \A i \in 1..Len(queue') : queue'[i].type = "matchup_done" => completed' # 0
  <2> SUFFICES ASSUME NEW i \in 1..Len(queue'), queue'[i].type = "matchup_done"
               PROVE  completed' # 0
    OBVIOUS
  <2>1. i + 1 \in 1..Len(queue) /\ queue'[i] = queue[i + 1] /\ completed' = completed
    BY <1>2, <1>3 DEF making
  <2> QED BY <2>1 DEF Control
<1>5. MakingTypeOK'
  BY <1>1, <1>2, <1>3 DEF MakingTypeOK, round, control, making, flags, Texts
<1> QED BY <1>1, <1>2, <1>4, <1>5 DEF Control, control, making, flags, Pending, Ended, Running

\* The loop was left; the end of a response may forget the matchup.
LEMMA ControlLeft ==
  ASSUME MakingTypeOK, Control, LoopEnds, live' \in BOOLEAN,
         UNCHANGED <<round, server, aborted, accepted, making, flags, driver, queue, closed, failed>>
  PROVE  MakingTypeOK' /\ Control'
<1>1. Slots' = Slots /\ Events' = Events
  BY RoundStands DEF round
<1> QED BY <1>1 DEF LoopEnds, MakingTypeOK, Control, round, making, flags, Pending, Ended, Running,
           Texts

LEMMA StillStutters ==
  ASSUME UNCHANGED vars
  PROVE  /\ UNCHANGED <<kind, resolves, server, live, aborted, accepted, gen, producer, content,
                        completed, stopped, steering, torn, driver, queue, closed, consumer,
                        failed, saved, recorded, wire, answer, over>>
         /\ Slots' = Slots /\ Visible' = Visible /\ Persisted' = Persisted /\ Events' = Events
<1>1. UNCHANGED <<kind, resolves, server, live, aborted, accepted, gen, producer, content,
                  completed, stopped, steering, torn, driver, queue, closed, consumer,
                  failed, saved, recorded, wire, answer, over>>
  BY DEF vars, core, out, round, control, making, flags, rows
<1> QED BY <1>1, RoundStands

LEMMA ControlCore ==
  ASSUME MakingTypeOK, Control, CoreStep PROVE MakingTypeOK' /\ Control'
<1>1. MakingTypeOK'
  BY CoreType
<1> QED BY <1>1, ControlToken, ControlEnds, ControlTorn, ControlRestarts, ControlRest
        DEF CoreStep, Generating

LEMMA ControlNext ==
  ASSUME MakingTypeOK, Control, Released, [Next]_vars
  PROVE  MakingTypeOK' /\ Control' /\ Released'
<1>1. CASE CoreStep /\ UNCHANGED out
  <2>1. live' = live /\ (consumer' = "done" => consumer = "done")
    BY <1>1 DEF CoreStep, Generating, Token, ProviderEnds, TornDown, UnhandledRejection,
           DriverEnds, DriverRestarts, PersistFails, GeneratorFinally, Stop, Steer, Close, control
  <2> QED BY <1>1, <2>1, ControlCore DEF Released
<1>2. CASE Deliver
  <2>1. consumer' # "done"
    BY <1>2 DEF Deliver, Take, Dealt
  <2> QED BY <1>2, <2>1, ControlTaken DEF Deliver, Released
<1>3. CASE EndResponse
  <2>1. LoopEnds /\ live' = FALSE
        /\ UNCHANGED <<round, server, aborted, accepted, making, flags, driver, queue, closed, failed>>
    BY <1>3 DEF EndResponse
  <2> QED BY <2>1, ControlLeft DEF Released
<1>4. CASE UNCHANGED vars
  BY <1>4, StillStutters DEF MakingTypeOK, Control, Released, Pending, Ended, Running, Texts
<1> QED BY <1>1, <1>2, <1>3, <1>4 DEF Next, CoreStep

LEMMA ControlInit == CoreInit => MakingTypeOK /\ Control
<1> SUFFICES ASSUME CoreInit PROVE MakingTypeOK /\ Control
  OBVIOUS
<1>1. << >> \in Texts /\ << >> \in Seq(Events) /\ Len(<< >>) = 0
  BY TextsAre
<1>2. {live, aborted, stopped, steering, torn, closed, failed} \subseteq BOOLEAN
  BY DEF CoreInit
<1>3. completed \in 0..2 /\ gen \in 0..MaxSteers /\ accepted \in 0..MaxSteers
  BY DEF CoreInit
<1>4. producer \in [Slots -> {"running", "ended"}] /\ content \in [Slots -> Texts]
  BY <1>1 DEF CoreInit
<1>5. MakingTypeOK
  BY <1>1, <1>2, <1>3, <1>4 DEF CoreInit, MakingTypeOK
<1>6. Ended("A") \in Nat /\ Ended("B") \in Nat
  BY DEF Ended
<1>7. Control
  BY <1>1, <1>6 DEF CoreInit, Control, Pending
<1> QED BY <1>5, <1>7

THEOREM ControlAlways == Spec => [](MakingTypeOK /\ Control /\ Released)
<1>1. Init => MakingTypeOK /\ Control /\ Released
  BY ControlInit DEF Init, CoreInit, Released
<1> QED BY <1>1, ControlNext, PTL DEF Spec

\* When the response of streamRound has ended, no producer runs behind it and
\* the registry has forgotten the matchup.
THEOREM NothingBehind == Spec => []NothingRunsBehind
<1>1. Control /\ Released => NothingRunsBehind
  BY DEF Control, Released, NothingRunsBehind
<1> QED BY <1>1, ControlAlways, PTL

\* An acknowledged stop is final: the driver never starts a generation after
\* the matchup's controller was aborted.
THEOREM StopFinal == Spec => StopHolds
<1>1. [Next]_vars => [aborted => gen' = gen]_vars
  <2> SUFFICES ASSUME Next, aborted PROVE gen' = gen
    OBVIOUS
  <2> QED BY DEF Next, Generating, Token, ProviderEnds, TornDown, UnhandledRejection, DriverEnds,
             DriverRestarts, Halted, PersistFails, GeneratorFinally, Stop, Steer, Deliver, Take,
             EndResponse, making
<1> QED BY <1>1, PTL DEF Spec, StopHolds
(***************************************************************************)
(* Chains of views.                                                        *)
(***************************************************************************)
\* An accepted instruction changes no law but that of a whole round.
LEMMA SameLaw ==
  ASSUME NEW v, NEW e, Legal(v, e), kind' = kind, accepted \in Nat, accepted' \in Nat,
         accepted =< accepted', e.type = "matchup_done" => accepted' = accepted
  PROVE  Legal(v, e)' /\ After(v, e)' = After(v, e)
<1>1. Slots' = Slots /\ Visible' = Visible /\ Persisted' = Persisted /\ Events' = Events
  BY RoundStands
<1>2. e.type = "matchup_done" => Whole(v)'
  <2> SUFFICES ASSUME e.type = "matchup_done" PROVE Whole(v)'
    OBVIOUS
  <2>1. Whole(v) /\ accepted' = accepted
    BY DEF Legal
  <2> QED BY <1>1, <2>1 DEF Whole
<1>3. e.type = "steered" /\ Persisted => v.recorded \in 0..(accepted' - 1)
  BY DEF Legal
<1>4. Legal(v, e)'
  BY <1>1, <1>2, <1>3 DEF Legal
<1> QED BY <1>1, <1>4 DEF After

LEMMA StepsCarry ==
  ASSUME NEW f, NEW q, Steps(f, q), kind' = kind, accepted \in Nat, accepted' \in Nat,
         accepted =< accepted',
         \A i \in 1..Len(q) : q[i].type = "matchup_done" => accepted' = accepted
  PROVE  Steps(f, q)'
<1> SUFFICES ASSUME NEW i \in 1..Len(q) PROVE (f[i] = After(f[i - 1], q[i]))' /\ Legal(f[i - 1], q[i])'
  BY DEF Steps
<1>1. PICK v : v = f[i - 1]
  OBVIOUS
<1>2. PICK e : e = q[i]
  OBVIOUS
<1>3. f[i] = After(v, e) /\ Legal(v, e)
  BY <1>1, <1>2 DEF Steps
<1>4. Legal(v, e)' /\ After(v, e)' = After(v, e)
  BY <1>2, <1>3, SameLaw
<1> QED BY <1>1, <1>2, <1>3, <1>4

LEMMA StepsPushed ==
  ASSUME NEW f, NEW q \in Seq(Events), NEW e \in Events, Steps(f, q), Legal(f[Len(q)], e)
  PROVE  \E g : /\ g[0] = f[0] /\ Steps(g, Append(q, e))
                /\ g[Len(q) + 1] = After(f[Len(q)], e)
<1> DEFINE n == Len(q)
           g == [i \in 0..(n + 1) |-> IF i =< n THEN f[i] ELSE After(f[n], e)]
           r == Append(q, e)
<1>1. n \in Nat /\ Len(r) = n + 1 /\ r[n + 1] = e /\ \A i \in 1..n : r[i] = q[i]
  BY AppendProperties
<1>2. g[0] = f[0] /\ g[n + 1] = After(f[n], e) /\ \A i \in 0..n : g[i] = f[i]
  BY <1>1
<1>3. Steps(g, r)
  <2> SUFFICES ASSUME NEW i \in 1..Len(r) PROVE g[i] = After(g[i - 1], r[i]) /\ Legal(g[i - 1], r[i])
    BY DEF Steps
  <2> HIDE DEF g, r
  <2>1. CASE i \in 1..n
    <3>1. g[i] = f[i] /\ g[i - 1] = f[i - 1] /\ r[i] = q[i]
      BY <1>1, <1>2, <2>1
    <3>2. f[i] = After(f[i - 1], q[i]) /\ Legal(f[i - 1], q[i])
      BY <2>1 DEF Steps
    <3> QED BY <3>1, <3>2
  <2>2. CASE i = n + 1
    <3>1. g[i] = After(f[n], e) /\ g[i - 1] = f[n] /\ r[i] = e
      BY <1>1, <1>2, <2>2
    <3> QED BY <3>1
  <2> QED BY <1>1, <2>1, <2>2
<1> QED BY <1>2, <1>3

LEMMA StepsTaken ==
  ASSUME NEW f, NEW q \in Seq(Events), q # << >>, Steps(f, q)
  PROVE  /\ Legal(f[0], Head(q))
         /\ \E g : /\ g[0] = After(f[0], Head(q)) /\ Steps(g, Tail(q))
                   /\ g[Len(Tail(q))] = f[Len(q)]
<1> DEFINE n == Len(q)
           g == [i \in 0..(n - 1) |-> f[i + 1]]
           r == Tail(q)
<1>1. n \in Nat /\ n >= 1 /\ Len(r) = n - 1 /\ Head(q) = q[1] /\ \A i \in 1..(n - 1) : r[i] = q[i + 1]
  BY HeadTailProperties
<1>2. \A i \in 0..(n - 1) : g[i] = f[i + 1]
  OBVIOUS
<1> HIDE DEF g, r
<1>3. Legal(f[0], q[1]) /\ f[1] = After(f[0], q[1])
  <2>1. 1 \in 1..Len(q) /\ 1 - 1 = 0
    BY <1>1
  <2>2. f[1] = After(f[1 - 1], q[1]) /\ Legal(f[1 - 1], q[1])
    BY <2>1 DEF Steps
  <2> QED BY <2>1, <2>2
<1>4. g[0] = f[1] /\ g[n - 1] = f[n]
  <2>1. 0 \in 0..(n - 1) /\ n - 1 \in 0..(n - 1) /\ 0 + 1 = 1 /\ (n - 1) + 1 = n
    BY <1>1
  <2> QED BY <1>2, <2>1
<1>5. Steps(g, r)
  <2> SUFFICES ASSUME NEW i \in 1..Len(r) PROVE g[i] = After(g[i - 1], r[i]) /\ Legal(g[i - 1], r[i])
    BY DEF Steps
  <2>1. /\ i + 1 \in 1..Len(q) /\ r[i] = q[i + 1] /\ (i + 1) - 1 = i
        /\ i \in 0..(n - 1) /\ i - 1 \in 0..(n - 1) /\ (i - 1) + 1 = i
    BY <1>1
  <2>2. f[i + 1] = After(f[i], q[i + 1]) /\ Legal(f[i], q[i + 1])
    BY <2>1 DEF Steps
  <2>3. g[i] = f[i + 1] /\ g[i - 1] = f[i]
    BY <1>2, <2>1
  <2> QED BY <2>1, <2>2, <2>3
<1> QED BY <1>1, <1>3, <1>4, <1>5 DEF r

\* The chain after a step that pushes one event, or two, or none.
LEMMA LeadsPushes ==
  ASSUME MakingTypeOK, NEW u, Leads(u), NEW e \in Events,
         kind' = kind, accepted' = accepted, queue' = Append(queue, e),
         \A v : Future(v) => Legal(v, e) /\ Future(After(v, e))'
  PROVE  Leads(u)'
<1>1. PICK q : q = queue
  OBVIOUS
<1>2. PICK f : f[0] = u /\ Steps(f, q) /\ Future(f[Len(q)])
  BY <1>1 DEF Leads
<1>3. PICK v : v = f[Len(q)]
  OBVIOUS
<1>4. q \in Seq(Events) /\ accepted \in Nat
  BY <1>1 DEF MakingTypeOK
<1>5. Legal(v, e) /\ Future(After(v, e))'
  BY <1>2, <1>3
<1>6. PICK g : g[0] = f[0] /\ Steps(g, Append(q, e)) /\ g[Len(q) + 1] = After(v, e)
  BY <1>2, <1>3, <1>4, <1>5, StepsPushed
<1>7. PICK r : r = Append(q, e)
  OBVIOUS
<1>8. Len(r) = Len(q) + 1 /\ queue' = r
  BY <1>1, <1>4, <1>7, AppendProperties
<1>9. Steps(g, r)'
  BY <1>4, <1>6, <1>7, StepsCarry
<1>10. After(v, e)' = After(v, e)
  BY <1>4, <1>5, SameLaw
<1>11. g[0] = u /\ Future(g[Len(r)])'
  BY <1>2, <1>5, <1>6, <1>8, <1>10
<1> QED BY <1>8, <1>9, <1>11 DEF Leads

LEMMA LeadsKeeps ==
  ASSUME MakingTypeOK, MakingTypeOK', NEW u, Leads(u),
         kind' = kind, accepted =< accepted', queue' = queue,
         \A i \in 1..Len(queue) : queue[i].type = "matchup_done" => accepted' = accepted,
         \A v : Future(v) => Future(v)'
  PROVE  Leads(u)'
<1>1. PICK q : q = queue
  OBVIOUS
<1>2. PICK f : f[0] = u /\ Steps(f, q) /\ Future(f[Len(q)])
  BY <1>1 DEF Leads
<1>3. PICK v : v = f[Len(q)]
  OBVIOUS
<1>4. accepted \in Nat /\ accepted' \in Nat
  BY DEF MakingTypeOK
<1>5. Steps(f, q)'
  BY <1>1, <1>2, <1>4, StepsCarry
<1>6. f[0] = u /\ Future(v)' /\ queue' = q
  BY <1>1, <1>2, <1>3
<1> QED BY <1>3, <1>5, <1>6 DEF Leads
(***************************************************************************)
(* What a step makes is what will be read.                                 *)
(***************************************************************************)
LEMMA FutureToken ==
  ASSUME MakingTypeOK, Control, NEW s \in Slots, Token(s), NEW v, Future(v),
         NEW e, e = Event("token", s, <<gen>>)
  PROVE  Legal(v, e) /\ Future(After(v, e))'
<1>1. /\ Slots' = Slots /\ Visible' = Visible /\ Persisted' = Persisted /\ Events' = Events
      /\ s \in Letters /\ Visible \subseteq Slots /\ Slots \subseteq Letters
  BY RoundStands, SlotsAre DEF Token, round, Slots, Visible
<1>2. /\ s \in Running /\ ~Interrupted /\ driver = "generating" /\ producer[s] # "ended"
      /\ content' = [content EXCEPT ![s] = Append(@, gen)]
      /\ UNCHANGED <<gen, producer, completed, accepted, driver, stopped, aborted, steering, torn>>
  BY DEF Token, Control, Running, control, flags
<1>3. e \in Events /\ e.type = "token" /\ e.slot = s /\ e.text = <<gen>> /\ gen \in 0..MaxSteers
  BY EventsAre DEF Event, MakingTypeOK
<1>4. v.over = None
  BY <1>2 DEF Future
<1>5. s \in Visible => v.answer[s] = Absent
  BY <1>1, <1>2 DEF Future
<1>6. \A t \in Letters : \A i \in DOMAIN v.wire[t] : e.text = <<v.wire[t][i]>>
  BY <1>3 DEF Future
<1>7. Legal(v, e)
  BY <1>3, <1>4, <1>5, <1>6 DEF Legal
<1> DEFINE w == IF s \in Visible THEN [v.wire EXCEPT ![s] = @ \o <<gen>>] ELSE v.wire
<1>8. PICK x : x = w
  OBVIOUS
<1>9. PICK y : y = After(v, e)'
  OBVIOUS
<1>10. y.wire = x /\ y.answer = v.answer /\ y.over = v.over /\ y.saved = v.saved
       /\ y.recorded = v.recorded
  BY <1>1, <1>3, <1>8, <1>9 DEF After
<1>11. /\ x \in [Letters -> Seq(0..MaxSteers)]
       /\ \A t \in Letters : \A i \in DOMAIN x[t] : x[t][i] = gen
  <2>1. v.wire \in [Letters -> Seq(0..MaxSteers)] /\ v.wire[s] \in Seq(0..MaxSteers)
        /\ \A t \in Letters : \A i \in DOMAIN v.wire[t] : v.wire[t][i] = gen
    BY <1>1 DEF Future
  <2>2. PICK u : u = v.wire[s] \o <<gen>>
    OBVIOUS
  <2>3. u \in Seq(0..MaxSteers) /\ \A i \in DOMAIN u : u[i] = gen
    <3>1. PICK z : z = v.wire[s]
      OBVIOUS
    <3>2. z \in Seq(0..MaxSteers) /\ u = z \o <<gen>> /\ \A i \in DOMAIN z : z[i] = gen
      BY <1>1, <2>1, <2>2, <3>1
    <3>3. u = Append(z, gen)
      BY <1>3, <3>2
    <3> QED BY <1>3, <3>2, <3>3, AppendProperties
  <2>4. x = v.wire \/ x = [v.wire EXCEPT ![s] = u]
    BY <1>8, <2>2
  <2> QED BY <1>1, <2>1, <2>3, <2>4
<1>12. \A t \in Visible : x[t] = content'[t]
  <2> SUFFICES ASSUME NEW t \in Visible PROVE x[t] = content'[t]
    OBVIOUS
  <2>1. v.wire[t] = content[t] /\ content[t] \in Seq(0..MaxSteers) /\ t \in Slots /\ t \in Letters
    BY <1>1, <1>2, TextsAre DEF Future, MakingTypeOK
  <2>2. CASE t = s
    <3>1. x[s] = v.wire[s] \o <<gen>>
      BY <1>1, <1>8, <2>2 DEF Future
    <3>2. content'[s] = Append(content[s], gen)
      BY <1>2 DEF MakingTypeOK
    <3>3. content[s] \o <<gen>> = Append(content[s], gen)
      BY <1>3, <2>1, <2>2
    <3> QED BY <2>1, <2>2, <3>1, <3>2, <3>3
  <2>3. CASE t # s
    <3>1. x[t] = v.wire[t]
      BY <1>1, <1>8, <2>1, <2>3 DEF Future
    <3> QED BY <1>2, <2>1, <2>3, <3>1 DEF MakingTypeOK
  <2> QED BY <2>2, <2>3
<1>13. Future(y)'
  <2>1. /\ y.wire \in [Letters -> Seq(0..MaxSteers)]
        /\ \A t \in Letters : \A i \in DOMAIN y.wire[t] : y.wire[t][i] = gen'
        /\ \A t \in Visible : y.wire[t] = content'[t]
    BY <1>2, <1>10, <1>11, <1>12
  <2>2. UNCHANGED <<Interrupted, Pending>>
    BY <1>2 DEF Interrupted, Pending
  <2> QED BY <1>1, <1>2, <1>10, <2>1, <2>2 DEF Future
<1> QED BY <1>7, <1>9, <1>13

LEMMA FutureTorn ==
  ASSUME MakingTypeOK, Control, NEW s \in Slots, TornDown(s), NEW v, Future(v)
  PROVE  Future(v)'
<1>1. Slots' = Slots /\ Visible' = Visible /\ Persisted' = Persisted
  BY RoundStands DEF TornDown, round
<1>2. /\ s \in Running /\ Interrupted /\ driver = "generating"
      /\ Leaves(s, IF steering THEN "steered" ELSE "stopped")
      /\ UNCHANGED <<gen, content, completed, accepted, stopped, aborted, steering, torn>>
  BY DEF TornDown, Control, Running, control, flags
<1>3. producer' = [producer EXCEPT ![s] = "ended"] /\ producer \in [Slots -> {"running", "ended"}]
  BY <1>2 DEF Leaves, MakingTypeOK
<1>4. \A t \in Slots : producer[t] = "ended" => producer'[t] = "ended"
  BY <1>3
<1>5. Interrupted' /\ Pending' = Pending
  BY <1>2 DEF Interrupted, Pending
<1>6. v.over # "matchup_done"
  BY <1>2 DEF Future
<1>7. driver' \in {"generating", "steered", "stopped"} /\ driver # "ended"
  BY <1>2 DEF Leaves
<1>8. \A t \in Letters :
        /\ v.answer[t] # Absent => t \in Visible /\ producer'[t] = "ended" /\ completed' # 0
        /\ v.saved[t] # Absent => t \in Slots /\ producer'[t] = "ended" /\ completed' # 0
  BY <1>2, <1>4 DEF Future, Visible, Slots
<1>9. /\ \A t \in Letters : \A i \in DOMAIN v.wire[t] : v.wire[t][i] = gen'
      /\ \A t \in Visible : v.wire[t] = content'[t]
  BY <1>2 DEF Future
<1>10. Persisted => v.recorded + Pending' = accepted'
  BY <1>2, <1>5 DEF Future
<1> QED BY <1>1, <1>5, <1>6, <1>7, <1>8, <1>9, <1>10 DEF Future, Texts

LEMMA FutureRestarts ==
  ASSUME MakingTypeOK, Control, DriverRestarts, NEW v, Future(v),
         NEW e, e = Event("steered", None, << >>)
  PROVE  Legal(v, e) /\ Future(After(v, e))'
<1>1. Slots' = Slots /\ Visible' = Visible /\ Persisted' = Persisted
  BY RoundStands DEF DriverRestarts, round
<1>2. /\ steering /\ completed = 0 /\ driver = "steered" /\ ~steering'
      /\ UNCHANGED <<accepted, stopped, aborted>>
  BY DEF DriverRestarts, Control, control
<1>3. e \in Events /\ e.type = "steered" /\ e.slot = None
  BY EventsAre DEF Event
<1>4. v.over = None
  BY <1>2 DEF Future
<1>5. \A t \in Letters : v.answer[t] = Absent /\ v.saved[t] = Absent
  BY <1>2 DEF Future
<1>6. Persisted => v.recorded + 1 = accepted /\ v.recorded \in Nat /\ accepted \in Nat
  BY <1>2 DEF Future, Pending, MakingTypeOK
<1>7. Persisted => v.recorded \in 0..(accepted - 1)
  BY <1>6
<1>8. Legal(v, e)
  BY <1>3, <1>4, <1>5, <1>7 DEF Legal
<1>9. PICK y : y = After(v, e)'
  OBVIOUS
<1>10. /\ y.wire = [t \in Letters |-> << >>] /\ y.answer = v.answer /\ y.over = v.over
       /\ y.saved = v.saved /\ y.recorded = IF Persisted THEN v.recorded + 1 ELSE v.recorded
  BY <1>1, <1>3, <1>9 DEF After
<1>11. y.recorded \in Nat /\ (Persisted => y.recorded + Pending' = accepted')
  BY <1>2, <1>6, <1>10 DEF Future, Pending
<1>12. /\ \A t \in Letters : y.wire[t] = << >> /\ y.answer[t] = Absent /\ y.saved[t] = Absent
       /\ y.wire \in [Letters -> Seq(0..MaxSteers)]
       /\ y.answer \in [Letters -> Texts \cup {Absent}] /\ y.saved \in [Letters -> Texts \cup {Absent}]
       /\ y.over = None
  BY <1>4, <1>5, <1>10 DEF Future
<1>13. Future(y)'
  <2>1. CASE Halted
    <3>1. driver' = "ended" /\ Interrupted'
      BY <1>2, <2>1 DEF DriverRestarts, Halted, Interrupted
    <3> QED BY <1>1, <1>11, <1>12, <3>1 DEF Future, Texts
  <2>2. CASE ~Halted
    <3>1. /\ producer' = [t \in Slots |-> "running"] /\ content' = [t \in Slots |-> << >>]
          /\ driver' = "generating"
      BY <2>2 DEF DriverRestarts, Restart
    <3>2. \A t \in Visible : t \in Slots /\ t \in Letters
      BY DEF Visible, Slots
    <3>3. \A t \in Visible : y.wire[t] = content'[t]
      BY <1>12, <3>1, <3>2
    <3>4. \A t \in Slots : producer'[t] # "ended"
      BY <3>1
    <3>5. /\ \A t \in Letters : \A i \in DOMAIN y.wire[t] : y.wire[t][i] = gen'
          /\ \A t \in Letters : y.answer[t] = Absent /\ y.saved[t] = Absent
      BY <1>12
    <3>6. \A t \in Slots' : producer'[t] # "ended"
      BY <1>1, <3>4
    <3>7. \A t \in Visible' : y.wire[t] = content'[t]
      BY <1>1, <3>3
    <3>8. Persisted' => y.recorded + Pending' = accepted'
      BY <1>1, <1>11
    <3>9. Texts' = Texts
      BY DEF Texts
    <3> QED BY <1>11, <1>12, <3>5, <3>6, <3>7, <3>8, <3>9 DEF Future
  <2> QED BY <2>1, <2>2
<1> QED BY <1>8, <1>9, <1>13

\* The steps that make nothing.
LEMMA FutureRest ==
  ASSUME MakingTypeOK, MakingTypeOK', Control, UnhandledRejection \/ DriverEnds \/ Stop \/ Steer,
         NEW v, Future(v)
  PROVE  Future(v)'
<1>1. Slots' = Slots /\ Visible' = Visible /\ Persisted' = Persisted
  BY RoundStands DEF UnhandledRejection, DriverEnds, Stop, Steer, round
<1>2. CASE UnhandledRejection
  BY <1>1, <1>2 DEF UnhandledRejection, Future, Pending, Interrupted, control, making, flags, Texts
<1>3. CASE DriverEnds
  <2>1. driver' = "ended" /\ UNCHANGED <<making, control, flags>>
    BY <1>3 DEF DriverEnds
  <2> QED BY <1>1, <2>1 DEF Future, Pending, Interrupted, control, making, flags, Texts
<1>4. CASE Stop
  <2>1. Interrupted' /\ UNCHANGED <<making, accepted, steering, driver>>
    BY <1>4 DEF Stop, Interrupted
  <2> QED BY <1>1, <2>1 DEF Future, Pending, making, Texts
<1>5. CASE Steer
  <2>1. /\ Interrupted' /\ UNCHANGED <<making, driver>> /\ accepted' = accepted + 1
        /\ Pending' = 1 /\ Pending = 0
    BY <1>5 DEF Steer, AcceptsSteer, Interrupted, Pending, Control
  <2>2. Persisted => v.recorded + Pending' = accepted'
    BY <2>1 DEF Future, MakingTypeOK
  <2> QED BY <1>1, <2>1, <2>2 DEF Future, making, Texts
<1> QED BY <1>2, <1>3, <1>4, <1>5
\* A producer that ends has its answer read, and the last one ends the round.
LEMMA FutureEnds ==
  ASSUME MakingTypeOK, Control, NEW s \in Slots, ProviderEnds(s), NEW v, Future(v),
         NEW e, e = Event("slot_done", s, content[s]),
         NEW m, m = Event("matchup_done", None, << >>)
  PROVE  /\ Legal(v, e)
         /\ Running # {s} => Future(After(v, e))'
         /\ Running = {s} => Legal(After(v, e), m) /\ Future(After(After(v, e), m))'
<1>1. /\ Slots' = Slots /\ Visible' = Visible /\ Persisted' = Persisted
      /\ s \in Letters /\ Visible \subseteq Slots /\ Slots \subseteq Letters
  BY RoundStands DEF ProviderEnds, round, Slots, Visible
<1>2. /\ s \in Running /\ ~Interrupted /\ driver = "generating" /\ producer[s] # "ended"
      /\ producer' = [producer EXCEPT ![s] = "ended"] /\ producer \in [Slots -> {"running", "ended"}]
      /\ driver' = (IF Running = {s} THEN "done" ELSE driver)
      /\ completed' = completed + 1 /\ completed \in Nat
      /\ UNCHANGED <<gen, content, accepted, steering>>
  BY DEF ProviderEnds, Leaves, Control, Running, control, flags, MakingTypeOK
<1>3. e \in Events /\ e.type = "slot_done" /\ e.slot = s /\ e.text = content[s]
      /\ m \in Events /\ m.type = "matchup_done"
      /\ content[s] \in Texts /\ content[s] # Absent
  <2>1. content[s] \in Texts /\ content[s] # Absent
    BY TextAbsent DEF MakingTypeOK
  <2> QED BY <2>1, EventsAre DEF Event
<1>4. v.over = None
  BY <1>2 DEF Future
<1>5. /\ s \in Visible => v.answer[s] = Absent /\ v.wire[s] = content[s]
      /\ v.saved[s] = Absent
  BY <1>1, <1>2 DEF Future
<1>6. Legal(v, e)
  BY <1>3, <1>4, <1>5 DEF Legal
<1>7. PICK y : y = After(v, e)
  OBVIOUS
<1>8. /\ y.wire = v.wire /\ y.over = None /\ y.recorded = v.recorded
      /\ y.answer = IF s \in Visible THEN [v.answer EXCEPT ![s] = content[s]] ELSE v.answer
      /\ y.saved = IF Persisted THEN [v.saved EXCEPT ![s] = content[s]] ELSE v.saved
  BY <1>3, <1>4, <1>5, <1>7 DEF After
<1>9. y.answer \in [Letters -> Texts \cup {Absent}] /\ y.saved \in [Letters -> Texts \cup {Absent}]
      /\ y.recorded \in Nat /\ (Persisted => y.recorded = accepted)
  <2>1. ~steering
    BY <1>2 DEF Control, Interrupted
  <2> QED BY <1>1, <1>2, <1>3, <1>8, <2>1 DEF Future, Pending
<1>10. \A t \in Letters :
         /\ y.answer[t] # Absent => t \in Visible /\ producer'[t] = "ended" /\ completed' # 0
         /\ y.saved[t] # Absent => t \in Slots /\ producer'[t] = "ended" /\ completed' # 0
  <2> SUFFICES ASSUME NEW t \in Letters
               PROVE  /\ y.answer[t] # Absent => t \in Visible /\ producer'[t] = "ended" /\ completed' # 0
                      /\ y.saved[t] # Absent => t \in Slots /\ producer'[t] = "ended" /\ completed' # 0
    OBVIOUS
  <2>1. completed' # 0
    BY <1>2
  <2>2. CASE t = s
    <3>1. producer'[s] = "ended"
      BY <1>2
    <3> QED BY <1>1, <1>5, <1>8, <2>1, <2>2, <3>1 DEF Future
  <2>3. CASE t # s
    <3>1. y.answer[t] = v.answer[t] /\ y.saved[t] = v.saved[t]
      BY <1>1, <1>8, <2>3 DEF Future
    <3>2. /\ v.answer[t] # Absent => t \in Visible /\ producer[t] = "ended"
          /\ v.saved[t] # Absent => t \in Slots /\ producer[t] = "ended"
      BY DEF Future
    <3>3. t \in Slots => producer'[t] = producer[t]
      BY <1>2, <2>3
    <3> QED BY <1>1, <2>1, <3>1, <3>2, <3>3
  <2> QED BY <2>2, <2>3
<1>11. \A t \in Slots : producer'[t] = "ended" =>
         /\ t \in Visible => y.answer[t] # Absent
         /\ Persisted => y.saved[t] # Absent
  <2> SUFFICES ASSUME NEW t \in Slots, producer'[t] = "ended"
               PROVE  /\ t \in Visible => y.answer[t] # Absent
                      /\ Persisted => y.saved[t] # Absent
    OBVIOUS
  <2>1. CASE t = s
    BY <1>1, <1>3, <1>8, <2>1 DEF Future
  <2>2. CASE t # s
    <3>1. producer[t] = "ended" /\ t \in Letters
      BY <1>1, <1>2, <2>2
    <3>2. (t \in Visible => v.answer[t] # Absent) /\ (Persisted => v.saved[t] # Absent)
      BY <1>2, <3>1 DEF Future
    <3> QED BY <1>1, <1>8, <2>2, <3>1, <3>2 DEF Future
  <2> QED BY <2>1, <2>2
<1>12. Pending' = 0
  BY <1>2 DEF Control, Interrupted, Pending
<1>13. /\ \A t \in Letters : \A i \in DOMAIN y.wire[t] : y.wire[t][i] = gen'
       /\ \A t \in Visible : y.wire[t] = content'[t]
       /\ y.wire \in [Letters -> Seq(0..MaxSteers)]
  BY <1>2, <1>8 DEF Future
<1>14. Persisted => y.recorded + Pending' = accepted'
  BY <1>2, <1>9, <1>12
<1>15. CASE Running # {s}
  <2>1. Future(y)'
    BY <1>1, <1>8, <1>9, <1>10, <1>11, <1>13, <1>14 DEF Future, Texts
  <2>2. PICK z : z = After(v, e)'
    OBVIOUS
  <2>3. z = y
    BY <1>1, <1>7, <2>2 DEF After
  <2> QED BY <1>6, <1>15, <2>1, <2>2, <2>3
<1>16. CASE Running = {s}
  <2>1. \A t \in Slots : producer'[t] = "ended"
    BY <1>2, <1>16 DEF Running
  <2>2. Whole(y)
    BY <1>1, <1>9, <1>11, <2>1 DEF Whole
  <2>3. Legal(y, m)
    BY <1>3, <1>8, <2>2 DEF Legal
  <2>4. PICK z : z = After(After(v, e), m)'
    OBVIOUS
  <2>5. /\ z.wire = y.wire /\ z.answer = y.answer /\ z.saved = y.saved /\ z.recorded = y.recorded
        /\ z.over = "matchup_done"
    <3>1. After(v, e)' = After(v, e)
      BY <1>1 DEF After
    <3>2. z = After(y, m)'
      BY <1>7, <2>4, <3>1
    <3> QED BY <1>3, <3>2 DEF After
  <2>6. driver' = "done"
    BY <1>2, <1>16
  <2>7. Future(z)'
    BY <1>1, <1>9, <1>10, <1>11, <1>13, <1>14, <2>5, <2>6 DEF Future, Texts
  <2> QED BY <1>6, <1>7, <1>16, <2>3, <2>4, <2>7
<1> QED BY <1>15, <1>16

LEMMA LeadsPushesTwo ==
  ASSUME MakingTypeOK, NEW u, Leads(u), NEW e \in Events, NEW m \in Events,
         kind' = kind, accepted' = accepted, queue' = Append(Append(queue, e), m),
         \A v : Future(v) => /\ Legal(v, e) /\ Legal(After(v, e), m)
                             /\ Future(After(After(v, e), m))'
  PROVE  Leads(u)'
<1>1. PICK q : q = queue
  OBVIOUS
<1>2. PICK f : f[0] = u /\ Steps(f, q) /\ Future(f[Len(q)])
  BY <1>1 DEF Leads
<1>3. PICK v : v = f[Len(q)]
  OBVIOUS
<1>4. q \in Seq(Events) /\ accepted \in Nat
  BY <1>1 DEF MakingTypeOK
<1>5. Legal(v, e) /\ Legal(After(v, e), m) /\ Future(After(After(v, e), m))'
  BY <1>2, <1>3
<1>6. PICK g : g[0] = f[0] /\ Steps(g, Append(q, e)) /\ g[Len(q) + 1] = After(v, e)
  BY <1>2, <1>3, <1>4, <1>5, StepsPushed
<1>7. PICK r : r = Append(q, e)
  OBVIOUS
<1>8. Len(r) = Len(q) + 1 /\ r \in Seq(Events) /\ Steps(g, r) /\ g[Len(r)] = After(v, e)
  BY <1>4, <1>6, <1>7, AppendProperties
<1>9. PICK h : h[0] = g[0] /\ Steps(h, Append(r, m)) /\ h[Len(r) + 1] = After(After(v, e), m)
  BY <1>5, <1>8, StepsPushed
<1>10. PICK w : w = Append(r, m)
  OBVIOUS
<1>11. Len(w) = Len(r) + 1 /\ queue' = w
  BY <1>1, <1>7, <1>8, <1>10, AppendProperties
<1>12. Steps(h, w)'
  BY <1>4, <1>9, <1>10, StepsCarry
<1>13. After(After(v, e), m)' = After(After(v, e), m)
  <2>1. Visible' = Visible /\ Persisted' = Persisted
    BY RoundStands
  <2> QED BY <2>1 DEF After
<1>14. h[0] = u /\ Future(h[Len(w)])'
  BY <1>2, <1>5, <1>6, <1>9, <1>11, <1>13
<1> QED BY <1>11, <1>12, <1>14 DEF Leads
(***************************************************************************)
(* The queue, step by step.                                                *)
(***************************************************************************)
LEMMA ViewStands == ASSUME Still PROVE View' = View
BY DEF Still, View, rows

LEMMA LeadsCore ==
  ASSUME MakingTypeOK, MakingTypeOK', Control, CoreStep, consumer' = "reading",
         NEW u, consumer = "reading" => Leads(u)
  PROVE  Leads(u)'
<1>1. consumer = "reading" /\ Leads(u)
  BY DEF CoreStep, Generating, Token, ProviderEnds, TornDown, UnhandledRejection, DriverEnds,
         DriverRestarts, PersistFails, GeneratorFinally, Stop, Steer, Close
<1>2. ASSUME NEW s \in Slots, Token(s) PROVE Leads(u)'
  <2>1. PICK e : e = Event("token", s, <<gen>>)
    OBVIOUS
  <2>2. e \in Events /\ kind' = kind /\ accepted' = accepted
        /\ queue' = Append(queue, e)
    BY <1>2, <2>1, EventsAre DEF Token, Push, round, control, MakingTypeOK
  <2>3. \A v : Future(v) => Legal(v, e) /\ Future(After(v, e))'
    BY <1>2, <2>1, FutureToken
  <2> QED BY <1>1, <2>2, <2>3, LeadsPushes
<1>3. ASSUME NEW s \in Slots, ProviderEnds(s) PROVE Leads(u)'
  <2>1. PICK e : e = Event("slot_done", s, content[s])
    OBVIOUS
  <2>2. PICK m : m = Event("matchup_done", None, << >>)
    OBVIOUS
  <2>3. content[s] \in Texts
    BY DEF MakingTypeOK
  <2>4. e \in Events /\ m \in Events /\ kind' = kind /\ accepted' = accepted
        /\ queue \in Seq(Events)
    BY <1>3, <2>1, <2>2, <2>3, EventsAre DEF ProviderEnds, round, control, MakingTypeOK
  <2>5. \A v : Future(v) =>
          /\ Legal(v, e)
          /\ Running # {s} => Future(After(v, e))'
          /\ Running = {s} => Legal(After(v, e), m) /\ Future(After(After(v, e), m))'
    BY <1>3, <2>1, <2>2, FutureEnds
  <2>6. CASE Running # {s}
    <3>1. queue' = Append(queue, e)
      BY <1>3, <2>1, <2>4, <2>6 DEF ProviderEnds, Push
    <3> QED BY <1>1, <2>4, <2>5, <2>6, <3>1, LeadsPushes
  <2>7. CASE Running = {s}
    <3>1. queue' = queue \o (<<e>> \o <<m>>)
      BY <1>3, <2>1, <2>2, <2>7 DEF ProviderEnds, Push
    <3>2. queue \o (<<e>> \o <<m>>) = Append(Append(queue, e), m)
      BY <2>4
    <3> QED BY <1>1, <2>4, <2>5, <2>7, <3>1, <3>2, LeadsPushesTwo
  <2> QED BY <2>6, <2>7
<1>4. ASSUME NEW s \in Slots, TornDown(s) PROVE Leads(u)'
  <2>1. kind' = kind /\ accepted' = accepted /\ queue' = queue
    BY <1>4 DEF TornDown, round, control
  <2>2. \A v : Future(v) => Future(v)'
    BY <1>4, FutureTorn
  <2>3. accepted \in Nat
    BY DEF MakingTypeOK
  <2> QED BY <1>1, <2>1, <2>2, <2>3, LeadsKeeps
<1>5. CASE DriverRestarts
  <2>1. PICK e : e = Event("steered", None, << >>)
    OBVIOUS
  <2>2. e \in Events /\ kind' = kind /\ accepted' = accepted
        /\ queue' = Append(queue, e)
    BY <1>5, <2>1, EventsAre DEF DriverRestarts, Announce, Push, round, control, MakingTypeOK
  <2>3. \A v : Future(v) => Legal(v, e) /\ Future(After(v, e))'
    BY <1>5, <2>1, FutureRestarts
  <2> QED BY <1>1, <2>2, <2>3, LeadsPushes
<1>6. CASE UnhandledRejection \/ DriverEnds \/ Stop \/ Steer
  <2>1. kind' = kind /\ queue' = queue
    BY <1>6 DEF UnhandledRejection, DriverEnds, Stop, Steer, Close, round
  <2>2. \A v : Future(v) => Future(v)'
    BY <1>6, FutureRest
  <2>3. accepted' = accepted \/ (accepted' = accepted + 1 /\ completed = 0)
    BY <1>6 DEF UnhandledRejection, DriverEnds, Stop, Steer, AcceptsSteer, control
  <2>a. accepted \in Nat
    BY DEF MakingTypeOK
  <2>b. \A i \in 1..Len(queue) : queue[i].type = "matchup_done" => completed # 0
    BY DEF Control
  <2>4. /\ accepted =< accepted'
        /\ \A i \in 1..Len(queue) : queue[i].type = "matchup_done" => accepted' = accepted
    <3>1. CASE accepted' = accepted
      BY <2>a, <3>1
    <3>2. CASE accepted' = accepted + 1 /\ completed = 0
      BY <2>a, <2>b, <3>2
    <3> QED BY <2>3, <3>1, <3>2
  <2> QED BY <1>1, <2>1, <2>2, <2>4, LeadsKeeps
<1>7. CASE PersistFails \/ GeneratorFinally
  BY <1>7 DEF PersistFails, GeneratorFinally
<1> QED BY <1>2, <1>3, <1>4, <1>5, <1>6, <1>7 DEF CoreStep, Generating

\* Taking an event is one step of the chain.
LEMMA LeadsTaken ==
  ASSUME MakingTypeOK, Take, NEW u, Leads(u), NEW e, e = Head(queue)
  PROVE  Legal(u, e) /\ Leads(After(u, e))'
<1>1. PICK q : q = queue
  OBVIOUS
<1>2. q # << >> /\ q \in Seq(Events) /\ queue' = Tail(q)
      /\ UNCHANGED <<round, control, making, flags, driver>> /\ accepted \in Nat
  BY <1>1 DEF Take, Dealt, MakingTypeOK
<1>3. PICK f : f[0] = u /\ Steps(f, q) /\ Future(f[Len(q)])
  BY <1>1 DEF Leads
<1>4. Legal(u, e)
  BY <1>1, <1>2, <1>3, StepsTaken
<1>5. PICK g : g[0] = After(u, e) /\ Steps(g, Tail(q)) /\ g[Len(Tail(q))] = f[Len(q)]
  BY <1>1, <1>2, <1>3, StepsTaken
<1>6. PICK r : r = Tail(q)
  OBVIOUS
<1>7. kind' = kind /\ accepted' = accepted
  BY <1>2 DEF round, control
<1>8. Steps(g, r)'
  BY <1>2, <1>5, <1>6, <1>7, StepsCarry
<1>9. PICK v : v = g[Len(r)]
  OBVIOUS
<1>10. Future(v)
  BY <1>3, <1>5, <1>6, <1>9
<1>11. Slots' = Slots /\ Visible' = Visible /\ Persisted' = Persisted
  BY <1>7, RoundStands
<1>12. Future(v)'
  BY <1>2, <1>10, <1>11 DEF Future, Pending, Interrupted, control, making, flags, Texts
<1>13. After(u, e)' = After(u, e)
  BY <1>11 DEF After
<1>14. Leads(After(u, e))'
  BY <1>2, <1>5, <1>6, <1>8, <1>9, <1>12, <1>13 DEF Leads
<1> QED BY <1>4, <1>14

\* A step of somebody else may forget the matchup, and leaves the rest alone.
LEMMA Idle ==
  ASSUME MakingTypeOK, Control, live' \in BOOLEAN,
         UNCHANGED <<round, server, aborted, accepted, making, flags, driver, queue, closed,
                     consumer, failed>>
  PROVE  MakingTypeOK' /\ Control' /\ \A u : Leads(u) => Leads(u)'
<1>1. /\ UNCHANGED <<kind, accepted, queue>> /\ accepted \in Nat
      /\ Slots' = Slots /\ Visible' = Visible /\ Persisted' = Persisted /\ Events' = Events
  BY RoundStands DEF round, MakingTypeOK
<1>2. MakingTypeOK'
  BY <1>1 DEF MakingTypeOK, round, making, flags, Texts
<1>3. Control'
  BY <1>1 DEF Control, making, flags, Pending, Ended, Running
<1>4. \A v : Future(v) => Future(v)'
  BY <1>1 DEF Future, Pending, Interrupted, making, flags, Texts
<1>5. ASSUME NEW u, Leads(u) PROVE Leads(u)'
  BY <1>1, <1>2, <1>4, <1>5, LeadsKeeps
<1> QED BY <1>2, <1>3, <1>5

LEMMA DeliverIsAfter ==
  ASSUME Deliver, NEW e, e = Head(queue) PROVE View' = After(View, e)
BY DEF Deliver, Take, Written, Recorded, View, After

LEMMA QueuedDelivers ==
  ASSUME MakingTypeOK, Queued, Deliver PROVE Queued' /\ Legal(View, Head(queue))
<1>1. PICK u : u = View
  OBVIOUS
<1>2. PICK e : e = Head(queue)
  OBVIOUS
<1>3. Take /\ Leads(u)
  BY <1>1 DEF Deliver, Take, Queued
<1>4. Legal(u, e) /\ Leads(After(u, e))'
  BY <1>2, <1>3, LeadsTaken
<1>5. View' = After(u, e)
  BY <1>1, <1>2, DeliverIsAfter
<1>6. After(u, e)' = After(u, e)
  <2>1. Visible' = Visible /\ Persisted' = Persisted
    BY <1>3, RoundStands DEF Take, round
  <2> QED BY <2>1 DEF After
<1>7. Leads(View)'
  BY <1>4, <1>5, <1>6
<1> QED BY <1>1, <1>2, <1>4, <1>7 DEF Queued

LEMMA QueuedNext ==
  ASSUME MakingTypeOK, MakingTypeOK', Control, Queued, [Next]_vars PROVE Queued'
<1>1. CASE EndResponse
  BY <1>1 DEF EndResponse, LoopEnds, Queued
<1>2. CASE UNCHANGED vars
  <2>1. \A v : Future(v) => Future(v)'
    <3> SUFFICES ASSUME NEW v, Future(v) PROVE Future(v)'
      OBVIOUS
    <3>1. /\ Slots' = Slots /\ Visible' = Visible /\ Persisted' = Persisted
          /\ UNCHANGED <<gen, producer, content, completed, accepted, driver>>
          /\ Interrupted' = Interrupted /\ Pending' = Pending /\ Texts' = Texts
      BY <1>2, StillStutters DEF Pending, Interrupted, Texts
    <3> QED BY <3>1 DEF Future
  <2>2. PICK u : u = View
    OBVIOUS
  <2>3. View' = u
    BY <1>2, <2>2, StillStutters DEF View
  <2>4. kind' = kind /\ accepted' = accepted /\ queue' = queue /\ consumer' = consumer
        /\ accepted \in Nat
    BY <1>2, StillStutters DEF MakingTypeOK
  <2>5. Leads(u) => Leads(u)'
    BY <2>1, <2>4, LeadsKeeps
  <2> QED BY <2>2, <2>3, <2>4, <2>5 DEF Queued
<1>3. CASE CoreStep /\ UNCHANGED out
  <2> SUFFICES ASSUME consumer' = "reading" PROVE Queued'
    BY DEF Queued
  <2>1. PICK u : u = View
    OBVIOUS
  <2>2. View' = u
    BY <1>3, <2>1, CoreStill, ViewStands
  <2>3. consumer = "reading" => Leads(u)
    BY <2>1 DEF Queued
  <2>4. Leads(u)'
    BY <1>3, <2>3, LeadsCore
  <2> QED BY <2>2, <2>4 DEF Queued
<1> QED BY <1>1, <1>2, <1>3, QueuedDelivers DEF Next, CoreStep
(***************************************************************************)
(* What is read and saved.                                                 *)
(***************************************************************************)
LEMMA HeadLegal ==
  ASSUME MakingTypeOK, Queued, consumer = "reading", queue # << >>
  PROVE  Legal(View, Head(queue))
<1>1. PICK f : f[0] = View /\ Steps(f, queue) /\ Future(f[Len(queue)])
  BY DEF Queued, Leads
<1>2. queue \in Seq(Events)
  BY DEF MakingTypeOK
<1>3. Legal(f[0], Head(queue))
  BY <1>1, <1>2, StepsTaken
<1> QED BY <1>1, <1>3

LEMMA ReadsCore ==
  ASSUME TypeOK, MakingTypeOK, MakingTypeOK', Control, Queued, Reads, CoreStep, UNCHANGED out
  PROVE  TypeOK' /\ Reads'
<1>1. Still
  BY CoreStill
<1>2. /\ UNCHANGED <<kind, saved, recorded, wire, answer, over>>
      /\ Slots' = Slots /\ Visible' = Visible /\ Persisted' = Persisted /\ Texts' = Texts
  BY <1>1, RoundStands DEF Still, round, rows, Texts
<1>3. over = "matchup_done" => completed' # 0 /\ accepted' = accepted
  <2>1. completed' = completed \/ completed' = completed + 1 \/ completed = 0
    BY DEF CoreStep, Control, Generating, Token, ProviderEnds, TornDown, UnhandledRejection,
           DriverEnds, DriverRestarts, PersistFails, GeneratorFinally, Stop, Steer, making
  <2>2. accepted' = accepted \/ completed = 0
    BY DEF CoreStep, Generating, Token, ProviderEnds, TornDown, UnhandledRejection,
           DriverEnds, DriverRestarts, PersistFails, GeneratorFinally, Stop, Steer,
           AcceptsSteer, control
  <2> QED BY <2>1, <2>2 DEF Reads, MakingTypeOK
<1>4. accepted =< accepted'
  <2>1. accepted' = accepted \/ accepted' = accepted + 1
    BY DEF CoreStep, Generating, Token, ProviderEnds, TornDown, UnhandledRejection,
           DriverEnds, DriverRestarts, PersistFails, GeneratorFinally, Stop, Steer, control
  <2> QED BY <2>1 DEF MakingTypeOK
<1>5. failed' /\ consumer' # "done" => over = None
  <2>1. CASE PersistFails
    <3>1. Legal(View, Head(queue))
      BY <2>1, HeadLegal DEF PersistFails
    <3> QED BY <3>1 DEF Legal, View
  <2>2. CASE ~PersistFails
    <3>1. failed' = failed /\ (consumer = "done" => consumer' = "done")
      BY <2>2 DEF CoreStep, Generating, Token, ProviderEnds, TornDown, UnhandledRejection,
             DriverEnds, DriverRestarts, GeneratorFinally, Stop, Steer, Close
    <3> QED BY <3>1 DEF Reads
  <2> QED BY <2>1, <2>2
<1>6. recorded' =< accepted'
  BY <1>2, <1>4 DEF Reads, TypeOK, CoreTypeOK, MakingTypeOK
<1>7. WireIsAnswer' /\ DoneIsWhole'
  BY <1>2, <1>3 DEF Reads, WireIsAnswer, DoneIsWhole
<1>8. Reads'
  BY <1>2, <1>3, <1>5, <1>6, <1>7 DEF Reads
<1>9. CoreTypeOK'
  BY <1>2 DEF TypeOK, CoreTypeOK, MakingTypeOK
<1>10. TypeOK'
  BY <1>2, <1>9 DEF TypeOK
<1> QED BY <1>8, <1>10

LEMMA ReadsDelivers ==
  ASSUME TypeOK, MakingTypeOK, MakingTypeOK', Control, Queued, Reads, Deliver
  PROVE  TypeOK' /\ Reads'
<1>1. PICK e : e = Head(queue)
  OBVIOUS
<1>2. /\ Up /\ consumer = "reading" /\ queue # << >> /\ Recorded(e) /\ Written(e)
      /\ UNCHANGED <<round, server, control, making, flags, driver, closed, failed>>
  BY <1>1 DEF Deliver, Take
<1>3. Legal(View, e) /\ e \in Events
  BY <1>1, <1>2, HeadLegal DEF Legal
<1>4. /\ kind' = kind /\ completed' = completed /\ accepted' = accepted
      /\ Slots' = Slots /\ Visible' = Visible /\ Persisted' = Persisted /\ Texts' = Texts
  BY <1>2, RoundStands DEF round, control, making, Texts
<1>5. /\ wire \in [Letters -> Seq(0..MaxSteers)] /\ answer \in [Letters -> Texts \cup {Absent}]
      /\ saved \in [Letters -> Texts \cup {Absent}] /\ recorded \in Nat /\ recorded =< accepted
      /\ accepted \in 0..MaxSteers /\ over = None
      /\ WireIsAnswer
      /\ \A s, t \in Letters : \A i \in DOMAIN wire[s] : \A j \in DOMAIN wire[t] :
           wire[s][i] = wire[t][j]
  BY <1>3 DEF Reads, TypeOK, CoreTypeOK, Legal, View
<1>6. ~failed'
  BY <1>2 DEF Control
<1>7. \A s \in Visible : s \in Slots /\ s \in Letters
  BY DEF Visible, Slots
<1>8. CASE e.type = "token"
  <2>1. PICK s \in Slots, g \in 0..MaxSteers : e = Event("token", s, <<g>>)
    BY <1>3, <1>8, EventIs DEF Event
  <2>2. e.slot = s /\ e.text = <<g>> /\ s \in Letters
    BY <2>1 DEF Event, Slots
  <2>3. /\ wire' = IF s \in Visible THEN [wire EXCEPT ![s] = @ \o <<g>>] ELSE wire
        /\ UNCHANGED <<answer, over, saved, recorded>>
    BY <1>2, <1>8, <2>2 DEF Written, Recorded
  <2>4. s \in Visible => answer[s] = Absent
    BY <1>3, <1>8, <2>2 DEF Legal, View
  <2>5. \A t \in Letters : \A i \in DOMAIN wire[t] : wire[t][i] = g
    <3>1. \A t \in Letters : \A i \in DOMAIN wire[t] : <<g>> = <<wire[t][i]>>
      BY <1>3, <1>8, <2>2 DEF Legal, View
    <3> QED BY <3>1
  <2>6. PICK x : x = wire'
    OBVIOUS
  <2>7. x \in [Letters -> Seq(0..MaxSteers)]
        /\ \A t \in Letters : \A i \in DOMAIN x[t] : x[t][i] = g
    <3>1. PICK z : z = wire[s]
      OBVIOUS
    <3>2. z \in Seq(0..MaxSteers) /\ \A i \in DOMAIN z : z[i] = g
      BY <1>5, <2>2, <2>5, <3>1
    <3>3. PICK u : u = z \o <<g>>
      OBVIOUS
    <3>4. u = Append(z, g)
      BY <3>2, <3>3
    <3>5. u \in Seq(0..MaxSteers) /\ \A i \in DOMAIN u : u[i] = g
      BY <3>2, <3>4, AppendProperties
    <3>6. x = wire \/ x = [wire EXCEPT ![s] = u]
      BY <2>3, <2>6, <3>1, <3>3
    <3>7. CASE x = wire
      BY <1>5, <2>5, <3>7
    <3>8. CASE x = [wire EXCEPT ![s] = u]
      BY <1>5, <2>2, <2>5, <3>5, <3>8
    <3> QED BY <3>6, <3>7, <3>8
  <2>8. \A t \in Letters : \A i \in DOMAIN x[t] : x[t][i] \in 0..MaxSteers
    BY <2>7
  <2>9. WireIsAnswer'
    <3> SUFFICES ASSUME NEW t \in Visible, answer[t] # Absent
                 PROVE  wire'[t] = answer[t] /\ (Persisted => saved[t] = answer[t])
      BY <1>4, <2>3 DEF WireIsAnswer
    <3>1. t # s
      BY <2>4
    <3>2. wire'[t] = wire[t]
      BY <1>5, <1>7, <2>3, <3>1
    <3> QED BY <1>5, <3>2 DEF WireIsAnswer
  <2>10. DoneIsWhole' /\ over' = None
    BY <1>5, <2>3 DEF DoneIsWhole
  <2>11. TypeOK'
    <3>1. CoreTypeOK'
      BY <1>4, <2>3 DEF MakingTypeOK, CoreTypeOK, TypeOK
    <3>2. \A t \in Slots : \A i \in DOMAIN x[t] : x[t][i] \in 0..MaxSteers
      BY <2>8 DEF Slots
    <3> QED BY <1>4, <1>5, <2>3, <2>6, <3>1, <3>2 DEF TypeOK
  <2>12. wire' \in [Letters -> Seq(0..MaxSteers)]
         /\ \A r, t \in Letters : \A i \in DOMAIN wire'[r] : \A j \in DOMAIN wire'[t] :
              wire'[r][i] = wire'[t][j]
    BY <2>6, <2>7
  <2> QED BY <1>4, <1>5, <1>6, <2>3, <2>9, <2>10, <2>11, <2>12 DEF Reads
<1>9. CASE e.type = "slot_done"
  <2>1. PICK s \in Slots, t \in Texts : e = Event("slot_done", s, t)
    BY <1>3, <1>9, EventIs DEF Event
  <2>2. e.slot = s /\ e.text = t /\ s \in Letters
    BY <2>1 DEF Event, Slots
  <2>3. /\ answer' = IF s \in Visible THEN [answer EXCEPT ![s] = t] ELSE answer
        /\ saved' = IF Persisted THEN [saved EXCEPT ![s] = t] ELSE saved
        /\ UNCHANGED <<wire, over, recorded>>
        /\ s \in Visible => wire[s] = t
    BY <1>2, <1>3, <1>9, <2>2 DEF Written, Recorded, Legal, View
  <2>4. WireIsAnswer'
    <3> SUFFICES ASSUME NEW r \in Visible, answer'[r] # Absent
                 PROVE  wire[r] = answer'[r] /\ (Persisted => saved'[r] = answer'[r])
      BY <1>4, <2>3 DEF WireIsAnswer
    <3>1. CASE r = s
      BY <1>5, <2>2, <2>3, <3>1
    <3>2. CASE r # s
      <4>1. answer'[r] = answer[r] /\ saved'[r] = saved[r]
        BY <1>5, <1>7, <2>3, <3>2
      <4> QED BY <1>5, <4>1 DEF WireIsAnswer
    <3> QED BY <3>1, <3>2
  <2>5. DoneIsWhole' /\ over' = None
    BY <1>5, <2>3 DEF DoneIsWhole
  <2>6. answer' \in [Letters -> Texts \cup {Absent}] /\ saved' \in [Letters -> Texts \cup {Absent}]
    BY <1>5, <2>2, <2>3
  <2>7. TypeOK'
    <3>1. CoreTypeOK'
      BY <1>4, <2>3, <2>6 DEF MakingTypeOK, CoreTypeOK, TypeOK
    <3> QED BY <1>4, <2>3, <2>5, <2>6, <3>1 DEF TypeOK
  <2> QED BY <1>4, <1>5, <1>6, <2>3, <2>4, <2>5, <2>7 DEF Reads
<1>10. CASE e.type = "steered"
  <2>1. e.slot = None /\ e = Event("steered", None, << >>)
    BY <1>3, <1>10, EventIs DEF Event
  <2>2. /\ wire' = [s \in Letters |-> << >>]
        /\ recorded' = IF Persisted THEN recorded + 1 ELSE recorded
        /\ UNCHANGED <<answer, over, saved>>
        /\ \A s \in Letters : answer[s] = Absent
        /\ Persisted => recorded \in 0..(accepted - 1)
    BY <1>2, <1>3, <1>10 DEF Written, Recorded, Legal, View
  <2>3. \A s \in Letters : wire'[s] = << >>
    BY <2>2
  <2>4. recorded' =< accepted /\ recorded' \in 0..MaxSteers
    BY <1>5, <2>2
  <2>5. WireIsAnswer' /\ DoneIsWhole' /\ over' = None
    BY <1>4, <1>5, <1>7, <2>2 DEF WireIsAnswer, DoneIsWhole
  <2>6. TypeOK'
    <3>1. CoreTypeOK'
      BY <1>4, <2>2, <2>4 DEF MakingTypeOK, CoreTypeOK, TypeOK
    <3>2. \A s \in Slots : \A i \in DOMAIN wire'[s] : wire'[s][i] \in 0..MaxSteers
      BY <2>3 DEF Slots
    <3> QED BY <1>4, <1>5, <2>2, <2>5, <3>1, <3>2 DEF TypeOK
  <2>7. wire' \in [Letters -> Seq(0..MaxSteers)]
    BY <2>2
  <2> QED BY <1>4, <1>6, <2>3, <2>4, <2>5, <2>6, <2>7 DEF Reads
<1>11. CASE e.type = "matchup_done"
  <2>1. e.slot = None /\ e = Event("matchup_done", None, << >>)
    BY <1>3, <1>11, EventIs DEF Event
  <2>2. UNCHANGED <<wire, answer, saved, recorded>> /\ over' = "matchup_done" /\ Whole(View)
    BY <1>2, <1>3, <1>11 DEF Written, Recorded, Legal
  <2>3. completed # 0
    <3>1. queue \in Seq(Events) /\ 1 \in 1..Len(queue) /\ queue[1] = e
      BY <1>1, <1>2, HeadTailProperties DEF MakingTypeOK
    <3> QED BY <1>11, <3>1 DEF Control
  <2>4. DoneIsWhole'
    BY <1>4, <2>2 DEF DoneIsWhole, Whole, View
  <2>5. WireIsAnswer'
    BY <1>4, <1>5, <2>2 DEF WireIsAnswer
  <2>6. TypeOK'
    <3>1. CoreTypeOK'
      BY <1>4, <2>2 DEF MakingTypeOK, CoreTypeOK, TypeOK
    <3> QED BY <1>4, <1>5, <2>2, <3>1 DEF TypeOK
  <2> QED BY <1>4, <1>5, <1>6, <2>2, <2>3, <2>4, <2>5, <2>6 DEF Reads
<1> QED BY <1>3, <1>8, <1>9, <1>10, <1>11, EventIs DEF Event

LEMMA ReadsEnds ==
  ASSUME TypeOK, MakingTypeOK, MakingTypeOK', Control, Reads, EndResponse \/ UNCHANGED vars
  PROVE  TypeOK' /\ Reads'
<1>1. /\ UNCHANGED <<kind, saved, recorded, wire, answer, completed, accepted, failed>>
      /\ Slots' = Slots /\ Visible' = Visible /\ Persisted' = Persisted /\ Texts' = Texts
  <2>1. UNCHANGED <<kind, saved, recorded, wire, answer, completed, accepted, failed>>
    BY StillStutters DEF EndResponse, LoopEnds, round, rows, making
  <2> QED BY <2>1, RoundStands DEF Texts
<1>2. over' \in {over, "run_error", "cut"} /\ (consumer' = "done" \/ (consumer' = consumer /\ over' = over))
  BY StillStutters DEF EndResponse, LoopEnds
<1>3. over' = "matchup_done" => over = "matchup_done"
  <2>1. CASE EndResponse
    BY <2>1 DEF EndResponse
  <2>2. CASE UNCHANGED vars
    BY <2>2, StillStutters
  <2> QED BY <2>1, <2>2
<1>4. WireIsAnswer' /\ DoneIsWhole'
  BY <1>1, <1>3 DEF Reads, WireIsAnswer, DoneIsWhole
<1>5. Reads'
  BY <1>1, <1>2, <1>3, <1>4 DEF Reads
<1>6. CoreTypeOK'
  BY <1>1 DEF TypeOK, CoreTypeOK, MakingTypeOK
<1>7. TypeOK'
  BY <1>1, <1>2, <1>6 DEF TypeOK
<1> QED BY <1>5, <1>7
(***************************************************************************)
(* The theorems.                                                           *)
(***************************************************************************)
LEMMA TypeSplits == TypeOK => MakingTypeOK
BY DEF TypeOK, CoreTypeOK, MakingTypeOK

\* Nothing was read, nothing is in the database.
Nothing == [wire |-> [s \in Letters |-> << >>], answer |-> [s \in Letters |-> Absent],
            over |-> None, saved |-> [s \in Letters |-> Absent], recorded |-> 0]

LEMMA LeadsInit ==
  ASSUME CoreInit, NEW u, u = Nothing
  PROVE  Leads(u)
<1>1. << >> \in Seq(0..MaxSteers) /\ Len(<< >>) = 0 /\ DOMAIN << >> = {}
  OBVIOUS
<1>2. /\ u.wire = [s \in Letters |-> << >>] /\ u.answer = [s \in Letters |-> Absent]
      /\ u.saved = [s \in Letters |-> Absent] /\ u.over = None /\ u.recorded = 0
  BY DEF Nothing
<1>3. /\ accepted = 0 /\ queue = << >> /\ ~steering /\ driver = "generating"
      /\ producer = [s \in Slots |-> "running"] /\ content = [s \in Slots |-> << >>]
  BY DEF CoreInit
<1>4. \A s \in Letters : u.wire[s] = << >> /\ u.answer[s] = Absent /\ u.saved[s] = Absent
  BY <1>2
<1>5. (\A s \in Slots : s \in Letters) /\ (\A s \in Visible : s \in Slots)
  BY DEF Visible, Slots
<1>6. /\ \A s \in Visible : u.wire[s] = content[s]
      /\ \A s \in Slots : producer[s] # "ended"
  BY <1>3, <1>4, <1>5
<1>7. /\ u.wire \in [Letters -> Seq(0..MaxSteers)] /\ u.answer \in [Letters -> Texts \cup {Absent}]
      /\ u.saved \in [Letters -> Texts \cup {Absent}]
  BY <1>1, <1>2
<1>8. Future(u)
  BY <1>1, <1>2, <1>3, <1>4, <1>6, <1>7 DEF Future, Pending
<1>9. PICK f : f = [i \in {0} |-> u]
  OBVIOUS
<1>10. f[0] = u /\ Steps(f, queue) /\ Len(queue) = 0
  BY <1>1, <1>3, <1>9 DEF Steps
<1> QED BY <1>8, <1>10 DEF Leads

LEMMA IndInit == Init => IndInv
<1> SUFFICES ASSUME Init PROVE IndInv
  OBVIOUS
<1>1. MakingTypeOK /\ Control /\ Released
  BY ControlInit DEF Init, CoreInit, Released
<1>2. << >> \in Texts /\ << >> \in Seq(0..MaxSteers) /\ Len(<< >>) = 0 /\ DOMAIN << >> = {}
  BY TextsAre
<1>3. /\ wire = [s \in Letters |-> << >>] /\ answer = [s \in Letters |-> Absent]
      /\ saved = [s \in Letters |-> Absent] /\ over = None /\ recorded = 0 /\ accepted = 0
      /\ queue = << >> /\ consumer = "reading" /\ ~failed /\ ~steering /\ driver = "generating"
      /\ producer = [s \in Slots |-> "running"] /\ content = [s \in Slots |-> << >>]
  BY DEF Init, CoreInit
<1>4. CoreTypeOK
  BY <1>1, <1>3 DEF CoreTypeOK, MakingTypeOK
<1>5. \A s \in Slots : s \in Letters
  BY DEF Slots
<1>6. \A s \in Visible : s \in Slots
  BY DEF Visible, Slots
<1>7. \A s \in Letters : wire[s] = << >> /\ answer[s] = Absent /\ saved[s] = Absent
  BY <1>3
<1>8. TypeOK
  BY <1>3, <1>4, <1>5, <1>7 DEF TypeOK
<1>9. Reads
  <2>1. wire \in [Letters -> Seq(0..MaxSteers)]
    BY <1>3
  <2>2. WireIsAnswer /\ DoneIsWhole
    BY <1>3, <1>5, <1>6, <1>7 DEF WireIsAnswer, DoneIsWhole
  <2> QED BY <1>3, <1>7, <2>1, <2>2 DEF Reads
<1>10. Queued
  <2>1. PICK u : u = View
    OBVIOUS
  <2>2. u = Nothing
    BY <1>3, <2>1 DEF View, Nothing
  <2>3. Leads(u)
    BY <2>2, LeadsInit DEF Init
  <2> QED BY <2>1, <2>3 DEF Queued
<1> QED BY <1>1, <1>8, <1>9, <1>10 DEF IndInv

LEMMA IndStep == IndInv /\ [Next]_vars => IndInv'
<1> SUFFICES ASSUME IndInv, [Next]_vars PROVE IndInv'
  OBVIOUS
<1>1. TypeOK /\ MakingTypeOK /\ Control /\ Released /\ Queued /\ Reads
  BY TypeSplits DEF IndInv
<1>2. MakingTypeOK' /\ Control' /\ Released'
  BY <1>1, ControlNext
<1>3. Queued'
  BY <1>1, <1>2, QueuedNext
<1>4. TypeOK' /\ Reads'
  BY <1>1, <1>2, ReadsCore, ReadsDelivers, ReadsEnds DEF Next, CoreStep
<1> QED BY <1>2, <1>3, <1>4 DEF IndInv

\* The invariant the theorems below rest on: what is still queued leads, event
\* by event, from what the client and the database have to what the producers
\* made, and every event on the way may follow what was read before it.
THEOREM Inductive == Spec => []IndInv
BY IndInit, IndStep, PTL DEF Spec

\* Wherever streamRound's round is stopped, steered or fails, a slot's answer
\* is exactly the tokens its client kept and the row that is judged, a round
\* that ends well is whole with every accepted instruction recorded, and both
\* slots were generated under the same instructions.
THEOREM Answers == Spec => []AnswersStand
<1>1. IndInv => AnswersStand
  <2> SUFFICES ASSUME IndInv PROVE AnswersStand
    OBVIOUS
  <2>1. \A s \in Slots : s \in Letters
    BY DEF Slots
  <2>2. SameInstructions
    BY <2>1 DEF IndInv, Reads, SameInstructions
  <2> QED BY <2>2 DEF IndInv, Reads, AnswersStand
<1> QED BY <1>1, Inductive, PTL
(***************************************************************************)
(* Every slot of the round implements SlotView.                            *)
(***************************************************************************)
Shown(s) == IF s \in Visible THEN over ELSE None

\* SlotView's next step for slot s, on the variables of ArenaStream.
Moves(s) ==
  \/ UNCHANGED <<wire[s], answer[s], Row(s), Shown(s)>>
  \/ /\ answer[s] = Absent /\ Shown(s) = None
     /\ Len(wire'[s]) = Len(wire[s]) + 1 /\ SubSeq(wire'[s], 1, Len(wire[s])) = wire[s]
     /\ UNCHANGED <<answer[s], Row(s), Shown(s)>>
  \/ /\ answer[s] = Absent /\ Shown(s) = None
     /\ wire'[s] = << >>
     /\ UNCHANGED <<answer[s], Row(s), Shown(s)>>
  \/ /\ Row(s) = Absent /\ Row(s)' # Absent
     /\ UNCHANGED <<wire[s], answer[s], Shown(s)>>
  \/ /\ answer[s] = Absent /\ Shown(s) = None /\ Row(s) \in {Absent, wire[s]}
     /\ answer'[s] = wire[s] /\ Row(s)' = wire[s]
     /\ UNCHANGED <<wire[s], Shown(s)>>
  \/ /\ Shown(s) = None
     /\ Shown(s)' \in {"matchup_done", "run_error", "cut"}
     /\ Shown(s)' = "matchup_done" => answer[s] # Absent
     /\ UNCHANGED <<wire[s], answer[s], Row(s)>>

LEMMA Grown ==
  ASSUME NEW S, NEW z \in Seq(S), NEW g \in S
  PROVE  /\ Len(z \o <<g>>) = Len(z) + 1 /\ SubSeq(z \o <<g>>, 1, Len(z)) = z
<1>1. PICK u : u = Append(z, g)
  OBVIOUS
<1>2. /\ u = z \o <<g>> /\ u \in Seq(S) /\ Len(u) = Len(z) + 1
      /\ \A i \in 1..Len(z) : u[i] = z[i]
  BY <1>1, AppendProperties
<1>3. PICK w : w = SubSeq(u, 1, Len(z))
  OBVIOUS
<1>4. w \in Seq(S) /\ Len(w) = Len(z) /\ \A i \in 1..Len(z) : w[i] = z[i]
  <2>1. Len(z) \in Nat
    OBVIOUS
  <2> QED BY <1>2, <1>3, <2>1
<1>5. w = z
  BY <1>4, SeqEqual
<1> QED BY <1>2, <1>3, <1>5

LEMMA MovesDelivers ==
  ASSUME IndInv, Deliver, NEW s \in Letters PROVE Moves(s)
<1>1. PICK e : e = Head(queue)
  OBVIOUS
<1>2. /\ consumer = "reading" /\ queue # << >> /\ Recorded(e) /\ Written(e) /\ kind' = kind
  BY <1>1 DEF Deliver, Take, round
<1>3. Legal(View, e) /\ e \in Events
  BY <1>1, <1>2, HeadLegal, TypeSplits DEF Legal, IndInv
<1>4. Visible' = Visible /\ Persisted' = Persisted
  BY <1>2, RoundStands
<1>5. /\ wire \in [Letters -> Seq(0..MaxSteers)] /\ answer \in [Letters -> Texts \cup {Absent}]
      /\ saved \in [Letters -> Texts \cup {Absent}] /\ over = None /\ Shown(s) = None
  BY <1>3 DEF IndInv, Reads, TypeOK, CoreTypeOK, Legal, View, Shown
<1>6. CASE e.type = "token"
  <2>1. PICK t \in Slots, g \in 0..MaxSteers : e = Event("token", t, <<g>>)
    BY <1>3, <1>6, EventIs DEF Event
  <2>2. /\ wire' = IF t \in Visible THEN [wire EXCEPT ![t] = @ \o <<g>>] ELSE wire
        /\ UNCHANGED <<answer, over, saved, recorded>>
        /\ e.slot = t
    BY <1>2, <1>6, <2>1 DEF Written, Recorded, Event
  <2>3. UNCHANGED <<answer[s], Row(s), Shown(s)>>
    BY <1>4, <2>2 DEF Row, Shown
  <2>4. CASE t = s /\ t \in Visible
    <3>1. answer[s] = Absent
      BY <1>3, <1>6, <2>2, <2>4 DEF Legal, View
    <3>2. wire'[s] = wire[s] \o <<g>> /\ wire[s] \in Seq(0..MaxSteers)
      BY <1>5, <2>2, <2>4
    <3>3. Len(wire'[s]) = Len(wire[s]) + 1 /\ SubSeq(wire'[s], 1, Len(wire[s])) = wire[s]
      BY <3>2, Grown
    <3> QED BY <1>5, <2>3, <3>1, <3>3 DEF Moves
  <2>5. CASE ~(t = s /\ t \in Visible)
    <3>1. wire'[s] = wire[s]
      BY <1>5, <2>2, <2>5
    <3> QED BY <2>3, <3>1 DEF Moves
  <2> QED BY <2>4, <2>5
<1>7. CASE e.type = "slot_done"
  <2>1. PICK t \in Slots, x \in Texts : e = Event("slot_done", t, x)
    BY <1>3, <1>7, EventIs DEF Event
  <2>2. e.slot = t /\ e.text = x /\ t \in Letters /\ x # Absent
    BY <2>1, TextAbsent DEF Event, Slots
  <2>3. /\ answer' = IF t \in Visible THEN [answer EXCEPT ![t] = x] ELSE answer
        /\ saved' = IF Persisted THEN [saved EXCEPT ![t] = x] ELSE saved
        /\ UNCHANGED <<wire, over, recorded>>
        /\ t \in Visible => answer[t] = Absent /\ wire[t] = x
        /\ Persisted => saved[t] = Absent
    BY <1>2, <1>3, <1>7, <2>2 DEF Written, Recorded, Legal, View
  <2>4. UNCHANGED <<wire[s], Shown(s)>>
    BY <1>4, <2>3 DEF Shown
  <2>5. CASE t # s
    <3>1. answer'[s] = answer[s] /\ saved'[s] = saved[s]
      BY <1>5, <2>3, <2>5
    <3> QED BY <1>4, <2>4, <3>1 DEF Row, Moves
  <2>6. CASE t = s /\ t \in Visible
    <3>1. answer[s] = Absent /\ Row(s) = Absent /\ wire[s] = x
      BY <2>3, <2>6 DEF Row
    <3>2. answer'[s] = x /\ Row(s)' = x
      BY <1>4, <1>5, <2>3, <2>6 DEF Row
    <3> QED BY <1>5, <2>4, <3>1, <3>2 DEF Moves
  <2>7. CASE t = s /\ t \notin Visible
    <3>1. Persisted
      BY <2>1, <2>7 DEF Persisted, Slots, Visible
    <3>2. Row(s) = Absent /\ Row(s)' = x /\ answer'[s] = answer[s]
      BY <1>4, <1>5, <2>3, <2>7, <3>1 DEF Row
    <3> QED BY <2>2, <2>4, <3>2 DEF Moves
  <2> QED BY <2>5, <2>6, <2>7
<1>8. CASE e.type = "steered"
  <2>1. /\ wire' = [t \in Letters |-> << >>]
        /\ UNCHANGED <<answer, over, saved>>
        /\ answer[s] = Absent
    BY <1>2, <1>3, <1>8 DEF Written, Recorded, Legal, View
  <2>2. wire'[s] = << >> /\ UNCHANGED <<answer[s], Row(s), Shown(s)>>
    BY <1>4, <2>1 DEF Row, Shown
  <2> QED BY <1>5, <2>1, <2>2 DEF Moves
<1>9. CASE e.type = "matchup_done"
  <2>1. UNCHANGED <<wire, answer, saved, recorded>> /\ over' = "matchup_done" /\ Whole(View)
    BY <1>2, <1>3, <1>9 DEF Written, Recorded, Legal
  <2>2. UNCHANGED <<wire[s], answer[s], Row(s)>>
    BY <1>4, <2>1 DEF Row
  <2>3. CASE s \in Visible
    <3>1. answer[s] # Absent /\ Shown(s)' = "matchup_done"
      BY <1>4, <2>1, <2>3 DEF Whole, View, Shown
    <3> QED BY <1>5, <2>2, <3>1 DEF Moves
  <2>4. CASE s \notin Visible
    <3>1. Shown(s)' = Shown(s)
      BY <1>4, <2>4 DEF Shown
    <3> QED BY <2>2, <3>1 DEF Moves
  <2> QED BY <2>3, <2>4
<1> QED BY <1>3, <1>6, <1>7, <1>8, <1>9, EventIs DEF Event

LEMMA MovesNext ==
  ASSUME IndInv, [Next]_vars, NEW s \in Letters PROVE Moves(s)
<1>1. CASE CoreStep /\ UNCHANGED out
  <2>1. UNCHANGED <<kind, saved, wire, answer, over>>
    BY <1>1, CoreStill DEF Still, round, rows
  <2> QED BY <2>1, RoundStands DEF Moves, Row, Shown
<1>2. CASE EndResponse
  <2>1. UNCHANGED <<kind, saved, wire, answer>> /\ consumer # "done"
    BY <1>2 DEF EndResponse, LoopEnds, round, rows
  <2>2. Visible' = Visible /\ Persisted' = Persisted
    BY <2>1, RoundStands
  <2>3. UNCHANGED <<wire[s], answer[s], Row(s)>>
    BY <2>1, <2>2 DEF Row
  <2>4. over' = over \/ (over = None /\ over' \in {"run_error", "cut"})
    <3>1. failed => over = None
      BY <2>1 DEF IndInv, Reads
    <3> QED BY <1>2, <3>1 DEF EndResponse
  <2>5. Shown(s)' = Shown(s) \/ (Shown(s) = None /\ Shown(s)' \in {"run_error", "cut"})
    BY <2>2, <2>4 DEF Shown
  <2> QED BY <2>3, <2>5 DEF Moves
<1>3. CASE UNCHANGED vars
  BY <1>3, StillStutters DEF Moves, Row, Shown
<1> QED BY <1>1, <1>2, <1>3, MovesDelivers DEF Next, CoreStep

LEMMA ViewsStart == Init => ViewA!Init /\ ViewB!Init
<1> SUFFICES ASSUME Init PROVE ViewA!Init /\ ViewB!Init
  OBVIOUS
<1>1. \A s \in Letters : wire[s] = << >> /\ answer[s] = Absent /\ saved[s] = Absent /\ over = None
  BY DEF Init, CoreInit
<1>2. "A" \in Letters /\ "B" \in Letters
  OBVIOUS
<1> QED BY <1>1, <1>2 DEF ViewA!Init, ViewB!Init, Row

LEMMA ViewAMoves == Moves("A") => [ViewA!Next]_(ViewA!view)
<1>1. "A" \in Visible /\ "A" \in Visible'
  BY DEF Visible, Slots
<1>2. Shown("A") = over /\ Shown("A")' = over'
  BY <1>1 DEF Shown
<1> QED BY <1>2 DEF Moves, ViewA!Next, ViewA!view, ViewA!Grow, ViewA!Reset, ViewA!Save,
           ViewA!Answer, ViewA!End, ViewA!Open

LEMMA ViewBMoves == Moves("B") => [ViewB!Next]_(ViewB!view)
BY DEF Moves, Shown, ViewB!Next, ViewB!view, ViewB!Grow, ViewB!Reset, ViewB!Save,
       ViewB!Answer, ViewB!End, ViewB!Open

\* What the reader of a slot and the database see of a round is SlotView: the
\* text only grows or is emptied before the answer, the answer is that text and
\* the row, and nothing follows the end.
THEOREM ReadersSee == Spec => ReadersView
<1>1. IndInv /\ [Next]_vars => [ViewA!Next]_(ViewA!view)
  BY MovesNext, ViewAMoves
<1>2. IndInv /\ [Next]_vars => [ViewB!Next]_(ViewB!view)
  BY MovesNext, ViewBMoves
<1>3. Spec => ViewA!Spec
  BY <1>1, ViewsStart, Inductive, PTL DEF Spec, ViewA!Spec
<1>4. Spec => ViewB!Spec
  BY <1>2, ViewsStart, Inductive, PTL DEF Spec, ViewB!Spec
<1> QED BY <1>3, <1>4 DEF ReadersView

(***************************************************************************)
(* The wire formats: their inductive invariant.                            *)
(***************************************************************************)
Hook == views["hook"]

Tokens == Slot \X (0..MaxSteers)
HookViews ==
  [column : [Slot -> Seq(Tokens)], at : [Slot -> {"unknown", "open", "closed"}],
   failures : SUBSET Slot, end : {"none", "error", "done"}]

\* A text with the mark of the slot's failure, and what the readers of one stream
\* can tell of where a slot is, and of the end.
Annotated(h, s) == IF s \in h.failures THEN Append(h.column[s], Marked) ELSE h.column[s]
Finished(h, s)  == IF h.at[s] = "closed" THEN "closed" ELSE "unknown"
Broken(h)       == IF h.end = "error" THEN "error" ELSE "none"

\* What each reader holds when the hook holds h.
AgUiHolds(h) ==
  [column |-> [s \in Slot |-> Annotated(h, s)], at |-> h.at, failures |-> h.failures,
   end |-> h.end]
BridgeHolds(h) ==
  [column |-> h.column, at |-> [s \in Slot |-> Finished(h, s)], failures |-> h.failures,
   end |-> Broken(h)]
PlainHolds(h) ==
  [column |-> [s \in Slot |-> IF s = "A" THEN Annotated(h, s) ELSE << >>],
   at |-> [s \in Slot |-> IF s = "A" THEN Finished(h, s) ELSE "unknown"],
   failures |-> {}, end |-> Broken(h)]

\* What the OpenAI adapter keeps when the hook holds h.
KeptFor(h) == [slots |-> Started.slots, finished |-> {s \in Slot : h.at[s] = "closed"}]

\* A view of the slots shown: the others are not heard of.
Shows(h) ==
  /\ h \in HookViews
  /\ \A s \in Slot \ Visible : h.at[s] = "unknown" /\ h.column[s] = << >>

\* Every reader holds what the hook does, as far as its format can tell it.
Agreed ==
  /\ views["surfaces"] = Hook /\ views["vercel"] = Hook
  /\ views["ag-ui"] = AgUiHolds(Hook)
  /\ views["bridge"] = BridgeHolds(Hook)
  /\ views["plain"] = PlainHolds(Hook)

\* The hook holds what streamRound wrote, and the OpenAI adapter what it needs.
Ends(w, c) ==
  Len(w) =< Len(c) /\ \A i \in 1..Len(w) : c[Len(c) - Len(w) + i] = w[i]

Displayed ==
  /\ Shows(Hook) /\ chunks = KeptFor(Hook)
  /\ \A s \in Visible :
       /\ Hook.at[s] = IF answer[s] = Absent THEN "open" ELSE "closed"
       /\ Ends(Said(s, wire[s]), Hook.column[s])
       /\ accepted = 0 => Hook.column[s] = Said(s, wire[s])
  /\ Hook.end = "error" <=> over = "run_error"
  /\ Hook.end = "done" <=> over = "matchup_done"

\* A slot is told to have failed just before it ends, and only a steer steers.
Failing ==
  \A s \in Hook.failures :
    /\ s \in Visible
    /\ answer[s] # Absent \/ consumer # "reading"
         \/ (queue # << >> /\ Head(queue).type = "slot_done" /\ Head(queue).slot = s)

Asked == \A i \in 1..Len(queue) : queue[i].type = "steered" => accepted # 0

WiredInv == Agreed /\ Displayed /\ Failing /\ Asked

(***************************************************************************)
(* What each reader makes of an event.                                     *)
(***************************************************************************)
LEMMA OnePart ==
  ASSUME NEW v, NEW p
  PROVE  /\ InTurn(HookReads, v, <<p>>) = HookReads(v, p)
         /\ InTurn(SurfaceReads, v, <<p>>) = SurfaceReads(v, p)
         /\ InTurn(AgUiReads, v, <<p>>) = AgUiReads(v, p)
         /\ InTurn(VercelReads, v, <<p>>) = VercelReads(v, p)
         /\ InTurn(BridgeReads, v, <<p>>) = BridgeReads(v, p)
         /\ InTurn(PlainReads, v, <<p>>) = PlainReads(v, p)
BY DEF InTurn

\* What the OpenAI adapter keeps of a round.
Kept == [slots : {<<"A">>, <<"A", "B">>}, finished : SUBSET Slot]

\* A view of a reader of one stream, and what it may be told.
StreamViews ==
  [column : [Slot -> Seq(Tokens \cup {Marked})], at : [Slot -> {"unknown", "closed"}],
   failures : SUBSET Slot, end : {"none", "error"}]

LEMMA NothingAdded == ASSUME NEW S, NEW t \in Seq(S) PROVE t \o << >> = t
OBVIOUS

Adds(v, w, c, x, text) ==
  /\ w \in StreamViews /\ w.failures = v.failures /\ w.end = v.end
  /\ \A s \in Slot \ {x} : w.column[s] = v.column[s] /\ w.at[s] = v.at[s]
  /\ w.column[x] = IF text = <<Marked>> THEN v.column[x] ELSE v.column[x] \o text
  /\ w.at[x] = IF x \in c.finished THEN "closed" ELSE v.at[x]

\* A choice adds its text to its column, and may close it.
LEMMA ChoiceIs ==
  ASSUME NEW v \in StreamViews, NEW c \in Kept, NEW x \in Slot,
         NEW text \in Seq(Tokens \cup {Marked})
  PROVE  Adds(v, ChoiceRead(v, Choice(c, x, text)), c, x, text)
<1> DEFINE told == IF text = <<Marked>> THEN << >> ELSE text
           heard == Hears(v, x, told)
           S == Seq(Tokens \cup {Marked})
<1>1. told \in S /\ v.column \in [Slot -> S] /\ v.column[x] \o told \in S
  BY DEF StreamViews
<1>2. v.column[x] \o told = IF text = <<Marked>> THEN v.column[x] ELSE v.column[x] \o text
  BY <1>1, NothingAdded
<1> HIDE DEF told, S
<1>3. /\ heard \in StreamViews /\ heard.column = [v.column EXCEPT ![x] = @ \o told]
      /\ heard.at = v.at /\ heard.failures = v.failures /\ heard.end = v.end
  BY <1>1 DEF StreamViews, Hears, S
<1>4. ChoiceRead(v, Choice(c, x, text)) = IF x \in c.finished THEN Closes(heard, x) ELSE heard
  BY DEF ChoiceRead, Choice, told
<1> HIDE DEF heard
<1>5. /\ heard.column[x] = IF text = <<Marked>> THEN v.column[x] ELSE v.column[x] \o text
      /\ \A s \in Slot \ {x} : heard.column[s] = v.column[s]
  BY <1>1, <1>2, <1>3
<1>6. LET w == Closes(heard, x)
      IN /\ w \in StreamViews /\ w.column = heard.column
         /\ w.at = [v.at EXCEPT ![x] = "closed"]
         /\ w.failures = v.failures /\ w.end = v.end
  BY <1>3 DEF StreamViews, Closes
<1>7. CASE x \in c.finished
  BY <1>4, <1>5, <1>6, <1>7 DEF StreamViews, Adds
<1>8. CASE x \notin c.finished
  BY <1>3, <1>4, <1>5, <1>8 DEF Adds
<1> QED BY <1>7, <1>8

ChunkAdds(v, w, c, slot, text, failure) ==
  /\ w \in StreamViews /\ w.end = v.end
  /\ w.failures = IF failure = Nobody THEN v.failures ELSE v.failures \cup {failure}
  /\ \A s \in Slot :
       /\ w.column[s] = IF s = slot /\ s \in Range(c.slots) /\ text # <<Marked>>
                        THEN v.column[s] \o text ELSE v.column[s]
       /\ w.at[s] = IF s \in c.finished THEN "closed" ELSE v.at[s]

\* A chunk is a choice of every slot: it adds to one column at most.
LEMMA ChunkIs ==
  ASSUME NEW v \in StreamViews, NEW c \in Kept, NEW slot \in Slot \cup {Nobody},
         NEW text \in Seq(Tokens \cup {Marked}), NEW failure \in Slot \cup {Nobody},
         c.finished \subseteq Range(c.slots), NEW p, <<p>> = Chunk(c, slot, text, failure)
  PROVE  ChunkAdds(v, BridgeReads(v, p), c, slot, text, failure)
<1> DEFINE Text(s) == IF s = slot THEN text ELSE << >>
           u == IF failure = Nobody THEN v ELSE Fails(v, failure)
<1>1. /\ p.type = "chunk" /\ p.failure = failure
      /\ p.choices = [i \in DOMAIN c.slots |-> Choice(c, c.slots[i], Text(c.slots[i]))]
  BY DEF Chunk
<1>2. /\ u \in StreamViews /\ u.column = v.column /\ u.at = v.at /\ u.end = v.end
      /\ u.failures = IF failure = Nobody THEN v.failures ELSE v.failures \cup {failure}
  BY DEF StreamViews, Fails, Slot
<1>3. BridgeReads(v, p) = InTurn(ChoiceRead, u, p.choices)
  BY <1>1 DEF BridgeReads
<1> DEFINE ta == Text("A")
           tb == Text("B")
<1>4. /\ ta \in Seq(Tokens \cup {Marked}) /\ ta = (IF "A" = slot THEN text ELSE << >>)
      /\ tb \in Seq(Tokens \cup {Marked}) /\ tb = (IF "B" = slot THEN text ELSE << >>)
  OBVIOUS
<1>5. \A s \in Slot : u.column[s] \o << >> = u.column[s]
  BY <1>2, NothingAdded DEF StreamViews
<1> HIDE DEF u, ta, tb
<1> DEFINE a == ChoiceRead(u, Choice(c, "A", ta))
<1>6. /\ a \in StreamViews /\ a.failures = u.failures /\ a.end = u.end
      /\ a.column["B"] = u.column["B"] /\ a.at["B"] = u.at["B"]
      /\ a.column["A"] = IF "A" = slot /\ text # <<Marked>> THEN u.column["A"] \o text
                         ELSE u.column["A"]
      /\ a.at["A"] = IF "A" \in c.finished THEN "closed" ELSE u.at["A"]
  <2>1. "A" \in Slot /\ "B" \in Slot \ {"A"} /\ << >> # <<Marked>>
    BY DEF Slot
  <2>2. Adds(u, a, c, "A", ta)
    BY <1>2, <1>4, <2>1, ChoiceIs
  <2> HIDE DEF a
  <2> QED BY <1>4, <1>5, <2>1, <2>2 DEF Adds
<1> DEFINE b == ChoiceRead(a, Choice(c, "B", tb))
<1>7. /\ b \in StreamViews /\ b.failures = u.failures /\ b.end = u.end
      /\ b.column["A"] = a.column["A"] /\ b.at["A"] = a.at["A"]
      /\ b.column["B"] = IF "B" = slot /\ text # <<Marked>> THEN u.column["B"] \o text
                         ELSE u.column["B"]
      /\ b.at["B"] = IF "B" \in c.finished THEN "closed" ELSE u.at["B"]
  <2> HIDE DEF a
  <2>1. "B" \in Slot /\ "A" \in Slot \ {"B"} /\ << >> # <<Marked>>
    BY DEF Slot
  <2>2. Adds(a, b, c, "B", tb)
    BY <1>4, <1>6, <2>1, ChoiceIs
  <2> HIDE DEF b
  <2> QED BY <1>4, <1>5, <1>6, <2>1, <2>2 DEF Adds
<1>8. CASE c.slots = <<"A">>
  <2>1. p.choices = <<Choice(c, "A", ta)>> /\ Range(c.slots) = {"A"}
    BY <1>1, <1>8 DEF Range, ta
  <2>2. BridgeReads(v, p) = a
    BY <1>3, <2>1 DEF InTurn
  <2> HIDE DEF a
  <2> QED BY <1>2, <1>6, <2>1, <2>2 DEF Slot, ChunkAdds
<1>9. CASE c.slots = <<"A", "B">>
  <2>1. /\ p.choices = <<Choice(c, "A", ta), Choice(c, "B", tb)>>
        /\ Range(c.slots) = {"A", "B"}
    BY <1>1, <1>9 DEF Range, ta, tb
  <2>2. BridgeReads(v, p) = b
    BY <1>3, <2>1 DEF InTurn
  <2> HIDE DEF a, b
  <2> QED BY <1>2, <1>6, <1>7, <2>1, <2>2 DEF Slot, ChunkAdds
<1> QED BY <1>8, <1>9 DEF Kept

FirstAdds(v, w, c, slot, text) ==
  /\ w \in StreamViews /\ w.failures = v.failures /\ w.end = v.end
  /\ w.column["B"] = v.column["B"] /\ w.at["B"] = v.at["B"]
  /\ w.column["A"] = IF slot = "A" THEN v.column["A"] \o text ELSE v.column["A"]
  /\ w.at["A"] = IF "A" \in c.finished THEN "closed" ELSE v.at["A"]

\* The plain client reads the choice of slot A.
LEMMA FirstChoiceIs ==
  ASSUME NEW v \in StreamViews, NEW c \in Kept, NEW slot \in Slot \cup {Nobody},
         NEW text \in Seq(Tokens \cup {Marked}), NEW failure,
         NEW p, <<p>> = Chunk(c, slot, text, failure)
  PROVE  FirstAdds(v, PlainReads(v, p), c, slot, text)
<1> DEFINE told == IF slot = "A" THEN text ELSE << >>
           heard == Hears(v, "A", told)
           S == Seq(Tokens \cup {Marked})
<1>1. /\ p.type = "chunk" /\ p.choices # << >> /\ p.choices[1] = Choice(c, "A", told)
  <2>1. c.slots[1] = "A" /\ 1 \in DOMAIN c.slots
    BY DEF Kept
  <2>2. p = [type |-> "chunk", failure |-> failure,
             choices |-> [i \in DOMAIN c.slots |->
               Choice(c, c.slots[i], IF c.slots[i] = slot THEN text ELSE << >>)]]
    BY DEF Chunk
  <2>3. p.choices[1] = Choice(c, "A", told) /\ DOMAIN p.choices # {}
    BY <2>1, <2>2
  <2> QED BY <2>2, <2>3
<1>2. told \in S /\ v.column \in [Slot -> S] /\ "A" \in Slot /\ "B" \in Slot
      /\ v.column["A"] \o told \in S
  BY DEF StreamViews, Slot
<1>3. v.column["A"] \o told = IF slot = "A" THEN v.column["A"] \o text ELSE v.column["A"]
  BY <1>2, NothingAdded
<1>4. PlainReads(v, p) = IF "A" \in c.finished THEN Closes(heard, "A") ELSE heard
  <2> DEFINE first == Choice(c, "A", told)
  <2>1. p.type # "error" /\ p.choices # << >> /\ p.choices[1] = first
    BY <1>1
  <2> HIDE DEF first
  <2>2. PlainReads(v, p) = IF first.stop THEN Closes(Hears(v, "A", first.content), "A")
                           ELSE Hears(v, "A", first.content)
    BY <2>1 DEF PlainReads
  <2> QED BY <2>2 DEF first, Choice
<1> HIDE DEF told, S
<1>5. /\ heard \in StreamViews /\ heard.column = [v.column EXCEPT !["A"] = @ \o told]
      /\ heard.at = v.at /\ heard.failures = v.failures /\ heard.end = v.end
  BY <1>2 DEF StreamViews, Hears, S
<1> HIDE DEF heard
<1>6. /\ heard.column["A"] = v.column["A"] \o told /\ heard.column["B"] = v.column["B"]
  BY <1>2, <1>5
<1>7. LET w == Closes(heard, "A")
      IN /\ w \in StreamViews /\ w.column = heard.column
         /\ w.at = [v.at EXCEPT !["A"] = "closed"]
         /\ w.failures = v.failures /\ w.end = v.end
  BY <1>2, <1>5 DEF StreamViews, Closes
<1>8. CASE "A" \in c.finished
  BY <1>2, <1>3, <1>4, <1>6, <1>7, <1>8 DEF StreamViews, FirstAdds
<1>9. CASE "A" \notin c.finished
  BY <1>3, <1>4, <1>5, <1>6, <1>9 DEF FirstAdds
<1> QED BY <1>8, <1>9

(***************************************************************************)
(* What an event does to all of them.                                      *)
(***************************************************************************)
\* After the event every reader again holds what the hook does.
Follows(h, e) ==
  LET h2 == HookReads(h, e)
      c2 == OpenAiAfter(KeptFor(h), e)
  IN /\ Shows(h2) /\ c2 = KeptFor(h2)
     /\ Receive("hook", h, c2, e) = h2
     /\ Receive("surfaces", h, c2, e) = h2
     /\ Receive("vercel", h, c2, e) = h2
     /\ Receive("ag-ui", AgUiHolds(h), c2, e) = AgUiHolds(h2)
     /\ Receive("bridge", BridgeHolds(h), c2, e) = BridgeHolds(h2)
     /\ Receive("plain", PlainHolds(h), c2, e) = PlainHolds(h2)

LEMMA ReceiveIs ==
  ASSUME NEW v, NEW c, NEW e
  PROVE  /\ Receive("hook", v, c, e) = InTurn(HookReads, v, Sse(e))
         /\ Receive("surfaces", v, c, e) = InTurn(SurfaceReads, v, A2ui(e))
         /\ Receive("ag-ui", v, c, e) = InTurn(AgUiReads, v, AgUi(e))
         /\ Receive("vercel", v, c, e) = InTurn(VercelReads, v, Vercel(e))
         /\ Receive("bridge", v, c, e) = InTurn(BridgeReads, v, OpenAi(c, e))
         /\ Receive("plain", v, c, e) = InTurn(PlainReads, v, OpenAi(c, e))
BY DEF Receive

LEMMA SlotsShown ==
  /\ Visible \in {{"A"}, {"A", "B"}} /\ Slot = {"A", "B"} /\ Nobody \notin Slot
  /\ Range(Started.slots) = Visible /\ Started.slots \in {<<"A">>, <<"A", "B">>}
  /\ Started.type = "matchup_started"
<1>1. Visible \in {{"A"}, {"A", "B"}}
  BY DEF Visible, Slots
<1>2. Range(<<"A">>) = {"A"} /\ Range(<<"A", "B">>) = {"A", "B"}
  BY DEF Range
<1> QED BY <1>1, <1>2 DEF Started, Slot, Nobody

LEMMA SameStream ==
  ASSUME NEW v \in StreamViews, NEW w \in StreamViews, v.failures = w.failures, v.end = w.end,
         \A s \in Slot : v.column[s] = w.column[s] /\ v.at[s] = w.at[s]
  PROVE  v = w
<1>1. v.column = w.column /\ v.at = w.at
  BY DEF StreamViews
<1> QED BY <1>1 DEF StreamViews

LEMMA KeptIs == ASSUME NEW h, Shows(h)
                PROVE  KeptFor(h) \in Kept /\ KeptFor(h).finished \subseteq Range(KeptFor(h).slots)
<1>1. \A s \in Slot : h.at[s] = "closed" => s \in Visible
  BY DEF Shows
<1> QED BY <1>1, SlotsShown DEF KeptFor, Kept

LEMMA Holding ==
  ASSUME NEW h \in HookViews
  PROVE  /\ BridgeHolds(h) \in StreamViews /\ PlainHolds(h) \in StreamViews
         /\ \A s \in Slot : Annotated(h, s) \in Seq(Tokens \cup {Marked})
<1>1. /\ \A s \in Slot : h.column[s] \in Seq(Tokens \cup {Marked})
      /\ h.column \in [Slot -> Seq(Tokens \cup {Marked})]
      /\ h.failures \in SUBSET Slot
  <2>1. ASSUME NEW s \in Slot PROVE h.column[s] \in Seq(Tokens \cup {Marked})
    <3>1. h.column[s] \in Seq(Tokens)
      BY DEF HookViews
    <3> QED BY <3>1
  <2> QED BY <2>1 DEF HookViews
<1>2. \A s \in Slot : Annotated(h, s) \in Seq(Tokens \cup {Marked})
  <2>1. ASSUME NEW s \in Slot PROVE Annotated(h, s) \in Seq(Tokens \cup {Marked})
    BY <1>1 DEF Annotated
  <2> QED BY <2>1
<1>3. << >> \in Seq(Tokens \cup {Marked})
  OBVIOUS
<1> QED BY <1>1, <1>2, <1>3 DEF BridgeHolds, PlainHolds, StreamViews, Finished, Broken

LEMMA TokensAre ==
  ASSUME NEW tok \in Tokens
  PROVE  <<tok>> # <<Marked>> /\ tok # Marked /\ <<tok>> \in Seq(Tokens)
         /\ <<tok>> \in Seq(Tokens \cup {Marked})
<1>1. tok # Marked
  BY SlotsShown DEF Tokens, Marked
<1> QED BY <1>1

LEMMA TokensWiden ==
  ASSUME NEW h \in HookViews, NEW s \in Slot
  PROVE  h.column[s] \in Seq(Tokens) /\ h.column[s] \in Seq(Tokens \cup {Marked})
<1>1. h.column[s] \in Seq(Tokens)
  BY DEF HookViews
<1> QED BY <1>1

\* A view that heard a text, closed a slot or was told of a failure, and nothing else.
Heard(h, h2, s, text) ==
  /\ h2 \in HookViews /\ h2.at = h.at /\ h2.failures = h.failures /\ h2.end = h.end
  /\ \A x \in Slot : h2.column[x] = IF x = s THEN h.column[x] \o text ELSE h.column[x]
Closed(h, h2, s) ==
  /\ h2 \in HookViews /\ h2.column = h.column /\ h2.failures = h.failures /\ h2.end = h.end
  /\ \A x \in Slot : h2.at[x] = IF x = s THEN "closed" ELSE h.at[x]
Failed(h, h2, s) ==
  /\ h2 \in HookViews /\ h2.column = h.column /\ h2.at = h.at /\ h2.end = h.end
  /\ h2.failures = h.failures \cup {s}

LEMMA HookIs ==
  ASSUME NEW h \in HookViews, NEW s \in Slot
  PROVE  /\ \A text \in Seq(Tokens) : Heard(h, Hears(h, s, text), s, text)
         /\ Closed(h, Closes(h, s), s)
         /\ Failed(h, Fails(h, s), s)
<1>1. ASSUME NEW text \in Seq(Tokens) PROVE Heard(h, Hears(h, s, text), s, text)
  <2>1. h.column[s] \o text \in Seq(Tokens) /\ h.column \in [Slot -> Seq(Tokens)]
    BY DEF HookViews
  <2> DEFINE column == [h.column EXCEPT ![s] = h.column[s] \o text]
  <2>2. /\ column \in [Slot -> Seq(Tokens)]
        /\ \A x \in Slot : column[x] = IF x = s THEN h.column[x] \o text ELSE h.column[x]
    BY <2>1
  <2>3. Hears(h, s, text) = [h EXCEPT !.column = column]
    BY DEF Hears, HookViews
  <2> HIDE DEF column
  <2> QED BY <2>2, <2>3 DEF Heard, HookViews
<1>2. Closed(h, Closes(h, s), s)
  <2> DEFINE at == [h.at EXCEPT ![s] = "closed"]
  <2>1. /\ at \in [Slot -> {"unknown", "open", "closed"}]
        /\ \A x \in Slot : at[x] = IF x = s THEN "closed" ELSE h.at[x]
    BY DEF HookViews
  <2>2. Closes(h, s) = [h EXCEPT !.at = at]
    BY DEF Closes, HookViews
  <2> HIDE DEF at
  <2> QED BY <2>1, <2>2 DEF Closed, HookViews
<1>3. Failed(h, Fails(h, s), s)
  BY DEF Fails, Failed, HookViews
<1> QED BY <1>1, <1>2, <1>3

\* An event that the hook, the surfaces and useChat are told in one part.
LEMMA OneByOne ==
  ASSUME NEW h, NEW h2, NEW e, NEW pa, NEW pv, h2 = HookReads(h, e), Shows(h2),
         Sse(e) = <<e>>, A2ui(e) = <<pa>>, Vercel(e) = <<pv>>,
         SurfaceReads(h, pa) = h2, VercelReads(h, pv) = h2,
         OpenAiAfter(KeptFor(h), e) = KeptFor(h2),
         InTurn(AgUiReads, AgUiHolds(h), AgUi(e)) = AgUiHolds(h2),
         InTurn(BridgeReads, BridgeHolds(h), OpenAi(KeptFor(h2), e)) = BridgeHolds(h2),
         InTurn(PlainReads, PlainHolds(h), OpenAi(KeptFor(h2), e)) = PlainHolds(h2)
  PROVE  Follows(h, e)
<1>1. /\ InTurn(HookReads, h, Sse(e)) = h2 /\ InTurn(SurfaceReads, h, A2ui(e)) = h2
      /\ InTurn(VercelReads, h, Vercel(e)) = h2
  BY OnePart
<1>2. /\ Receive("hook", h, KeptFor(h2), e) = h2
      /\ Receive("surfaces", h, KeptFor(h2), e) = h2
      /\ Receive("vercel", h, KeptFor(h2), e) = h2
  BY <1>1 DEF Receive
<1>3. /\ Receive("ag-ui", AgUiHolds(h), KeptFor(h2), e) = AgUiHolds(h2)
      /\ Receive("bridge", BridgeHolds(h), KeptFor(h2), e) = BridgeHolds(h2)
      /\ Receive("plain", PlainHolds(h), KeptFor(h2), e) = PlainHolds(h2)
  BY DEF Receive
<1> QED BY <1>2, <1>3 DEF Follows

\* A chunk tells the readers of one stream what the event tells the hook.
Chunked(h, h2, c, p, slot, text, failure) ==
  /\ <<p>> = Chunk(c, slot, text, failure)
  /\ h \in HookViews /\ h2 \in HookViews /\ c \in Kept /\ text \in Seq(Tokens \cup {Marked})
  /\ {slot, failure} \subseteq Slot \cup {Nobody} /\ c.finished \subseteq Range(c.slots)
  /\ slot # Nobody => slot \in Range(c.slots)
  /\ c.finished = {x \in Slot : h2.at[x] = "closed"}
  /\ \A x \in Slot : h.at[x] = "closed" => h2.at[x] = "closed"
  /\ \A x \in Slot : h2.column[x] = IF x = slot /\ text # <<Marked>>
                                    THEN h.column[x] \o text ELSE h.column[x]
  /\ h2.end = h.end
  /\ h2.failures = IF failure = Nobody THEN h.failures ELSE h.failures \cup {failure}
  /\ Annotated(h2, "A") = IF slot = "A" THEN Annotated(h, "A") \o text ELSE Annotated(h, "A")

LEMMA ChunkFollows ==
  ASSUME NEW h, NEW h2, NEW c, NEW p, NEW slot, NEW text, NEW failure,
         Chunked(h, h2, c, p, slot, text, failure)
  PROVE  /\ BridgeReads(BridgeHolds(h), p) = BridgeHolds(h2)
         /\ PlainReads(PlainHolds(h), p) = PlainHolds(h2)
<1> USE DEF Chunked
<1>1. BridgeReads(BridgeHolds(h), p) = BridgeHolds(h2)
  <2>1. PICK v, w, u : v = BridgeHolds(h) /\ w = BridgeReads(v, p) /\ u = BridgeHolds(h2)
    OBVIOUS
  <2>2. v \in StreamViews /\ u \in StreamViews
    BY <2>1, Holding
  <2>3. ChunkAdds(v, w, c, slot, text, failure)
    BY <2>1, <2>2, ChunkIs
  <2>4. /\ v.column = h.column /\ v.at = [x \in Slot |-> Finished(h, x)]
        /\ v.failures = h.failures /\ v.end = Broken(h)
        /\ u.column = h2.column /\ u.at = [x \in Slot |-> Finished(h2, x)]
        /\ u.failures = h2.failures /\ u.end = Broken(h2)
    BY <2>1 DEF BridgeHolds
  <2>5. \A x \in Slot : w.column[x] = u.column[x]
    BY <2>3, <2>4 DEF ChunkAdds, Slot, Nobody
  <2>6. \A x \in Slot : w.at[x] = u.at[x]
    BY <2>3, <2>4 DEF ChunkAdds, Finished
  <2>7. w \in StreamViews /\ w.failures = u.failures /\ w.end = u.end
    BY <2>3, <2>4 DEF ChunkAdds, Broken
  <2>8. w = u
    BY <2>2, <2>5, <2>6, <2>7, SameStream
  <2> QED BY <2>1, <2>8
<1>2. PlainReads(PlainHolds(h), p) = PlainHolds(h2)
  <2>1. PICK v, w, u : v = PlainHolds(h) /\ w = PlainReads(v, p) /\ u = PlainHolds(h2)
    OBVIOUS
  <2>2. v \in StreamViews /\ u \in StreamViews /\ Slot = {"A", "B"}
    BY <2>1, Holding, SlotsShown
  <2>3. FirstAdds(v, w, c, slot, text)
    BY <2>1, <2>2, FirstChoiceIs
  <2>4. /\ v.column["A"] = Annotated(h, "A") /\ v.column["B"] = << >>
        /\ v.at["A"] = Finished(h, "A") /\ v.at["B"] = "unknown"
        /\ v.failures = {} /\ v.end = Broken(h)
    BY <2>1, <2>2 DEF PlainHolds
  <2>5. /\ u.column["A"] = Annotated(h2, "A") /\ u.column["B"] = << >>
        /\ u.at["A"] = Finished(h2, "A") /\ u.at["B"] = "unknown"
        /\ u.failures = {} /\ u.end = Broken(h2)
    BY <2>1, <2>2 DEF PlainHolds
  <2>6. \A x \in Slot : w.column[x] = u.column[x]
    <3>1. Annotated(h2, "A") = IF slot = "A" THEN Annotated(h, "A") \o text ELSE Annotated(h, "A")
      OBVIOUS
    <3> HIDE DEF Chunked
    <3>2. w.column["A"] = Annotated(h2, "A") /\ w.column["B"] = << >>
      BY <2>3, <2>4, <3>1 DEF FirstAdds
    <3> QED BY <2>2, <2>5, <3>2
  <2>7. \A x \in Slot : w.at[x] = u.at[x]
    <3>1. /\ "A" \in c.finished <=> h2.at["A"] = "closed"
          /\ h.at["A"] = "closed" => h2.at["A"] = "closed"
      BY <2>2
    <3>2. w.at["A"] = IF "A" \in c.finished THEN "closed" ELSE Finished(h, "A")
      BY <2>3, <2>4 DEF FirstAdds
    <3> HIDE DEF Chunked
    <3>3. w.at["A"] = Finished(h2, "A")
      BY <3>1, <3>2 DEF Finished
    <3>4. w.at["B"] = "unknown"
      BY <2>3, <2>4 DEF FirstAdds
    <3> QED BY <2>2, <2>5, <3>3, <3>4
  <2>8. w \in StreamViews /\ w.failures = u.failures /\ w.end = u.end
    BY <2>3, <2>4, <2>5 DEF FirstAdds, Broken
  <2>9. w = u
    BY <2>2, <2>6, <2>7, <2>8, SameStream
  <2> QED BY <2>1, <2>9
<1> QED BY <1>1, <1>2

\* A token is heard in its own column by every reader.
LEMMA TokenFollows ==
  ASSUME NEW h, Shows(h), NEW s \in Visible, h.at[s] = "open", s \notin h.failures,
         NEW tok \in Tokens, NEW e, e = Event("token", s, <<tok>>)
  PROVE  Follows(h, e)
<1> DEFINE h2 == HookReads(h, e)
           c == KeptFor(h)
<1>1. /\ e.type = "token" /\ e.slot = s /\ e.text = <<tok>> /\ s \in Slot
      /\ e = Part("token", s, <<tok>>) /\ h \in HookViews
  BY SlotsShown DEF Event, Part, Shows
<1>2. Heard(h, h2, s, <<tok>>)
  <2>1. h2 = Hears(h, s, <<tok>>)
    BY <1>1 DEF HookReads
  <2> QED BY <1>1, <2>1, TokensAre, HookIs
<1>3. OpenAiAfter(c, e) = c /\ c = KeptFor(h2)
  BY <1>1, <1>2 DEF OpenAiAfter, KeptFor, Heard
<1>4. /\ Sse(e) = <<e>> /\ A2ui(e) = <<Part("text_append", s, <<tok>>)>>
      /\ AgUi(e) = <<Part("TEXT_MESSAGE_CONTENT", s, <<tok>>)>>
      /\ Vercel(e) = IF s = "A" THEN <<Part("text-delta", Nobody, <<tok>>)>>
                                ELSE <<Part("data-arena-b-delta", Nobody, <<tok>>)>>
  <2>1. Sse(e) = <<e>>
    BY <1>1 DEF Sse
  <2>2. A2ui(e) = <<Part("text_append", s, <<tok>>)>>
    BY <1>1 DEF A2ui, A2uiKind
  <2>3. AgUi(e) = <<Part("TEXT_MESSAGE_CONTENT", s, <<tok>>)>>
    BY <1>1 DEF AgUi
  <2>4. s = "A" \/ s = "B"
    BY <1>1, SlotsShown
  <2>5. Vercel(e) = IF s = "A" THEN <<Part("text-delta", Nobody, <<tok>>)>>
                              ELSE <<Part("data-arena-b-delta", Nobody, <<tok>>)>>
    BY <1>1, <2>4 DEF Vercel
  <2> QED BY <2>1, <2>2, <2>3, <2>5
<1>5. h2 = Hears(h, s, <<tok>>)
  BY <1>1 DEF HookReads
<1>6. SurfaceReads(h, Part("text_append", s, <<tok>>)) = h2
  BY <1>5 DEF SurfaceReads, Part
<1>7. /\ s = "A" => VercelReads(h, Part("text-delta", Nobody, <<tok>>)) = h2
      /\ s = "B" => VercelReads(h, Part("data-arena-b-delta", Nobody, <<tok>>)) = h2
  BY <1>5 DEF VercelReads, Part
<1> HIDE DEF h2, c
<1>8. \A x \in Slot : Annotated(h2, x) = IF x = s THEN Annotated(h, x) \o <<tok>>
                                                 ELSE Annotated(h, x)
  BY <1>2 DEF Annotated, Heard
<1>9. AgUiReads(AgUiHolds(h), Part("TEXT_MESSAGE_CONTENT", s, <<tok>>)) = AgUiHolds(h2)
  <2>1. AgUiReads(AgUiHolds(h), Part("TEXT_MESSAGE_CONTENT", s, <<tok>>))
          = Hears(AgUiHolds(h), s, <<tok>>)
    BY TokensAre DEF AgUiReads, Part, AgUiHolds
  <2> DEFINE f == [x \in Slot |-> Annotated(h, x)]
  <2>2. [x \in Slot |-> Annotated(h2, x)] = [f EXCEPT ![s] = f[s] \o <<tok>>]
    BY <1>1, <1>8
  <2> QED BY <1>1, <1>2, <2>1, <2>2 DEF Hears, AgUiHolds, Heard
<1>10. Shows(h2)
  BY <1>1, <1>2 DEF Shows, Heard
<1>11. PICK p : <<p>> = Chunk(c, s, <<tok>>, Nobody) /\ <<p>> = OpenAi(c, e)
  BY <1>1 DEF Chunk, OpenAi
<1>12. /\ BridgeReads(BridgeHolds(h), p) = BridgeHolds(h2)
       /\ PlainReads(PlainHolds(h), p) = PlainHolds(h2)
  <2>1. c \in Kept /\ c.finished \subseteq Range(c.slots) /\ s \in Range(c.slots)
    BY KeptIs, SlotsShown DEF c, KeptFor
  <2>2. c.finished = {x \in Slot : h2.at[x] = "closed"}
    BY <1>2 DEF c, KeptFor, Heard
  <2>3. /\ h2 \in HookViews /\ h2.end = h.end /\ h2.failures = h.failures /\ h2.at = h.at
        /\ \A x \in Slot : h2.column[x] = IF x = s /\ <<tok>> # <<Marked>>
                                          THEN h.column[x] \o <<tok>> ELSE h.column[x]
    BY <1>2, TokensAre DEF Heard
  <2>4. Annotated(h2, "A") = IF s = "A" THEN Annotated(h, "A") \o <<tok>> ELSE Annotated(h, "A")
    BY <1>8, SlotsShown
  <2>5. /\ <<tok>> \in Seq(Tokens \cup {Marked})
        /\ Nobody \in Slot \cup {Nobody} /\ s \in Slot \cup {Nobody}
    BY <1>1, TokensAre
  <2>6. Chunked(h, h2, c, p, s, <<tok>>, Nobody)
    BY <1>1, <1>11, <2>1, <2>2, <2>3, <2>4, <2>5 DEF Chunked
  <2> QED BY <2>6, ChunkFollows
<1>13. /\ InTurn(AgUiReads, AgUiHolds(h), AgUi(e)) = AgUiHolds(h2)
       /\ InTurn(BridgeReads, BridgeHolds(h), OpenAi(c, e)) = BridgeHolds(h2)
       /\ InTurn(PlainReads, PlainHolds(h), OpenAi(c, e)) = PlainHolds(h2)
  BY <1>4, <1>9, <1>11, <1>12, OnePart
<1>14. \E pv : Vercel(e) = <<pv>> /\ VercelReads(h, pv) = h2
  BY <1>1, <1>4, <1>7, SlotsShown
<1> QED BY <1>3, <1>4, <1>6, <1>10, <1>13, <1>14, OneByOne DEF h2, c

\* A failure is told in the text by the formats that have no other place for it.
LEMMA ErrorFollows ==
  ASSUME NEW h, Shows(h), NEW s \in Visible, h.at[s] = "open", s \notin h.failures,
         NEW e, e = Event("slot_error", s, << >>)
  PROVE  Follows(h, e)
<1> DEFINE h2 == HookReads(h, e)
           c == KeptFor(h)
<1>1. /\ e.type = "slot_error" /\ e.slot = s /\ e.text = << >> /\ s \in Slot
      /\ h \in HookViews /\ e = Part("slot_error", s, << >>)
  BY SlotsShown DEF Event, Part, Shows
<1>2. h2 = Fails(h, s)
  BY <1>1 DEF HookReads
<1>3. Failed(h, h2, s)
  BY <1>1, <1>2, HookIs
<1>4. OpenAiAfter(c, e) = c /\ c = KeptFor(h2)
  BY <1>1, <1>3 DEF OpenAiAfter, KeptFor, Failed
<1> DEFINE pg == Part("TEXT_MESSAGE_CONTENT", s, <<Marked>>)
<1>5. /\ Sse(e) = <<e>> /\ A2ui(e) = <<Part("error", s, << >>)>>
      /\ AgUi(e) = <<Part("CUSTOM", s, << >>), pg>>
      /\ Vercel(e) = <<Part("data-arena-error", s, << >>)>>
  <2>1. Sse(e) = <<e>>
    BY <1>1 DEF Sse
  <2>2. A2ui(e) = <<Part("error", s, << >>)>>
    BY <1>1 DEF A2ui, A2uiKind
  <2>3. AgUi(e) = <<Part("CUSTOM", s, << >>), pg>>
    BY <1>1 DEF AgUi
  <2>4. Vercel(e) = <<Part("data-arena-error", s, << >>)>>
    BY <1>1 DEF Vercel
  <2> QED BY <2>1, <2>2, <2>3, <2>4
<1>6. /\ SurfaceReads(h, Part("error", s, << >>)) = h2
      /\ VercelReads(h, Part("data-arena-error", s, << >>)) = h2
  <2>1. SurfaceReads(h, Part("error", s, << >>)) = h2
    BY <1>2 DEF SurfaceReads, Part
  <2>2. VercelReads(h, Part("data-arena-error", s, << >>)) = h2
    BY <1>2 DEF VercelReads, Part
  <2> QED BY <2>1, <2>2
<1> HIDE DEF h2, c
<1>7. \A x \in Slot : Annotated(h2, x) = IF x = s THEN Annotated(h, x) \o <<Marked>>
                                                 ELSE Annotated(h, x)
  <2>1. \A x \in Slot : h.column[x] \in Seq(Tokens \cup {Marked})
    BY <1>1, TokensWiden
  <2>2. \A x \in Slot : Append(h.column[x], Marked) = h.column[x] \o <<Marked>>
    BY <2>1, AppendIsConcat
  <2> QED BY <1>1, <1>3, <2>2 DEF Annotated, Failed
<1>8. InTurn(AgUiReads, AgUiHolds(h), AgUi(e)) = AgUiHolds(h2)
  <2>1. AgUiReads(AgUiHolds(h), Part("CUSTOM", s, << >>)) = AgUiHolds(h)
    BY DEF AgUiReads, Part
  <2>2. AgUiReads(AgUiHolds(h), pg) = Fails(Hears(AgUiHolds(h), s, <<Marked>>), s)
    BY DEF AgUiReads, Part, AgUiHolds
  <2>3. InTurn(AgUiReads, AgUiHolds(h), AgUi(e)) = AgUiReads(AgUiHolds(h), pg)
    BY <1>5, <2>1 DEF InTurn
  <2> DEFINE f == [x \in Slot |-> Annotated(h, x)]
  <2>4. [x \in Slot |-> Annotated(h2, x)] = [f EXCEPT ![s] = f[s] \o <<Marked>>]
    BY <1>1, <1>7
  <2> QED BY <1>3, <2>2, <2>3, <2>4 DEF Hears, Fails, AgUiHolds, Failed
<1>9. Shows(h2)
  BY <1>3 DEF Shows, Failed
<1>10. PICK p : <<p>> = Chunk(c, s, <<Marked>>, s) /\ <<p>> = OpenAi(c, e)
  BY <1>1 DEF Chunk, OpenAi
<1>11. /\ BridgeReads(BridgeHolds(h), p) = BridgeHolds(h2)
       /\ PlainReads(PlainHolds(h), p) = PlainHolds(h2)
  <2>1. c \in Kept /\ c.finished \subseteq Range(c.slots) /\ s \in Range(c.slots)
    BY KeptIs, SlotsShown DEF c, KeptFor
  <2>2. c.finished = {x \in Slot : h2.at[x] = "closed"}
    BY <1>3 DEF c, KeptFor, Failed
  <2>3. /\ h2 \in HookViews /\ h2.end = h.end /\ h2.at = h.at /\ h2.column = h.column
        /\ h2.failures = IF s = Nobody THEN h.failures ELSE h.failures \cup {s}
    BY <1>1, <1>3, SlotsShown DEF Failed
  <2>4. Annotated(h2, "A") = IF s = "A" THEN Annotated(h, "A") \o <<Marked>> ELSE Annotated(h, "A")
    BY <1>7, SlotsShown
  <2>5. <<Marked>> \in Seq(Tokens \cup {Marked})
    OBVIOUS
  <2>6. Chunked(h, h2, c, p, s, <<Marked>>, s)
    BY <1>1, <1>10, <2>1, <2>2, <2>3, <2>4, <2>5 DEF Chunked
  <2> QED BY <2>6, ChunkFollows
<1>12. /\ InTurn(BridgeReads, BridgeHolds(h), OpenAi(c, e)) = BridgeHolds(h2)
       /\ InTurn(PlainReads, PlainHolds(h), OpenAi(c, e)) = PlainHolds(h2)
  BY <1>10, <1>11, OnePart
<1> QED BY <1>4, <1>5, <1>6, <1>8, <1>9, <1>12, OneByOne DEF h2, c

\* The end of a slot is told in its own message, part or choice.
LEMMA DoneFollows ==
  ASSUME NEW h, Shows(h), NEW s \in Visible, h.at[s] = "open",
         NEW e, e = Event("slot_done", s, << >>)
  PROVE  Follows(h, e)
<1> DEFINE h2 == HookReads(h, e)
           c == KeptFor(h2)
<1>1. /\ e.type = "slot_done" /\ e.slot = s /\ e.text = << >> /\ s \in Slot
      /\ h \in HookViews /\ e = Part("slot_done", s, << >>)
  BY SlotsShown DEF Event, Part, Shows
<1>2. h2 = Closes(h, s)
  BY <1>1 DEF HookReads
<1>3. Closed(h, h2, s)
  BY <1>1, <1>2, HookIs
<1>4. /\ Sse(e) = <<e>> /\ A2ui(e) = <<Part("surface_done", s, << >>)>>
      /\ AgUi(e) = <<Part("TEXT_MESSAGE_END", s, << >>)>>
      /\ Vercel(e) = IF s = "A" THEN <<Part("text-end", Nobody, << >>)>>
                                ELSE <<Part("data-arena-b-done", Nobody, << >>)>>
  <2>1. Sse(e) = <<e>>
    BY <1>1 DEF Sse
  <2>2. A2ui(e) = <<Part("surface_done", s, << >>)>>
    BY <1>1 DEF A2ui, A2uiKind
  <2>3. AgUi(e) = <<Part("TEXT_MESSAGE_END", s, << >>)>>
    BY <1>1 DEF AgUi
  <2>4. s = "A" \/ s = "B"
    BY <1>1, SlotsShown
  <2>5. Vercel(e) = IF s = "A" THEN <<Part("text-end", Nobody, << >>)>>
                              ELSE <<Part("data-arena-b-done", Nobody, << >>)>>
    BY <1>1, <2>4 DEF Vercel
  <2> QED BY <2>1, <2>2, <2>3, <2>5
<1>5. SurfaceReads(h, Part("surface_done", s, << >>)) = h2
  BY <1>2 DEF SurfaceReads, Part
<1>6. /\ s = "A" => VercelReads(h, Part("text-end", Nobody, << >>)) = h2
      /\ s = "B" => VercelReads(h, Part("data-arena-b-done", Nobody, << >>)) = h2
  BY <1>2 DEF VercelReads, Part
<1> HIDE DEF h2
<1>7. OpenAiAfter(KeptFor(h), e) = c
  <2>1. {x \in Slot : h2.at[x] = "closed"} = {x \in Slot : h.at[x] = "closed"} \cup {s}
    BY <1>1, <1>3 DEF Closed
  <2> QED BY <1>1, <2>1 DEF OpenAiAfter, KeptFor
<1> HIDE DEF c
<1>8. \A x \in Slot : Annotated(h2, x) = Annotated(h, x)
  BY <1>3 DEF Annotated, Closed
<1>9. AgUiReads(AgUiHolds(h), Part("TEXT_MESSAGE_END", s, << >>)) = AgUiHolds(h2)
  <2>1. AgUiReads(AgUiHolds(h), Part("TEXT_MESSAGE_END", s, << >>)) = Closes(AgUiHolds(h), s)
    BY DEF AgUiReads, Part
  <2>2. [x \in Slot |-> Annotated(h2, x)] = [x \in Slot |-> Annotated(h, x)]
    BY <1>8
  <2>3. [h.at EXCEPT ![s] = "closed"] = h2.at
    BY <1>1, <1>3 DEF Closed, HookViews
  <2> QED BY <1>3, <2>1, <2>2, <2>3 DEF Closes, AgUiHolds, Closed
<1>10. Shows(h2)
  BY <1>1, <1>3 DEF Shows, Closed
<1>11. PICK p : <<p>> = Chunk(c, s, << >>, Nobody) /\ <<p>> = OpenAi(c, e)
  BY <1>1 DEF Chunk, OpenAi
<1>12. /\ BridgeReads(BridgeHolds(h), p) = BridgeHolds(h2)
       /\ PlainReads(PlainHolds(h), p) = PlainHolds(h2)
  <2>1. c \in Kept /\ c.finished \subseteq Range(c.slots) /\ s \in Range(c.slots)
    BY <1>10, KeptIs, SlotsShown DEF c, KeptFor
  <2>2. c.finished = {x \in Slot : h2.at[x] = "closed"}
    BY DEF c, KeptFor
  <2>3. \A x \in Slot : h.column[x] \o << >> = h.column[x]
    BY <1>1, NothingAdded DEF HookViews
  <2>4. Annotated(h2, "A") = Annotated(h, "A") /\ Annotated(h, "A") \o << >> = Annotated(h, "A")
    BY <1>1, <1>8, Holding, NothingAdded, SlotsShown
  <2>5. << >> \in Seq(Tokens \cup {Marked})
    OBVIOUS
  <2>6. Chunked(h, h2, c, p, s, << >>, Nobody)
    BY <1>1, <1>3, <1>11, <2>1, <2>2, <2>3, <2>4, <2>5 DEF Chunked, Closed
  <2> QED BY <2>6, ChunkFollows
<1>13. /\ InTurn(AgUiReads, AgUiHolds(h), AgUi(e)) = AgUiHolds(h2)
       /\ InTurn(BridgeReads, BridgeHolds(h), OpenAi(c, e)) = BridgeHolds(h2)
       /\ InTurn(PlainReads, PlainHolds(h), OpenAi(c, e)) = PlainHolds(h2)
  BY <1>4, <1>9, <1>11, <1>12, OnePart
<1>14. \E pv : Vercel(e) = <<pv>> /\ VercelReads(h, pv) = h2
  BY <1>1, <1>4, <1>6, SlotsShown
<1> QED BY <1>4, <1>5, <1>7, <1>10, <1>13, <1>14, OneByOne DEF h2, c

\* Nobody acts on a steer.
LEMMA SteerFollows ==
  ASSUME NEW h, Shows(h), NEW e, e = Event("steered", None, << >>)
  PROVE  Follows(h, e) /\ HookReads(h, e) = h
<1> DEFINE c == KeptFor(h)
<1>1. /\ e.type = "steered" /\ e.slot = Nobody /\ e.text = << >> /\ h \in HookViews
      /\ e = Part("steered", Nobody, << >>)
  BY DEF Event, Part, Shows, Nobody
<1>2. HookReads(h, e) = h
  BY <1>1 DEF HookReads
<1>3. /\ Sse(e) = <<e>> /\ A2ui(e) = <<Part("steered", Nobody, << >>)>>
      /\ AgUi(e) = <<Part("CUSTOM", Nobody, << >>)>>
      /\ Vercel(e) = <<Part("data-arena-steered", Nobody, << >>)>>
  <2>1. Sse(e) = <<e>>
    BY <1>1 DEF Sse
  <2>2. A2ui(e) = <<Part("steered", Nobody, << >>)>>
    BY <1>1 DEF A2ui, A2uiKind
  <2>3. AgUi(e) = <<Part("CUSTOM", Nobody, << >>)>>
    BY <1>1 DEF AgUi
  <2>4. Vercel(e) = <<Part("data-arena-steered", Nobody, << >>)>>
    BY <1>1 DEF Vercel
  <2> QED BY <2>1, <2>2, <2>3, <2>4
<1>4. /\ SurfaceReads(h, Part("steered", Nobody, << >>)) = h
      /\ VercelReads(h, Part("data-arena-steered", Nobody, << >>)) = h
      /\ AgUiReads(AgUiHolds(h), Part("CUSTOM", Nobody, << >>)) = AgUiHolds(h)
      /\ OpenAiAfter(c, e) = c
  <2>1. SurfaceReads(h, Part("steered", Nobody, << >>)) = h
    BY DEF SurfaceReads, Part
  <2>2. VercelReads(h, Part("data-arena-steered", Nobody, << >>)) = h
    BY DEF VercelReads, Part
  <2>3. AgUiReads(AgUiHolds(h), Part("CUSTOM", Nobody, << >>)) = AgUiHolds(h)
    BY DEF AgUiReads, Part
  <2>4. OpenAiAfter(c, e) = c
    BY <1>1 DEF OpenAiAfter
  <2> QED BY <2>1, <2>2, <2>3, <2>4
<1> HIDE DEF c
<1>5. PICK p : <<p>> = Chunk(c, Nobody, << >>, Nobody) /\ <<p>> = OpenAi(c, e)
  BY <1>1 DEF Chunk, OpenAi
<1>6. /\ BridgeReads(BridgeHolds(h), p) = BridgeHolds(h)
      /\ PlainReads(PlainHolds(h), p) = PlainHolds(h)
  <2>1. c \in Kept /\ c.finished \subseteq Range(c.slots)
    BY KeptIs DEF c
  <2>2. c.finished = {x \in Slot : h.at[x] = "closed"}
    BY DEF c, KeptFor
  <2>3. << >> \in Seq(Tokens \cup {Marked}) /\ Nobody # "A" /\ Nobody \notin Slot
    BY SlotsShown
  <2>4. Chunked(h, h, c, p, Nobody, << >>, Nobody)
    BY <1>1, <1>5, <2>1, <2>2, <2>3 DEF Chunked
  <2> QED BY <2>4, ChunkFollows
<1>7. /\ InTurn(AgUiReads, AgUiHolds(h), AgUi(e)) = AgUiHolds(h)
      /\ InTurn(BridgeReads, BridgeHolds(h), OpenAi(c, e)) = BridgeHolds(h)
      /\ InTurn(PlainReads, PlainHolds(h), OpenAi(c, e)) = PlainHolds(h)
  BY <1>3, <1>4, <1>5, <1>6, OnePart
<1> QED BY <1>2, <1>3, <1>4, <1>7, OneByOne DEF c

LEMMA Settled ==
  ASSUME NEW a, NEW b, NEW c, NEW d, NEW how
  PROVE  Settles([column |-> a, at |-> b, failures |-> c, end |-> d], how)
           = [column |-> a, at |-> b, failures |-> c, end |-> how]
BY DEF Settles

\* The end of the run is told to all but a reader of the OpenAI stream, who is
\* only told that it broke.
LEMMA EndFollows ==
  ASSUME NEW h, Shows(h), NEW e,
         \/ e = Event("run_error", None, << >>)
         \/ e = Event("matchup_done", None, << >>) /\ h.end # "error"
  PROVE  /\ Follows(h, e)
         /\ HookReads(h, e) = Settles(h, IF e.type = "run_error" THEN "error" ELSE "done")
<1> DEFINE how == IF e.type = "run_error" THEN "error" ELSE "done"
           h2 == HookReads(h, e)
           c == KeptFor(h)
<1>1. /\ e.type \in {"run_error", "matchup_done"} /\ e.slot = Nobody /\ e.text = << >>
      /\ h \in HookViews /\ e = Part(e.type, Nobody, << >>)
      /\ e.type = "matchup_done" => h.end # "error"
  BY DEF Event, Part, Shows, Nobody
<1>2. h2 = Settles(h, how)
  BY <1>1 DEF HookReads
<1>3. /\ h2 \in HookViews /\ h2.end = how /\ h2.column = h.column /\ h2.at = h.at
      /\ h2.failures = h.failures
  BY <1>1, <1>2 DEF Settles, HookViews
<1>4. OpenAiAfter(c, e) = c /\ c = KeptFor(h2)
  BY <1>1, <1>3 DEF OpenAiAfter, KeptFor
<1> DEFINE pa == Part(IF e.type = "run_error" THEN "session_error" ELSE "session_done", Nobody, << >>)
           pg == Part(IF e.type = "run_error" THEN "RUN_ERROR" ELSE "RUN_FINISHED", Nobody, << >>)
           pv == Part(IF e.type = "run_error" THEN "error" ELSE "finish", Nobody, << >>)
<1>5. Sse(e) = <<e>> /\ A2ui(e) = <<pa>> /\ AgUi(e) = <<pg>> /\ Vercel(e) = <<pv>>
  <2>1. Sse(e) = <<e>>
    BY <1>1 DEF Sse
  <2>2. A2ui(e) = <<pa>>
    BY <1>1 DEF A2ui, A2uiKind
  <2>3. AgUi(e) = <<pg>>
    BY <1>1 DEF AgUi
  <2>4. Vercel(e) = <<pv>>
    BY <1>1 DEF Vercel
  <2> QED BY <2>1, <2>2, <2>3, <2>4
<1>6. /\ SurfaceReads(h, pa) = Settles(h, how) /\ VercelReads(h, pv) = Settles(h, how)
      /\ AgUiReads(AgUiHolds(h), pg) = Settles(AgUiHolds(h), how)
  <2>1. SurfaceReads(h, pa) = Settles(h, how)
    BY <1>1 DEF SurfaceReads, Part
  <2>2. VercelReads(h, pv) = Settles(h, how)
    BY <1>1 DEF VercelReads, Part
  <2>3. AgUiReads(AgUiHolds(h), pg) = Settles(AgUiHolds(h), how)
    BY <1>1 DEF AgUiReads, Part
  <2> QED BY <2>1, <2>2, <2>3
<1> HIDE DEF h2, c, pa, pg, pv
<1>7. /\ [x \in Slot |-> Annotated(h2, x)] = [x \in Slot |-> Annotated(h, x)]
      /\ [x \in Slot |-> Finished(h2, x)] = [x \in Slot |-> Finished(h, x)]
      /\ Annotated(h2, "A") = Annotated(h, "A") /\ Finished(h2, "A") = Finished(h, "A")
  BY <1>3 DEF Annotated, Finished
<1>8. Settles(AgUiHolds(h), how) = AgUiHolds(h2)
  <2>1. PICK k : k = [x \in Slot |-> Annotated(h, x)]
    OBVIOUS
  <2>2. AgUiHolds(h2) = [column |-> k, at |-> h.at, failures |-> h.failures, end |-> how]
    BY <1>3, <1>7, <2>1 DEF AgUiHolds
  <2>3. AgUiHolds(h) = [column |-> k, at |-> h.at, failures |-> h.failures, end |-> h.end]
    BY <2>1 DEF AgUiHolds
  <2> HIDE DEF how
  <2> QED BY <2>2, <2>3, Settled
<1>9. CASE e.type = "run_error"
  <2>1. OpenAi(c, e) = <<[type |-> "error"]>>
    BY <1>9 DEF OpenAi
  <2>2. /\ BridgeReads(BridgeHolds(h), [type |-> "error"]) = Settles(BridgeHolds(h), "error")
        /\ PlainReads(PlainHolds(h), [type |-> "error"]) = Settles(PlainHolds(h), "error")
    BY DEF BridgeReads, PlainReads
  <2>3. Settles(BridgeHolds(h), "error") = BridgeHolds(h2)
    <3>1. PICK k : k = [x \in Slot |-> Finished(h, x)]
      OBVIOUS
    <3>2. BridgeHolds(h2) = [column |-> h.column, at |-> k, failures |-> h.failures, end |-> "error"]
      BY <1>3, <1>7, <1>9, <3>1 DEF BridgeHolds, Broken
    <3>3. BridgeHolds(h) = [column |-> h.column, at |-> k, failures |-> h.failures, end |-> Broken(h)]
      BY <3>1 DEF BridgeHolds
    <3> QED BY <3>2, <3>3, Settled
  <2>4. Settles(PlainHolds(h), "error") = PlainHolds(h2)
    <3>1. PICK z, k, m :
                      /\ z = {}
                      /\ k = [x \in Slot |-> IF x = "A" THEN Annotated(h, x) ELSE << >>]
                      /\ m = [x \in Slot |-> IF x = "A" THEN Finished(h, x) ELSE "unknown"]
      OBVIOUS
    <3>2. /\ k = [x \in Slot |-> IF x = "A" THEN Annotated(h2, x) ELSE << >>]
          /\ m = [x \in Slot |-> IF x = "A" THEN Finished(h2, x) ELSE "unknown"]
      BY <1>7, <3>1
    <3>3. PlainHolds(h2) = [column |-> k, at |-> m, failures |-> z, end |-> "error"]
      BY <1>3, <1>9, <3>1, <3>2 DEF PlainHolds, Broken
    <3>4. PlainHolds(h) = [column |-> k, at |-> m, failures |-> z, end |-> Broken(h)]
      BY <3>1 DEF PlainHolds
    <3> QED BY <3>3, <3>4, Settled
  <2>5. /\ InTurn(AgUiReads, AgUiHolds(h), AgUi(e)) = AgUiHolds(h2)
        /\ InTurn(BridgeReads, BridgeHolds(h), OpenAi(c, e)) = BridgeHolds(h2)
        /\ InTurn(PlainReads, PlainHolds(h), OpenAi(c, e)) = PlainHolds(h2)
    BY <1>5, <1>6, <1>8, <2>1, <2>2, <2>3, <2>4, OnePart
  <2>6. Shows(h2)
    BY <1>3 DEF Shows
  <2> QED BY <1>2, <1>4, <1>5, <1>6, <2>5, <2>6, OneByOne DEF h2, c
<1>10. CASE e.type = "matchup_done"
  <2>1. OpenAi(c, e) = << >>
    BY <1>10 DEF OpenAi
  <2>2. Broken(h2) = Broken(h)
    BY <1>1, <1>3, <1>10 DEF Broken
  <2>3. BridgeHolds(h) = BridgeHolds(h2)
    BY <1>3, <1>7, <2>2 DEF BridgeHolds
  <2>4. PlainHolds(h) = PlainHolds(h2)
    BY <1>3, <1>7, <2>2 DEF PlainHolds
  <2>5. /\ InTurn(BridgeReads, BridgeHolds(h), OpenAi(c, e)) = BridgeHolds(h2)
        /\ InTurn(PlainReads, PlainHolds(h), OpenAi(c, e)) = PlainHolds(h2)
    BY <2>1, <2>3, <2>4 DEF InTurn
  <2>6. InTurn(AgUiReads, AgUiHolds(h), AgUi(e)) = AgUiHolds(h2)
    BY <1>5, <1>6, <1>8, OnePart
  <2>7. Shows(h2)
    BY <1>3 DEF Shows
  <2> QED BY <1>2, <1>4, <1>5, <1>6, <2>5, <2>6, <2>7, OneByOne DEF h2, c
<1> QED BY <1>1, <1>2, <1>9, <1>10 DEF h2

(***************************************************************************)
(* The first write.                                                        *)
(***************************************************************************)
Opened == [s \in Slot |-> IF s \in Visible THEN "open" ELSE "unknown"]
Start  == [column |-> [s \in Slot |-> << >>], at |-> Opened, failures |-> {}, end |-> "none"]

LEMMA OpensIs ==
  ASSUME NEW a, NEW b, NEW c, NEW d, NEW s
  PROVE  Opens([column |-> a, at |-> b, failures |-> c, end |-> d], s)
           = [column |-> a, at |-> [b EXCEPT ![s] = "open"], failures |-> c, end |-> d]
BY DEF Opens

LEMMA StartHolds ==
  /\ Shows(Start) /\ AgUiHolds(Start) = Start
  /\ BridgeHolds(Start) = NothingYet /\ PlainHolds(Start) = NothingYet
  /\ KeptFor(Start) = OpenAiAfter(OpenAiStart, Started)
  /\ Start.failures = {} /\ Start.end = "none" /\ Start.at = Opened
  /\ Start.column = [s \in Slot |-> << >>]
<1>1. /\ Start = [column |-> [s \in Slot |-> << >>], at |-> Opened, failures |-> {}, end |-> "none"]
      /\ NothingYet = [column |-> [s \in Slot |-> << >>], at |-> [s \in Slot |-> "unknown"],
                       failures |-> {}, end |-> "none"]
  BY DEF Start, NothingYet
<1>2. /\ Start.failures = {} /\ Start.end = "none" /\ Start.at = Opened
      /\ Start.column = [s \in Slot |-> << >>]
  BY <1>1
<1>3. << >> \in Seq(Tokens) /\ Opened \in [Slot -> {"unknown", "open", "closed"}]
      /\ \A s \in Slot : Opened[s] # "closed" /\ (s \notin Visible => Opened[s] = "unknown")
  BY DEF Opened
<1>4. Start \in HookViews
  <2>1. [s \in Slot |-> << >>] \in [Slot -> Seq(Tokens)]
    BY <1>3
  <2> QED BY <1>1, <1>3, <2>1 DEF HookViews
<1>5. Shows(Start)
  BY <1>2, <1>3, <1>4 DEF Shows
<1>6. /\ [s \in Slot |-> Annotated(Start, s)] = [s \in Slot |-> << >>]
      /\ [s \in Slot |-> Finished(Start, s)] = [s \in Slot |-> "unknown"]
      /\ [s \in Slot |-> IF s = "A" THEN Annotated(Start, s) ELSE << >>] = [s \in Slot |-> << >>]
      /\ [s \in Slot |-> IF s = "A" THEN Finished(Start, s) ELSE "unknown"]
           = [s \in Slot |-> "unknown"]
      /\ Broken(Start) = "none"
  BY <1>2, <1>3 DEF Annotated, Finished, Broken
<1>7. AgUiHolds(Start) = Start
  BY <1>1, <1>2, <1>6 DEF AgUiHolds
<1>8. BridgeHolds(Start) = NothingYet
  BY <1>1, <1>2, <1>6 DEF BridgeHolds
<1>9. PlainHolds(Start) = NothingYet
  BY <1>1, <1>2, <1>6 DEF PlainHolds
<1>10. KeptFor(Start) = OpenAiAfter(OpenAiStart, Started)
  <2>1. {s \in Slot : Start.at[s] = "closed"} = {}
    BY <1>2, <1>3
  <2> QED BY <2>1, SlotsShown DEF KeptFor, OpenAiAfter, OpenAiStart
<1> QED BY <1>2, <1>5, <1>7, <1>8, <1>9, <1>10

LEMMA Joined ==
  \A w, x, y, z : <<w, x>> \o <<y>> = <<w, x, y>> /\ <<w, x>> \o <<y, z>> = <<w, x, y, z>>
<1> TAKE w, x, y, z
<1> DEFINE S == {w, x, y, z}
<1>1. <<w, x>> \o <<y>> = <<w, x, y>>
  <2>1. PICK p, q, r, u : p = <<w, x>> /\ q = <<y>> /\ r = <<w, x, y>> /\ u = p \o q
    OBVIOUS
  <2>2. p \in Seq(S) /\ Len(p) = 2 /\ q \in Seq(S) /\ Len(q) = 1 /\ r \in Seq(S) /\ Len(r) = 3
    BY <2>1
  <2>3. u \in Seq(S) /\ Len(u) = 3 /\ u[1] = p[1] /\ u[2] = p[2] /\ u[3] = q[1]
    BY <2>1, <2>2
  <2>4. u[1] = r[1] /\ u[2] = r[2] /\ u[3] = r[3]
    BY <2>1, <2>3
  <2>5. \A i \in 1..Len(u) : u[i] = r[i]
    BY <2>3, <2>4
  <2>6. u = r
    <3> HIDE DEF S
    <3> QED BY <2>2, <2>3, <2>5, SeqEqual
  <2> QED BY <2>1, <2>6
<1>2. <<w, x>> \o <<y, z>> = <<w, x, y, z>>
  <2>1. PICK p, q, r, u : p = <<w, x>> /\ q = <<y, z>> /\ r = <<w, x, y, z>> /\ u = p \o q
    OBVIOUS
  <2>2. p \in Seq(S) /\ Len(p) = 2 /\ q \in Seq(S) /\ Len(q) = 2 /\ r \in Seq(S) /\ Len(r) = 4
    BY <2>1
  <2>3. u \in Seq(S) /\ Len(u) = 4 /\ u[1] = p[1] /\ u[2] = p[2] /\ u[3] = q[1] /\ u[4] = q[2]
    BY <2>1, <2>2
  <2>4. u[1] = r[1] /\ u[2] = r[2] /\ u[3] = r[3] /\ u[4] = r[4]
    BY <2>1, <2>3
  <2>5. \A i \in 1..Len(u) : u[i] = r[i]
    BY <2>3, <2>4
  <2>6. u = r
    <3> HIDE DEF S
    <3> QED BY <2>2, <2>3, <2>5, SeqEqual
  <2> QED BY <2>1, <2>6
<1> QED BY <1>1, <1>2

LEMMA StartReceived ==
  ASSUME NEW c, c = KeptFor(Start)
  PROVE  /\ Receive("hook", NothingYet, c, Started) = Start
         /\ Receive("surfaces", NothingYet, c, Started) = Start
         /\ Receive("vercel", NothingYet, c, Started) = Start
         /\ Receive("ag-ui", NothingYet, c, Started) = AgUiHolds(Start)
         /\ Receive("bridge", NothingYet, c, Started) = BridgeHolds(Start)
         /\ Receive("plain", NothingYet, c, Started) = PlainHolds(Start)
<1> DEFINE n == NothingYet
           a == Opens(n, "A")
           b == Opens(a, "B")
           d == Opens(Opens(n, "B"), "A")
<1>1. (Visible = {"A"} => a = Start) /\ (Visible = {"A", "B"} => b = Start /\ d = Start)
  <2>1. PICK k, m, z : /\ k = [s \in Slot |-> << >>] /\ m = [s \in Slot |-> "unknown"] /\ z = {}
    OBVIOUS
  <2>2. n = [column |-> k, at |-> m, failures |-> z, end |-> "none"]
        /\ Start = [column |-> k, at |-> Opened, failures |-> z, end |-> "none"]
    BY <2>1 DEF Start, NothingYet
  <2> HIDE DEF n
  <2>3. a = [column |-> k, at |-> [m EXCEPT !["A"] = "open"], failures |-> z, end |-> "none"]
    BY <2>2, OpensIs
  <2>4. b = [column |-> k, at |-> [[m EXCEPT !["A"] = "open"] EXCEPT !["B"] = "open"],
             failures |-> z, end |-> "none"]
    <3> HIDE DEF a
    <3> QED BY <2>3, OpensIs
  <2>5. d = [column |-> k, at |-> [[m EXCEPT !["B"] = "open"] EXCEPT !["A"] = "open"],
             failures |-> z, end |-> "none"]
    <3>1. PICK w : w = Opens(n, "B")
      OBVIOUS
    <3>2. w = [column |-> k, at |-> [m EXCEPT !["B"] = "open"], failures |-> z, end |-> "none"]
      BY <2>2, <3>1, OpensIs
    <3>3. Opens(w, "A") = [column |-> k, at |-> [[m EXCEPT !["B"] = "open"] EXCEPT !["A"] = "open"],
                           failures |-> z, end |-> "none"]
      BY <3>2, OpensIs
    <3> QED BY <3>1, <3>3
  <2>6. CASE Visible = {"A"}
    <3>1. [m EXCEPT !["A"] = "open"] = Opened
      BY <2>1, <2>6 DEF Opened, Slot
    <3> QED BY <2>2, <2>3, <2>6, <3>1
  <2>7. CASE Visible = {"A", "B"}
    <3>1. /\ [[m EXCEPT !["A"] = "open"] EXCEPT !["B"] = "open"] = Opened
          /\ [[m EXCEPT !["B"] = "open"] EXCEPT !["A"] = "open"] = Opened
      BY <2>1, <2>7 DEF Opened, Slot
    <3> QED BY <2>2, <2>4, <2>5, <2>7, <3>1
  <2> QED BY <2>6, <2>7, SlotsShown
<1> HIDE DEF n
<1>2. \A v, s : /\ HookReads(v, Part("matchup_started", s, << >>)) = Opens(v, s)
                /\ SurfaceReads(v, Part("surface_init", s, << >>)) = Opens(v, s)
                /\ AgUiReads(v, Part("TEXT_MESSAGE_START", s, << >>)) = Opens(v, s)
                /\ AgUiReads(v, Part("RUN_STARTED", s, << >>)) = v
                /\ AgUiReads(v, Part("CUSTOM", s, << >>)) = v
  <2>1. \A v, s : HookReads(v, Part("matchup_started", s, << >>)) = Opens(v, s)
    BY DEF HookReads, Part
  <2>2. \A v, s : SurfaceReads(v, Part("surface_init", s, << >>)) = Opens(v, s)
    BY DEF SurfaceReads, Part
  <2>3. \A v, s : AgUiReads(v, Part("TEXT_MESSAGE_START", s, << >>)) = Opens(v, s)
    BY DEF AgUiReads, Part
  <2>4. \A v, s : /\ AgUiReads(v, Part("RUN_STARTED", s, << >>)) = v
                  /\ AgUiReads(v, Part("CUSTOM", s, << >>)) = v
    BY DEF AgUiReads, Part
  <2> QED BY <2>1, <2>2, <2>3, <2>4
<1>3. \A v : /\ VercelReads(v, Part("start", Nobody, << >>)) = v
             /\ VercelReads(v, Part("data-arena-meta", "B", << >>)) = Opens(v, "B")
             /\ VercelReads(v, Part("data-arena-meta", Nobody, << >>)) = v
             /\ VercelReads(v, Part("text-start", Nobody, << >>)) = Opens(v, "A")
  <2>1. \A v : VercelReads(v, Part("start", Nobody, << >>)) = v
    BY DEF VercelReads, Part
  <2>2. \A v : VercelReads(v, Part("data-arena-meta", "B", << >>)) = Opens(v, "B")
    BY DEF VercelReads, Part
  <2>3. \A v : VercelReads(v, Part("data-arena-meta", Nobody, << >>)) = v
    BY DEF VercelReads, Part, Nobody
  <2>4. \A v : VercelReads(v, Part("text-start", Nobody, << >>)) = Opens(v, "A")
    BY DEF VercelReads, Part
  <2> QED BY <2>1, <2>2, <2>3, <2>4
<1>4. ASSUME Visible = {"A"}
      PROVE /\ InTurn(HookReads, n, Sse(Started)) = Start
      /\ InTurn(SurfaceReads, n, A2ui(Started)) = Start
      /\ InTurn(AgUiReads, n, AgUi(Started)) = Start
      /\ InTurn(VercelReads, n, Vercel(Started)) = Start
  <2>1. Started.slots = <<"A">> /\ Started.type = "matchup_started"
    BY <1>4 DEF Started
  <2>2. /\ Sse(Started) = <<Part("matchup_started", "A", << >>)>>
        /\ A2ui(Started) = <<Part("surface_init", "A", << >>)>>
    BY <2>1 DEF Sse, A2ui
  <2>3. AgUi(Started) = <<Part("RUN_STARTED", Nobody, << >>), Part("CUSTOM", Nobody, << >>),
                          Part("TEXT_MESSAGE_START", "A", << >>)>>
    <3>1. [i \in DOMAIN Started.slots |-> Part("TEXT_MESSAGE_START", Started.slots[i], << >>)]
            = <<Part("TEXT_MESSAGE_START", "A", << >>)>>
      BY <2>1
    <3>2. AgUi(Started) = <<Part("RUN_STARTED", Nobody, << >>), Part("CUSTOM", Nobody, << >>)>>
            \o [i \in DOMAIN Started.slots |-> Part("TEXT_MESSAGE_START", Started.slots[i], << >>)]
      BY <2>1 DEF AgUi
    <3>3. PICK w, x, y, z : /\ w = Part("RUN_STARTED", Nobody, << >>)
                            /\ x = Part("CUSTOM", Nobody, << >>)
                            /\ y = Part("TEXT_MESSAGE_START", "A", << >>)
                            /\ z = Part("TEXT_MESSAGE_START", "B", << >>)
      OBVIOUS
    <3>4. AgUi(Started) = <<w, x>> \o <<y>>
      BY <3>1, <3>2, <3>3
    <3>5. <<w, x>> \o <<y>> = <<w, x, y>>
      BY Joined
    <3>6. AgUi(Started) = <<w, x, y>>
      BY <3>4, <3>5
    <3> QED BY <3>3, <3>6
  <2>4. Vercel(Started) = <<Part("start", Nobody, << >>), Part("data-arena-meta", Nobody, << >>),
                            Part("text-start", Nobody, << >>)>>
    <3>1. "B" \notin Range(Started.slots)
      BY <1>4, SlotsShown
    <3> QED BY <2>1, <3>1 DEF Vercel
  <2>5. InTurn(HookReads, n, Sse(Started)) = a
    BY <1>2, <2>2 DEF InTurn
  <2>6. InTurn(SurfaceReads, n, A2ui(Started)) = a
    BY <1>2, <2>2 DEF InTurn
  <2>7. InTurn(AgUiReads, n, AgUi(Started)) = a
    BY <1>2, <2>3 DEF InTurn
  <2>8. InTurn(VercelReads, n, Vercel(Started)) = a
    BY <1>3, <2>4 DEF InTurn
  <2> QED BY <1>1, <1>4, <2>5, <2>6, <2>7, <2>8
<1>5. ASSUME Visible = {"A", "B"}
      PROVE /\ InTurn(HookReads, n, Sse(Started)) = Start
      /\ InTurn(SurfaceReads, n, A2ui(Started)) = Start
      /\ InTurn(AgUiReads, n, AgUi(Started)) = Start
      /\ InTurn(VercelReads, n, Vercel(Started)) = Start
  <2>1. Started.slots = <<"A", "B">> /\ Started.type = "matchup_started"
    BY <1>5 DEF Started
  <2>2. /\ Sse(Started) = <<Part("matchup_started", "A", << >>), Part("matchup_started", "B", << >>)>>
        /\ A2ui(Started) = <<Part("surface_init", "A", << >>), Part("surface_init", "B", << >>)>>
    BY <2>1 DEF Sse, A2ui
  <2>3. AgUi(Started) = <<Part("RUN_STARTED", Nobody, << >>), Part("CUSTOM", Nobody, << >>),
                          Part("TEXT_MESSAGE_START", "A", << >>),
                          Part("TEXT_MESSAGE_START", "B", << >>)>>
    <3>1. [i \in DOMAIN Started.slots |-> Part("TEXT_MESSAGE_START", Started.slots[i], << >>)]
            = <<Part("TEXT_MESSAGE_START", "A", << >>), Part("TEXT_MESSAGE_START", "B", << >>)>>
      BY <2>1
    <3>2. AgUi(Started) = <<Part("RUN_STARTED", Nobody, << >>), Part("CUSTOM", Nobody, << >>)>>
            \o [i \in DOMAIN Started.slots |-> Part("TEXT_MESSAGE_START", Started.slots[i], << >>)]
      BY <2>1 DEF AgUi
    <3>3. PICK w, x, y, z : /\ w = Part("RUN_STARTED", Nobody, << >>)
                            /\ x = Part("CUSTOM", Nobody, << >>)
                            /\ y = Part("TEXT_MESSAGE_START", "A", << >>)
                            /\ z = Part("TEXT_MESSAGE_START", "B", << >>)
      OBVIOUS
    <3>4. AgUi(Started) = <<w, x>> \o <<y, z>>
      BY <3>1, <3>2, <3>3
    <3>5. <<w, x>> \o <<y, z>> = <<w, x, y, z>>
      BY Joined
    <3>6. AgUi(Started) = <<w, x, y, z>>
      BY <3>4, <3>5
    <3> QED BY <3>3, <3>6
  <2>4. Vercel(Started) = <<Part("start", Nobody, << >>), Part("data-arena-meta", "B", << >>),
                            Part("text-start", Nobody, << >>)>>
    <3>1. "B" \in Range(Started.slots)
      BY <1>5, SlotsShown
    <3> QED BY <2>1, <3>1 DEF Vercel
  <2>5. InTurn(HookReads, n, Sse(Started)) = b
    BY <1>2, <2>2 DEF InTurn
  <2>6. InTurn(SurfaceReads, n, A2ui(Started)) = b
    BY <1>2, <2>2 DEF InTurn
  <2>7. InTurn(AgUiReads, n, AgUi(Started)) = b
    BY <1>2, <2>3 DEF InTurn
  <2>8. InTurn(VercelReads, n, Vercel(Started)) = d
    BY <1>3, <2>4 DEF InTurn
  <2> QED BY <1>1, <1>5, <2>5, <2>6, <2>7, <2>8
<1>6. PICK p : <<p>> = Chunk(c, Nobody, << >>, Nobody) /\ <<p>> = OpenAi(c, Started)
  BY SlotsShown DEF Chunk, OpenAi
<1>7. /\ BridgeReads(n, p) = BridgeHolds(Start) /\ PlainReads(n, p) = PlainHolds(Start)
  <2>1. /\ c \in Kept /\ c.finished \subseteq Range(c.slots) /\ Start \in HookViews
        /\ c.finished = {x \in Slot : Start.at[x] = "closed"}
    BY StartHolds, KeptIs DEF KeptFor, Shows
  <2>2. << >> \in Seq(Tokens \cup {Marked}) /\ Nobody # "A" /\ Nobody \notin Slot
    BY SlotsShown
  <2>3. Chunked(Start, Start, c, p, Nobody, << >>, Nobody)
    BY <1>6, <2>1, <2>2 DEF Chunked
  <2>4. BridgeHolds(Start) = n /\ PlainHolds(Start) = n
    BY StartHolds DEF n
  <2> QED BY <2>3, <2>4, ChunkFollows
<1>8. /\ InTurn(BridgeReads, n, OpenAi(c, Started)) = BridgeHolds(Start)
      /\ InTurn(PlainReads, n, OpenAi(c, Started)) = PlainHolds(Start)
  BY <1>6, <1>7, OnePart
<1>9. /\ InTurn(HookReads, n, Sse(Started)) = Start
      /\ InTurn(SurfaceReads, n, A2ui(Started)) = Start
      /\ InTurn(AgUiReads, n, AgUi(Started)) = AgUiHolds(Start)
      /\ InTurn(VercelReads, n, Vercel(Started)) = Start
  BY <1>4, <1>5, SlotsShown, StartHolds
<1> QED BY <1>8, <1>9 DEF Receive, n

(***************************************************************************)
(* What a reader has of a slot ends with what streamRound wrote of it.     *)
(***************************************************************************)
LEMMA SaidIs ==
  ASSUME NEW s, NEW S, NEW t \in Seq(S)
  PROVE  /\ Len(Said(s, t)) = Len(t) /\ Said(s, t) \in Seq({s} \X S)
         /\ \A i \in 1..Len(t) : Said(s, t)[i] = <<s, t[i]>>
<1>1. DOMAIN t = 1..Len(t) /\ Len(t) \in Nat /\ \A i \in 1..Len(t) : t[i] \in S
  OBVIOUS
<1>2. Said(s, t) = [i \in 1..Len(t) |-> <<s, t[i]>>]
  BY <1>1 DEF Said
<1>3. \A i \in 1..Len(t) : <<s, t[i]>> \in {s} \X S
  BY <1>1
<1> HIDE DEF Said
<1>4. [i \in 1..Len(t) |-> <<s, t[i]>>] \in Seq({s} \X S)
  BY <1>1, <1>3
<1>5. Len([i \in 1..Len(t) |-> <<s, t[i]>>]) = Len(t)
  BY <1>1, <1>4
<1> QED BY <1>2, <1>4, <1>5

LEMMA EndsGrow ==
  ASSUME NEW S, NEW w \in Seq(S), NEW c \in Seq(S), NEW x \in S, Ends(w, c)
  PROVE  Ends(w \o <<x>>, c \o <<x>>)
<1>1. PICK u, d : u = w \o <<x>> /\ d = c \o <<x>>
  OBVIOUS
<1>2. /\ Len(u) = Len(w) + 1 /\ u[Len(w) + 1] = x /\ \A i \in 1..Len(w) : u[i] = w[i]
      /\ Len(d) = Len(c) + 1 /\ d[Len(c) + 1] = x /\ \A i \in 1..Len(c) : d[i] = c[i]
      /\ Len(w) \in Nat /\ Len(c) \in Nat
  BY <1>1
<1>3. Len(w) =< Len(c) /\ \A i \in 1..Len(w) : c[Len(c) - Len(w) + i] = w[i]
  BY DEF Ends
<1>4. ASSUME NEW i \in 1..Len(u) PROVE d[Len(d) - Len(u) + i] = u[i]
  <2>1. Len(d) - Len(u) + i = Len(c) - Len(w) + i
    BY <1>2
  <2>2. CASE i = Len(w) + 1
    BY <1>2, <2>2
  <2>3. CASE i \in 1..Len(w)
    <3>1. Len(c) - Len(w) + i \in 1..Len(c)
      BY <1>2, <1>3, <2>3
    <3> QED BY <1>2, <1>3, <2>1, <2>3, <3>1
  <2> QED BY <1>2, <2>2, <2>3
<1>5. Ends(u, d)
  BY <1>2, <1>3, <1>4 DEF Ends
<1> QED BY <1>1, <1>5

LEMMA EndsIsSuffix ==
  ASSUME NEW S, NEW w \in Seq(S), NEW c \in Seq(S), Ends(w, c)
  PROVE  IsSuffix(w, c)
<1> DEFINE n == Len(w)
           u == [i \in 1..Len(w) |-> w[Len(w) - i + 1]]
           d == [i \in 1..Len(c) |-> c[Len(c) - i + 1]]
<1>1. /\ n \in Nat /\ Len(c) \in Nat /\ n =< Len(c)
      /\ \A i \in 1..n : c[Len(c) - n + i] = w[i]
  BY DEF Ends
<1>2. u \in Seq(S) /\ Len(u) = n /\ d \in Seq(S) /\ Len(d) = Len(c)
  <2>1. \A i \in 1..Len(w) : w[Len(w) - i + 1] \in S
    <3>1. \A i \in 1..Len(w) : Len(w) - i + 1 \in 1..Len(w)
      BY <1>1
    <3> QED BY <3>1
  <2>2. \A i \in 1..Len(c) : c[Len(c) - i + 1] \in S
    <3>1. \A i \in 1..Len(c) : Len(c) - i + 1 \in 1..Len(c)
      BY <1>1
    <3> QED BY <3>1
  <2>3. u \in [1..Len(w) -> S] /\ d \in [1..Len(c) -> S]
    BY <2>1, <2>2
  <2> HIDE DEF u, d
  <2>4. \A k \in Nat : \A f \in [1..k -> S] : f \in Seq(S) /\ Len(f) = k
    OBVIOUS
  <2> QED BY <1>1, <2>3, <2>4
<1>3. \A i \in 1..n : u[i] = d[i]
  <2>1. ASSUME NEW i \in 1..n PROVE u[i] = d[i]
    <3>1. PICK j : j = n - i + 1
      OBVIOUS
    <3>2. j \in 1..n /\ Len(c) - n + j = Len(c) - i + 1 /\ i \in 1..Len(c)
      BY <1>1, <3>1
    <3>3. c[Len(c) - i + 1] = w[j]
      BY <1>1, <3>2
    <3> QED BY <3>1, <3>2, <3>3
  <2> QED BY <2>1
<1>4. Reverse(w) = u /\ Reverse(c) = d
  BY DEF Reverse
<1> HIDE DEF u, d
<1>5. SubSeq(u, 1, n) = SubSeq(d, 1, n)
  <2>1. SubSeq(u, 1, n) = [i \in 1..n |-> u[i]] /\ SubSeq(d, 1, n) = [i \in 1..n |-> d[i]]
    BY <1>1, <1>2
  <2>2. [i \in 1..n |-> u[i]] = [i \in 1..n |-> d[i]]
    BY <1>3
  <2> QED BY <2>1, <2>2
<1>6. IsPrefix(u, d)
  BY <1>1, <1>2, <1>5 DEF IsPrefix
<1> QED BY <1>4, <1>6 DEF IsSuffix

\* A text has no mark but the one that was appended to it.
LEMMA SpokenIs ==
  ASSUME NEW v, NEW s, NEW c \in Seq(Tokens), v.column[s] \in {c, Append(c, Marked)}
  PROVE  /\ Spoken(v, s) = c
         /\ v.column[s] = Append(c, Marked) => Marked \in Range(v.column[s])
<1>1. PICK d : d = v.column[s]
  OBVIOUS
<1>2. CASE d = c
  <2>1. \A i \in DOMAIN c : c[i] # Marked
    <3>1. \A i \in DOMAIN c : c[i] \in Tokens
      OBVIOUS
    <3> QED BY <3>1, TokensAre
  <2>2. Marked \notin Range(c)
    BY <2>1 DEF Range
  <2>3. c # Append(c, Marked)
    BY <2>1
  <2> QED BY <1>1, <1>2, <2>2, <2>3 DEF Spoken
<1>3. CASE d = Append(c, Marked)
  <2>1. PICK S : S = Tokens \cup {Marked}
    OBVIOUS
  <2>2. c \in Seq(S) /\ Marked \in S
    BY <2>1
  <2>3. d \in Seq(S) /\ Len(d) = Len(c) + 1 /\ d[Len(c) + 1] = Marked /\ Len(c) \in Nat
        /\ \A i \in 1..Len(c) : d[i] = c[i]
    BY <1>3, <2>2
  <2>4. Marked \in Range(d)
    BY <2>3 DEF Range
  <2>5. Front(d) = c
    <3>1. SubSeq(d, 1, Len(c)) \in Seq(S) /\ Len(SubSeq(d, 1, Len(c))) = Len(c)
          /\ \A i \in 1..Len(c) : SubSeq(d, 1, Len(c))[i] = d[i]
      BY <2>3
    <3>2. SubSeq(d, 1, Len(c)) = c
      BY <2>2, <2>3, <3>1, SeqEqual
    <3> QED BY <2>3, <3>2 DEF Front
  <2> QED BY <1>1, <1>3, <2>4, <2>5 DEF Spoken
<1> QED BY <1>1, <1>2, <1>3

(***************************************************************************)
(* The steps.                                                              *)
(***************************************************************************)
LEMMA Serializes ==
  ASSUME Agreed, Displayed, kind' = kind, NEW e, Follows(Hook, e), Serialized(e)
  PROVE  /\ Agreed' /\ Shows(Hook)' /\ chunks' = KeptFor(Hook)'
         /\ Hook' = HookReads(Hook, e)
<1> DEFINE h == Hook
           h2 == HookReads(h, e)
           c2 == OpenAiAfter(KeptFor(h), e)
<1>1. Visible' = Visible /\ Started' = Started
  BY RoundStands DEF Started
<1>2. chunks' = c2 /\ \A r \in Readers : views'[r] = Receive(r, views[r], c2, e)
  BY DEF Displayed, Serialized, Received
<1>3. /\ views'["hook"] = h2 /\ views'["surfaces"] = h2 /\ views'["vercel"] = h2
      /\ views'["ag-ui"] = AgUiHolds(h2) /\ views'["bridge"] = BridgeHolds(h2)
      /\ views'["plain"] = PlainHolds(h2)
  <2>1. /\ views["hook"] = h /\ views["surfaces"] = h /\ views["vercel"] = h
        /\ views["ag-ui"] = AgUiHolds(h) /\ views["bridge"] = BridgeHolds(h)
        /\ views["plain"] = PlainHolds(h)
    BY DEF Agreed, Hook
  <2>2. /\ Receive("hook", h, c2, e) = h2 /\ Receive("surfaces", h, c2, e) = h2
        /\ Receive("vercel", h, c2, e) = h2
        /\ Receive("ag-ui", AgUiHolds(h), c2, e) = AgUiHolds(h2)
        /\ Receive("bridge", BridgeHolds(h), c2, e) = BridgeHolds(h2)
        /\ Receive("plain", PlainHolds(h), c2, e) = PlainHolds(h2)
    BY DEF Follows
  <2> HIDE DEF h, h2, c2
  <2> QED BY <1>2, <2>1, <2>2 DEF Readers
<1>4. Shows(h2) /\ c2 = KeptFor(h2)
  BY DEF Follows
<1>5. Hook' = h2
  BY <1>3 DEF Hook
<1> HIDE DEF h, h2, c2
<1>6. Shows(Hook)' /\ chunks' = KeptFor(Hook)'
  BY <1>1, <1>2, <1>4, <1>5 DEF Shows, KeptFor
<1>7. Agreed'
  BY <1>3, <1>5 DEF Agreed, AgUiHolds, BridgeHolds, PlainHolds
<1> QED BY <1>5, <1>6, <1>7 DEF h, h2

\* The generator and the control plane only add to what is still to be read.
LEMMA CoreGrows ==
  ASSUME MakingTypeOK, Control, CoreStep
  PROVE  /\ consumer' = "reading" => consumer = "reading"
         /\ accepted' >= accepted
         /\ \E q \in Seq(Events) :
              /\ queue' = queue \o q
              /\ \A i \in 1..Len(q) : q[i].type = "steered" => accepted # 0
<1> DEFINE Grows(q) == /\ q \in Seq(Events) /\ queue' = queue \o q
                       /\ \A i \in 1..Len(q) : q[i].type = "steered" => accepted # 0
<1>1. queue \in Seq(Events) /\ accepted \in Nat /\ << >> \in Seq(Events)
  BY DEF MakingTypeOK
<1>2. queue' = queue => Grows(<< >>)
  BY <1>1
<1>3. ASSUME NEW s \in Slots, Token(s)
      PROVE  /\ consumer' = consumer /\ accepted' = accepted
             /\ Grows(<<Event("token", s, <<gen>>)>>)
  <2>1. Event("token", s, <<gen>>) \in Events
    BY EventsAre DEF MakingTypeOK
  <2> QED BY <1>3, <2>1 DEF Token, Push, control, Event
<1>4. ASSUME NEW s \in Slots, ProviderEnds(s)
      PROVE  /\ consumer' = consumer /\ accepted' = accepted /\ \E q : Grows(q)
  <2> DEFINE d == Event("slot_done", s, content[s])
             m == Event("matchup_done", None, << >>)
  <2>1. /\ d \in Events /\ m \in Events /\ d.type # "steered" /\ m.type # "steered"
        /\ consumer' = consumer /\ accepted' = accepted
        /\ queue' = queue \o (<<d>> \o (IF Running = {s} THEN <<m>> ELSE << >>))
    BY <1>4, EventsAre DEF MakingTypeOK, ProviderEnds, Push, control, Event
  <2> HIDE DEF d, m
  <2>2. PICK q : q = <<d>> \o (IF Running = {s} THEN <<m>> ELSE << >>)
    OBVIOUS
  <2>3. /\ <<d>> \in Seq(Events) /\ Len(<<d>>) = 1 /\ <<d>>[1] = d
        /\ <<m>> \in Seq(Events) /\ Len(<<m>>) = 1 /\ <<m>>[1] = m
    BY <2>1
  <2>4. q \in Seq(Events) /\ \A i \in 1..Len(q) : q[i] \in {d, m}
    <3>1. CASE Running = {s}
      <4>1. q = <<d>> \o <<m>>
        BY <2>2, <3>1
      <4>2. q \in Seq(Events) /\ Len(q) = 2 /\ q[1] = d /\ q[2] = m
        BY <2>3, <4>1
      <4> QED BY <4>2
    <3>2. CASE Running # {s}
      <4>1. q = <<d>>
        BY <2>2, <2>3, <3>2, NothingAdded
      <4> QED BY <2>3, <4>1
    <3> QED BY <3>1, <3>2
  <2>5. Grows(q)
    BY <2>1, <2>2, <2>4
  <2> QED BY <2>1, <2>5
<1>5. ASSUME NEW s \in Slots, TornDown(s)
      PROVE  consumer' = consumer /\ accepted' = accepted /\ queue' = queue
  BY <1>5 DEF TornDown, control
<1>6. ASSUME DriverRestarts
      PROVE  /\ consumer' = consumer /\ accepted' = accepted
             /\ Grows(<<Event("steered", None, << >>)>>)
  <2>1. Event("steered", None, << >>) \in Events
    BY EventsAre
  <2>2. accepted # 0
    BY <1>1, <1>6 DEF DriverRestarts, Control, Pending, MakingTypeOK
  <2> QED BY <1>6, <2>1, <2>2 DEF DriverRestarts, Announce, Push, control
<1>7. ASSUME UnhandledRejection \/ DriverEnds \/ PersistFails \/ GeneratorFinally \/ Stop \/ Steer
      PROVE  /\ consumer' = "reading" => consumer = "reading"
             /\ accepted' >= accepted /\ queue' = queue
  BY <1>1, <1>7 DEF UnhandledRejection, DriverEnds, PersistFails, GeneratorFinally, Stop, Steer,
                    Close, control
<1> HIDE DEF Grows
<1>8. /\ consumer' = "reading" => consumer = "reading"
      /\ accepted' >= accepted
      /\ \E q : Grows(q)
  <2>1. accepted >= accepted
    BY <1>1
  <2>2. CASE \E s \in Slots : Token(s)
    BY <1>3, <2>1, <2>2
  <2>3. CASE \E s \in Slots : ProviderEnds(s)
    BY <1>4, <2>1, <2>3
  <2>4. CASE \E s \in Slots : TornDown(s)
    BY <1>2, <1>5, <2>1, <2>4
  <2>5. CASE DriverRestarts
    BY <1>6, <2>1, <2>5
  <2>6. CASE UnhandledRejection \/ DriverEnds \/ PersistFails \/ GeneratorFinally \/ Stop \/ Steer
    BY <1>2, <1>7, <2>6
  <2> QED BY <2>2, <2>3, <2>4, <2>5, <2>6 DEF CoreStep, Generating
<1> QED BY <1>8 DEF Grows

LEMMA WiredCore ==
  ASSUME MakingTypeOK, Control, WiredInv, CoreStep, UNCHANGED <<out, wired>>
  PROVE  WiredInv'
<1>1. /\ UNCHANGED <<kind, wire, answer, over, views, chunks>> /\ accepted' >= accepted
      /\ Visible' = Visible /\ Hook' = Hook /\ Started' = Started
      /\ consumer' = "reading" => consumer = "reading"
      /\ accepted \in Nat /\ queue \in Seq(Events)
  <2>1. UNCHANGED <<kind, wire, answer, over, views, chunks>>
    BY CoreStill DEF Still, round, wired
  <2> QED BY <2>1, CoreGrows, RoundStands DEF Started, Hook, MakingTypeOK
<1>2. PICK q \in Seq(Events) :
        queue' = queue \o q /\ \A i \in 1..Len(q) : q[i].type = "steered" => accepted # 0
  BY CoreGrows
<1>3. /\ Len(queue') = Len(queue) + Len(q) /\ Len(queue) \in Nat /\ Len(q) \in Nat
      /\ \A i \in 1..Len(queue) : queue'[i] = queue[i]
      /\ \A i \in 1..Len(q) : queue'[Len(queue) + i] = q[i]
  BY <1>1, <1>2
<1>4. Agreed' /\ Displayed'
  <2>1. accepted' = 0 => accepted = 0
    BY <1>1, CoreGrows, ControlCore DEF MakingTypeOK
  <2>2. Agreed'
    BY <1>1 DEF WiredInv, Agreed, AgUiHolds, BridgeHolds, PlainHolds
  <2>3. Shows(Hook)' /\ chunks' = KeptFor(Hook)'
    BY <1>1 DEF WiredInv, Displayed, Shows, KeptFor
  <2> QED BY <1>1, <2>1, <2>2, <2>3 DEF WiredInv, Displayed
<1>5. Failing'
  <2> SUFFICES ASSUME NEW s \in Hook.failures
               PROVE  /\ s \in Visible
                      /\ answer[s] # Absent \/ consumer' # "reading"
                           \/ (queue' # << >> /\ Head(queue').type = "slot_done"
                                /\ Head(queue').slot = s)
    BY <1>1 DEF Failing
  <2>1. s \in Visible
    BY DEF WiredInv, Failing
  <2>2. CASE queue # << >> /\ Head(queue).type = "slot_done" /\ Head(queue).slot = s
    <3>1. Len(queue) # 0 /\ queue' # << >> /\ Head(queue') = queue'[1] /\ Head(queue) = queue[1]
      <4>1. Len(queue) # 0
        BY <1>1, <2>2
      <4>2. queue' \in Seq(Events) /\ Len(queue') # 0
        BY <1>1, <1>2, <1>3, <4>1
      <4> QED BY <1>1, <4>1, <4>2
    <3> QED BY <1>1, <1>3, <2>1, <2>2, <3>1
  <2> QED BY <1>1, <2>1, <2>2 DEF WiredInv, Failing
<1>6. Asked'
  <2> SUFFICES ASSUME NEW i \in 1..Len(queue'), queue'[i].type = "steered" PROVE accepted' # 0
    BY DEF Asked
  <2>1. accepted # 0
    <3>1. CASE i \in 1..Len(queue)
      BY <1>3, <3>1 DEF WiredInv, Asked
    <3>2. CASE i \notin 1..Len(queue)
      <4>1. PICK j \in 1..Len(q) : i = Len(queue) + j
        <5>1. i - Len(queue) \in 1..Len(q) /\ i = Len(queue) + (i - Len(queue))
          BY <1>3, <3>2
        <5> QED BY <5>1
      <4> QED BY <1>2, <1>3, <4>1
    <3> QED BY <3>1, <3>2
  <2>2. accepted' \in Nat
    BY ControlCore DEF MakingTypeOK
  <2> QED BY <1>1, <2>1, <2>2
<1> QED BY <1>4, <1>5, <1>6 DEF WiredInv

LEMMA WiredDelivers ==
  ASSUME IndInv, IndInv', WiredInv, WiredDeliver
  PROVE  WiredInv'
<1>1. PICK e : e = Head(queue)
  OBVIOUS
<1>2. PICK p, h : p = Public(e) /\ h = Hook
  OBVIOUS
<1>3. /\ TypeOK /\ MakingTypeOK /\ Reads /\ Deliver /\ Take
      /\ consumer = "reading" /\ queue # << >> /\ Written(e) /\ kind' = kind
      /\ queue' = Tail(queue) /\ accepted' = accepted
      /\ IF e.slot \in Visible \cup {None} THEN Serialized(p) ELSE UNCHANGED wired
  BY <1>1, <1>2, TypeSplits DEF IndInv, WiredDeliver, Deliver, Take, Dealt, round, control
<1>4. /\ Legal(View, e) /\ e \in Events /\ over = None
  BY <1>1, <1>3, HeadLegal DEF IndInv, Legal, View
<1>5. /\ Visible' = Visible /\ Started' = Started /\ Visible \subseteq Slot
      /\ Visible \subseteq Slots /\ Slots \subseteq Letters /\ None \notin Slots
  BY <1>3, RoundStands, SlotsShown, SlotsAre DEF TypeOK, Started
<1>6. /\ Agreed /\ Displayed /\ Failing /\ Asked /\ Shows(h) /\ chunks = KeptFor(h)
      /\ Hook.end # "error" /\ Hook.end # "done" /\ accepted \in Nat
  BY <1>2, <1>3, <1>4 DEF WiredInv, Displayed, MakingTypeOK
<1>7. \A s \in Letters : wire[s] \in Seq(0..MaxSteers) /\ wire'[s] \in Seq(0..MaxSteers)
  BY DEF IndInv, Reads
<1>8. Asked'
  <2>1. queue \in Seq(Events) /\ queue # << >>
    BY <1>3 DEF MakingTypeOK
  <2>2. Len(queue') = Len(queue) - 1 /\ Len(queue) \in Nat
        /\ \A i \in 1..Len(queue') : queue'[i] = queue[i + 1] /\ i + 1 \in 1..Len(queue)
    BY <1>3, <2>1
  <2> QED BY <1>3, <1>6, <2>2 DEF Asked
<1>9. \A s \in h.failures : s \in Visible /\ (answer[s] # Absent \/ (e.type = "slot_done" /\ e.slot = s))
  BY <1>1, <1>2, <1>3, <1>6 DEF Failing
\* The event is not for this reader, or changes nothing he keeps of the slots.
<1>10. ASSUME UNCHANGED wired, UNCHANGED over,
              \A s \in Visible : answer'[s] = answer[s] /\ wire'[s] = wire[s]
       PROVE  WiredInv'
  <2>1. UNCHANGED <<views, chunks>> /\ Hook' = Hook
    BY <1>10 DEF wired, Hook
  <2>2. Agreed'
    BY <1>6, <2>1 DEF Agreed, AgUiHolds, BridgeHolds, PlainHolds
  <2>3. Shows(Hook)' /\ chunks' = KeptFor(Hook)'
    BY <1>2, <1>5, <1>6, <2>1 DEF Shows, KeptFor
  <2>4. Displayed'
    BY <1>3, <1>5, <1>6, <1>10, <2>1, <2>3 DEF Displayed
  <2>5. Failing'
    <3>1. \A s \in Visible : ~(e.type = "slot_done" /\ e.slot = s)
      BY <1>3, <1>4, <1>5, <1>10, TextAbsent DEF Written, TypeOK, Legal, View, Events, Event
    <3> QED BY <1>2, <1>5, <1>9, <1>10, <2>1, <3>1 DEF Failing
  <2> QED BY <1>8, <2>2, <2>4, <2>5 DEF WiredInv
<1>11. CASE e.slot \notin Visible \cup {None}
  <2>1. UNCHANGED wired
    BY <1>3, <1>11
  <2>2. e.type \in {"token", "slot_done"} /\ e.slot \in Slots \ Visible
    BY <1>4, <1>11 DEF Events, Event
  <2>3. UNCHANGED <<wire, answer, over>>
    BY <1>3, <2>2 DEF Written
  <2> QED BY <1>10, <2>1, <2>3
<1>12. CASE e.slot \in Visible \cup {None}
  <2>1. Serialized(p)
    BY <1>3, <1>12
  \* What has to be shown of the event.
  <2>2. ASSUME Follows(h, p), NEW k, k = HookReads(h, p),
               \A s \in Visible :
                 /\ k.at[s] = IF answer'[s] = Absent THEN "open" ELSE "closed"
                 /\ Ends(Said(s, wire'[s]), k.column[s])
                 /\ accepted = 0 => k.column[s] = Said(s, wire'[s]),
               k.end # "error" /\ over' # "run_error", k.end = "done" <=> over' = "matchup_done",
               k.failures = h.failures,
               \A s \in h.failures : answer'[s] # Absent
        PROVE  WiredInv'
    <3>1. Agreed' /\ Shows(Hook)' /\ chunks' = KeptFor(Hook)' /\ Hook' = k
      BY <1>2, <1>3, <1>6, <2>1, <2>2, Serializes
    <3>2. Displayed'
      BY <1>3, <1>5, <2>2, <3>1 DEF Displayed
    <3>3. Failing'
      BY <1>5, <1>9, <2>2, <3>1 DEF Failing
    <3> QED BY <1>8, <3>1, <3>2, <3>3 DEF WiredInv
  <2>3. CASE e.type = "token"
    <3>1. PICK s \in Visible, g \in 0..MaxSteers : e = Event("token", s, <<g>>)
      BY <1>4, <1>12, <2>3, <1>5 DEF Events, Event
    <3>2. PICK x : x = <<s, g>>
      OBVIOUS
    <3>3. x \in Tokens /\ p = Event("token", s, <<x>>) /\ s \in Slot /\ s \in Letters
      <4>1. Said(s, <<g>>) = <<x>>
        BY <3>2 DEF Said
      <4> QED BY <1>2, <1>5, <3>1, <3>2, <4>1 DEF Public, Event, Tokens
    <3>4. answer[s] = Absent /\ h.at[s] = "open" /\ s \notin h.failures
      <4>1. answer[s] = Absent
        BY <1>4, <3>1 DEF Legal, View, Event
      <4>2. s \notin h.failures
        BY <1>9, <2>3, <4>1
      <4> QED BY <1>2, <1>6, <4>1, <4>2 DEF Displayed
    <3>5. PICK k : k = HookReads(h, p)
      OBVIOUS
    <3>6. Follows(h, p)
      BY <1>6, <3>3, <3>4, TokenFollows
    <3>7. Heard(h, k, s, <<x>>)
      <4>1. k = Hears(h, s, <<x>>) /\ h \in HookViews
        BY <1>6, <3>3, <3>5 DEF HookReads, Event, Shows
      <4> QED BY <3>3, <4>1, TokensAre, HookIs
    <3>8. /\ wire' = [wire EXCEPT ![s] = wire[s] \o <<g>>] /\ answer' = answer /\ over' = over
      BY <1>3, <3>1 DEF Written, Event
    <3>9. Said(s, wire'[s]) = Said(s, wire[s]) \o <<x>>
      <4>1. PICK w, u : w = wire[s] /\ u = wire[s] \o <<g>>
        OBVIOUS
      <4>2. /\ w \in Seq(0..MaxSteers) /\ u \in Seq(0..MaxSteers) /\ Len(u) = Len(w) + 1
            /\ u[Len(w) + 1] = g /\ \A i \in 1..Len(w) : u[i] = w[i]
            /\ Len(w) \in Nat
        BY <1>7, <3>3, <4>1
      <4>3. PICK a, b : a = Said(s, w) /\ b = Said(s, u)
        OBVIOUS
      <4>4. /\ Len(a) = Len(w) /\ a \in Seq({s} \X (0..MaxSteers))
            /\ \A i \in 1..Len(w) : a[i] = <<s, w[i]>>
            /\ Len(b) = Len(w) + 1 /\ b \in Seq({s} \X (0..MaxSteers))
            /\ \A i \in 1..Len(u) : b[i] = <<s, u[i]>>
        BY <4>2, <4>3, SaidIs
      <4>5. PICK d : d = a \o <<x>>
        OBVIOUS
      <4>6. x \in {s} \X (0..MaxSteers)
        BY <3>2
      <4>7. /\ d \in Seq({s} \X (0..MaxSteers)) /\ Len(d) = Len(w) + 1
            /\ d[Len(w) + 1] = x /\ \A i \in 1..Len(w) : d[i] = a[i]
        <5>1. PICK S : S = {s} \X (0..MaxSteers)
          OBVIOUS
        <5>2. a \in Seq(S) /\ x \in S
          BY <4>4, <4>6, <5>1
        <5>3. d \in Seq(S) /\ Len(d) = Len(a) + 1
              /\ d[Len(a) + 1] = x /\ \A i \in 1..Len(a) : d[i] = a[i]
          BY <4>5, <5>2
        <5> QED BY <4>4, <5>1, <5>3
      <4>8. \A i \in 1..Len(b) : b[i] = d[i]
        <5>1. ASSUME NEW i \in 1..Len(b) PROVE b[i] = d[i]
          <6>1. CASE i = Len(w) + 1
            BY <3>2, <4>2, <4>4, <4>7, <6>1
          <6>2. CASE i \in 1..Len(w)
            BY <4>2, <4>4, <4>7, <6>2
          <6> QED BY <4>2, <4>4, <6>1, <6>2
        <5> QED BY <5>1
      <4>9. b = d
        <5>1. PICK S : S = {s} \X (0..MaxSteers)
          OBVIOUS
        <5> QED BY <4>4, <4>7, <4>8, <5>1, SeqEqual
      <4>10. wire'[s] = u
        <5>1. wire \in [Letters -> Seq(0..MaxSteers)]
          BY DEF IndInv, Reads
        <5> QED BY <3>3, <3>8, <4>1, <5>1
      <4> QED BY <4>1, <4>3, <4>5, <4>9, <4>10
    <3>10. \A t \in Visible \ {s} : wire'[t] = wire[t]
      <4>1. wire \in [Letters -> Seq(0..MaxSteers)]
        BY DEF IndInv, Reads
      <4> QED BY <1>5, <3>8, <4>1
    <3>11. Ends(Said(s, wire'[s]), k.column[s])
           /\ (accepted = 0 => k.column[s] = Said(s, wire'[s]))
      <4>1. k.column[s] = h.column[s] \o <<x>>
        BY <3>3, <3>7 DEF Heard
      <4>2. Said(s, wire[s]) \in Seq(Tokens)
        <5>1. Said(s, wire[s]) \in Seq({s} \X (0..MaxSteers))
          BY <1>7, <3>3, SaidIs
        <5>2. {s} \X (0..MaxSteers) \subseteq Tokens
          BY <3>3 DEF Tokens
        <5> QED BY <5>1, <5>2, SeqMonotonic
      <4>3. h.column[s] \in Seq(Tokens)
        BY <1>6, <3>3, TokensWiden DEF Shows
      <4>4. Ends(Said(s, wire[s]), h.column[s])
            /\ (accepted = 0 => h.column[s] = Said(s, wire[s]))
        BY <1>2, <1>6 DEF Displayed
      <4>5. Ends(Said(s, wire[s]) \o <<x>>, h.column[s] \o <<x>>)
        BY <3>3, <4>2, <4>3, <4>4, EndsGrow
      <4> QED BY <3>9, <4>1, <4>4, <4>5
    <3>12. \A t \in Visible :
             /\ k.at[t] = IF answer'[t] = Absent THEN "open" ELSE "closed"
             /\ Ends(Said(t, wire'[t]), k.column[t])
             /\ accepted = 0 => k.column[t] = Said(t, wire'[t])
      <4>1. ASSUME NEW t \in Visible
            PROVE  /\ k.at[t] = IF answer'[t] = Absent THEN "open" ELSE "closed"
                   /\ Ends(Said(t, wire'[t]), k.column[t])
                   /\ accepted = 0 => k.column[t] = Said(t, wire'[t])
        <5>1. /\ h.at[t] = IF answer[t] = Absent THEN "open" ELSE "closed"
              /\ Ends(Said(t, wire[t]), h.column[t])
              /\ accepted = 0 => h.column[t] = Said(t, wire[t])
          BY <1>2, <1>6 DEF Displayed
        <5>2. k.at[t] = IF answer'[t] = Absent THEN "open" ELSE "closed"
          BY <3>7, <3>8, <5>1 DEF Heard
        <5>3. CASE t = s
          BY <3>11, <5>2, <5>3
        <5>4. CASE t # s
          <6>1. wire'[t] = wire[t] /\ k.column[t] = h.column[t]
            BY <1>5, <3>7, <3>10, <5>4 DEF Heard
          <6> QED BY <5>1, <5>2, <6>1
        <5> QED BY <5>3, <5>4
      <4> QED BY <4>1
    <3>13. k.end # "error" /\ over' # "run_error" /\ (k.end = "done" <=> over' = "matchup_done")
           /\ k.failures = h.failures
      BY <1>2, <1>4, <1>6, <3>7, <3>8 DEF Heard
    <3>14. \A t \in h.failures : answer'[t] # Absent
      BY <1>9, <2>3, <3>8
    <3> QED BY <2>2, <3>5, <3>6, <3>12, <3>13, <3>14
  <2>4. CASE e.type = "slot_done"
    <3>1. PICK s \in Visible, t \in Texts : e = Event("slot_done", s, t)
      BY <1>4, <1>12, <2>4, <1>5 DEF Events, Event
    <3>2. p = Event("slot_done", s, << >>) /\ s \in Slot /\ s \in Letters
      BY <1>2, <1>5, <3>1 DEF Public, Event
    <3>3. h.at[s] = "open"
      <4>1. answer[s] = Absent
        BY <1>4, <3>1 DEF Legal, View, Event
      <4> QED BY <1>2, <1>6, <4>1 DEF Displayed
    <3>4. PICK k : k = HookReads(h, p)
      OBVIOUS
    <3>5. Follows(h, p)
      BY <1>6, <3>2, <3>3, DoneFollows
    <3>6. Closed(h, k, s)
      <4>1. k = Closes(h, s) /\ h \in HookViews
        BY <1>6, <3>2, <3>4 DEF HookReads, Event, Shows
      <4> QED BY <3>2, <4>1, HookIs
    <3>7. wire' = wire /\ answer' = [answer EXCEPT ![s] = t] /\ over' = over
      BY <1>3, <3>1 DEF Written, Event
    <3>8. answer'[s] # Absent /\ \A x \in Letters \ {s} : answer'[x] = answer[x]
      <4>1. answer \in [Letters -> Texts \cup {Absent}]
        BY <1>3 DEF TypeOK
      <4> QED BY <3>1, <3>2, <3>7, <4>1, TextAbsent
    <3>9. \A x \in Visible :
             /\ k.at[x] = IF answer'[x] = Absent THEN "open" ELSE "closed"
             /\ Ends(Said(x, wire'[x]), k.column[x])
             /\ accepted = 0 => k.column[x] = Said(x, wire'[x])
      <4>1. ASSUME NEW x \in Visible
            PROVE  /\ k.at[x] = IF answer'[x] = Absent THEN "open" ELSE "closed"
                   /\ Ends(Said(x, wire'[x]), k.column[x])
                   /\ accepted = 0 => k.column[x] = Said(x, wire'[x])
        <5>1. /\ h.at[x] = IF answer[x] = Absent THEN "open" ELSE "closed"
              /\ Ends(Said(x, wire[x]), h.column[x])
              /\ accepted = 0 => h.column[x] = Said(x, wire[x])
          BY <1>2, <1>6 DEF Displayed
        <5>2. k.column[x] = h.column[x] /\ wire'[x] = wire[x]
          BY <1>5, <3>6, <3>7 DEF Closed
        <5>3. CASE x = s
          <6>1. k.at[x] = "closed"
            BY <3>2, <3>6, <5>3 DEF Closed
          <6>2. answer'[x] # Absent
            BY <3>8, <5>3
          <6> QED BY <3>7, <5>1, <5>2, <6>1, <6>2
        <5>4. CASE x # s
          BY <1>5, <3>6, <3>8, <5>1, <5>2, <5>4 DEF Closed
        <5> QED BY <5>3, <5>4
      <4> QED BY <4>1
    <3>10. k.end # "error" /\ over' # "run_error" /\ (k.end = "done" <=> over' = "matchup_done")
           /\ k.failures = h.failures
      BY <1>2, <1>4, <1>6, <3>6, <3>7 DEF Closed
    <3>11. \A x \in h.failures : answer'[x] # Absent
      BY <1>5, <1>9, <3>1, <3>8 DEF Event
    <3> QED BY <2>2, <3>4, <3>5, <3>9, <3>10, <3>11
  <2>5. CASE e.type = "steered"
    <3>1. e = Event("steered", None, << >>)
      BY <1>4, <2>5 DEF Events, Event
    <3>2. p = Event("steered", None, << >>)
      BY <1>2, <3>1 DEF Public, Event
    <3>3. Follows(h, p) /\ HookReads(h, p) = h
      BY <1>6, <3>2, SteerFollows
    <3>4. wire' = [x \in Letters |-> << >>] /\ answer' = answer /\ over' = over
      BY <1>3, <3>1 DEF Written, Event
    <3>5. accepted # 0
      <4>1. queue \in Seq(Events) /\ queue # << >>
        BY <1>3 DEF MakingTypeOK
      <4>2. 1 \in 1..Len(queue) /\ Head(queue) = queue[1]
        BY <4>1
      <4> QED BY <1>1, <1>6, <2>5, <4>2 DEF Asked
    <3>6. \A x \in Visible : Ends(Said(x, wire'[x]), h.column[x])
      <4>1. ASSUME NEW x \in Visible PROVE Ends(Said(x, wire'[x]), h.column[x])
        <5>1. wire'[x] = << >> /\ x \in Slot
          BY <1>5, <3>4
        <5>2. << >> \in Seq(0..MaxSteers) /\ Len(<< >>) = 0
          OBVIOUS
        <5>3. Len(Said(x, << >>)) = 0
          BY <5>2, SaidIs
        <5>4. h.column[x] \in Seq(Tokens)
          BY <1>6, <5>1, TokensWiden DEF Shows
        <5>5. Len(h.column[x]) \in Nat
          BY <5>4
        <5> QED BY <5>1, <5>3, <5>5 DEF Ends
      <4> QED BY <4>1
    <3>7. \A x \in Visible :
             /\ h.at[x] = IF answer'[x] = Absent THEN "open" ELSE "closed"
             /\ Ends(Said(x, wire'[x]), h.column[x])
             /\ accepted = 0 => h.column[x] = Said(x, wire'[x])
      BY <1>2, <1>6, <3>4, <3>5, <3>6 DEF Displayed
    <3>8. h.end # "error" /\ over' # "run_error" /\ (h.end = "done" <=> over' = "matchup_done")
      BY <1>2, <1>4, <1>6, <3>4
    <3>9. \A x \in h.failures : answer'[x] # Absent
      BY <1>9, <2>5, <3>4
    <3> QED BY <2>2, <3>3, <3>7, <3>8, <3>9
  <2>6. CASE e.type = "matchup_done"
    <3>1. e = Event("matchup_done", None, << >>)
      BY <1>4, <2>6 DEF Events, Event
    <3>2. p = Event("matchup_done", None, << >>)
      BY <1>2, <3>1 DEF Public, Event
    <3>3. PICK k : k = HookReads(h, p)
      OBVIOUS
    <3>4. Follows(h, p) /\ k = Settles(h, "done")
      BY <1>2, <1>6, <3>2, <3>3, EndFollows DEF Event
    <3>5. k.end = "done" /\ k.column = h.column /\ k.at = h.at /\ k.failures = h.failures
      BY <1>6, <3>4 DEF Settles, Shows, HookViews
    <3>6. wire' = wire /\ answer' = answer /\ over' = "matchup_done"
      BY <1>3, <3>1 DEF Written, Event
    <3>7. \A x \in Visible :
             /\ k.at[x] = IF answer'[x] = Absent THEN "open" ELSE "closed"
             /\ Ends(Said(x, wire'[x]), k.column[x])
             /\ accepted = 0 => k.column[x] = Said(x, wire'[x])
      BY <1>2, <1>6, <3>5, <3>6 DEF Displayed
    <3>8. \A x \in h.failures : answer'[x] # Absent
      BY <1>9, <2>6, <3>6
    <3> QED BY <2>2, <3>3, <3>4, <3>5, <3>6, <3>7, <3>8
  <2> QED BY <1>4, <2>3, <2>4, <2>5, <2>6 DEF Events, Event
<1> QED BY <1>11, <1>12

LEMMA WiredFails ==
  ASSUME IndInv, WiredInv, SlotFails
  PROVE  WiredInv'
<1>1. PICK s, e : s = Head(queue).slot /\ e = Event("slot_error", s, << >>)
  OBVIOUS
<1>2. /\ TypeOK /\ MakingTypeOK /\ Agreed /\ Displayed /\ Failing /\ Asked
      /\ consumer = "reading" /\ queue # << >> /\ Head(queue).type = "slot_done"
      /\ s \in Visible /\ s \notin Hook.failures /\ Serialized(e) /\ UNCHANGED vars
  BY <1>1, TypeSplits DEF IndInv, WiredInv, SlotFails, Hook
<1>3. /\ UNCHANGED <<kind, accepted, queue, consumer, wire, answer, over>>
      /\ Visible' = Visible /\ s \in Slot
  <2>1. UNCHANGED <<kind, accepted, queue, consumer, wire, answer, over>>
    BY <1>2 DEF vars, core, round, control, out
  <2> QED BY <1>2, <2>1, RoundStands, SlotsShown
<1>4. Hook.at[s] = "open" /\ Shows(Hook)
  <2>1. answer[s] = Absent
    BY <1>1, <1>2, HeadLegal DEF IndInv, Legal, View
  <2> QED BY <1>2, <2>1 DEF Displayed
<1>5. Follows(Hook, e)
  BY <1>1, <1>2, <1>4, ErrorFollows
<1>6. /\ Agreed' /\ Shows(Hook)' /\ chunks' = KeptFor(Hook)' /\ Hook' = HookReads(Hook, e)
  BY <1>2, <1>3, <1>5, Serializes
<1>7. Failed(Hook, HookReads(Hook, e), s)
  <2>1. HookReads(Hook, e) = Fails(Hook, s)
    BY <1>1 DEF HookReads, Event
  <2> QED BY <1>3, <1>4, <2>1, HookIs DEF Shows
<1>8. PICK h, k : h = Hook /\ k = Hook'
  OBVIOUS
<1>9. k.column = h.column /\ k.at = h.at /\ k.end = h.end /\ k.failures = h.failures \cup {s}
  BY <1>6, <1>7, <1>8 DEF Failed
<1>10. Displayed'
  BY <1>2, <1>3, <1>6, <1>8, <1>9 DEF Displayed
<1>11. Failing'
  BY <1>1, <1>2, <1>3, <1>8, <1>9 DEF Failing
<1>12. Asked'
  BY <1>2, <1>3 DEF Asked
<1> QED BY <1>6, <1>10, <1>11, <1>12 DEF WiredInv

LEMMA WiredEnds ==
  ASSUME IndInv, WiredInv, WiredEnd
  PROVE  WiredInv'
<1>1. /\ Agreed /\ Displayed /\ Failing /\ Asked /\ Shows(Hook)
  BY DEF WiredInv, Displayed
<1>2. /\ UNCHANGED <<kind, accepted, queue, wire, answer>> /\ consumer' = "done"
      /\ Visible' = Visible /\ Started' = Started
      /\ over' = IF failed THEN "run_error" ELSE IF over = None THEN "cut" ELSE over
      /\ failed => over = None
  <2>1. /\ UNCHANGED <<kind, accepted, queue, wire, answer>>
        /\ consumer' = "done" /\ consumer = "draining"
        /\ over' = IF failed THEN "run_error" ELSE IF over = None THEN "cut" ELSE over
    BY DEF WiredEnd, EndResponse, LoopEnds, round
  <2>2. failed => over = None
    BY <2>1 DEF IndInv, Reads
  <2> QED BY <2>1, <2>2, RoundStands DEF Started
<1>3. Asked'
  BY <1>1, <1>2 DEF Asked
<1>4. CASE failed
  <2>1. PICK e, h, k : e = Event("run_error", None, << >>) /\ h = Hook /\ k = HookReads(h, e)
    OBVIOUS
  <2>2. Follows(h, e) /\ k = Settles(h, "error")
    BY <1>1, <2>1, EndFollows DEF Event
  <2>3. /\ Agreed' /\ Shows(Hook)' /\ chunks' = KeptFor(Hook)' /\ Hook' = k
    BY <1>1, <1>2, <1>4, <2>1, <2>2, Serializes DEF WiredEnd
  <2>4. k.end = "error" /\ k.column = h.column /\ k.at = h.at /\ k.failures = h.failures
    BY <1>1, <2>1, <2>2 DEF Settles, Shows, HookViews
  <2>5. Displayed'
    BY <1>1, <1>2, <1>4, <2>1, <2>3, <2>4 DEF Displayed
  <2>6. Failing'
    BY <1>1, <1>2, <2>1, <2>3, <2>4 DEF Failing
  <2> QED BY <1>3, <2>3, <2>5, <2>6 DEF WiredInv
<1>5. CASE ~failed
  <2>1. UNCHANGED <<views, chunks>> /\ Hook' = Hook
    BY <1>5 DEF WiredEnd, wired, Hook
  <2>2. Agreed'
    BY <1>1, <2>1 DEF Agreed, AgUiHolds, BridgeHolds, PlainHolds
  <2>3. Shows(Hook)' /\ chunks' = KeptFor(Hook)'
    BY <1>1, <1>2, <2>1 DEF Displayed, Shows, KeptFor
  <2>4. Displayed'
    BY <1>1, <1>2, <1>5, <2>1, <2>3 DEF Displayed
  <2>5. Failing'
    BY <1>1, <1>2, <2>1 DEF Failing
  <2> QED BY <1>3, <2>2, <2>4, <2>5 DEF WiredInv
<1> QED BY <1>4, <1>5

LEMMA WiredRests ==
  ASSUME WiredInv, UNCHANGED <<vars, wired>>
  PROVE  WiredInv'
<1>1. /\ UNCHANGED <<kind, accepted, queue, consumer, wire, answer, over, views, chunks>>
      /\ Visible' = Visible /\ Started' = Started /\ Hook' = Hook
  <2>1. UNCHANGED <<kind, accepted, queue, consumer, wire, answer, over, views, chunks>>
    BY DEF vars, core, round, control, out, wired
  <2> QED BY <2>1, RoundStands DEF Started, Hook
<1>2. Agreed'
  BY <1>1 DEF WiredInv, Agreed, AgUiHolds, BridgeHolds, PlainHolds
<1>3. Shows(Hook)' /\ chunks' = KeptFor(Hook)'
  BY <1>1 DEF WiredInv, Displayed, Shows, KeptFor
<1>4. Displayed'
  BY <1>1, <1>3 DEF WiredInv, Displayed
<1>5. Failing' /\ Asked'
  BY <1>1 DEF WiredInv, Failing, Asked
<1> QED BY <1>2, <1>4, <1>5 DEF WiredInv

LEMMA WiredStarts ==
  ASSUME WiredInit
  PROVE  WiredInv
<1>1. /\ chunks = KeptFor(Start)
      /\ \A r \in Readers : views[r] = Receive(r, NothingYet, chunks, Started)
      /\ consumer = "reading" /\ queue = << >> /\ accepted = 0 /\ over = "none"
      /\ wire = [s \in Letters |-> << >>] /\ answer = [s \in Letters |-> Absent]
  BY StartHolds DEF WiredInit, Init, CoreInit, Received
<1>2. /\ Hook = Start /\ views["surfaces"] = Start /\ views["vercel"] = Start
      /\ views["ag-ui"] = AgUiHolds(Start) /\ views["bridge"] = BridgeHolds(Start)
      /\ views["plain"] = PlainHolds(Start)
  <2>1. PICK c : c = chunks
    OBVIOUS
  <2> QED BY <1>1, <2>1, StartReceived DEF Readers, Hook
<1>3. Agreed
  BY <1>2 DEF Agreed
<1>4. ASSUME NEW s \in Visible
      PROVE  /\ Start.at[s] = "open" /\ answer[s] = Absent
             /\ Ends(Said(s, wire[s]), Start.column[s]) /\ Start.column[s] = Said(s, wire[s])
  <2>1. s \in Slot /\ s \in Letters
    BY SlotsShown DEF Slot
  <2>2. Start.at[s] = "open" /\ Start.column[s] = << >> /\ wire[s] = << >> /\ answer[s] = Absent
    BY <1>1, <2>1, StartHolds DEF Opened
  <2>3. Said(s, << >>) = << >>
    <3>1. DOMAIN << >> = {}
      OBVIOUS
    <3>2. Said(s, << >>) = [i \in {} |-> <<s, << >>[i]>>]
      BY <3>1 DEF Said
    <3>3. Said(s, << >>) \in Seq(Tokens) /\ Len(Said(s, << >>)) = 0
      <4>1. << >> \in Seq(0..MaxSteers) /\ Len(<< >>) = 0
        OBVIOUS
      <4>2. Said(s, << >>) \in Seq({s} \X (0..MaxSteers)) /\ Len(Said(s, << >>)) = 0
        BY <4>1, SaidIs
      <4>3. {s} \X (0..MaxSteers) \subseteq Tokens
        BY <2>1 DEF Tokens
      <4> QED BY <4>2, <4>3, SeqMonotonic
    <3> QED BY <3>3, EmptySeq
  <2>4. Ends(<< >>, << >>)
    BY DEF Ends
  <2> QED BY <2>2, <2>3, <2>4
<1>5. Displayed
  BY <1>1, <1>2, <1>4, StartHolds DEF Displayed
<1>6. Failing
  BY <1>2, StartHolds DEF Failing
<1>7. Asked
  BY <1>1 DEF Asked
<1> QED BY <1>3, <1>5, <1>6, <1>7 DEF WiredInv

LEMMA WiredSteps ==
  ASSUME IndInv, WiredInv, [WiredNext]_<<vars, wired>>
  PROVE  IndInv' /\ WiredInv'
<1>1. TypeOK /\ MakingTypeOK /\ Control
  BY TypeSplits DEF IndInv
<1>2. CASE (Generating \/ PersistFails \/ GeneratorFinally) /\ UNCHANGED <<out, wired>>
  <2>1. CoreStep /\ UNCHANGED <<out, wired>> /\ Next
    BY <1>2 DEF CoreStep, Next, out
  <2> QED BY <1>1, <2>1, IndStep, WiredCore
<1>3. CASE (Stop \/ Steer) /\ UNCHANGED <<out, wired>>
  <2>1. CoreStep /\ UNCHANGED <<out, wired>> /\ Next
    BY <1>3 DEF CoreStep, Next, out
  <2> QED BY <1>1, <2>1, IndStep, WiredCore
<1>4. CASE WiredDeliver
  <2>1. IndInv'
    BY <1>4, IndStep DEF WiredDeliver, Next
  <2> QED BY <1>4, <2>1, WiredDelivers
<1>5. CASE SlotFails
  BY <1>5, IndStep, WiredFails DEF SlotFails
<1>6. CASE WiredEnd
  <2>1. IndInv'
    BY <1>6, IndStep DEF WiredEnd, Next
  <2> QED BY <1>6, <2>1, WiredEnds
<1>7. CASE UNCHANGED <<vars, wired>>
  <2>1. IndInv'
    BY <1>7, IndStep
  <2> QED BY <1>7, <2>1, WiredRests
<1> QED BY <1>2, <1>3, <1>4, <1>5, <1>6, <1>7 DEF WiredNext

(***************************************************************************)
(* What every reader holds is one story.                                   *)
(***************************************************************************)
\* What a view tells of the slots it has a column for, and of the end.
Tells(v, h, columns) ==
  /\ \A s \in columns :
       /\ v.column[s] \in {h.column[s], Append(h.column[s], Marked)}
       /\ v.at[s] = "closed" <=> h.at[s] = "closed"
       /\ s \in h.failures => s \in v.failures \/ v.column[s] = Append(h.column[s], Marked)
  /\ \A s \in Slot \ columns : v.column[s] = << >>
  /\ v.end = "error" <=> h.end = "error"
  /\ h.end = "done" => v.end = "done" \/ \A s \in columns : h.at[s] = "closed"

LEMMA EveryoneTells ==
  ASSUME NEW h, Shows(h), h.failures \subseteq Visible,
         h.end = "done" => \A s \in Visible : h.at[s] = "closed"
  PROVE  /\ Tells(h, h, Visible) /\ Tells(AgUiHolds(h), h, Visible)
         /\ Tells(BridgeHolds(h), h, Visible) /\ Tells(PlainHolds(h), h, {"A"})
<1>1. /\ Visible \subseteq Slot /\ "A" \in Visible
      /\ \A s \in Slot \ Visible : h.column[s] = << >> /\ s \notin h.failures
  BY SlotsShown DEF Shows
<1>2. \A s \in Slot : /\ Annotated(h, s) \in {h.column[s], Append(h.column[s], Marked)}
                      /\ s \in h.failures => Annotated(h, s) = Append(h.column[s], Marked)
                      /\ s \notin h.failures => Annotated(h, s) = h.column[s]
                      /\ Finished(h, s) = "closed" <=> h.at[s] = "closed"
  BY DEF Annotated, Finished
<1>3. Broken(h) = "error" <=> h.end = "error"
  BY DEF Broken
<1>4. Tells(h, h, Visible)
  BY <1>1 DEF Tells
<1>5. Tells(AgUiHolds(h), h, Visible)
  <2>1. PICK k : k = [s \in Slot |-> Annotated(h, s)]
    OBVIOUS
  <2>2. PICK v : v = AgUiHolds(h)
    OBVIOUS
  <2>3. v.column = k /\ v.at = h.at /\ v.failures = h.failures /\ v.end = h.end
    BY <2>1, <2>2 DEF AgUiHolds
  <2>4. \A s \in Slot : v.column[s] = Annotated(h, s)
    BY <2>1, <2>3
  <2>5. Tells(v, h, Visible)
    BY <1>1, <1>2, <2>3, <2>4 DEF Tells
  <2> QED BY <2>2, <2>5
<1>6. Tells(BridgeHolds(h), h, Visible)
  <2>1. PICK k : k = [s \in Slot |-> Finished(h, s)]
    OBVIOUS
  <2>2. PICK v : v = BridgeHolds(h)
    OBVIOUS
  <2>3. v.column = h.column /\ v.at = k /\ v.failures = h.failures /\ v.end = Broken(h)
    BY <2>1, <2>2 DEF BridgeHolds
  <2>4. \A s \in Slot : v.at[s] = Finished(h, s)
    BY <2>1, <2>3
  <2>5. Tells(v, h, Visible)
    BY <1>1, <1>2, <1>3, <2>3, <2>4 DEF Tells
  <2> QED BY <2>2, <2>5
<1>7. Tells(PlainHolds(h), h, {"A"})
  <2>1. PICK k, m : /\ k = [s \in Slot |-> IF s = "A" THEN Annotated(h, s) ELSE << >>]
                    /\ m = [s \in Slot |-> IF s = "A" THEN Finished(h, s) ELSE "unknown"]
    OBVIOUS
  <2>2. PICK v : v = PlainHolds(h)
    OBVIOUS
  <2>3. v.column = k /\ v.at = m /\ v.end = Broken(h)
    BY <2>1, <2>2 DEF PlainHolds
  <2>4. /\ v.column["A"] = Annotated(h, "A") /\ v.at["A"] = Finished(h, "A") /\ "A" \in Slot
        /\ \A s \in Slot \ {"A"} : v.column[s] = << >>
    BY <1>1, <2>1, <2>3
  <2>5. Tells(v, h, {"A"})
    BY <1>1, <1>2, <1>3, <2>3, <2>4 DEF Tells
  <2> QED BY <2>2, <2>5
<1> QED BY <1>4, <1>5, <1>6, <1>7

LEMMA ReadersInStep ==
  ASSUME IndInv, WiredInv
  PROVE  EveryReaderAgrees
<1>1. PICK h : h = Hook
  OBVIOUS
<1>2. /\ Shows(h) /\ h.failures \subseteq Visible /\ Slot = Letters /\ Visible \subseteq Slot
      /\ "A" \in Visible
  BY <1>1, SlotsShown DEF WiredInv, Displayed, Failing, Slot
<1>3. /\ h.end = "error" <=> over = "run_error"
      /\ h.end = "done" <=> over = "matchup_done"
      /\ \A s \in Visible :
           /\ h.at[s] = "closed" <=> answer[s] # Absent
           /\ Ends(Said(s, wire[s]), h.column[s])
           /\ accepted = 0 => h.column[s] = Said(s, wire[s])
  BY <1>1 DEF WiredInv, Displayed
<1>4. h.end = "done" => \A s \in Visible : h.at[s] = "closed"
  BY <1>3 DEF IndInv, Reads, DoneIsWhole
<1>5. ASSUME NEW r \in Readers PROVE Tells(views[r], h, Columns(r)) /\ Columns(r) \subseteq Visible
  <2>1. /\ Tells(h, h, Visible) /\ Tells(AgUiHolds(h), h, Visible)
        /\ Tells(BridgeHolds(h), h, Visible) /\ Tells(PlainHolds(h), h, {"A"})
    BY <1>2, <1>4, EveryoneTells
  <2>2. /\ views["hook"] = h /\ views["surfaces"] = h /\ views["vercel"] = h
        /\ views["ag-ui"] = AgUiHolds(h) /\ views["bridge"] = BridgeHolds(h)
        /\ views["plain"] = PlainHolds(h)
    BY <1>1 DEF WiredInv, Agreed, Hook
  <2>3. Columns(r) = IF r = "plain" THEN {"A"} ELSE Visible
    BY DEF Columns
  <2> QED BY <1>2, <2>1, <2>2, <2>3 DEF Readers
<1>6. ASSUME NEW s \in Visible PROVE IsSuffix(Said(s, wire[s]), h.column[s])
                                     /\ h.column[s] \in Seq(Tokens)
  <2>1. wire[s] \in Seq(0..MaxSteers) /\ s \in Slot
    BY <1>2 DEF IndInv, Reads
  <2>2. Said(s, wire[s]) \in Seq({s} \X (0..MaxSteers)) /\ {s} \X (0..MaxSteers) \subseteq Tokens
    BY <2>1, SaidIs DEF Tokens
  <2>3. Said(s, wire[s]) \in Seq(Tokens)
    BY <2>2, SeqMonotonic
  <2>4. h.column[s] \in Seq(Tokens)
    BY <1>2, <2>1, TokensWiden DEF Shows
  <2> QED BY <1>3, <2>3, <2>4, EndsIsSuffix
<1>7. ASSUME NEW v, NEW columns, columns \subseteq Visible, Tells(v, h, columns), NEW s \in columns
      PROVE  /\ Spoken(v, s) = h.column[s]
             /\ s \in h.failures => s \in v.failures \/ Marked \in Range(v.column[s])
  <2>1. /\ v.column[s] \in {h.column[s], Append(h.column[s], Marked)}
        /\ s \in h.failures => s \in v.failures \/ v.column[s] = Append(h.column[s], Marked)
    BY <1>7 DEF Tells
  <2>2. PICK c \in Seq(Tokens) : c = h.column[s]
    BY <1>6, <1>7
  <2> QED BY <2>1, <2>2, SpokenIs
<1>8. \A s \in Visible : Spoken(views["hook"], s) = h.column[s]
  <2>1. "hook" \in Readers /\ Columns("hook") = Visible
    BY DEF Readers, Columns
  <2> QED BY <1>5, <1>7, <2>1
<1>9. ASSUME NEW r \in Readers, NEW v, v = views[r]
      PROVE  /\ \A s \in Columns(r) :
                  /\ Spoken(v, s) = Spoken(views["hook"], s)
                  /\ IsSuffix(Said(s, wire[s]), Spoken(v, s))
                  /\ accepted = 0 => Spoken(v, s) = Said(s, wire[s])
                  /\ v.at[s] = "closed" <=> answer[s] # Absent
                  /\ s \in views["hook"].failures =>
                       s \in v.failures \/ Marked \in Range(v.column[s])
             /\ \A s \in Letters \ Columns(r) : v.column[s] = << >>
             /\ v.end = "error" <=> over = "run_error"
             /\ over = "matchup_done" => v.end = "done" \/ \A s \in Columns(r) : v.at[s] = "closed"
  <2>1. Tells(v, h, Columns(r)) /\ Columns(r) \subseteq Visible
    BY <1>5, <1>9
  <2>2. ASSUME NEW s \in Columns(r)
        PROVE  /\ Spoken(v, s) = Spoken(views["hook"], s)
               /\ IsSuffix(Said(s, wire[s]), Spoken(v, s))
               /\ accepted = 0 => Spoken(v, s) = Said(s, wire[s])
               /\ v.at[s] = "closed" <=> answer[s] # Absent
               /\ s \in views["hook"].failures =>
                    s \in v.failures \/ Marked \in Range(v.column[s])
    <3>1. s \in Visible /\ (v.at[s] = "closed" <=> h.at[s] = "closed")
      BY <2>1 DEF Tells
    <3>2. /\ Spoken(v, s) = h.column[s]
          /\ s \in h.failures => s \in v.failures \/ Marked \in Range(v.column[s])
      BY <1>7, <2>1
    <3> QED BY <1>1, <1>3, <1>6, <1>8, <3>1, <3>2 DEF Hook
  <2>3. /\ \A s \in Letters \ Columns(r) : v.column[s] = << >>
        /\ v.end = "error" <=> over = "run_error"
        /\ over = "matchup_done" => v.end = "done" \/ \A s \in Columns(r) : v.at[s] = "closed"
    BY <1>2, <1>3, <2>1 DEF Tells
  <2> QED BY <2>2, <2>3
<1> QED BY <1>9 DEF EveryReaderAgrees

\* What the readers hold is inductive beside what is read and what is still
\* queued: a failure is told while the end of its slot heads the queue, and a
\* column loses its beginning to nobody but a client that resets on steered.
THEOREM WiredInductive == WiredSpec => [](IndInv /\ WiredInv)
<1>1. WiredInit => IndInv /\ WiredInv
  BY IndInit, WiredStarts DEF WiredInit
<1>2. IndInv /\ WiredInv /\ [WiredNext]_<<vars, wired>> => (IndInv /\ WiredInv)'
  BY WiredSteps
<1> QED BY <1>1, <1>2, PTL DEF WiredSpec

\* Whichever of the six formats a round is read in, its reader has the same
\* answers: of each slot only that model's tokens, ending with the answer that
\* is judged, closed exactly when the slot is done, with the failures and the
\* end the round had, however the events of the two slots are interleaved.
THEOREM ReadersAgree == WiredSpec => []EveryReaderAgrees
<1>1. IndInv /\ WiredInv => EveryReaderAgrees
  BY ReadersInStep
<1> QED BY <1>1, WiredInductive, PTL

\* The wire formats add to the round and take nothing from it: what is proved of
\* the round above holds of the round on the wire, failures told or not.
THEOREM SameRound == WiredSpec => Spec
<1>1. WiredInit => Init
  BY DEF WiredInit
<1>2. [WiredNext]_<<vars, wired>> => [Next]_vars
  <2> SUFFICES ASSUME [WiredNext]_<<vars, wired>> PROVE [Next]_vars
    OBVIOUS
  <2>1. CASE WiredNext
    BY <2>1 DEF WiredNext, Next, WiredDeliver, SlotFails, WiredEnd, out
  <2>2. CASE UNCHANGED <<vars, wired>>
    BY <2>2
  <2> QED BY <2>1, <2>2
<1> QED BY <1>1, <1>2, PTL DEF WiredSpec, Spec
=============================================================================
