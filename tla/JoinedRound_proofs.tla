------------------------- MODULE JoinedRound_proofs -------------------------
(***************************************************************************)
(* What each connection of a joined round is sent, for any number of       *)
(* tokens and instructions and any length of backlog, however the sibling  *)
(* lags or leaves and wherever the matchup is stopped, steered, or fails.  *)
(* The generator is that of ArenaStream: what ArenaStream_proofs shows of  *)
(* it, step by step, is used here.                                         *)
(***************************************************************************)
EXTENDS JoinedRound, SequenceTheorems, TLAPS

\* Its readers on other wire formats are of no concern here.
Generator == INSTANCE ArenaStream_proofs WITH views <- << >>, chunks <- << >>

USE Bounds, KindsAre, Joined, MaxQueuedIsPositive DEF Letters, None

(***************************************************************************)
(* The inductive invariant.                                                *)
(***************************************************************************)
\* What the reader of slot s was sent, and the same after one more event.
Got(s) == [text |-> wire[s], answer |-> answer[s], over |-> over[s]]

Reading(w, e) ==
  CASE e.type = "token"     -> [w EXCEPT !.text = @ \o e.text]
    [] e.type = "steered"   -> [w EXCEPT !.text = << >>]
    [] e.type = "slot_done" -> [w EXCEPT !.answer = e.text]
    [] OTHER                -> [w EXCEPT !.over = e.type]

\* An event that may follow, where r is the row of the slot.
Sound(r, w, e) ==
  /\ w.over = None
  /\ IF e.type = "matchup_done" THEN w.answer # Absent ELSE w.answer = Absent
  /\ e.type = "slot_done" => e.text = w.text /\ r = e.text

\* What is read while the backlog q is taken one by one.
Reads(r, h, q) == \A i \in 1..Len(q) : /\ h[i] = Reading(h[i - 1], q[i])
                                       /\ Sound(r, h[i - 1], q[i])

Unanswered(t) == [text |-> t, answer |-> Absent, over |-> None]

\* The backlog of slot s leads to t, the text the pump has taken, for as long
\* as the channel is open.
Behind(s, t) ==
  \E h : /\ h[0] = Got(s) /\ Reads(saved[s], h, channel[s].queued)
         /\ ~channel[s].closed => h[Len(channel[s].queued)] = Unanswered(t)

\* The generator's queue goes on from there.
InTransit ==
  \E v : /\ v.saved = saved /\ v.answer = saved /\ v.recorded = recorded
         /\ DOMAIN v.wire = Letters
         /\ consumer = "reading" => Generator!Leads(v)
         /\ \A s \in Letters : Behind(s, v.wire[s])

\* A loop that nobody stopped is only left once every slot has its row.
Calm ==
  consumer = "reading" /\ ~aborted =>
    /\ ~stopped /\ driver # "stopped"
    /\ torn => steering
    /\ closed => driver = "ended"
    /\ driver \in {"done", "ended"} => ~torn /\ completed # 0

Left == consumer # "reading" /\ ~failed /\ ~aborted => \A s \in Letters : saved[s] # Absent

Excused(s) == aborted \/ (s = "B" /\ hungUp)

\* A closed channel has its matchup_done, its failure, or an excuse.
Ending(s) ==
  /\ channel[s].failure => channel[s].closed
  /\ ~channel[s].closed => saved[s] = Absent
  /\ Due(s) \/ over[s] = "matchup_done" => channel[s].closed /\ ~channel[s].failure
  /\ channel[s].closed => \/ channel[s].failure \/ Excused(s)
                          \/ Due(s) \/ over[s] = "matchup_done"
  /\ reader[s] # "done" => over[s] \in {None, "matchup_done"}
  /\ reader[s] = "done" => channel[s].queued = << >> /\ channel[s].closed
  /\ over[s] = "cut" => Excused(s)

Channels == [queued : Seq(Events), closed : BOOLEAN, failure : BOOLEAN]
Fits(c)  == c \in Channels /\ Len(c.queued) =< MaxQueued

Shapes ==
  /\ Generator!MakingTypeOK
  /\ DOMAIN channel = Letters /\ \A s \in Letters : Fits(channel[s])
  /\ reader \in [Letters -> {"waiting", "reading", "done"}] /\ hungUp \in BOOLEAN
  /\ wire \in [Letters -> Seq(0..MaxSteers)]
  /\ answer \in [Letters -> Texts \cup {Absent}]
  /\ over \in [Letters -> {None, "matchup_done", "run_error", "cut"}]
  /\ saved \in [Letters -> Texts \cup {Absent}]
  /\ recorded \in Nat /\ recorded =< accepted

IndInv == Shapes /\ Generator!Control /\ Calm /\ Left /\ InTransit
            /\ \A s \in Letters : Ending(s)

(***************************************************************************)
(* The generator of a joined round.                                        *)
(***************************************************************************)
Generates == Generating \/ PersistFails \/ GeneratorFinally \/ Stop \/ Steer

LEMMA SameNames ==
  /\ Generator!Slots = Slots /\ Generator!Letters = Letters /\ Generator!None = None
  /\ Generator!Absent = Absent /\ Generator!Texts = Texts /\ Generator!Events = Events
  /\ Generator!Running = Running /\ Generator!Interrupted = Interrupted
  /\ Generator!Visible = Visible /\ Generator!Persisted = Persisted
BY DEF Generator!Slots, Slots, Generator!Letters, Generator!None, Generator!Absent, Absent,
       Generator!Texts, Texts, Generator!Events, Events, Generator!Event, Event,
       Generator!Running, Running, Generator!Interrupted, Interrupted, Generator!Visible, Visible,
       Generator!Persisted, Persisted

LEMMA SameProducers ==
  ASSUME NEW s
  PROVE  /\ Token(s) => Generator!Token(s)
         /\ ProviderEnds(s) => Generator!ProviderEnds(s)
         /\ TornDown(s) => Generator!TornDown(s)
BY SameNames
   DEF Token, Generator!Token, ProviderEnds, Generator!ProviderEnds, TornDown, Generator!TornDown,
       Leaves, Generator!Leaves, Push, Generator!Push, Event, Generator!Event,
       Up, Generator!Up, round, Generator!round, control, Generator!control, flags, Generator!flags,
       rows, Generator!rows

LEMMA SameDriver ==
  /\ UnhandledRejection => Generator!UnhandledRejection
  /\ DriverEnds => Generator!DriverEnds
  /\ DriverRestarts => Generator!DriverRestarts
BY SameNames
   DEF UnhandledRejection, Generator!UnhandledRejection, DriverEnds, Generator!DriverEnds,
       DriverRestarts, Generator!DriverRestarts, Restart, Generator!Restart, Announce,
       Generator!Announce, Halted, Generator!Halted, Close, Generator!Close,
       Push, Generator!Push, Event, Generator!Event, Up, Generator!Up,
       round, Generator!round, control, Generator!control, flags, Generator!flags,
       making, Generator!making, rows, Generator!rows

LEMMA SameControls ==
  /\ PersistFails => Generator!PersistFails
  /\ GeneratorFinally => Generator!GeneratorFinally
  /\ Stop => Generator!Stop
  /\ Steer => Generator!Steer
BY SameNames
   DEF PersistFails, Generator!PersistFails, GeneratorFinally, Generator!GeneratorFinally,
       Stop, Generator!Stop, Steer, Generator!Steer, AcceptsSteer, Generator!AcceptsSteer,
       Steerable, Generator!Steerable, Unwind, Generator!Unwind, Close, Generator!Close,
       Up, Generator!Up, round, Generator!round, control, Generator!control, flags, Generator!flags,
       making, Generator!making, rows, Generator!rows

LEMMA SameSteps ==
  /\ CoreInit => Generator!CoreInit
  /\ Generates => Generator!CoreStep
  /\ Take => Generator!Take
  /\ LoopEnds => Generator!LoopEnds
<1>1. CoreInit => Generator!CoreInit
  BY SameNames DEF CoreInit, Generator!CoreInit
<1>2. Generates => Generator!CoreStep
  BY SameNames, SameProducers, SameDriver, SameControls
     DEF Generates, Generator!CoreStep, Generating, Generator!Generating
<1>3. Take => Generator!Take
  BY SameNames DEF Take, Generator!Take, Recorded, Generator!Recorded, Dealt, Generator!Dealt,
     Up, Generator!Up, round, Generator!round, control, Generator!control, flags, Generator!flags,
     making, Generator!making
<1>4. LoopEnds => Generator!LoopEnds
  BY SameNames DEF LoopEnds, Generator!LoopEnds, Up, Generator!Up
<1> QED BY <1>1, <1>2, <1>3, <1>4

\* Both slots are generated, shown and saved.
LEMMA Pair ==
  ASSUME Generator!MakingTypeOK
  PROVE  /\ kind = "joined" /\ Slots = Letters /\ Visible = Letters /\ Persisted
         /\ queue \in Seq(Events) /\ accepted \in 0..MaxSteers
BY SameNames DEF Generator!MakingTypeOK, Slots, Visible, Persisted

LEMMA PairStands ==
  ASSUME Generator!MakingTypeOK, kind' = kind
  PROVE  /\ Slots' = Letters /\ Events' = Events /\ Texts' = Texts /\ Channels' = Channels
         /\ Persisted'
<1>1. kind = "joined"
  BY Pair
<1>2. Slots = Letters /\ Slots' = Letters
  BY <1>1 DEF Slots
<1>3. Events' = Events
  BY <1>2 DEF Events, Texts
<1> QED BY <1>1, <1>2, <1>3 DEF Texts, Channels, Persisted

\* What the generator's own steps leave alone, and what they cannot undo.
LEMMA GeneratesKeeps ==
  ASSUME Generates
  PROVE  /\ UNCHANGED <<kind, live, saved, recorded>>
         /\ aborted => aborted'
         /\ accepted' = accepted \/ accepted' = accepted + 1
         /\ consumer' = "reading" => consumer = "reading"
<1> USE DEF Generates, Generating, round, control, rows
<1>1. CASE \E s \in Slots : Token(s) \/ ProviderEnds(s) \/ TornDown(s)
  BY <1>1 DEF Token, ProviderEnds, TornDown
<1>2. CASE UnhandledRejection \/ DriverEnds \/ DriverRestarts
  BY <1>2 DEF UnhandledRejection, DriverEnds, DriverRestarts, Close
<1>3. CASE PersistFails \/ GeneratorFinally \/ Stop \/ Steer
  BY <1>3 DEF PersistFails, GeneratorFinally, Stop, Steer, Close
<1> QED BY <1>1, <1>2, <1>3

LEMMA TextAbsent == Absent \notin Texts
BY SameNames, Generator!TextAbsent

LEMMA EventIs ==
  ASSUME NEW e \in Events
  PROVE  \/ \E s \in Slots, g \in 0..MaxSteers : e = Event("token", s, <<g>>)
         \/ \E s \in Slots, t \in Texts : e = Event("slot_done", s, t)
         \/ e = Event("steered", None, << >>)
         \/ e = Event("matchup_done", None, << >>)
BY SameNames, Generator!EventIs DEF Event, Generator!Event

(***************************************************************************)
(* The backlog of a channel.                                               *)
(***************************************************************************)
LEMMA ReadsPushed ==
  ASSUME NEW r, NEW h, NEW q \in Seq(Events), NEW e \in Events,
         Reads(r, h, q), Sound(r, h[Len(q)], e)
  PROVE  \E g : /\ g[0] = h[0] /\ Reads(r, g, Append(q, e))
                /\ g[Len(q) + 1] = Reading(h[Len(q)], e)
<1> DEFINE n == Len(q)
           g == [i \in 0..(n + 1) |-> IF i =< n THEN h[i] ELSE Reading(h[n], e)]
           p == Append(q, e)
<1>1. n \in Nat /\ Len(p) = n + 1 /\ p[n + 1] = e /\ \A i \in 1..n : p[i] = q[i]
  BY AppendProperties
<1>2. g[0] = h[0] /\ g[n + 1] = Reading(h[n], e) /\ \A i \in 0..n : g[i] = h[i]
  BY <1>1
<1>3. Reads(r, g, p)
  <2> SUFFICES ASSUME NEW i \in 1..Len(p)
               PROVE  g[i] = Reading(g[i - 1], p[i]) /\ Sound(r, g[i - 1], p[i])
    BY DEF Reads
  <2> HIDE DEF g, p
  <2>1. CASE i \in 1..n
    <3>1. g[i] = h[i] /\ g[i - 1] = h[i - 1] /\ p[i] = q[i]
      BY <1>1, <1>2, <2>1
    <3>2. h[i] = Reading(h[i - 1], q[i]) /\ Sound(r, h[i - 1], q[i])
      BY <2>1 DEF Reads
    <3> QED BY <3>1, <3>2
  <2>2. CASE i = n + 1
    <3>1. g[i] = Reading(h[n], e) /\ g[i - 1] = h[n] /\ p[i] = e
      BY <1>1, <1>2, <2>2
    <3> QED BY <3>1
  <2> QED BY <1>1, <2>1, <2>2
<1> QED BY <1>2, <1>3

LEMMA ReadsTaken ==
  ASSUME NEW r, NEW h, NEW q \in Seq(Events), q # << >>, Reads(r, h, q)
  PROVE  /\ Sound(r, h[0], Head(q))
         /\ \E g : /\ g[0] = Reading(h[0], Head(q)) /\ Reads(r, g, Tail(q))
                   /\ g[Len(Tail(q))] = h[Len(q)]
<1> DEFINE n == Len(q)
           g == [i \in 0..(n - 1) |-> h[i + 1]]
           p == Tail(q)
<1>1. n \in Nat /\ n >= 1 /\ Len(p) = n - 1 /\ Head(q) = q[1] /\ \A i \in 1..(n - 1) : p[i] = q[i + 1]
  BY HeadTailProperties
<1>2. \A i \in 0..(n - 1) : g[i] = h[i + 1]
  OBVIOUS
<1> HIDE DEF g, p
<1>3. Sound(r, h[0], q[1]) /\ h[1] = Reading(h[0], q[1])
  <2>1. 1 \in 1..Len(q) /\ 1 - 1 = 0
    BY <1>1
  <2>2. h[1] = Reading(h[1 - 1], q[1]) /\ Sound(r, h[1 - 1], q[1])
    BY <2>1 DEF Reads
  <2> QED BY <2>1, <2>2
<1>4. g[0] = h[1] /\ g[n - 1] = h[n]
  <2>1. 0 \in 0..(n - 1) /\ n - 1 \in 0..(n - 1) /\ 0 + 1 = 1 /\ (n - 1) + 1 = n
    BY <1>1
  <2> QED BY <1>2, <2>1
<1>5. Reads(r, g, p)
  <2> SUFFICES ASSUME NEW i \in 1..Len(p)
               PROVE  g[i] = Reading(g[i - 1], p[i]) /\ Sound(r, g[i - 1], p[i])
    BY DEF Reads
  <2>1. /\ i + 1 \in 1..Len(q) /\ p[i] = q[i + 1] /\ (i + 1) - 1 = i
        /\ i \in 0..(n - 1) /\ i - 1 \in 0..(n - 1) /\ (i - 1) + 1 = i
    BY <1>1
  <2>2. h[i + 1] = Reading(h[i], q[i + 1]) /\ Sound(r, h[i], q[i + 1])
    BY <2>1 DEF Reads
  <2>3. g[i] = h[i + 1] /\ g[i - 1] = h[i]
    BY <1>2, <2>1
  <2> QED BY <2>1, <2>2, <2>3
<1> QED BY <1>1, <1>3, <1>4, <1>5 DEF p

(***************************************************************************)
(* The operations of a channel.                                            *)
(***************************************************************************)
Broken == [queued |-> << >>, closed |-> TRUE, failure |-> TRUE]

LEMMA BrokenFits == Fits(Broken)
BY DEF Broken, Fits, Channels

LEMMA PutIs ==
  ASSUME NEW c, Fits(c), NEW e \in Events
  PROVE  /\ Fits(Put(c, e))
         /\ c.closed => Put(c, e) = c
         /\ ~c.closed => Put(c, e) \in {[c EXCEPT !.queued = Append(@, e)], Broken}
<1>1. CASE c.closed
  BY <1>1 DEF Put
<1>2. CASE ~c.closed /\ Len(c.queued) >= MaxQueued
  BY <1>2, BrokenFits DEF Put, Fail, Broken
<1>3. CASE ~c.closed /\ ~(Len(c.queued) >= MaxQueued)
  <2>1. PICK q : q = Append(c.queued, e)
    OBVIOUS
  <2>2. q \in Seq(Events) /\ Len(q) = Len(c.queued) + 1 /\ Len(c.queued) \in Nat
    BY <2>1, AppendProperties DEF Fits, Channels
  <2>3. Put(c, e) = [c EXCEPT !.queued = q]
    BY <1>3, <2>1 DEF Put
  <2>4. Len(q) =< MaxQueued
    BY <1>3, <2>2
  <2>5. Fits([c EXCEPT !.queued = q])
    BY <2>2, <2>4 DEF Fits, Channels
  <2> QED BY <1>3, <2>1, <2>3, <2>5
<1> QED BY <1>1, <1>2, <1>3

LEMMA ShutIs ==
  ASSUME NEW c, Fits(c)
  PROVE  /\ Fits(Shut(c))
         /\ Shut(c) = [queued |-> c.queued, closed |-> TRUE, failure |-> c.failure]
         /\ c.closed => Shut(c) = c
<1>1. PICK d : d = Shut(c)
  OBVIOUS
<1>2. d \in Channels /\ d.queued = c.queued /\ d.closed = TRUE /\ d.failure = c.failure
  BY <1>1 DEF Fits, Channels, Shut
<1>3. /\ d = [queued |-> d.queued, closed |-> d.closed, failure |-> d.failure]
      /\ c = [queued |-> c.queued, closed |-> c.closed, failure |-> c.failure]
  BY <1>2 DEF Fits, Channels
<1>4. Fits(d)
  BY <1>2 DEF Fits
<1>5. c.closed => c.closed = TRUE
  BY DEF Fits, Channels
<1> QED BY <1>1, <1>2, <1>3, <1>4, <1>5

LEMMA ShutBroken == Shut(Broken) = Broken
BY BrokenFits, ShutIs DEF Broken

LEMMA ReleasedIs ==
  ASSUME NEW c, Fits(c)
  PROVE  /\ Fits(Released(c))
         /\ c.closed => Released(c) = c
         /\ ~c.closed => Released(c) = IF failed THEN Broken ELSE Shut(c)
BY ShutIs, BrokenFits DEF Released, Fail, Broken

Concerns(s, e) == e.type = "steered" \/ (e.type = "token" /\ e.slot = s)

\* What the pump makes of the open channel c of slot s.
Sends(s, c, e, d) ==
  IF e.type = "slot_done" /\ e.slot = s
    THEN \/ d = Broken
         \/ d = [queued |-> Append(Append(c.queued, e), WholeRound), closed |-> TRUE,
                 failure |-> FALSE]
    ELSE IF Concerns(s, e) THEN d = Broken \/ d = [c EXCEPT !.queued = Append(@, e)]
    ELSE d = c

LEMMA LastPut ==
  ASSUME NEW c, Fits(c), ~c.closed, ~c.failure, NEW e \in Events, NEW m \in Events,
         NEW d, d = Shut(Put(Put(c, e), m))
  PROVE  \/ d = Broken
         \/ d = [queued |-> Append(Append(c.queued, e), m), closed |-> TRUE, failure |-> FALSE]
<1>1. PICK b : b = Put(c, e)
  OBVIOUS
<1>2. Fits(b) /\ (b = [c EXCEPT !.queued = Append(@, e)] \/ b = Broken)
  BY <1>1, PutIs
<1>3. PICK a : a = Put(b, m)
  OBVIOUS
<1>4. CASE b = Broken
  <2>1. a = Broken
    BY <1>2, <1>3, <1>4, PutIs DEF Broken
  <2> QED BY <1>1, <1>3, <2>1, ShutBroken
<1>5. CASE b = [c EXCEPT !.queued = Append(@, e)]
  <2>1. ~b.closed /\ b.queued = Append(c.queued, e) /\ ~b.failure
    BY <1>5 DEF Fits, Channels
  <2>2. a = [b EXCEPT !.queued = Append(@, m)] \/ a = Broken
    BY <1>2, <1>3, <2>1, PutIs
  <2>3. CASE a = Broken
    BY <1>1, <1>3, <2>3, ShutBroken
  <2>4. CASE a = [b EXCEPT !.queued = Append(@, m)]
    <3>1. a.queued = Append(Append(c.queued, e), m) /\ a.failure = FALSE /\ Fits(a)
      BY <1>2, <1>3, <2>1, <2>4, PutIs DEF Fits, Channels
    <3> QED BY <1>1, <1>3, <3>1, ShutIs
  <2> QED BY <2>2, <2>3, <2>4
<1> QED BY <1>2, <1>4, <1>5

LEMMA WholeRoundIs ==
  WholeRound \in Events /\ WholeRound.type = "matchup_done"
BY DEF WholeRound, Event, Events

LEMMA RoutedIs ==
  ASSUME Shapes, NEW s \in Letters, NEW e \in Events, channel[s].failure => channel[s].closed,
         NEW d, d = Routed(e)[s]
  PROVE  /\ Fits(d)
         /\ channel[s].closed => d = channel[s]
         /\ ~channel[s].closed => Sends(s, channel[s], e, d)
<1>1. PICK c : c = channel[s]
  OBVIOUS
<1>2. Fits(c) /\ (c.failure => c.closed) /\ Slots = Letters /\ DOMAIN channel = Letters
  BY <1>1, Pair DEF Shapes
<1>3. CASE e.type = "matchup_done"
  <2>1. d = c
    BY <1>1, <1>3 DEF Routed
  <2>2. Sends(s, c, e, d)
    BY <1>3, <2>1 DEF Sends, Concerns
  <2> QED BY <1>1, <1>2, <2>1, <2>2
<1>4. CASE e.type = "steered"
  <2>1. d = Put(c, e)
    BY <1>1, <1>2, <1>4 DEF Routed, FanOut
  <2>2. Fits(d) /\ (c.closed => d = c)
        /\ (~c.closed => d = [c EXCEPT !.queued = Append(@, e)] \/ d = Broken)
    BY <1>2, <2>1, PutIs
  <2>3. ~c.closed => Sends(s, c, e, d)
    BY <1>4, <2>2 DEF Sends, Concerns
  <2> QED BY <1>1, <2>2, <2>3
<1>5. CASE e.type = "slot_done"
  <2>1. CASE e.slot = s
    <3>1. d = Shut(Put(Put(c, e), WholeRound))
      BY <1>1, <1>2, <1>5, <2>1 DEF Routed
    <3>2. Fits(Put(c, e)) /\ Fits(Put(Put(c, e), WholeRound))
      BY <1>2, PutIs, WholeRoundIs
    <3>3. Fits(d)
      BY <3>1, <3>2, ShutIs
    <3>4. CASE c.closed
      <4>1. Put(c, e) = c /\ Put(c, WholeRound) = c /\ Shut(c) = c
        BY <1>2, <3>4, PutIs, ShutIs, WholeRoundIs
      <4> QED BY <1>1, <3>1, <3>3, <3>4, <4>1
    <3>5. CASE ~c.closed
      <4>1. ~c.failure
        BY <1>2, <3>5
      <4>2. \/ d = Broken
            \/ d = [queued |-> Append(Append(c.queued, e), WholeRound), closed |-> TRUE,
                    failure |-> FALSE]
        BY <1>2, <3>1, <3>5, <4>1, LastPut, WholeRoundIs
      <4> QED BY <1>1, <1>5, <2>1, <3>3, <3>5, <4>2 DEF Sends
    <3> QED BY <3>4, <3>5
  <2>2. CASE e.slot # s
    <3>1. d = c
      BY <1>1, <1>2, <1>5, <2>2 DEF Routed
    <3>2. Sends(s, c, e, d)
      BY <1>5, <2>2, <3>1 DEF Sends, Concerns
    <3> QED BY <1>1, <1>2, <3>1, <3>2
  <2> QED BY <2>1, <2>2
<1>6. CASE e.type = "token"
  <2>1. CASE e.slot = s
    <3>1. d = Put(c, e)
      BY <1>1, <1>2, <1>6, <2>1 DEF Routed
    <3>2. Fits(d) /\ (c.closed => d = c)
          /\ (~c.closed => d = [c EXCEPT !.queued = Append(@, e)] \/ d = Broken)
      BY <1>2, <3>1, PutIs
    <3>3. ~c.closed => Sends(s, c, e, d)
      BY <1>6, <2>1, <3>2 DEF Sends, Concerns
    <3> QED BY <1>1, <3>2, <3>3
  <2>2. CASE e.slot # s
    <3>1. d = c
      BY <1>1, <1>2, <1>6, <2>2 DEF Routed
    <3>2. Sends(s, c, e, d)
      BY <1>6, <2>2, <3>1 DEF Sends, Concerns
    <3> QED BY <1>1, <1>2, <3>1, <3>2
  <2> QED BY <2>1, <2>2
<1> QED BY <1>3, <1>4, <1>5, <1>6, EventIs DEF Event

(***************************************************************************)
(* What is still to be read on a channel.                                  *)
(***************************************************************************)
\* An answer is only sent with its row, so a row that is first saved changes
\* nothing of a backlog.
LEMMA RowKept ==
  ASSUME NEW r, NEW x, NEW h, NEW q \in Seq(Events), Reads(r, h, q), x = r \/ r = Absent
  PROVE  Reads(x, h, q)
<1> SUFFICES ASSUME NEW i \in 1..Len(q)
             PROVE  h[i] = Reading(h[i - 1], q[i]) /\ Sound(x, h[i - 1], q[i])
  BY DEF Reads
<1>1. PICK e \in Events : e = q[i]
  OBVIOUS
<1>2. h[i] = Reading(h[i - 1], e) /\ Sound(r, h[i - 1], e)
  BY <1>1 DEF Reads
<1>3. e.type = "slot_done" => e.text # Absent
  BY EventIs, TextAbsent DEF Event
<1>4. Sound(x, h[i - 1], e)
  BY <1>2, <1>3 DEF Sound
<1> QED BY <1>1, <1>2, <1>4

\* The backlog stands; its channel may close.
LEMMA BehindKept ==
  ASSUME Shapes, NEW s \in Letters, NEW t, Behind(s, t),
         Got(s)' = Got(s), saved'[s] = saved[s] \/ saved[s] = Absent,
         channel'[s].queued = channel[s].queued, channel[s].closed => channel'[s].closed
  PROVE  Behind(s, t)'
<1>1. PICK q \in Seq(Events) : q = channel[s].queued
  BY DEF Shapes, Fits, Channels
<1>2. PICK h : /\ h[0] = Got(s) /\ Reads(saved[s], h, q)
               /\ ~channel[s].closed => h[Len(q)] = Unanswered(t)
  BY <1>1 DEF Behind
<1>3. PICK x : x = saved'[s]
  OBVIOUS
<1>4. Reads(x, h, q)
  BY <1>2, <1>3, RowKept
<1>5. h[0] = Got(s)' /\ q = channel'[s].queued
  BY <1>1, <1>2
<1> QED BY <1>2, <1>3, <1>4, <1>5 DEF Behind

LEMMA BehindNothing ==
  ASSUME NEW s, NEW t, channel'[s].queued = << >>, channel'[s].closed
  PROVE  Behind(s, t)'
<1>1. PICK w : w = Got(s)'
  OBVIOUS
<1>2. PICK h : h = [i \in {0} |-> w]
  OBVIOUS
<1>3. PICK r : r = saved'[s]
  OBVIOUS
<1>4. h[0] = w /\ Reads(r, h, << >>)
  BY <1>2 DEF Reads
<1> QED BY <1>1, <1>3, <1>4 DEF Behind

\* A token or a reset is sent on an open channel.
LEMMA BehindSent ==
  ASSUME Shapes, NEW s \in Letters, NEW t, Behind(s, t), ~channel[s].closed,
         NEW e \in Events, Concerns(s, e), NEW u,
         u = (IF e.type = "token" THEN t \o e.text ELSE << >>),
         Got(s)' = Got(s), saved'[s] = saved[s],
         channel'[s].queued = Append(channel[s].queued, e)
  PROVE  Behind(s, u)'
<1>1. PICK q \in Seq(Events) : q = channel[s].queued
  BY DEF Shapes, Fits, Channels
<1>2. PICK h : /\ h[0] = Got(s) /\ Reads(saved[s], h, q) /\ h[Len(q)] = Unanswered(t)
  BY <1>1 DEF Behind
<1>3. PICK r : r = saved[s]
  OBVIOUS
<1>4. PICK w : w = Unanswered(t)
  OBVIOUS
<1>5. w.text = t /\ w.answer = Absent /\ w.over = None
  BY <1>4 DEF Unanswered
<1>6. Sound(r, w, e) /\ Reading(w, e) = Unanswered(u)
  <2>1. Sound(r, w, e)
    BY <1>5 DEF Sound, Concerns
  <2>2. Reading(w, e) = Unanswered(u)
    BY <1>4 DEF Concerns, Reading, Unanswered
  <2> QED BY <2>1, <2>2
<1>7. Reads(r, h, q) /\ h[Len(q)] = w
  BY <1>2, <1>3, <1>4
<1>8. PICK g : g[0] = h[0] /\ Reads(r, g, Append(q, e)) /\ g[Len(q) + 1] = Reading(h[Len(q)], e)
  BY <1>6, <1>7, ReadsPushed
<1>9. PICK p : p = Append(q, e)
  OBVIOUS
<1>10. Len(p) = Len(q) + 1
  BY <1>9, AppendProperties
<1>11. channel'[s].queued = p
  BY <1>1, <1>9
<1>12. g[0] = Got(s)' /\ g[Len(p)] = Unanswered(u) /\ Reads(r, g, p) /\ r = saved'[s]
  BY <1>2, <1>3, <1>6, <1>7, <1>8, <1>9, <1>10
<1> QED BY <1>11, <1>12 DEF Behind

\* The answer is sent, and with it the end.
LEMMA BehindAnswered ==
  ASSUME Shapes, NEW s \in Letters, NEW t \in Texts, Behind(s, t), ~channel[s].closed,
         NEW e \in Events, e.type = "slot_done", e.text = t, NEW u,
         Got(s)' = Got(s), saved[s] = Absent, saved'[s] = t,
         channel'[s] = [queued |-> Append(Append(channel[s].queued, e), WholeRound),
                        closed |-> TRUE, failure |-> FALSE]
  PROVE  Behind(s, u)'
<1>1. PICK q \in Seq(Events) : q = channel[s].queued
  BY DEF Shapes, Fits, Channels
<1>2. PICK h : /\ h[0] = Got(s) /\ Reads(saved[s], h, q) /\ h[Len(q)] = Unanswered(t)
  BY <1>1 DEF Behind
<1>3. Reads(t, h, q)
  BY <1>2, RowKept
<1>4. PICK w : w = Unanswered(t)
  OBVIOUS
<1>5. w.text = t /\ w.answer = Absent /\ w.over = None
  BY <1>4 DEF Unanswered
<1>6. Sound(t, w, e) /\ Reading(w, e) = [w EXCEPT !.answer = t]
  BY <1>5 DEF Sound, Reading
<1>7. PICK y : y = [w EXCEPT !.answer = t]
  OBVIOUS
<1>8. y.answer = t /\ y.over = None /\ t # Absent
  BY <1>4, <1>7, TextAbsent DEF Unanswered
<1>9. PICK p : p = Append(q, e)
  OBVIOUS
<1>10. p \in Seq(Events) /\ Len(p) = Len(q) + 1
  BY <1>9, AppendProperties
<1>11. PICK g : g[0] = h[0] /\ Reads(t, g, p) /\ g[Len(p)] = y
  <2>1. Sound(t, h[Len(q)], e) /\ Reading(h[Len(q)], e) = y
    BY <1>2, <1>4, <1>6, <1>7
  <2>2. PICK g : g[0] = h[0] /\ Reads(t, g, Append(q, e)) /\ g[Len(q) + 1] = Reading(h[Len(q)], e)
    BY <1>3, <2>1, ReadsPushed
  <2> QED BY <1>9, <1>10, <2>1, <2>2
<1>12. Sound(t, g[Len(p)], WholeRound)
  BY <1>8, <1>11, WholeRoundIs DEF Sound
<1>13. PICK f : f[0] = g[0] /\ Reads(t, f, Append(p, WholeRound))
  BY <1>10, <1>11, <1>12, WholeRoundIs, ReadsPushed
<1>14. f[0] = Got(s)' /\ channel'[s].queued = Append(p, WholeRound) /\ channel'[s].closed
  BY <1>1, <1>2, <1>9, <1>11, <1>13
<1> QED BY <1>13, <1>14 DEF Behind

(***************************************************************************)
(* The generator and the pump.                                             *)
(***************************************************************************)
LEMMA CalmGenerates ==
  ASSUME Generator!MakingTypeOK, Generator!Control, Calm, Generates
  PROVE  Calm'
<1> SUFFICES ASSUME consumer' = "reading", ~aborted'
             PROVE  /\ ~stopped' /\ driver' # "stopped"
                    /\ torn' => steering'
                    /\ closed' => driver' = "ended"
                    /\ driver' \in {"done", "ended"} => ~torn' /\ completed' # 0
  BY DEF Calm
<1>1. /\ consumer = "reading" /\ ~aborted /\ ~stopped /\ driver # "stopped"
      /\ torn => steering
      /\ closed => driver = "ended"
      /\ driver \in {"done", "ended"} => ~torn /\ completed # 0
  BY GeneratesKeeps DEF Calm
<1>2. /\ driver # "generating" => Running = {}
      /\ driver = "steered" => steering
      /\ completed \in 0..2
  BY SameNames DEF Generator!Control, Generator!MakingTypeOK
<1>3. ASSUME NEW s \in Slots, Token(s) \/ ProviderEnds(s) \/ TornDown(s)
      PROVE  /\ ~stopped' /\ driver' # "stopped"
             /\ torn' => steering'
             /\ closed' => driver' = "ended"
             /\ driver' \in {"done", "ended"} => ~torn' /\ completed' # 0
  <2>1. s \in Running /\ driver = "generating" /\ ~closed
    BY <1>1, <1>2, <1>3 DEF Token, ProviderEnds, TornDown
  <2>2. UNCHANGED <<stopped, torn, steering, closed>>
    BY <1>3 DEF Token, ProviderEnds, TornDown, flags
  <2>3. CASE Token(s)
    BY <1>1, <2>1, <2>2, <2>3 DEF Token
  <2>4. CASE ProviderEnds(s)
    <3>1. ~torn /\ completed' = completed + 1 /\ driver' \in {"generating", "done"}
      BY <2>1, <2>4 DEF ProviderEnds, Interrupted, Leaves
    <3> QED BY <1>1, <1>2, <2>1, <2>2, <3>1
  <2>5. CASE TornDown(s)
    <3>1. driver' \in {"generating", "steered"}
      BY <1>1, <2>1, <2>5 DEF TornDown, Interrupted, Leaves
    <3> QED BY <1>1, <2>1, <2>2, <3>1
  <2> QED BY <1>3, <2>3, <2>4, <2>5
<1>4. CASE UnhandledRejection
  BY <1>1, <1>4 DEF UnhandledRejection, making, flags
<1>5. CASE DriverEnds
  <2>1. driver = "done" /\ driver' = "ended" /\ UNCHANGED <<stopped, torn, steering, completed>>
    BY <1>1, <1>5 DEF DriverEnds, making, flags
  <2> QED BY <1>1, <2>1
<1>6. CASE DriverRestarts
  <2>1. aborted' = aborted /\ driver = "steered" /\ ~Halted
    BY <1>1, <1>6 DEF DriverRestarts, control, Halted
  <2>2. torn' = FALSE /\ driver' = "generating" /\ stopped' = stopped /\ closed' = closed
    BY <1>6, <2>1 DEF DriverRestarts, Restart
  <2> QED BY <1>1, <2>1, <2>2
<1>7. CASE PersistFails \/ GeneratorFinally \/ Stop
  BY <1>1, <1>7 DEF PersistFails, GeneratorFinally, Stop
<1>8. CASE Steer
  <2>1. completed = 0 /\ steering' = TRUE /\ UNCHANGED <<stopped, driver, closed>>
    BY <1>8 DEF Steer, AcceptsSteer
  <2> QED BY <1>1, <2>1
<1> QED BY <1>3, <1>4, <1>5, <1>6, <1>7, <1>8 DEF Generates, Generating

\* Once the driver is done and nobody interrupted it, the queue holds all that
\* the rows still lack.
LEMMA Arrived ==
  ASSUME Generator!MakingTypeOK, Generator!Control, ~Interrupted, driver # "generating",
         NEW v, Generator!Leads(v)
  PROVE  /\ queue = << >> => \A s \in Letters : v.saved[s] # Absent
         /\ Len(queue) = 1 =>
              \A s \in Letters : Generator!After(v, Head(queue)).saved[s] # Absent
<1>1. PICK q \in Seq(Events) : q = queue
  BY Pair
<1>2. PICK f : f[0] = v /\ Generator!Steps(f, q) /\ Generator!Future(f[Len(q)])
  BY <1>1 DEF Generator!Leads
<1>3. PICK u : u = f[Len(q)]
  OBVIOUS
<1>4. \A s \in Letters : producer[s] = "ended"
  <2>1. Running = {} /\ Slots = Letters /\ producer \in [Slots -> {"running", "ended"}]
    BY SameNames, Pair DEF Generator!Control, Generator!MakingTypeOK
  <2> QED BY <2>1 DEF Running
<1>5. \A s \in Letters : u.saved[s] # Absent
  <2>1. Generator!Future(u) /\ ~Generator!Interrupted /\ Generator!Slots = Letters /\ Generator!Persisted
    BY <1>2, <1>3, SameNames, Pair
  <2> QED BY <1>4, <2>1, SameNames DEF Generator!Future
<1>6. CASE queue = << >>
  <2>1. Len(q) = 0
    BY <1>1, <1>6
  <2> QED BY <1>1, <1>2, <1>3, <1>5, <1>6, <2>1
<1>7. CASE Len(queue) = 1
  <2>1. Head(q) = q[1] /\ 1 \in 1..Len(q) /\ 1 - 1 = 0 /\ Len(q) = 1
    BY <1>1, <1>7
  <2>2. f[1] = Generator!After(f[1 - 1], q[1])
    BY <1>2, <2>1 DEF Generator!Steps
  <2>3. u = Generator!After(v, Head(q)) /\ q # << >>
    BY <1>2, <1>3, <2>1, <2>2
  <2> QED BY <1>1, <1>5, <2>3
<1> QED BY <1>6, <1>7

LEMMA LeftGenerates ==
  ASSUME Shapes, Generator!Control, Calm, Left, InTransit, Generates
  PROVE  Left'
<1> SUFFICES ASSUME consumer' # "reading", ~failed', ~aborted'
             PROVE  \A s \in Letters : saved'[s] # Absent
  BY DEF Left
<1>1. saved' = saved /\ ~aborted
  BY GeneratesKeeps
<1>2. CASE consumer # "reading"
  <2>1. failed' = failed
    BY <1>2 DEF Generates, Generating, Token, ProviderEnds, TornDown, UnhandledRejection,
           DriverEnds, DriverRestarts, PersistFails, GeneratorFinally, Stop, Steer
  <2> QED BY <1>1, <1>2, <2>1 DEF Left
<1>3. CASE consumer = "reading"
  <2>1. DriverEnds /\ queue = << >>
    BY <1>3 DEF Generates, Generating, Token, ProviderEnds, TornDown, UnhandledRejection,
           DriverEnds, DriverRestarts, PersistFails, GeneratorFinally, Stop, Steer, Close
  <2>2. driver = "done" /\ ~Interrupted
    BY <1>1, <1>3, <2>1 DEF Calm, DriverEnds, Interrupted
  <2>3. PICK v : v.saved = saved /\ Generator!Leads(v)
    BY <1>3 DEF InTransit
  <2>4. \A s \in Letters : v.saved[s] # Absent
    BY <2>1, <2>2, <2>3, Arrived DEF Shapes
  <2> QED BY <1>1, <2>3, <2>4
<1> QED BY <1>2, <1>3

\* Taking an event saves what the view of the pump says.
LEMMA AfterTaken ==
  ASSUME Shapes, Take, NEW e, e = Head(queue), NEW v, Generator!Legal(v, e),
         v.saved = saved, v.answer = saved, v.recorded = recorded,
         NEW u, u = Generator!After(v, e)
  PROVE  /\ e \in Events /\ e.type \in {"token", "slot_done", "steered", "matchup_done"}
         /\ u.saved = saved' /\ u.answer = saved' /\ u.recorded = recorded'
         /\ saved' = IF e.type = "slot_done" THEN [saved EXCEPT ![e.slot] = e.text] ELSE saved
         /\ e.type = "slot_done" => /\ e.slot \in Letters /\ saved[e.slot] = Absent
                                    /\ e.text = v.wire[e.slot] /\ e.text \in Texts
         /\ recorded' \in Nat /\ recorded' =< accepted
<1>1. /\ e \in Events /\ Recorded(e) /\ Persisted /\ Generator!Persisted /\ Slots = Letters
      /\ Generator!Visible = Letters /\ accepted \in 0..MaxSteers
  BY SameNames, Pair DEF Take, Shapes, Generator!Legal
<1>2. /\ e.type \in {"token", "slot_done", "steered", "matchup_done"}
      /\ e.type = "slot_done" => e.slot \in Letters /\ e.text \in Texts
  BY <1>1, EventIs DEF Event
<1>3. e.type = "slot_done" => saved[e.slot] = Absent /\ e.text = v.wire[e.slot]
  BY <1>1, <1>2, SameNames DEF Generator!Legal
<1>4. saved' = IF e.type = "slot_done" THEN [saved EXCEPT ![e.slot] = e.text] ELSE saved
  BY <1>1, <1>3 DEF Recorded
<1>5. recorded' = IF e.type = "steered" THEN recorded + 1 ELSE recorded
  BY <1>1 DEF Recorded
<1>6. u.saved = saved' /\ u.answer = saved'
  BY <1>1, <1>2, <1>3, <1>4, SameNames DEF Generator!After
<1>7. u.recorded = recorded'
  BY <1>1, <1>5 DEF Generator!After
<1>8. recorded' \in Nat /\ recorded' =< accepted
  <2>1. e.type = "steered" => recorded \in 0..(accepted - 1)
    BY <1>1 DEF Generator!Legal
  <2> QED BY <1>1, <1>5, <2>1 DEF Shapes
<1> QED BY <1>1, <1>2, <1>3, <1>4, <1>6, <1>7, <1>8

LEMMA BehindPump ==
  ASSUME Shapes, NEW s \in Letters, Ending(s), Pump, NEW e, e = Head(queue),
         NEW v, Generator!Legal(v, e), v.saved = saved, v.answer = saved, v.recorded = recorded,
         DOMAIN v.wire = Letters, Behind(s, v.wire[s]), NEW u, u = Generator!After(v, e)
  PROVE  Behind(s, u.wire[s])' /\ DOMAIN u.wire = Letters
<1>1. Take /\ channel' = Routed(e) /\ UNCHANGED <<reader, hungUp, wire, answer, over>>
  BY DEF Pump, ends
<1>2. /\ e \in Events /\ e.type \in {"token", "slot_done", "steered", "matchup_done"}
      /\ saved' = IF e.type = "slot_done" THEN [saved EXCEPT ![e.slot] = e.text] ELSE saved
      /\ e.type = "slot_done" => /\ e.slot \in Letters /\ saved[e.slot] = Absent
                                 /\ e.text = v.wire[e.slot] /\ e.text \in Texts
  BY <1>1, AfterTaken
<1>3. PICK c : c = channel[s]
  OBVIOUS
<1>4. PICK d : d = channel'[s]
  OBVIOUS
<1>5. c.closed => d = c
  BY <1>1, <1>2, <1>3, <1>4, RoutedIs DEF Ending
<1>6. ~c.closed => Sends(s, c, e, d)
  BY <1>1, <1>2, <1>3, <1>4, RoutedIs DEF Ending
<1>7. Got(s)' = Got(s)
  BY <1>1 DEF Got
<1>8. saved'[s] = saved[s] \/ saved[s] = Absent
  BY <1>2 DEF Shapes
<1>9. /\ DOMAIN u.wire = Letters
      /\ u.wire = CASE e.type = "token" /\ e.slot \in Letters -> [v.wire EXCEPT ![e.slot] = @ \o e.text]
                    [] e.type = "steered" -> [t \in Letters |-> << >>]
                    [] OTHER -> v.wire
  <2>1. Generator!Visible = Letters
    BY SameNames, Pair DEF Shapes
  <2>2. u.wire = CASE e.type = "token" /\ e.slot \in Letters -> [v.wire EXCEPT ![e.slot] = @ \o e.text]
                    [] e.type = "steered" -> [t \in Letters |-> << >>]
                    [] OTHER -> v.wire
    BY <2>1, SameNames DEF Generator!After
  <2> QED BY <2>2
<1>10. CASE c.closed
  BY <1>3, <1>4, <1>5, <1>7, <1>8, <1>10, <1>9, BehindKept DEF Behind
<1>11. CASE ~c.closed /\ d = Broken
  <2>1. channel'[s].queued = << >> /\ channel'[s].closed
    BY <1>4, <1>11 DEF Broken
  <2>2. PICK x : x = u.wire[s]
    OBVIOUS
  <2>3. Behind(s, x)'
    BY <2>1, BehindNothing
  <2> QED BY <1>9, <2>2, <2>3
<1>12. CASE ~c.closed /\ d # Broken /\ e.type = "slot_done" /\ e.slot = s
  <2>1. PICK t \in Texts : t = v.wire[s] /\ e.text = t
    BY <1>2, <1>12
  <2>2. d = [queued |-> Append(Append(c.queued, e), WholeRound), closed |-> TRUE, failure |-> FALSE]
    BY <1>6, <1>12 DEF Sends
  <2>3. saved[s] = Absent /\ saved'[s] = t
    BY <1>2, <1>12, <2>1 DEF Shapes
  <2>4. PICK x : x = u.wire[s]
    OBVIOUS
  <2>5. /\ channel'[s] = [queued |-> Append(Append(channel[s].queued, e), WholeRound),
                         closed |-> TRUE, failure |-> FALSE]
        /\ ~channel[s].closed /\ Behind(s, t)
    BY <1>3, <1>4, <1>12, <2>1, <2>2
  <2>6. e.type = "slot_done" /\ e.text = t /\ e \in Events
    BY <1>2, <1>12, <2>1
  <2>7. Behind(s, x)'
    BY <1>7, <2>3, <2>5, <2>6, BehindAnswered
  <2> QED BY <1>9, <2>4, <2>7
<1>13. CASE ~c.closed /\ d # Broken /\ Concerns(s, e)
  <2>1. d = [c EXCEPT !.queued = Append(@, e)]
    BY <1>6, <1>13 DEF Sends, Concerns
  <2>2. PICK t : t = v.wire[s]
    OBVIOUS
  <2>3. PICK x : x = u.wire[s]
    OBVIOUS
  <2>4. x = IF e.type = "token" THEN t \o e.text ELSE << >>
    BY <1>9, <1>13, <2>2, <2>3 DEF Concerns
  <2>5. saved'[s] = saved[s] /\ Behind(s, t)
    BY <1>2, <1>13, <2>2 DEF Concerns
  <2>6. channel'[s].queued = Append(channel[s].queued, e) /\ ~channel[s].closed
    BY <1>3, <1>4, <1>13, <2>1 DEF Shapes, Fits, Channels
  <2>7. Concerns(s, e) /\ e \in Events
    BY <1>2, <1>13
  <2>8. Behind(s, x)'
    BY <1>7, <2>4, <2>5, <2>6, <2>7, BehindSent
  <2> QED BY <1>9, <2>3, <2>8
<1>14. CASE ~c.closed /\ d # Broken /\ ~Concerns(s, e) /\ ~(e.type = "slot_done" /\ e.slot = s)
  <2>1. d = c
    BY <1>6, <1>14 DEF Sends
  <2>2. u.wire[s] = v.wire[s]
    BY <1>9, <1>14 DEF Concerns
  <2>3. PICK t : t = v.wire[s]
    OBVIOUS
  <2>4. Behind(s, t)'
    BY <1>3, <1>4, <1>7, <1>8, <2>1, <2>3, BehindKept
  <2> QED BY <1>9, <2>2, <2>3, <2>4
<1> QED BY <1>10, <1>11, <1>12, <1>13, <1>14

LEMMA EndingPump ==
  ASSUME Shapes, NEW s \in Letters, Ending(s), Pump, NEW e, e = Head(queue),
         NEW v, Generator!Legal(v, e), v.saved = saved, v.answer = saved, v.recorded = recorded
  PROVE  Ending(s)' /\ Fits(channel'[s])
<1>1. Take /\ channel' = Routed(e) /\ UNCHANGED <<reader, hungUp, wire, answer, over, aborted>>
  BY DEF Pump, ends, Take, control
<1>2. /\ e \in Events /\ e.type \in {"token", "slot_done", "steered", "matchup_done"}
      /\ saved' = IF e.type = "slot_done" THEN [saved EXCEPT ![e.slot] = e.text] ELSE saved
      /\ e.type = "slot_done" => e.slot \in Letters /\ saved[e.slot] = Absent
  <2>1. PICK u : u = Generator!After(v, e)
    OBVIOUS
  <2> QED BY <1>1, <2>1, AfterTaken
<1>3. PICK c : c = channel[s]
  OBVIOUS
<1>4. PICK d : d = channel'[s]
  OBVIOUS
<1>5. Fits(d) /\ (c.closed => d = c) /\ (~c.closed => Sends(s, c, e, d))
  BY <1>1, <1>2, <1>3, <1>4, RoutedIs DEF Ending
<1>6. Fits(c) /\ c.queued \in Seq(Events)
  BY <1>3 DEF Shapes, Fits, Channels
<1>7. Excused(s)' = Excused(s)
  BY <1>1 DEF Excused
<1>8. CASE c.closed
  BY <1>1, <1>3, <1>4, <1>5, <1>7, <1>8 DEF Ending, Due
<1>9. CASE ~c.closed /\ d = Broken
  <2>1. ~Due(s)' /\ over[s] # "matchup_done" /\ reader[s] # "done"
    BY <1>3, <1>4, <1>9 DEF Ending, Due, Broken
  <2> QED BY <1>1, <1>3, <1>4, <1>5, <1>7, <1>9, <2>1 DEF Ending, Broken
<1>10. CASE ~c.closed /\ d # Broken /\ e.type = "slot_done" /\ e.slot = s
  <2>1. d = [queued |-> Append(Append(c.queued, e), WholeRound), closed |-> TRUE, failure |-> FALSE]
    BY <1>5, <1>10 DEF Sends
  <2>2. PICK p : p = Append(c.queued, e)
    OBVIOUS
  <2>3. p \in Seq(Events)
    BY <1>2, <1>6, <2>2, AppendProperties
  <2>4. PICK q : q = Append(p, WholeRound)
    OBVIOUS
  <2>5. Len(p) + 1 \in DOMAIN q /\ q[Len(p) + 1] = WholeRound /\ d.queued = q
    BY <2>1, <2>2, <2>3, <2>4, AppendProperties, WholeRoundIs
  <2>6. Due(s)'
    BY <1>4, <2>5 DEF Due, WholeRound, Event
  <2>7. over[s] # "matchup_done" /\ reader[s] # "done" /\ d.closed /\ ~d.failure
    BY <1>3, <1>10, <2>1 DEF Ending
  <2> QED BY <1>1, <1>3, <1>4, <1>5, <1>7, <2>6, <2>7 DEF Ending
<1>11. CASE ~c.closed /\ d # Broken /\ Concerns(s, e)
  <2>1. d = [c EXCEPT !.queued = Append(@, e)]
    BY <1>5, <1>11 DEF Sends, Concerns
  <2>2. PICK q : q = Append(c.queued, e)
    OBVIOUS
  <2>3. d.queued = q /\ ~d.closed /\ d.failure = c.failure
    BY <1>6, <1>11, <2>1, <2>2 DEF Fits, Channels
  <2>4. ~Due(s) /\ over[s] # "matchup_done" /\ reader[s] # "done" /\ ~c.failure
    BY <1>3, <1>11 DEF Ending
  <2>5. e # WholeRound
    BY <1>11, WholeRoundIs DEF Concerns
  <2>6. \A i \in DOMAIN q : q[i] # WholeRound
    <3>1. /\ DOMAIN q = 1..(Len(c.queued) + 1) /\ DOMAIN c.queued = 1..Len(c.queued)
          /\ q[Len(c.queued) + 1] = e /\ \A i \in 1..Len(c.queued) : q[i] = c.queued[i]
          /\ Len(c.queued) \in Nat
      BY <1>2, <1>6, <2>2, AppendProperties
    <3> QED BY <1>3, <2>4, <2>5, <3>1 DEF Due
  <2>7. ~Due(s)'
    <3>1. WholeRound' = WholeRound
      BY DEF WholeRound, Event
    <3> QED BY <1>4, <2>3, <2>6, <3>1 DEF Due
  <2>8. saved'[s] = saved[s]
    BY <1>2, <1>11 DEF Concerns
  <2> QED BY <1>1, <1>3, <1>4, <1>5, <1>7, <1>11, <2>3, <2>4, <2>7, <2>8 DEF Ending
<1>12. CASE ~c.closed /\ d # Broken /\ ~Concerns(s, e) /\ ~(e.type = "slot_done" /\ e.slot = s)
  <2>1. d = c
    BY <1>5, <1>12 DEF Sends
  <2>2. saved'[s] = saved[s]
    BY <1>2, <1>12 DEF Shapes
  <2> QED BY <1>1, <1>3, <1>4, <1>5, <1>7, <2>1, <2>2 DEF Ending, Due
<1> QED BY <1>8, <1>9, <1>10, <1>11, <1>12

LEMMA InvPump ==
  ASSUME IndInv, Pump
  PROVE  IndInv'
<1>1. /\ Shapes /\ Generator!MakingTypeOK /\ Generator!Control /\ Calm /\ Left
      /\ \A s \in Letters : Ending(s)
  BY DEF IndInv, Shapes
<1>2. Take /\ Generator!Take /\ channel' = Routed(Head(queue))
      /\ UNCHANGED <<reader, hungUp, wire, answer, over, round, control, making, flags, driver,
                     closed, failed>>
  BY SameSteps DEF Pump, ends, Take
<1>3. consumer = "reading" /\ queue # << >>
  BY <1>2 DEF Take
<1>4. PICK v : /\ v.saved = saved /\ v.answer = saved /\ v.recorded = recorded
               /\ DOMAIN v.wire = Letters /\ Generator!Leads(v)
               /\ \A s \in Letters : Behind(s, v.wire[s])
  BY <1>3 DEF IndInv, InTransit
<1>5. PICK e : e = Head(queue)
  OBVIOUS
<1>6. PICK u : u = Generator!After(v, e)
  OBVIOUS
<1>7. Generator!MakingTypeOK' /\ Generator!Control'
  BY <1>1, <1>2, Generator!ControlTaken
<1>8. Generator!Legal(v, e) /\ Generator!Leads(Generator!After(v, e))'
  BY <1>1, <1>2, <1>4, <1>5, Generator!LeadsTaken
<1>9. Generator!After(v, e)' = Generator!After(v, e)
  <2>1. kind' = kind
    BY <1>2 DEF round
  <2>2. Slots' = Slots
    BY <2>1 DEF Slots
  <2> QED BY <2>1, <2>2, SameNames DEF Generator!After, Generator!Visible, Generator!Slots,
             Generator!Persisted
<1>10. Generator!Leads(u)'
  BY <1>6, <1>8, <1>9
<1>11. /\ u.saved = saved' /\ u.answer = saved' /\ u.recorded = recorded'
       /\ saved' = IF e.type = "slot_done" THEN [saved EXCEPT ![e.slot] = e.text] ELSE saved
       /\ e.type = "slot_done" => e.slot \in Letters /\ e.text \in Texts
       /\ recorded' \in Nat /\ recorded' =< accepted
  BY <1>1, <1>2, <1>4, <1>5, <1>6, <1>8, AfterTaken
<1>12. \A s \in Letters : Behind(s, u.wire[s])' /\ DOMAIN u.wire = Letters
  BY <1>1, <1>4, <1>5, <1>6, <1>8, BehindPump
<1>13. \A s \in Letters : Ending(s)' /\ Fits(channel'[s])
  BY <1>1, <1>4, <1>5, <1>8, EndingPump
<1>14. InTransit'
  <2>1. DOMAIN u.wire = Letters
    BY <1>12
  <2> QED BY <1>10, <1>11, <1>12, <2>1 DEF InTransit
<1>15. Calm'
  <2>1. consumer' = "reading" => consumer = "reading"
    BY <1>3
  <2> QED BY <1>1, <1>2, <2>1 DEF Calm, control, making, flags
<1>16. Left'
  <2> SUFFICES ASSUME consumer' # "reading", ~aborted
               PROVE  \A s \in Letters : saved'[s] # Absent
    BY <1>2 DEF Left, control
  <2>1. Len(queue) = 1 /\ closed
    BY <1>2 DEF Take, Dealt
  <2>2. driver = "ended" /\ ~Interrupted
    BY <1>1, <1>3, <2>1 DEF Calm, Interrupted
  <2>3. \A s \in Letters : Generator!After(v, Head(queue)).saved[s] # Absent
    BY <1>1, <1>4, <2>1, <2>2, Arrived
  <2> QED BY <1>5, <1>6, <1>11, <2>3
<1>17. Shapes'
  <2>1. kind' = kind /\ accepted' = accepted
    BY <1>2 DEF round, control
  <2>2. Events' = Events /\ Texts' = Texts /\ Channels' = Channels /\ Slots = Letters
    BY <1>1, <2>1, PairStands, Pair
  <2>3. \A s \in Letters : Fits(channel[s])'
    BY <1>13, <2>2 DEF Fits
  <2>4. DOMAIN channel' = Letters
    <3>1. DOMAIN channel = Letters
      BY <1>1 DEF Shapes
    <3> QED BY <1>2, <2>2, <3>1 DEF Routed, FanOut
  <2>5. saved' \in [Letters -> Texts \cup {Absent}]
    BY <1>1, <1>11 DEF Shapes
  <2>6. /\ reader \in [Letters -> {"waiting", "reading", "done"}] /\ hungUp \in BOOLEAN
        /\ wire \in [Letters -> Seq(0..MaxSteers)]
        /\ answer \in [Letters -> Texts \cup {Absent}]
        /\ over \in [Letters -> {None, "matchup_done", "run_error", "cut"}]
    BY <1>1 DEF Shapes
  <2>7. /\ (reader \in [Letters -> {"waiting", "reading", "done"}])' /\ (hungUp \in BOOLEAN)'
        /\ (wire \in [Letters -> Seq(0..MaxSteers)])'
        /\ (answer \in [Letters -> Texts \cup {Absent}])'
        /\ (over \in [Letters -> {None, "matchup_done", "run_error", "cut"}])'
        /\ (saved \in [Letters -> Texts \cup {Absent}])'
    BY <1>2, <2>2, <2>5, <2>6
  <2> QED BY <1>7, <1>11, <2>1, <2>3, <2>4, <2>7 DEF Shapes
<1> QED BY <1>7, <1>13, <1>14, <1>15, <1>16, <1>17 DEF IndInv

\* The rest of a state whose generator, rows and connections have their shape.
LEMMA ShapesKept ==
  ASSUME Shapes, Generator!MakingTypeOK', kind' = kind, recorded' = recorded,
         accepted' = accepted \/ accepted' = accepted + 1, saved' = saved,
         DOMAIN channel' = Letters, \A s \in Letters : Fits(channel'[s]),
         UNCHANGED <<wire, answer>>, hungUp' \in BOOLEAN,
         reader' \in [Letters -> {"waiting", "reading", "done"}],
         over' \in [Letters -> {None, "matchup_done", "run_error", "cut"}]
  PROVE  Shapes'
<1>1. Events' = Events /\ Texts' = Texts /\ Channels' = Channels
  BY PairStands DEF Shapes
<1>2. \A s \in Letters : Fits(channel[s])'
  BY <1>1 DEF Fits
<1>3. accepted \in Nat /\ recorded \in Nat /\ recorded =< accepted
  BY Pair DEF Shapes
<1>4. recorded' \in Nat /\ recorded' =< accepted'
  BY <1>3
<1> QED BY <1>1, <1>2, <1>4 DEF Shapes

\* The channel stands, or is closed with an excuse.
LEMMA EndingKept ==
  ASSUME NEW s \in Letters, Ending(s), Excused(s) => Excused(s)',
         over'[s] = over[s], saved'[s] = saved[s], reader'[s] = "done" <=> reader[s] = "done",
         channel'[s].queued = channel[s].queued, channel'[s].failure = channel[s].failure,
         channel'[s].closed = channel[s].closed \/ (channel'[s].closed /\ Excused(s)')
  PROVE  Ending(s)'
<1>1. Due(s)' <=> Due(s)
  <2>1. WholeRound' = WholeRound
    BY DEF WholeRound, Event
  <2> QED BY <2>1 DEF Due
<1>2. channel[s].closed => channel'[s].closed
  OBVIOUS
<1> QED BY <1>1, <1>2 DEF Ending

\* The generator steps, and a stop closes slot A's channel.
LEMMA InvGenerates ==
  ASSUME IndInv, Generates, UNCHANGED ends, DOMAIN channel' = Letters,
         \A s \in Letters : \/ channel'[s] = channel[s]
                            \/ aborted' /\ channel'[s] = Shut(channel[s])
  PROVE  IndInv'
<1>1. /\ Shapes /\ Generator!MakingTypeOK /\ Generator!Control /\ Calm /\ Left /\ InTransit
      /\ \A s \in Letters : Ending(s)
  BY DEF IndInv, Shapes
<1>2. /\ UNCHANGED <<kind, saved, recorded, reader, hungUp, wire, answer, over>>
      /\ aborted => aborted'
      /\ accepted' = accepted \/ accepted' = accepted + 1
      /\ consumer' = "reading" => consumer = "reading"
  BY GeneratesKeeps DEF ends
<1>3. Generator!MakingTypeOK' /\ Generator!Control'
  BY <1>1, SameSteps, Generator!ControlCore
<1>4. Calm' /\ Left'
  BY <1>1, CalmGenerates, LeftGenerates
<1>5. ASSUME NEW s \in Letters
      PROVE  /\ Fits(channel'[s])
             /\ channel'[s].queued = channel[s].queued /\ channel'[s].failure = channel[s].failure
             /\ channel'[s].closed = channel[s].closed \/ (channel'[s].closed /\ aborted')
  <2>1. PICK c : c = channel[s]
    OBVIOUS
  <2>2. Fits(c)
    BY <1>1, <2>1 DEF Shapes
  <2>3. CASE channel'[s] = c
    BY <2>1, <2>2, <2>3
  <2>4. CASE aborted' /\ channel'[s] = Shut(c)
    <3>1. PICK d : d = Shut(c)
      OBVIOUS
    <3>2. Fits(d) /\ d.queued = c.queued /\ d.closed /\ d.failure = c.failure
      BY <2>2, <3>1, ShutIs
    <3> QED BY <2>1, <2>4, <3>1, <3>2
  <2> QED BY <2>1, <2>3, <2>4
<1>6. Shapes'
  <2>1. /\ hungUp \in BOOLEAN /\ reader \in [Letters -> {"waiting", "reading", "done"}]
        /\ over \in [Letters -> {None, "matchup_done", "run_error", "cut"}]
    BY <1>1 DEF Shapes
  <2> QED BY <1>1, <1>2, <1>3, <1>5, <2>1, ShapesKept
<1>7. ASSUME NEW s \in Letters PROVE Ending(s)'
  <2>1. Excused(s) => Excused(s)'
    BY <1>2 DEF Excused
  <2>2. aborted' => Excused(s)'
    BY DEF Excused
  <2> QED BY <1>1, <1>2, <1>5, <2>1, <2>2, EndingKept
<1>8. InTransit'
  <2>1. PICK v : /\ v.saved = saved /\ v.answer = saved /\ v.recorded = recorded
                 /\ DOMAIN v.wire = Letters /\ (consumer = "reading" => Generator!Leads(v))
                 /\ \A s \in Letters : Behind(s, v.wire[s])
    BY <1>1 DEF InTransit
  <2>2. consumer' = "reading" => Generator!Leads(v)'
    BY <1>1, <1>3, <2>1, SameSteps, Generator!LeadsCore
  <2>3. ASSUME NEW s \in Letters PROVE Behind(s, v.wire[s])'
    <3>1. PICK t : t = v.wire[s]
      OBVIOUS
    <3>2. Got(s)' = Got(s)
      BY <1>2 DEF Got
    <3>3. channel[s].closed => channel'[s].closed
      BY <1>5
    <3>4. Behind(s, t) /\ saved'[s] = saved[s] /\ channel'[s].queued = channel[s].queued
      BY <1>2, <1>5, <2>1, <3>1
    <3>5. Behind(s, t)'
      BY <1>1, <3>2, <3>3, <3>4, BehindKept
    <3> QED BY <3>1, <3>5
  <2> QED BY <1>2, <2>1, <2>2, <2>3 DEF InTransit
<1> QED BY <1>3, <1>4, <1>6, <1>7, <1>8 DEF IndInv

\* The loop was left: only a stop leaves it with a slot that has no row.
LEMMA EndingReleased ==
  ASSUME Shapes, NEW s \in Letters, Ending(s), Left, consumer # "reading",
         channel'[s] = Released(channel[s]),
         UNCHANGED <<aborted, hungUp, saved, reader, over>>
  PROVE  /\ Ending(s)' /\ Fits(channel'[s])
         /\ channel[s].closed => channel'[s].closed
         /\ \/ channel'[s].queued = channel[s].queued
            \/ channel'[s].queued = << >> /\ channel'[s].closed
<1>1. PICK c : c = channel[s]
  OBVIOUS
<1>2. PICK d : d = channel'[s]
  OBVIOUS
<1>3. Fits(c) /\ Fits(d) /\ (c.closed => d = c) /\ (~c.closed => d = IF failed THEN Broken ELSE Shut(c))
  BY <1>1, <1>2, ReleasedIs DEF Shapes
<1>4. Excused(s)' = Excused(s)
  BY DEF Excused
<1>5. CASE c.closed
  <2>1. Ending(s)'
    BY <1>1, <1>2, <1>3, <1>4, <1>5, EndingKept
  <2> QED BY <1>1, <1>2, <1>3, <1>5, <2>1
<1>6. CASE ~c.closed /\ failed
  <2>1. d.queued = << >> /\ d.closed /\ d.failure
    BY <1>3, <1>6 DEF Broken
  <2>2. ~Due(s)' /\ over[s] # "matchup_done" /\ reader[s] # "done"
    BY <1>1, <1>2, <1>6, <2>1 DEF Ending, Due
  <2>3. Ending(s)'
    BY <1>1, <1>2, <1>4, <1>6, <2>1, <2>2 DEF Ending
  <2> QED BY <1>2, <1>3, <2>1, <2>3
<1>7. CASE ~c.closed /\ ~failed
  <2>1. d.queued = c.queued /\ d.closed /\ d.failure = c.failure
    BY <1>3, <1>7, ShutIs
  <2>2. saved[s] = Absent
    BY <1>1, <1>7 DEF Ending
  <2>3. Excused(s)'
    BY <1>7, <2>2 DEF Left, Excused
  <2>4. Ending(s)'
    BY <1>1, <1>2, <1>4, <2>1, <2>3, EndingKept
  <2> QED BY <1>1, <1>2, <1>3, <2>1, <2>4
<1> QED BY <1>5, <1>6, <1>7

LEMMA InvPumpEnds ==
  ASSUME IndInv, PumpEnds
  PROVE  IndInv'
<1>1. /\ Shapes /\ Generator!MakingTypeOK /\ Generator!Control /\ Calm /\ Left /\ InTransit
      /\ \A s \in Letters : Ending(s)
  BY DEF IndInv, Shapes
<1>2. /\ LoopEnds /\ consumer = "draining" /\ consumer' = "done"
      /\ channel' = [s \in Letters |-> Released(channel[s])]
      /\ UNCHANGED <<round, server, control, making, flags, driver, queue, closed, failed, rows,
                     reader, hungUp, wire, answer, over>>
  BY <1>1, Pair DEF PumpEnds, LoopEnds, ends
<1>3. /\ UNCHANGED <<kind, live, aborted, accepted, saved, recorded>> /\ live' \in BOOLEAN
      /\ Generator!LoopEnds
  <2>1. live \in BOOLEAN
    BY <1>1 DEF Generator!MakingTypeOK
  <2> QED BY <1>2, <2>1, SameSteps DEF round, control, rows
<1>4. Generator!MakingTypeOK' /\ Generator!Control'
  <2>1. UNCHANGED <<Generator!round, server, aborted, accepted, Generator!making, Generator!flags,
                    driver, queue, closed, failed>>
    BY <1>2, <1>3 DEF round, Generator!round, making, Generator!making, flags, Generator!flags
  <2> QED BY <1>1, <1>3, <2>1, Generator!ControlLeft
<1>5. \A s \in Letters : /\ Ending(s)' /\ Fits(channel'[s])
                         /\ channel[s].closed => channel'[s].closed
                         /\ \/ channel'[s].queued = channel[s].queued
                            \/ channel'[s].queued = << >> /\ channel'[s].closed
  <2> SUFFICES ASSUME NEW s \in Letters
               PROVE  /\ Ending(s)' /\ Fits(channel'[s])
                      /\ channel[s].closed => channel'[s].closed
                      /\ \/ channel'[s].queued = channel[s].queued
                         \/ channel'[s].queued = << >> /\ channel'[s].closed
    OBVIOUS
  <2>1. channel'[s] = Released(channel[s]) /\ consumer # "reading"
    BY <1>2
  <2>2. UNCHANGED <<aborted, hungUp, saved, reader, over>>
    BY <1>2, <1>3
  <2> QED BY <1>1, <2>1, <2>2, EndingReleased
<1>6. Shapes'
  <2>1. /\ hungUp \in BOOLEAN /\ reader \in [Letters -> {"waiting", "reading", "done"}]
        /\ over \in [Letters -> {None, "matchup_done", "run_error", "cut"}]
    BY <1>1 DEF Shapes
  <2>2. DOMAIN channel' = Letters
    BY <1>2
  <2> QED BY <1>1, <1>2, <1>3, <1>4, <1>5, <2>1, <2>2, ShapesKept
<1>7. Calm' /\ Left'
  BY <1>1, <1>2, <1>3 DEF Calm, Left
<1>8. InTransit'
  <2>1. PICK v : /\ v.saved = saved /\ v.answer = saved /\ v.recorded = recorded
                 /\ DOMAIN v.wire = Letters /\ \A s \in Letters : Behind(s, v.wire[s])
    BY <1>1 DEF InTransit
  <2>2. ASSUME NEW s \in Letters PROVE Behind(s, v.wire[s])'
    <3>1. PICK t : t = v.wire[s]
      OBVIOUS
    <3>2. Got(s)' = Got(s) /\ saved'[s] = saved[s] /\ Behind(s, t)
      BY <1>2, <1>3, <2>1, <3>1 DEF Got
    <3>3. CASE channel'[s].queued = channel[s].queued
      BY <1>1, <1>5, <3>1, <3>2, <3>3, BehindKept
    <3>4. CASE channel'[s].queued = << >> /\ channel'[s].closed
      BY <3>1, <3>4, BehindNothing
    <3> QED BY <1>5, <3>3, <3>4
  <2> QED BY <1>2, <1>3, <2>1, <2>2 DEF InTransit
<1> QED BY <1>4, <1>5, <1>6, <1>7, <1>8 DEF IndInv

(***************************************************************************)
(* The connections.                                                        *)
(***************************************************************************)
\* A step of a connection leaves the generator alone.
GeneratorIdle ==
  /\ UNCHANGED <<round, server, aborted, accepted, making, flags, driver, queue, closed, consumer,
                 failed, saved, recorded>>
  /\ live' \in BOOLEAN

LEMMA IdleIs ==
  ASSUME Shapes, Generator!Control, Calm, Left, GeneratorIdle
  PROVE  /\ UNCHANGED <<kind, aborted, accepted, consumer, saved, recorded>>
         /\ Generator!MakingTypeOK' /\ Generator!Control' /\ Calm' /\ Left'
         /\ \A v : Generator!Leads(v) => Generator!Leads(v)'
<1>1. UNCHANGED <<kind, aborted, accepted, consumer, saved, recorded>>
  BY DEF GeneratorIdle, round
<1>2. UNCHANGED <<Generator!round, server, aborted, accepted, Generator!making, Generator!flags,
                  driver, queue, closed, consumer, failed>>
  BY DEF GeneratorIdle, round, Generator!round, making, Generator!making, flags, Generator!flags
<1>3. /\ Generator!MakingTypeOK' /\ Generator!Control'
      /\ \A v : Generator!Leads(v) => Generator!Leads(v)'
  BY <1>2, Generator!Idle DEF Shapes, GeneratorIdle
<1>4. Calm' /\ Left'
  BY DEF Calm, Left, GeneratorIdle, making, flags
<1> QED BY <1>1, <1>3, <1>4

\* The sibling attaches or hangs up.
LEMMA InvComesAndGoes ==
  ASSUME IndInv, UNCHANGED <<core, wire, answer, over>>, hungUp' \in BOOLEAN, hungUp => hungUp',
         reader' \in [Letters -> {"waiting", "reading", "done"}],
         \A s \in Letters : reader'[s] = "done" <=> reader[s] = "done",
         DOMAIN channel' = Letters,
         \A s \in Letters : \/ channel'[s] = channel[s]
                            \/ s = "B" /\ hungUp' /\ channel'[s] = Shut(channel[s])
  PROVE  IndInv'
<1>1. /\ Shapes /\ Generator!MakingTypeOK /\ Generator!Control /\ Calm /\ Left /\ InTransit
      /\ \A s \in Letters : Ending(s)
  BY DEF IndInv, Shapes
<1>2. GeneratorIdle
  BY <1>1 DEF GeneratorIdle, Generator!MakingTypeOK, core, control, rows
<1>3. /\ UNCHANGED <<kind, aborted, accepted, consumer, saved, recorded>>
      /\ Generator!MakingTypeOK' /\ Generator!Control' /\ Calm' /\ Left'
      /\ \A v : Generator!Leads(v) => Generator!Leads(v)'
  BY <1>1, <1>2, IdleIs
<1>4. ASSUME NEW s \in Letters
      PROVE  /\ Fits(channel'[s])
             /\ channel'[s].queued = channel[s].queued /\ channel'[s].failure = channel[s].failure
             /\ channel'[s].closed = channel[s].closed \/ (channel'[s].closed /\ Excused(s)')
  <2>1. PICK c : c = channel[s]
    OBVIOUS
  <2>2. Fits(c)
    BY <1>1, <2>1 DEF Shapes
  <2>3. CASE channel'[s] = c
    BY <2>1, <2>2, <2>3
  <2>4. CASE s = "B" /\ hungUp' /\ channel'[s] = Shut(c)
    <3>1. PICK d : d = Shut(c)
      OBVIOUS
    <3>2. Fits(d) /\ d.queued = c.queued /\ d.closed /\ d.failure = c.failure
      BY <2>2, <3>1, ShutIs
    <3>3. Excused(s)'
      BY <2>4 DEF Excused
    <3> QED BY <2>1, <2>4, <3>1, <3>2, <3>3
  <2> QED BY <2>1, <2>3, <2>4
<1>5. Shapes'
  <2>1. over \in [Letters -> {None, "matchup_done", "run_error", "cut"}]
    BY <1>1 DEF Shapes
  <2> QED BY <1>1, <1>3, <1>4, <2>1, ShapesKept
<1>6. ASSUME NEW s \in Letters PROVE Ending(s)'
  <2>1. Excused(s) => Excused(s)'
    BY <1>3 DEF Excused
  <2> QED BY <1>1, <1>3, <1>4, <2>1, EndingKept
<1>7. InTransit'
  <2>1. PICK v : /\ v.saved = saved /\ v.answer = saved /\ v.recorded = recorded
                 /\ DOMAIN v.wire = Letters /\ (consumer = "reading" => Generator!Leads(v))
                 /\ \A s \in Letters : Behind(s, v.wire[s])
    BY <1>1 DEF InTransit
  <2>2. ASSUME NEW s \in Letters PROVE Behind(s, v.wire[s])'
    <3>1. PICK t : t = v.wire[s]
      OBVIOUS
    <3>2. Got(s)' = Got(s) /\ saved'[s] = saved[s] /\ Behind(s, t)
      BY <1>3, <2>1, <3>1 DEF Got
    <3>3. channel[s].closed => channel'[s].closed
      BY <1>4
    <3> QED BY <1>1, <1>4, <3>1, <3>2, <3>3, BehindKept
  <2> QED BY <1>3, <2>1, <2>2 DEF InTransit
<1> QED BY <1>3, <1>5, <1>6, <1>7 DEF IndInv

\* A connection writes the first event of its backlog: all a reader is sent is
\* what `Reads` says may follow.
LEMMA ReadsHead ==
  ASSUME Shapes, NEW s \in Letters, Read(s), NEW t, Behind(s, t), NEW e, e = Head(channel[s].queued)
  PROVE  /\ e \in Events /\ Sound(saved[s], Got(s), e)
         /\ Got(s)' = Reading(Got(s), e)
         /\ Behind(s, t)'
<1>1. PICK q \in Seq(Events) : q = channel[s].queued
  BY DEF Shapes, Fits, Channels
<1>2. q # << >> /\ e = Head(q) /\ e \in Events /\ DOMAIN channel = Letters
  BY <1>1 DEF Read, Shapes
<1>3. PICK w : w = Got(s)
  OBVIOUS
<1>4. /\ wire \in [Letters -> Seq(0..MaxSteers)] /\ answer \in [Letters -> Texts \cup {Absent}]
      /\ over \in [Letters -> {None, "matchup_done", "run_error", "cut"}]
      /\ w.text = wire[s] /\ w.answer = answer[s] /\ w.over = over[s]
  BY <1>3 DEF Shapes, Got
<1>5. PICK x : x = Reading(w, e)
  OBVIOUS
<1>6. Got(s)' = x
  <2>1. Read(s)
    OBVIOUS
  <2>2. CASE e.type = "token"
    <3>1. wire'[s] = wire[s] \o e.text /\ UNCHANGED <<answer, over>>
      BY <1>4, <2>1, <2>2 DEF Read
    <3>2. x = [w EXCEPT !.text = wire[s] \o e.text]
      BY <1>4, <1>5, <2>2 DEF Reading
    <3> QED BY <1>3, <3>1, <3>2 DEF Got
  <2>3. CASE e.type = "steered"
    <3>1. wire'[s] = << >> /\ UNCHANGED <<answer, over>>
      BY <1>4, <2>1, <2>3 DEF Read
    <3>2. x = [w EXCEPT !.text = << >>]
      BY <1>5, <2>3 DEF Reading
    <3> QED BY <1>3, <3>1, <3>2 DEF Got
  <2>4. CASE e.type = "slot_done"
    <3>1. answer'[s] = e.text /\ UNCHANGED <<wire, over>>
      BY <1>4, <2>1, <2>4 DEF Read
    <3>2. x = [w EXCEPT !.answer = e.text]
      BY <1>5, <2>4 DEF Reading
    <3> QED BY <1>3, <3>1, <3>2 DEF Got
  <2>5. CASE e.type = "matchup_done"
    <3>1. over'[s] = e.type /\ UNCHANGED <<wire, answer>>
      BY <1>4, <2>1, <2>5 DEF Read
    <3>2. x = [w EXCEPT !.over = e.type]
      BY <1>5, <2>5 DEF Reading
    <3> QED BY <1>3, <3>1, <3>2 DEF Got
  <2> QED BY <1>2, <2>2, <2>3, <2>4, <2>5, EventIs DEF Event
<1>7. PICK h : /\ h[0] = w /\ Reads(saved[s], h, q)
               /\ ~channel[s].closed => h[Len(q)] = Unanswered(t)
  BY <1>1, <1>3 DEF Behind
<1>8. PICK r : r = saved[s]
  OBVIOUS
<1>9. PICK p : p = Tail(q)
  OBVIOUS
<1>10. /\ Sound(r, w, e)
       /\ \E g : g[0] = x /\ Reads(r, g, p) /\ g[Len(p)] = h[Len(q)]
  BY <1>1, <1>2, <1>5, <1>7, <1>8, <1>9, ReadsTaken
<1>11. PICK g : g[0] = x /\ Reads(r, g, p) /\ g[Len(p)] = h[Len(q)]
  BY <1>10
<1>12. channel'[s].queued = p /\ channel'[s].closed = channel[s].closed /\ saved'[s] = r
  BY <1>1, <1>2, <1>8, <1>9 DEF Read, core, rows, Shapes, Fits, Channels
<1>13. Behind(s, t)'
  BY <1>6, <1>7, <1>11, <1>12 DEF Behind
<1> QED BY <1>2, <1>3, <1>5, <1>6, <1>8, <1>10, <1>13

\* What waited is still there, or was just written.
LEMMA DueRead ==
  ASSUME Shapes, NEW s \in Letters, Read(s), NEW e, e = Head(channel[s].queued)
  PROVE  Due(s) <=> Due(s)' \/ e = WholeRound
<1>1. PICK q \in Seq(Events) : q = channel[s].queued
  BY DEF Shapes, Fits, Channels
<1>2. q # << >> /\ e = Head(q)
  BY <1>1 DEF Read
<1>3. PICK p : p = Tail(q)
  OBVIOUS
<1>4. /\ Len(q) \in Nat /\ Len(q) >= 1 /\ e = q[1] /\ DOMAIN p = 1..(Len(q) - 1) /\ DOMAIN q = 1..Len(q)
      /\ \A i \in 1..(Len(q) - 1) : p[i] = q[i + 1]
  BY <1>1, <1>2, <1>3, HeadTailProperties
<1>5. channel'[s].queued = p
  BY <1>1, <1>3 DEF Read, Shapes, Fits, Channels
<1>6. PICK m : m = WholeRound
  OBVIOUS
<1>7. WholeRound' = m
  BY <1>6 DEF WholeRound, Event
<1>8. (\E i \in DOMAIN q : q[i] = m) <=> (\E i \in DOMAIN p : p[i] = m) \/ e = m
  <2>1. ASSUME NEW i \in DOMAIN q, q[i] = m PROVE (\E j \in DOMAIN p : p[j] = m) \/ e = m
    <3>1. CASE i = 1
      BY <1>4, <2>1, <3>1
    <3>2. CASE i # 1
      <4>1. i - 1 \in 1..(Len(q) - 1) /\ (i - 1) + 1 = i
        BY <1>4, <3>2
      <4>2. p[i - 1] = q[i] /\ i - 1 \in DOMAIN p
        BY <1>4, <4>1
      <4> QED BY <2>1, <4>2
    <3> QED BY <3>1, <3>2
  <2>2. ASSUME NEW i \in DOMAIN p, p[i] = m PROVE \E j \in DOMAIN q : q[j] = m
    <3>1. i + 1 \in DOMAIN q /\ q[i + 1] = m
      BY <1>4, <2>2
    <3> QED BY <3>1
  <2>3. e = m => \E j \in DOMAIN q : q[j] = m
    <3>1. 1 \in DOMAIN q /\ q[1] = e
      BY <1>4
    <3> QED BY <3>1
  <2> QED BY <2>1, <2>2, <2>3
<1> QED BY <1>1, <1>5, <1>6, <1>7, <1>8 DEF Due

LEMMA InvRead ==
  ASSUME IndInv, NEW s \in Letters, Read(s)
  PROVE  IndInv'
<1>1. /\ Shapes /\ Generator!MakingTypeOK /\ Generator!Control /\ Calm /\ Left /\ InTransit
      /\ \A t \in Letters : Ending(t)
  BY DEF IndInv, Shapes
<1>2. PICK v : /\ v.saved = saved /\ v.answer = saved /\ v.recorded = recorded
               /\ DOMAIN v.wire = Letters /\ (consumer = "reading" => Generator!Leads(v))
               /\ \A t \in Letters : Behind(t, v.wire[t])
  BY <1>1 DEF InTransit
<1>3. GeneratorIdle /\ UNCHANGED <<core, reader, hungUp>> /\ reader[s] = "reading"
      /\ channel' = [channel EXCEPT ![s].queued = Tail(@)]
  BY <1>1 DEF Read, GeneratorIdle, Generator!MakingTypeOK, core, control, rows
<1>4. /\ UNCHANGED <<kind, aborted, accepted, consumer, saved, recorded>>
      /\ Generator!MakingTypeOK' /\ Generator!Control' /\ Calm' /\ Left'
      /\ \A u : Generator!Leads(u) => Generator!Leads(u)'
  BY <1>1, <1>3, IdleIs
<1>5. PICK e : e = Head(channel[s].queued)
  OBVIOUS
<1>6. PICK x : x = v.wire[s]
  OBVIOUS
<1>7. /\ e \in Events /\ Sound(saved[s], Got(s), e)
      /\ Got(s)' = Reading(Got(s), e)
      /\ Behind(s, x)'
  BY <1>1, <1>2, <1>5, <1>6, ReadsHead
<1>8. \A t \in Letters \ {s} : /\ channel'[t] = channel[t]
                               /\ wire'[t] = wire[t] /\ answer'[t] = answer[t] /\ over'[t] = over[t]
  BY <1>1 DEF Read, Shapes
<1>9. /\ wire' \in [Letters -> Seq(0..MaxSteers)] /\ answer' \in [Letters -> Texts \cup {Absent}]
      /\ over' \in [Letters -> {None, "matchup_done", "run_error", "cut"}]
  <2>1. /\ wire \in [Letters -> Seq(0..MaxSteers)] /\ answer \in [Letters -> Texts \cup {Absent}]
        /\ over \in [Letters -> {None, "matchup_done", "run_error", "cut"}]
    BY <1>1 DEF Shapes
  <2>2. /\ wire' = CASE e.type = "token"   -> [wire EXCEPT ![s] = @ \o e.text]
                     [] e.type = "steered" -> [wire EXCEPT ![s] = << >>]
                     [] OTHER              -> wire
        /\ answer' = IF e.type = "slot_done" THEN [answer EXCEPT ![s] = e.text] ELSE answer
        /\ over' = IF e.type = "matchup_done" THEN [over EXCEPT ![s] = e.type] ELSE over
    BY <1>5 DEF Read
  <2>3. e.type = "token" => wire[s] \o e.text \in Seq(0..MaxSteers)
    <3>1. e.type = "token" => e.text \in Seq(0..MaxSteers)
      <4>1. e.type = "token" => \E g \in 0..MaxSteers : e.text = <<g>>
        BY <1>7, EventIs DEF Event
      <4>2. \A g \in 0..MaxSteers : <<g>> \in Seq(0..MaxSteers)
        OBVIOUS
      <4> QED BY <4>1, <4>2
    <3>2. wire[s] \in Seq(0..MaxSteers)
      BY <2>1
    <3> QED BY <3>1, <3>2
  <2>4. e.type = "slot_done" => e.text \in Texts
    BY <1>7, EventIs DEF Event
  <2>5. wire' \in [Letters -> Seq(0..MaxSteers)]
    <3>1. << >> \in Seq(0..MaxSteers)
      OBVIOUS
    <3> QED BY <2>1, <2>2, <2>3, <3>1
  <2> QED BY <2>1, <2>2, <2>4, <2>5
<1>10. \A t \in Letters : /\ Fits(channel'[t]) /\ channel'[t].closed = channel[t].closed
                          /\ channel'[t].failure = channel[t].failure
  <2> SUFFICES ASSUME NEW t \in Letters
               PROVE  /\ Fits(channel'[t]) /\ channel'[t].closed = channel[t].closed
                      /\ channel'[t].failure = channel[t].failure
    OBVIOUS
  <2>1. CASE t # s
    BY <1>1, <1>8, <2>1 DEF Shapes
  <2>2. CASE t = s
    <3>1. PICK c : c = channel[s]
      OBVIOUS
    <3>2. PICK p : p = Tail(c.queued)
      OBVIOUS
    <3>3. Fits(c) /\ c.queued # << >> /\ channel'[s] = [c EXCEPT !.queued = p]
      BY <1>1, <1>3, <3>1, <3>2 DEF Read, Shapes
    <3>4. p \in Seq(Events) /\ Len(p) = Len(c.queued) - 1 /\ Len(c.queued) \in Nat
      BY <3>2, <3>3, HeadTailProperties DEF Fits, Channels
    <3>5. Len(p) =< MaxQueued
      BY <3>3, <3>4 DEF Fits
    <3> QED BY <2>2, <3>1, <3>3, <3>4, <3>5 DEF Fits, Channels
  <2> QED BY <2>1, <2>2
<1>11. Shapes'
  <2>1. Events' = Events /\ Texts' = Texts /\ Channels' = Channels
    BY <1>1, <1>4, PairStands
  <2>2. \A t \in Letters : Fits(channel[t])'
    BY <1>10, <2>1 DEF Fits
  <2>3. DOMAIN channel' = Letters
    BY <1>1, <1>3 DEF Shapes
  <2> QED BY <1>1, <1>3, <1>4, <1>9, <2>1, <2>2, <2>3 DEF Shapes
<1>12. ASSUME NEW t \in Letters PROVE Ending(t)'
  <2>1. Excused(t)' = Excused(t)
    BY <1>3, <1>4 DEF Excused
  <2>2. Ending(t)
    BY <1>1
  <2>3. CASE t # s
    BY <1>3, <1>4, <1>8, <2>1, <2>2, <2>3, EndingKept
  <2>4. CASE t = s
    <3>1. Due(s) <=> Due(s)' \/ e = WholeRound
      BY <1>1, <1>5, DueRead
    <3>2. e = WholeRound <=> e.type = "matchup_done"
      BY <1>7, EventIs DEF Event, WholeRound
    <3>3. over'[s] = IF e = WholeRound THEN "matchup_done" ELSE over[s]
      BY <1>1, <1>5, <3>2 DEF Read, Shapes
    <3>4. /\ channel'[s].closed = channel[s].closed /\ channel'[s].failure = channel[s].failure
          /\ saved'[s] = saved[s] /\ reader'[s] = "reading"
      BY <1>3, <1>4, <1>10
    <3>5. over[s] \in {None, "matchup_done"}
      BY <1>3, <2>2, <2>4 DEF Ending
    <3>6. Due(s)' \/ over'[s] = "matchup_done" <=> Due(s) \/ over[s] = "matchup_done"
      BY <3>1, <3>3
    <3> QED BY <2>1, <2>2, <2>4, <3>3, <3>4, <3>5, <3>6 DEF Ending
  <2> QED BY <2>3, <2>4
<1>13. InTransit'
  <2>1. ASSUME NEW t \in Letters PROVE Behind(t, v.wire[t])'
    <3>1. CASE t = s
      BY <1>6, <1>7, <3>1
    <3>2. CASE t # s
      <4>1. PICK y : y = v.wire[t]
        OBVIOUS
      <4>2. Got(t)' = Got(t) /\ saved'[t] = saved[t] /\ Behind(t, y) /\ channel'[t] = channel[t]
        BY <1>2, <1>4, <1>8, <3>2, <4>1 DEF Got
      <4>3. Behind(t, y)'
        BY <1>1, <4>2, BehindKept
      <4> QED BY <4>1, <4>3
    <3> QED BY <3>1, <3>2
  <2> QED BY <1>2, <1>4, <2>1 DEF InTransit
<1> QED BY <1>4, <1>11, <1>12, <1>13 DEF IndInv

LEMMA InvLeave ==
  ASSUME IndInv, NEW s \in Letters, Leave(s)
  PROVE  IndInv'
<1>1. /\ Shapes /\ Generator!MakingTypeOK /\ Generator!Control /\ Calm /\ Left /\ InTransit
      /\ \A t \in Letters : Ending(t)
  BY DEF IndInv, Shapes
<1>2. GeneratorIdle /\ UNCHANGED <<channel, hungUp, wire, answer>>
  BY <1>1 DEF Leave, GeneratorIdle, Generator!MakingTypeOK, rows
<1>3. /\ UNCHANGED <<kind, aborted, accepted, consumer, saved, recorded>>
      /\ Generator!MakingTypeOK' /\ Generator!Control' /\ Calm' /\ Left'
      /\ \A u : Generator!Leads(u) => Generator!Leads(u)'
  BY <1>1, <1>2, IdleIs
<1>4. /\ reader \in [Letters -> {"waiting", "reading", "done"}]
      /\ over \in [Letters -> {None, "matchup_done", "run_error", "cut"}]
      /\ hungUp \in BOOLEAN /\ DOMAIN channel = Letters /\ \A t \in Letters : Fits(channel[t])
  BY <1>1 DEF Shapes
<1>5. /\ reader[s] = "reading" /\ channel[s].queued = << >> /\ channel[s].closed
      /\ reader' = [reader EXCEPT ![s] = "done"]
      /\ over' = [over EXCEPT ![s] = CASE channel[s].failure -> "run_error"
                                       [] ~channel[s].failure /\ @ = None -> "cut"
                                       [] OTHER -> @]
  BY DEF Leave
<1>6. over'[s] = CASE channel[s].failure -> "run_error"
                   [] ~channel[s].failure /\ over[s] = None -> "cut"
                   [] OTHER -> over[s]
  BY <1>4, <1>5
<1>7. /\ reader' \in [Letters -> {"waiting", "reading", "done"}]
      /\ over' \in [Letters -> {None, "matchup_done", "run_error", "cut"}]
  <2>1. over'[s] \in {None, "matchup_done", "run_error", "cut"}
    BY <1>4, <1>6
  <2>2. over' = [over EXCEPT ![s] = over'[s]]
    BY <1>4, <1>5
  <2> QED BY <1>4, <1>5, <2>1, <2>2
<1>8. Shapes'
  BY <1>1, <1>2, <1>3, <1>4, <1>7, ShapesKept
<1>9. ASSUME NEW t \in Letters PROVE Ending(t)'
  <2>1. Excused(t)' = Excused(t)
    BY <1>2, <1>3 DEF Excused
  <2>2. Ending(t)
    BY <1>1
  <2>3. CASE t # s
    BY <1>2, <1>3, <1>4, <1>5, <2>1, <2>2, <2>3, EndingKept
  <2>4. CASE t = s
    <3>1. ~Due(s) /\ ~Due(s)'
      BY <1>2, <1>5 DEF Due
    <3>2. over[s] \in {None, "matchup_done"}
      BY <1>5, <2>2, <2>4 DEF Ending
    <3>3. over[s] = "matchup_done" => ~channel[s].failure
      BY <2>2, <2>4 DEF Ending
    <3>4. channel[s].failure \/ Excused(s) \/ over[s] = "matchup_done"
      BY <1>5, <2>2, <2>4, <3>1 DEF Ending
    <3>5. reader'[s] = "done" /\ channel' = channel /\ saved' = saved
      BY <1>2, <1>3, <1>4, <1>5
    <3>6. channel[s].failure \in BOOLEAN
      BY <1>4 DEF Fits, Channels
    <3> QED BY <1>5, <1>6, <2>1, <2>2, <2>4, <3>1, <3>2, <3>3, <3>4, <3>5, <3>6 DEF Ending
  <2> QED BY <2>3, <2>4
<1>10. InTransit'
  <2>1. PICK v : /\ v.saved = saved /\ v.answer = saved /\ v.recorded = recorded
                 /\ DOMAIN v.wire = Letters /\ (consumer = "reading" => Generator!Leads(v))
                 /\ \A t \in Letters : Behind(t, v.wire[t])
    BY <1>1 DEF InTransit
  <2>2. ASSUME NEW t \in Letters PROVE Behind(t, v.wire[t])'
    <3>1. PICK y : y = v.wire[t]
      OBVIOUS
    <3>2. CASE t = s
      <4>1. channel'[t].queued = << >> /\ channel'[t].closed
        BY <1>2, <1>5, <3>2
      <4>2. Behind(t, y)'
        BY <4>1, BehindNothing
      <4> QED BY <3>1, <4>2
    <3>3. CASE t # s
      <4>1. Got(t)' = Got(t) /\ saved'[t] = saved[t] /\ Behind(t, y) /\ channel'[t] = channel[t]
        BY <1>2, <1>3, <1>4, <1>5, <2>1, <3>1, <3>3 DEF Got
      <4>2. Behind(t, y)'
        BY <1>1, <4>1, BehindKept
      <4> QED BY <3>1, <4>2
    <3> QED BY <3>2, <3>3
  <2> QED BY <1>3, <2>1, <2>2 DEF InTransit
<1> QED BY <1>3, <1>8, <1>9, <1>10 DEF IndInv

(***************************************************************************)
(* The invariant holds.                                                    *)
(***************************************************************************)
LEMMA InvInit == Init => IndInv
<1> SUFFICES ASSUME Init PROVE IndInv
  OBVIOUS
<1>1. /\ CoreInit /\ Generator!CoreInit
      /\ channel = [s \in Slots |-> OpenChannel]
      /\ reader = [s \in Slots |-> IF s = "A" THEN "reading" ELSE "waiting"]
      /\ hungUp = FALSE /\ wire = [s \in Slots |-> << >>]
      /\ answer = [s \in Slots |-> Absent] /\ over = [s \in Slots |-> None]
  BY SameSteps DEF Init
<1>2. Generator!MakingTypeOK /\ Generator!Control
  BY <1>1, Generator!ControlInit
<1>3. Slots = Letters
  BY <1>2, Pair
<1>4. /\ saved = [s \in Letters |-> Absent] /\ recorded = 0 /\ accepted = 0 /\ ~stopped /\ ~torn
      /\ ~closed /\ driver = "generating" /\ consumer = "reading"
  BY <1>1 DEF CoreInit
<1>5. \A s \in Letters : /\ channel[s] = OpenChannel /\ reader[s] # "done" /\ wire[s] = << >>
                         /\ answer[s] = Absent /\ over[s] = None /\ saved[s] = Absent
  BY <1>1, <1>3, <1>4
<1>6. OpenChannel.queued = << >> /\ ~OpenChannel.closed /\ ~OpenChannel.failure
  BY DEF OpenChannel
<1>7. Shapes
  <2>1. Fits(OpenChannel)
    BY DEF OpenChannel, Fits, Channels
  <2>2. wire \in [Letters -> Seq(0..MaxSteers)]
    <3>1. << >> \in Seq(0..MaxSteers)
      OBVIOUS
    <3> QED BY <1>1, <1>3, <3>1
  <2>3. /\ reader \in [Letters -> {"waiting", "reading", "done"}] /\ hungUp \in BOOLEAN
        /\ answer \in [Letters -> Texts \cup {Absent}]
        /\ over \in [Letters -> {None, "matchup_done", "run_error", "cut"}]
        /\ saved \in [Letters -> Texts \cup {Absent}]
    BY <1>1, <1>3, <1>4
  <2>4. DOMAIN channel = Letters /\ recorded \in Nat /\ recorded =< accepted
    BY <1>1, <1>3, <1>4
  <2> QED BY <1>2, <1>5, <2>1, <2>2, <2>3, <2>4 DEF Shapes
<1>8. Calm /\ Left
  BY <1>4 DEF Calm, Left
<1>9. \A s \in Letters : Ending(s)
  BY <1>5, <1>6 DEF Ending, Due
<1>10. InTransit
  <2>1. PICK v : v = Generator!Nothing
    OBVIOUS
  <2>2. /\ v.wire = [s \in Letters |-> << >>] /\ v.answer = [s \in Letters |-> Absent]
        /\ v.saved = [s \in Letters |-> Absent] /\ v.recorded = 0
    BY <2>1, SameNames DEF Generator!Nothing
  <2>3. Generator!Leads(v)
    BY <1>1, <2>1, Generator!LeadsInit
  <2>4. ASSUME NEW s \in Letters PROVE Behind(s, v.wire[s])
    <3>1. PICK t : t = v.wire[s]
      OBVIOUS
    <3>2. PICK w : w = Got(s)
      OBVIOUS
    <3>3. w = Unanswered(t)
      BY <1>5, <2>2, <3>1, <3>2 DEF Got, Unanswered
    <3>4. PICK h : h = [i \in {0} |-> w]
      OBVIOUS
    <3>5. PICK r : r = saved[s]
      OBVIOUS
    <3>6. h[0] = w /\ Reads(r, h, << >>) /\ Len(<< >>) = 0
      BY <3>4 DEF Reads
    <3>7. channel[s].queued = << >>
      BY <1>5, <1>6
    <3>8. Behind(s, t)
      BY <3>2, <3>3, <3>5, <3>6, <3>7 DEF Behind
    <3> QED BY <3>1, <3>8
  <2> QED BY <1>4, <2>2, <2>3, <2>4 DEF InTransit
<1> QED BY <1>2, <1>7, <1>8, <1>9, <1>10 DEF IndInv

LEMMA InvNext ==
  ASSUME IndInv, [Next]_vars
  PROVE  IndInv'
<1>1. DOMAIN channel = Letters /\ Slots = Letters /\ hungUp \in BOOLEAN
      /\ reader \in [Letters -> {"waiting", "reading", "done"}]
  BY Pair DEF IndInv, Shapes
<1>2. CASE (Generating \/ PersistFails \/ GeneratorFinally \/ Steer) /\ UNCHANGED <<channel, ends>>
  BY <1>1, <1>2, InvGenerates DEF Generates
<1>3. CASE StopBoth
  <2>1. Generates /\ aborted' /\ UNCHANGED ends /\ channel' = [channel EXCEPT !["A"] = Shut(@)]
    BY <1>3 DEF StopBoth, Stop, Generates
  <2>2. DOMAIN channel' = Letters
        /\ \A s \in Letters : channel'[s] = channel[s] \/ channel'[s] = Shut(channel[s])
    BY <1>1, <2>1
  <2> QED BY <2>1, <2>2, InvGenerates
<1>4. CASE Attach
  BY <1>1, <1>4, InvComesAndGoes DEF Attach
<1>5. CASE HangUp
  <2>1. /\ UNCHANGED <<core, wire, answer, over, reader>> /\ hungUp' = TRUE
        /\ channel' = [channel EXCEPT !["B"] = Shut(@)]
    BY <1>5 DEF HangUp
  <2>2. DOMAIN channel' = Letters
        /\ \A s \in Letters : channel'[s] = channel[s] \/ (s = "B" /\ channel'[s] = Shut(channel[s]))
    BY <1>1, <2>1
  <2> QED BY <1>1, <2>1, <2>2, InvComesAndGoes
<1>6. CASE \E s \in Slots : Read(s) \/ Leave(s)
  BY <1>1, <1>6, InvRead, InvLeave
<1>7. CASE UNCHANGED vars
  BY <1>1, <1>7, InvComesAndGoes DEF vars, ends
<1> QED BY <1>2, <1>3, <1>4, <1>5, <1>6, <1>7, InvPump, InvPumpEnds DEF Next

\* The invariant of a joined round: what the pump has taken leads through the
\* generator's queue to what the producers made, what each connection was sent
\* leads through its own backlog to what the pump has taken, and a channel is
\* only closed with its end, its failure or an excuse.
THEOREM Inductive == Spec => []IndInv
BY InvInit, InvNext, PTL DEF Spec

\* Every state of a joined round has the shape of the program's locals, no
\* backlog is longer than maxQueuedEvents, and a connection that ends without
\* matchup_done or run_error is that of a stopped matchup or of a sibling whose
\* client had left.
THEOREM NoEndIsSilent == Spec => [](TypeOK /\ NoSilentEnd)
<1>1. IndInv => TypeOK /\ NoSilentEnd
  <2> SUFFICES ASSUME IndInv PROVE TypeOK /\ NoSilentEnd
    OBVIOUS
  <2>1. Shapes /\ Generator!MakingTypeOK /\ Slots = Letters /\ \A s \in Letters : Ending(s)
    BY Pair DEF IndInv, Shapes
  <2>2. CoreTypeOK
    <3>1. recorded \in 0..MaxSteers
      BY <2>1, Pair DEF Shapes
    <3>2. Generator!Slots = Slots /\ Generator!Texts = Texts /\ Generator!Events = Events
      BY SameNames
    <3> QED BY <2>1, <3>1, <3>2 DEF CoreTypeOK, Generator!MakingTypeOK, Shapes
  <2>3. ASSUME NEW s \in Letters
        PROVE  /\ DOMAIN channel[s] = {"queued", "closed", "failure"}
               /\ channel[s].queued \in Seq(Events) /\ Len(channel[s].queued) =< MaxQueued
               /\ {channel[s].closed, channel[s].failure} \subseteq BOOLEAN
               /\ \A i \in DOMAIN wire[s] : wire[s][i] \in 0..MaxSteers
    <3>1. PICK c : c = channel[s]
      OBVIOUS
    <3>2. c \in Channels /\ Len(c.queued) =< MaxQueued
      BY <2>1, <3>1 DEF Shapes, Fits
    <3>3. PICK w \in Seq(0..MaxSteers) : w = wire[s]
      BY <2>1 DEF Shapes
    <3>4. \A i \in DOMAIN w : w[i] \in 0..MaxSteers
      OBVIOUS
    <3> QED BY <3>1, <3>2, <3>3, <3>4 DEF Channels
  <2>4. TypeOK
    BY <2>1, <2>2, <2>3 DEF TypeOK, Shapes
  <2>5. NoSilentEnd
    BY <2>1 DEF NoSilentEnd, Ending, Excused
  <2> QED BY <2>4, <2>5
<1> QED BY <1>1, Inductive, PTL

LEMMA DueStands ==
  ASSUME NEW s, Due(s), channel'[s].queued = channel[s].queued
  PROVE  Due(s)'
<1>1. WholeRound' = WholeRound
  BY DEF WholeRound, Event
<1> QED BY <1>1 DEF Due

LEMMA DueNext ==
  ASSUME IndInv, Next, NEW s \in Letters, Due(s)
  PROVE  Due(s)' \/ over'[s] = "matchup_done"
<1>1. /\ Shapes /\ DOMAIN channel = Letters /\ Slots = Letters /\ Fits(channel[s])
      /\ channel[s].closed /\ ~channel[s].failure
  BY Pair DEF IndInv, Shapes, Ending
<1>2. CASE UNCHANGED channel
  BY <1>2, DueStands
<1>3. CASE StopBoth \/ HangUp
  <2>1. channel'[s] = channel[s] \/ channel'[s] = Shut(channel[s])
    BY <1>1, <1>3 DEF StopBoth, HangUp
  <2>2. channel'[s] = channel[s]
    BY <1>1, <2>1, ShutIs
  <2> QED BY <2>2, DueStands
<1>4. CASE Pump
  <2>1. PICK e : e = Head(queue)
    OBVIOUS
  <2>2. e \in Events /\ channel' = Routed(e)
    BY <1>1, <1>4, <2>1, Pair DEF Pump, Take, Shapes
  <2>3. PICK d : d = channel'[s]
    OBVIOUS
  <2>4. d = channel[s]
    BY <1>1, <2>2, <2>3, RoutedIs
  <2> QED BY <2>3, <2>4, DueStands
<1>5. CASE PumpEnds
  <2>1. channel'[s] = Released(channel[s])
    BY <1>1, <1>5 DEF PumpEnds
  <2>2. channel'[s] = channel[s]
    BY <1>1, <2>1, ReleasedIs
  <2> QED BY <2>2, DueStands
<1>6. ASSUME NEW t \in Letters, Read(t) PROVE Due(s)' \/ over'[s] = "matchup_done"
  <2>1. CASE t = s
    <3>1. PICK e : e = Head(channel[s].queued)
      OBVIOUS
    <3>2. Due(s)' \/ e = WholeRound
      BY <1>1, <1>6, <2>1, <3>1, DueRead
    <3>3. e = WholeRound => over'[s] = "matchup_done"
      BY <1>1, <1>6, <2>1, <3>1, WholeRoundIs DEF Read, Shapes
    <3> QED BY <3>2, <3>3
  <2>2. CASE t # s
    <3>1. channel'[s] = channel[s]
      BY <1>1, <1>6, <2>2 DEF Read
    <3> QED BY <3>1, DueStands
  <2> QED BY <2>1, <2>2
<1> QED BY <1>1, <1>2, <1>3, <1>4, <1>5, <1>6 DEF Next, Attach, Leave

\* A matchup_done that waits on a slot's channel reaches its reader: neither
\* the other slot, nor a full backlog, a stop, a failed save or the end of the
\* pump takes it away.
THEOREM DoneReaches == Spec => DoneIsDelivered
<1>1. IndInv /\ [Next]_vars =>
        [\A s \in Slots : Due(s) => Due(s)' \/ over'[s] = "matchup_done"]_vars
  <2>1. IndInv => Slots = Letters
    BY Pair DEF IndInv, Shapes
  <2> QED BY <2>1, DueNext
<1> QED BY <1>1, Inductive, PTL DEF Spec, DoneIsDelivered

(***************************************************************************)
(* Each connection of the round implements SlotView.                       *)
(***************************************************************************)
\* SlotView's next step for slot s, on the variables of JoinedRound.
Moves(s) ==
  \/ UNCHANGED <<wire[s], answer[s], saved[s], over[s]>>
  \/ /\ answer[s] = Absent /\ over[s] = None
     /\ Len(wire'[s]) = Len(wire[s]) + 1 /\ SubSeq(wire'[s], 1, Len(wire[s])) = wire[s]
     /\ UNCHANGED <<answer[s], saved[s], over[s]>>
  \/ /\ answer[s] = Absent /\ over[s] = None
     /\ wire'[s] = << >>
     /\ UNCHANGED <<answer[s], saved[s], over[s]>>
  \/ /\ saved[s] = Absent /\ saved'[s] # Absent
     /\ UNCHANGED <<wire[s], answer[s], over[s]>>
  \/ /\ answer[s] = Absent /\ over[s] = None /\ saved[s] \in {Absent, wire[s]}
     /\ answer'[s] = wire[s] /\ saved'[s] = wire[s]
     /\ UNCHANGED <<wire[s], over[s]>>
  \/ /\ over[s] = None
     /\ over'[s] \in {"matchup_done", "run_error", "cut"}
     /\ over'[s] = "matchup_done" => answer[s] # Absent
     /\ UNCHANGED <<wire[s], answer[s], saved[s]>>

LEMMA MovesPump ==
  ASSUME IndInv, Pump, NEW s \in Letters
  PROVE  Moves(s)
<1>1. Shapes /\ Generator!MakingTypeOK /\ Take /\ consumer = "reading"
      /\ UNCHANGED <<wire, answer, over>>
  BY DEF IndInv, Shapes, Pump, Take, ends
<1>2. PICK v : v.saved = saved /\ v.answer = saved /\ v.recorded = recorded /\ Generator!Leads(v)
  BY <1>1 DEF IndInv, InTransit
<1>3. PICK e : e = Head(queue)
  OBVIOUS
<1>4. PICK u : u = Generator!After(v, e)
  OBVIOUS
<1>5. Generator!Legal(v, e)
  BY <1>1, <1>2, <1>3, SameSteps, Generator!LeadsTaken
<1>6. /\ saved' = IF e.type = "slot_done" THEN [saved EXCEPT ![e.slot] = e.text] ELSE saved
      /\ e.type = "slot_done" => saved[e.slot] = Absent /\ e.text \in Texts
  BY <1>1, <1>2, <1>3, <1>4, <1>5, AfterTaken
<1>7. CASE e.type = "slot_done" /\ e.slot = s
  <2>1. saved[s] = Absent /\ saved'[s] # Absent
    BY <1>1, <1>6, <1>7, TextAbsent DEF Shapes
  <2> QED BY <1>1, <2>1 DEF Moves
<1>8. CASE ~(e.type = "slot_done" /\ e.slot = s)
  <2>1. saved'[s] = saved[s]
    BY <1>1, <1>6, <1>8 DEF Shapes
  <2> QED BY <1>1, <2>1 DEF Moves
<1> QED BY <1>7, <1>8

LEMMA MovesRead ==
  ASSUME IndInv, NEW s \in Letters, Read(s)
  PROVE  Moves(s)
<1>1. Shapes /\ InTransit /\ UNCHANGED saved /\ wire[s] \in Seq(0..MaxSteers)
  BY DEF IndInv, Shapes, Read, core, rows
<1>2. PICK t : Behind(s, t)
  BY <1>1 DEF InTransit
<1>3. PICK e : e = Head(channel[s].queued)
  OBVIOUS
<1>4. e \in Events /\ Sound(saved[s], Got(s), e) /\ Got(s)' = Reading(Got(s), e)
  BY <1>1, <1>2, <1>3, ReadsHead
<1>5. /\ over[s] = None
      /\ IF e.type = "matchup_done" THEN answer[s] # Absent ELSE answer[s] = Absent
      /\ e.type = "slot_done" => e.text = wire[s] /\ saved[s] = e.text
  BY <1>4 DEF Sound, Got
<1>6. PICK w : w = Got(s)
  OBVIOUS
<1>7. PICK x : x = Got(s)'
  OBVIOUS
<1>8. /\ w.text = wire[s] /\ w.answer = answer[s] /\ w.over = over[s]
      /\ x.text = wire'[s] /\ x.answer = answer'[s] /\ x.over = over'[s]
      /\ w = [text |-> wire[s], answer |-> answer[s], over |-> over[s]]
  BY <1>6, <1>7 DEF Got
<1>9. x = Reading(w, e)
  BY <1>4, <1>6, <1>7
<1>10. CASE e.type = "token"
  <2>1. wire'[s] = wire[s] \o e.text /\ answer'[s] = answer[s] /\ over'[s] = over[s]
    BY <1>8, <1>9, <1>10 DEF Reading
  <2>2. PICK g \in 0..MaxSteers : e.text = <<g>>
    BY <1>4, <1>10, EventIs DEF Event
  <2>3. PICK z \in Seq(0..MaxSteers) : z = wire[s]
    BY <1>1
  <2>4. Len(z \o <<g>>) = Len(z) + 1 /\ SubSeq(z \o <<g>>, 1, Len(z)) = z
    BY Generator!Grown
  <2>5. wire'[s] = z \o <<g>>
    BY <2>1, <2>2, <2>3
  <2>6. Len(wire'[s]) = Len(wire[s]) + 1 /\ SubSeq(wire'[s], 1, Len(wire[s])) = wire[s]
    BY <2>3, <2>4, <2>5
  <2> QED BY <1>1, <1>5, <1>10, <2>1, <2>6 DEF Moves
<1>11. CASE e.type = "steered"
  <2>1. wire'[s] = << >> /\ answer'[s] = answer[s] /\ over'[s] = over[s]
    BY <1>8, <1>9, <1>11 DEF Reading
  <2> QED BY <1>1, <1>5, <1>11, <2>1 DEF Moves
<1>12. CASE e.type = "slot_done"
  <2>1. wire'[s] = wire[s] /\ answer'[s] = e.text /\ over'[s] = over[s]
    BY <1>8, <1>9, <1>12 DEF Reading
  <2> QED BY <1>1, <1>5, <1>12, <2>1 DEF Moves
<1>13. CASE e.type = "matchup_done"
  <2>1. wire'[s] = wire[s] /\ answer'[s] = answer[s] /\ over'[s] = "matchup_done"
    BY <1>8, <1>9, <1>13 DEF Reading
  <2> QED BY <1>1, <1>5, <1>13, <2>1 DEF Moves
<1> QED BY <1>4, <1>10, <1>11, <1>12, <1>13, EventIs DEF Event

LEMMA MovesNext ==
  ASSUME IndInv, [Next]_vars, NEW s \in Letters
  PROVE  Moves(s)
<1>1. Slots = Letters /\ Shapes /\ Ending(s)
  BY Pair DEF IndInv, Shapes
<1>2. CASE Generates /\ UNCHANGED ends
  BY <1>2, GeneratesKeeps DEF Moves, ends
<1>3. CASE PumpEnds \/ Attach \/ HangUp \/ UNCHANGED vars
  BY <1>3 DEF PumpEnds, Attach, HangUp, vars, core, rows, ends, Moves
<1>4. ASSUME NEW t \in Letters, t # s, Read(t) \/ Leave(t) PROVE Moves(s)
  <2>1. UNCHANGED <<wire[s], answer[s], saved[s], over[s]>>
    BY <1>1, <1>4 DEF Read, Leave, core, rows, Shapes
  <2> QED BY <2>1 DEF Moves
<1>5. CASE Leave(s)
  <2>1. UNCHANGED <<wire[s], answer[s], saved[s]>>
    BY <1>5 DEF Leave, rows
  <2>2. over'[s] = CASE channel[s].failure -> "run_error"
                     [] ~channel[s].failure /\ over[s] = None -> "cut"
                     [] OTHER -> over[s]
    BY <1>1, <1>5 DEF Leave, Shapes
  <2>3. over[s] \in {None, "matchup_done"} /\ (over[s] = "matchup_done" => ~channel[s].failure)
    BY <1>1, <1>5 DEF Ending, Leave
  <2>4. channel[s].failure \in BOOLEAN
    BY <1>1 DEF Shapes, Fits, Channels
  <2>5. over'[s] = over[s] \/ (over[s] = None /\ over'[s] \in {"run_error", "cut"})
    BY <2>2, <2>3, <2>4
  <2> QED BY <2>1, <2>5 DEF Moves
<1> QED BY <1>1, <1>2, <1>3, <1>4, <1>5, MovesPump, MovesRead DEF Next, StopBoth, Generates, ends

LEMMA ViewsStart == Init => ViewA!Init /\ ViewB!Init
<1> SUFFICES ASSUME Init PROVE ViewA!Init /\ ViewB!Init
  OBVIOUS
<1>1. Slots = Letters
  BY DEF Init, CoreInit, Slots
<1>2. \A s \in Letters : wire[s] = << >> /\ answer[s] = Absent /\ saved[s] = Absent /\ over[s] = None
  BY <1>1 DEF Init, CoreInit
<1> QED BY <1>2 DEF ViewA!Init, ViewB!Init

LEMMA ViewAMoves == Moves("A") => [ViewA!Next]_(ViewA!view)
BY DEF Moves, ViewA!Next, ViewA!view, ViewA!Grow, ViewA!Reset, ViewA!Save,
       ViewA!Answer, ViewA!End, ViewA!Open

LEMMA ViewBMoves == Moves("B") => [ViewB!Next]_(ViewB!view)
BY DEF Moves, ViewB!Next, ViewB!view, ViewB!Grow, ViewB!Reset, ViewB!Save,
       ViewB!Answer, ViewB!End, ViewB!Open

\* Each of the two connections, whatever its own lag and whatever the sibling
\* does, implements SlotView: its text only grows or is emptied before its
\* answer, the answer is that text and the row, and nothing follows the end.
THEOREM ReadersSee == Spec => ReadersView
<1>1. IndInv /\ [Next]_vars => [ViewA!Next]_(ViewA!view)
  BY MovesNext, ViewAMoves
<1>2. IndInv /\ [Next]_vars => [ViewB!Next]_(ViewB!view)
  BY MovesNext, ViewBMoves
<1>3. Spec => ViewA!Spec
  BY <1>1, ViewsStart, Inductive, PTL DEF Spec, ViewA!Spec
<1>4. Spec => ViewB!Spec
  BY <1>2, ViewsStart, Inductive, PTL DEF Spec, ViewB!Spec
<1> QED BY <1>3, <1>4 DEF ReadersView
=============================================================================
