----------------------------- MODULE ArenaCore -----------------------------
(***************************************************************************)
(* What every round has: ArenaCore's generator (a producer per slot, the   *)
(* driver that restarts them, the event queue), the control plane that     *)
(* stops or steers it, and the saving of its events.  ArenaStream and      *)
(* JoinedRound add the two ways its events reach a client.  Each step is   *)
(* the code between two awaits.                                            *)
(*                                                                         *)
(* A `single` round has slot A alone and saves nothing; a `shadow` round   *)
(* runs and saves both slots, shows A and takes no steers; a `blind` round *)
(* shows both on one connection, a `joined` one on two.  A token stands    *)
(* for the generation that produced it.                                    *)
(***************************************************************************)
EXTENDS Integers, Sequences, FiniteSets

CONSTANTS Kinds,      \* the kinds of round served
          MaxTokens,  \* bound: tokens of a slot in one generation
          MaxSteers   \* bound: instructions accepted in one round

ASSUME KindsAre == Kinds \subseteq {"blind", "single", "shadow", "joined"}
ASSUME Bounds == MaxTokens \in Nat /\ MaxSteers \in Nat

VARIABLES
  kind,       \* the round's kind
  resolves,   \* the slots whose provider is registered
  server,     \* "up", or "down" once an unhandled rejection ended the process
  live,       \* the matchup is in the registry
  aborted,    \* its AbortController was aborted: the signal of a stop
  \* the generator's locals
  stopped, steering, torn, completed, gen, producer, content, driver, queue, closed,
  consumer,   \* the `for await` that takes the events
  failed,     \* it was left because a save was refused
  saved, recorded,  \* the response rows, the number of steers in the database
  accepted    \* the steers acknowledged as accepted

round   == <<kind, resolves>>
control == <<live, aborted, accepted>>
making  == <<gen, producer, content, completed>>
flags   == <<stopped, steering, torn>>
rows    == <<saved, recorded>>
core    == <<round, server, control, making, flags, driver, queue, closed,
             consumer, failed, rows>>

Letters   == {"A", "B"}
Slots     == IF kind = "single" THEN {"A"} ELSE Letters
Visible   == IF kind = "shadow" THEN {"A"} ELSE Slots
Persisted == kind # "single"
Steerable == kind # "shadow"

None   == "none"
Absent == <<-1>>     \* no answer, no row: generations count from 0
Event(type, slot, text) == [type |-> type, slot |-> slot, text |-> text]
Up == server = "up" /\ resolves = Slots

Running == {s \in Slots : producer[s] = "running"}
Interrupted == stopped \/ aborted \/ torn

CoreInit ==
  /\ kind \in Kinds /\ resolves \in SUBSET Slots /\ server = "up"
  /\ live = TRUE /\ aborted = FALSE /\ accepted = 0
  /\ stopped = FALSE /\ steering = FALSE /\ torn = FALSE
  /\ gen = 0 /\ completed = 0
  /\ producer = [s \in Slots |-> "running"]
  /\ content = [s \in Slots |-> << >>]
  /\ driver = "generating" /\ queue = << >> /\ closed = FALSE
  /\ consumer = "reading" /\ failed = FALSE
  /\ saved = [s \in Letters |-> Absent] /\ recorded = 0

(***************************************************************************)
(* The event queue.  The event the handler is busy with stays at its head  *)
(* until it is dealt with, so a reading consumer waits when it is empty;   *)
(* closing then ends the reading even if an event is pushed after it.      *)
(***************************************************************************)
Push(events) == queue' = queue \o events

Close == /\ closed' = TRUE
         /\ consumer' = IF consumer = "reading" /\ queue = << >>
                          THEN "finally" ELSE consumer

(***************************************************************************)
(* Producers.                                                              *)
(***************************************************************************)
Token(s) ==
  /\ Up /\ s \in Running /\ ~Interrupted
  /\ Len(content[s]) < MaxTokens
  /\ content' = [content EXCEPT ![s] = Append(@, gen)]
  /\ Push(<<Event("token", s, <<gen>>)>>)
  /\ UNCHANGED <<round, server, control, gen, producer, completed, flags, driver,
                 closed, consumer, failed, rows>>

Leaves(s, outcome) ==
  /\ producer' = [producer EXCEPT ![s] = "ended"]
  /\ driver' = IF Running = {s} THEN outcome ELSE driver

\* The provider's stream ends, or throws: the slot_error that then comes first
\* changes nothing downstream and is left out.
ProviderEnds(s) ==
  /\ Up /\ s \in Running /\ ~Interrupted
  /\ completed' = completed + 1
  /\ Push(<<Event("slot_done", s, content[s])>>
            \o (IF Running = {s} THEN <<Event("matchup_done", None, << >>)>> ELSE << >>))
  /\ Leaves(s, "done")
  /\ UNCHANGED <<round, server, control, gen, content, flags, closed, consumer, failed, rows>>

\* A stop or a steer wins the race against the provider's next chunk: the
\* producer leaves without a terminal event.
TornDown(s) ==
  /\ Up /\ s \in Running /\ Interrupted
  /\ Leaves(s, IF steering THEN "steered" ELSE "stopped")
  /\ UNCHANGED <<round, server, control, gen, content, completed, flags, queue, closed,
                 consumer, failed, rows>>

\* providers.resolve throws in `produce` before its try: nobody handles it.
UnhandledRejection ==
  /\ server = "up" /\ resolves # Slots
  /\ server' = "down"
  /\ UNCHANGED <<round, control, making, flags, driver, queue, closed, consumer, failed, rows>>

(***************************************************************************)
(* The driver.                                                             *)
(***************************************************************************)
Restart == /\ gen' = gen + 1
           /\ producer' = [s \in Slots |-> "running"]
           /\ content' = [s \in Slots |-> << >>]
           /\ completed' = 0
           /\ torn' = FALSE
           /\ driver' = "generating"

\* The queue is closed on every way out but a stop, which closed it.
DriverEnds ==
  /\ Up /\ driver \in {"done", "stopped"}
  /\ IF driver = "done" \/ ~stopped THEN Close ELSE UNCHANGED <<closed, consumer>>
  /\ driver' = "ended"
  /\ UNCHANGED <<round, server, control, making, flags, queue, failed, rows>>

Announce_Silently == UNCHANGED queue
Announce == Push(<<Event("steered", None, << >>)>>)

Halted_Never == FALSE
Halted == stopped \/ aborted

DriverRestarts ==
  /\ Up /\ driver = "steered"
  /\ Announce
  /\ steering' = FALSE
  /\ IF Halted
       THEN driver' = "ended" /\ UNCHANGED <<making, torn>>
       ELSE Restart
  /\ UNCHANGED <<round, server, control, stopped, closed, consumer, failed, rows>>

(***************************************************************************)
(* The `for await` of the handler, and the saving of what it takes.        *)
(***************************************************************************)
Dealt == /\ queue' = Tail(queue)
         /\ consumer' = IF Len(queue) = 1 /\ closed THEN "finally" ELSE "reading"

\* saveResponse and recordSteer.
Recorded(e) ==
  /\ saved' = IF e.type = "slot_done" /\ Persisted /\ saved[e.slot] = Absent
                THEN [saved EXCEPT ![e.slot] = e.text] ELSE saved
  /\ recorded' = IF e.type = "steered" /\ Persisted THEN recorded + 1 ELSE recorded

Take ==
  /\ Up /\ consumer = "reading" /\ queue # << >>
  /\ Recorded(Head(queue))
  /\ Dealt
  /\ UNCHANGED <<round, server, control, making, flags, driver, closed, failed>>

\* The query rejects: the loop is left, and so is the round.
PersistFails ==
  /\ Up /\ consumer = "reading" /\ queue # << >>
  /\ Persisted /\ Head(queue).type \in {"slot_done", "steered"}
  /\ failed' = TRUE
  /\ consumer' = "finally"
  /\ UNCHANGED <<round, server, control, making, flags, driver, queue, closed, rows>>

\* The generator's finally: nothing is left running behind the loop.
Unwind_Running == UNCHANGED <<stopped, torn>>
Unwind == stopped' = TRUE /\ torn' = TRUE

GeneratorFinally ==
  /\ Up /\ consumer = "finally"
  /\ Unwind
  /\ consumer' = "draining"
  /\ UNCHANGED <<round, server, control, making, steering, driver, queue, closed,
                 failed, rows>>

LoopEnds_NoWait == /\ Up /\ consumer = "draining"
                   /\ consumer' = "done"

\* It awaits the driver before the handler goes on.
LoopEnds == /\ Up /\ consumer = "draining" /\ driver = "ended"
            /\ consumer' = "done"

(***************************************************************************)
(* The control plane.                                                      *)
(***************************************************************************)
\* The listener is there until the generator's finally.
Stop ==
  /\ Up /\ live /\ ~aborted
  /\ aborted' = TRUE
  /\ IF consumer \in {"reading", "finally"}
       THEN stopped' = TRUE /\ torn' = TRUE /\ Close
       ELSE UNCHANGED <<stopped, torn, closed, consumer>>
  /\ UNCHANGED <<round, server, live, accepted, making, steering, driver, queue, failed, rows>>

AcceptsSteer_AnyTime == ~stopped /\ ~aborted /\ ~torn
AcceptsSteer == ~stopped /\ ~aborted /\ ~torn /\ completed = 0

Steer ==
  /\ Up /\ live /\ Steerable /\ AcceptsSteer
  /\ accepted < MaxSteers
  /\ accepted' = accepted + 1
  /\ steering' = TRUE /\ torn' = TRUE
  /\ UNCHANGED <<round, server, live, aborted, making, stopped, driver, queue, closed,
                 consumer, failed, rows>>

Generating == \/ \E s \in Slots : Token(s) \/ ProviderEnds(s) \/ TornDown(s)
              \/ UnhandledRejection \/ DriverEnds \/ DriverRestarts

\* What the process does by itself: it runs what is ready.  A provider need
\* never send, or end, anything.
Ready == \/ \E s \in Slots : TornDown(s)
         \/ UnhandledRejection \/ DriverEnds \/ DriverRestarts \/ GeneratorFinally

(***************************************************************************)
(* Shapes.                                                                 *)
(***************************************************************************)
Texts  == UNION {[1..n -> 0..MaxSteers] : n \in 0..MaxTokens}
Events == {Event("token", s, <<g>>) : s \in Slots, g \in 0..MaxSteers}
            \cup {Event("slot_done", s, t) : s \in Slots, t \in Texts}
            \cup {Event(type, None, << >>) : type \in {"steered", "matchup_done"}}

CoreTypeOK ==
  /\ kind \in Kinds /\ resolves \subseteq Slots /\ server \in {"up", "down"}
  /\ {live, aborted, stopped, steering, torn, closed, failed} \subseteq BOOLEAN
  /\ completed \in 0..2 /\ gen \in 0..MaxSteers
  /\ accepted \in 0..MaxSteers /\ recorded \in 0..MaxSteers
  /\ producer \in [Slots -> {"running", "ended"}]
  /\ content \in [Slots -> Texts]
  /\ driver \in {"generating", "done", "steered", "stopped", "ended"}
  /\ queue \in Seq(Events)
  /\ consumer \in {"reading", "finally", "draining", "done"}
  /\ saved \in [Letters -> Texts \cup {Absent}]
=============================================================================
