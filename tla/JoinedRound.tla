---------------------------- MODULE JoinedRound ----------------------------
(***************************************************************************)
(* A round on two connections.  The leader's pump takes each event of the  *)
(* generator, persists it and puts it on the SlotChannel of its slot; each *)
(* connection drains its own channel.  The leader's stream is the one the  *)
(* registry knows, so its end forgets the matchup.  The sibling, which     *)
(* attaches once it has been handed the round or never does, can hang up.  *)
(***************************************************************************)
EXTENDS ArenaCore

CONSTANT MaxQueued   \* ARENA_JOIN_MAX_QUEUED_EVENTS

ASSUME Joined == Kinds = {"joined"}
ASSUME MaxQueuedIsPositive == MaxQueued \in Nat \ {0}

VARIABLES channel,  \* per slot, its SlotChannel
          reader,   \* per slot, where its connection is
          hungUp,   \* the sibling's socket closed
          wire,     \* per slot, what a client that resets on `steered` has
          answer,   \* per slot, the text of the slot_done that was written
          over      \* per slot, how its response ended

ends == <<reader, hungUp, wire, answer, over>>
vars == <<core, channel, ends>>

OpenChannel == [queued |-> << >>, closed |-> FALSE, failure |-> FALSE]

Init ==
  /\ CoreInit
  /\ channel = [s \in Slots |-> OpenChannel]
  /\ reader = [s \in Slots |-> IF s = "A" THEN "reading" ELSE "waiting"]
  /\ hungUp = FALSE
  /\ wire = [s \in Slots |-> << >>]
  /\ answer = [s \in Slots |-> Absent]
  /\ over = [s \in Slots |-> None]

(***************************************************************************)
(* SlotChannel.                                                            *)
(***************************************************************************)
Shut(c) == [c EXCEPT !.closed = TRUE]

Fail_EvenClosed(c) == [queued |-> << >>, closed |-> TRUE, failure |-> TRUE]
Fail(c) == IF c.closed THEN c
           ELSE [queued |-> << >>, closed |-> TRUE, failure |-> TRUE]

Put(c, e) == CASE c.closed                    -> c
               [] ~c.closed /\ Len(c.queued) >= MaxQueued -> Fail(c)
               [] OTHER                       -> [c EXCEPT !.queued = Append(@, e)]

(***************************************************************************)
(* The pump.                                                               *)
(***************************************************************************)
WholeRound == Event("matchup_done", None, << >>)

FanOut_SlotA(e) == [channel EXCEPT !["A"] = Put(@, e)]
FanOut(e) == [s \in Slots |-> Put(channel[s], e)]

\* What each event does to the channels: its slot's own slot_done ends one.
Routed(e) ==
  CASE e.type = "matchup_done" -> channel
    [] e.type = "steered"      -> FanOut(e)
    [] e.type = "slot_done"    ->
         [channel EXCEPT ![e.slot] = Shut(Put(Put(@, e), WholeRound))]
    [] OTHER                   -> [channel EXCEPT ![e.slot] = Put(@, e)]

Pump == /\ Take
        /\ channel' = Routed(Head(queue))
        /\ UNCHANGED ends

Released(c) == IF failed THEN Fail(c) ELSE Shut(c)

\* The loop was left: a failure reaches the channels still open.
PumpEnds ==
  /\ LoopEnds
  /\ channel' = [s \in Slots |-> Released(channel[s])]
  /\ UNCHANGED <<round, server, control, making, flags, driver, queue, closed,
                 failed, rows, ends>>

(***************************************************************************)
(* The connections.                                                        *)
(***************************************************************************)
Attach ==
  /\ Up /\ reader["B"] = "waiting"
  /\ reader' = [reader EXCEPT !["B"] = "reading"]
  /\ UNCHANGED <<core, channel, hungUp, wire, answer, over>>

Read(s) ==
  /\ Up /\ reader[s] = "reading" /\ channel[s].queued # << >>
  /\ LET e == Head(channel[s].queued)
     IN  /\ wire' = CASE e.type = "token"   -> [wire EXCEPT ![s] = @ \o e.text]
                      [] e.type = "steered" -> [wire EXCEPT ![s] = << >>]
                      [] OTHER              -> wire
         /\ answer' = IF e.type = "slot_done" THEN [answer EXCEPT ![s] = e.text]
                      ELSE answer
         /\ over' = IF e.type = "matchup_done" THEN [over EXCEPT ![s] = e.type]
                    ELSE over
  /\ channel' = [channel EXCEPT ![s].queued = Tail(@)]
  /\ UNCHANGED <<core, reader, hungUp>>

\* The end of the leader's response releases the matchup.
Leave(s) ==
  /\ Up /\ reader[s] = "reading" /\ channel[s].queued = << >> /\ channel[s].closed
  /\ reader' = [reader EXCEPT ![s] = "done"]
  /\ over' = [over EXCEPT ![s] = CASE channel[s].failure -> "run_error"
                                   [] ~channel[s].failure /\ @ = None -> "cut"
                                   [] OTHER -> @]
  /\ live' = (live /\ s # "A")
  /\ UNCHANGED <<round, server, aborted, accepted, making, flags, driver, queue, closed,
                 consumer, failed, rows, channel, hungUp, wire, answer>>

\* registry.stop of the sibling's own stream, not of the matchup.
HangUp_StopsRound ==
  /\ Up /\ reader["B"] = "reading" /\ ~hungUp
  /\ hungUp' = TRUE
  /\ channel' = [channel EXCEPT !["B"] = Shut(@)]
  /\ stopped' = TRUE /\ torn' = TRUE /\ Close
  /\ UNCHANGED <<round, server, control, making, steering, driver, queue, failed, rows,
                 reader, wire, answer, over>>

HangUp ==
  /\ Up /\ reader["B"] = "reading" /\ ~hungUp
  /\ hungUp' = TRUE
  /\ channel' = [channel EXCEPT !["B"] = Shut(@)]
  /\ UNCHANGED <<core, reader, wire, answer, over>>

\* The abort listeners: the round's, then that of slot A's channel.
StopBoth ==
  /\ Stop
  /\ channel' = [channel EXCEPT !["A"] = Shut(@)]
  /\ UNCHANGED ends

Next == \/ (Generating \/ PersistFails \/ GeneratorFinally \/ Steer)
             /\ UNCHANGED <<channel, ends>>
        \/ StopBoth
        \/ Pump \/ PumpEnds
        \/ Attach \/ HangUp
        \/ \E s \in Slots : Read(s) \/ Leave(s)

\* The process runs what is ready and the database answers or refuses.  A
\* sibling need not attach.
Fairness ==
  /\ WF_vars(Ready /\ UNCHANGED <<channel, ends>>)
  /\ WF_vars(Pump) /\ WF_vars(PumpEnds)
  /\ \A s \in Letters : WF_vars(Read(s)) /\ WF_vars(Leave(s))

Spec == Init /\ [][Next]_vars /\ Fairness

(***************************************************************************)
(* Properties.                                                             *)
(***************************************************************************)
\* The shape of the program's locals and rows; no channel's backlog is longer
\* than its bound.
TypeOK ==
  /\ CoreTypeOK
  /\ \A s \in Slots :
       /\ DOMAIN channel[s] = {"queued", "closed", "failure"}
       /\ channel[s].queued \in Seq(Events) /\ Len(channel[s].queued) =< MaxQueued
       /\ {channel[s].closed, channel[s].failure} \subseteq BOOLEAN
       /\ \A i \in DOMAIN wire[s] : wire[s][i] \in 0..MaxSteers
  /\ reader \in [Slots -> {"waiting", "reading", "done"}] /\ hungUp \in BOOLEAN
  /\ answer \in [Slots -> Texts \cup {Absent}]
  /\ over \in [Slots -> {None, "matchup_done", "run_error", "cut"}]

\* Each connection, whatever its lag, is sent what SlotView promises: no token
\* of an abandoned generation stays in its answer, and the answer is the row.
ViewA == INSTANCE SlotView
           WITH text <- wire["A"], answer <- answer["A"], row <- saved["A"],
                over <- over["A"]
ViewB == INSTANCE SlotView
           WITH text <- wire["B"], answer <- answer["B"], row <- saved["B"],
                over <- over["B"]

ReadersView == ViewA!Spec /\ ViewB!Spec

\* Once a slot's matchup_done waits on its channel, nothing that happens to the
\* other slot, the pump or the matchup keeps it from its reader.
Due(s) == \E i \in DOMAIN channel[s].queued : channel[s].queued[i] = WholeRound

DoneIsDelivered ==
  [][\A s \in Slots : Due(s) => Due(s)' \/ over'[s] = "matchup_done"]_vars

\* A connection that ends without matchup_done says why, unless the matchup was
\* stopped or its own client had left.
NoSilentEnd ==
  \A s \in Slots : over[s] = "cut" => aborted \/ (s = "B" /\ hungUp)

\* A connection ends once its slot is finished or the matchup is stopped,
\* however long the providers stay silent.
OwnEnd == \A s \in Letters :
  (saved[s] # Absent \/ aborted) /\ reader[s] = "reading" ~> reader[s] = "done"

\* Each connection of the round ends, and ends with all that was due on it.
EndsWithItsSlot == [](TypeOK /\ NoSilentEnd) /\ DoneIsDelivered /\ OwnEnd

\* If the providers end, both slots are recorded whatever the sibling does:
\* never attaching, lagging, or hanging up.
BothRecorded ==
  (\A s \in Letters : WF_vars(ProviderEnds(s) /\ UNCHANGED <<channel, ends>>))
    => <>((\A s \in Letters : saved[s] # Absent) \/ aborted \/ failed \/ server = "down")

\* While a slot is generating, the first stop of the matchup finds it and so
\* stops whichever slots are left.
StopReachesRound == (Up /\ Running # {} /\ consumer = "reading" /\ ~aborted) => live
=============================================================================
