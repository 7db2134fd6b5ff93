---------------------------- MODULE ArenaStream ----------------------------
(***************************************************************************)
(* A round on one connection: streamRound takes each event of the          *)
(* generator, persists it, and writes it to the client.                    *)
(***************************************************************************)
EXTENDS ArenaCore

VARIABLES wire,    \* per slot, what a client that resets on `steered` has
          answer,  \* per slot, the text of the slot_done that was written
          over     \* how the response ended

out  == <<wire, answer, over>>
vars == <<core, out>>

Init == /\ CoreInit
        /\ wire = [s \in Letters |-> << >>]
        /\ answer = [s \in Letters |-> Absent]
        /\ over = None

Written(e) ==
  /\ wire' = CASE e.type = "token" /\ e.slot \in Visible ->
                     [wire EXCEPT ![e.slot] = @ \o e.text]
               [] e.type = "steered" -> [s \in Letters |-> << >>]
               [] OTHER -> wire
  /\ answer' = IF e.type = "slot_done" /\ e.slot \in Visible
                 THEN [answer EXCEPT ![e.slot] = e.text] ELSE answer
  /\ over' = IF e.type = "matchup_done" THEN "matchup_done" ELSE over

Deliver == Take /\ Written(Head(queue))

EndResponse ==
  /\ LoopEnds
  /\ over' = CASE failed -> "run_error"
               [] ~failed /\ over = None -> "cut"
               [] OTHER -> over
  /\ live' = FALSE
  /\ UNCHANGED <<round, server, aborted, accepted, making, flags, driver, queue, closed,
                 failed, rows, wire, answer>>

Next == \/ (Generating \/ PersistFails \/ GeneratorFinally) /\ UNCHANGED out
        \/ (Stop \/ Steer) /\ UNCHANGED out
        \/ Deliver \/ EndResponse

\* The process runs what is ready and the database answers or refuses.
Fairness == /\ WF_vars(Ready /\ UNCHANGED out)
            /\ WF_vars(Deliver) /\ WF_vars(EndResponse)

Spec == Init /\ [][Next]_vars /\ Fairness

(***************************************************************************)
(* Properties.                                                             *)
(***************************************************************************)
\* Every variable keeps the shape of the program's locals and rows.
TypeOK ==
  /\ CoreTypeOK
  /\ \A s \in Slots : \A i \in DOMAIN wire[s] : wire[s][i] \in 0..MaxSteers
  /\ answer \in [Letters -> Texts \cup {Absent}]
  /\ over \in {None, "matchup_done", "run_error", "cut"}

\* What a client has put together from the tokens of a slot since the last
\* `steered` is the answer its slot_done carries and the row that is judged:
\* no token of an abandoned generation, none missing, none twice.
WireIsAnswer ==
  \A s \in Visible : answer[s] # Absent =>
    /\ wire[s] = answer[s]
    /\ Persisted => saved[s] = answer[s]

\* matchup_done means the round is whole: every slot shown was answered, every
\* slot saved, and every steer acknowledged as accepted was recorded.
DoneIsWhole ==
  over = "matchup_done" =>
    /\ \A s \in Visible : answer[s] # Absent
    /\ Persisted => (\A s \in Slots : saved[s] # Absent) /\ recorded = accepted

\* Both answers of a round were generated under the same instructions.
SameInstructions ==
  \A s, t \in Slots : \A i \in DOMAIN wire[s] : \A j \in DOMAIN wire[t] :
    wire[s][i] = wire[t][j]

\* A round's answers are what was read, what is saved and what was asked for:
\* the three together, with the shape of the state they are stated on.
AnswersStand == TypeOK /\ WireIsAnswer /\ DoneIsWhole /\ SameInstructions

\* When the response ends nothing is generating behind it, and the registry
\* has forgotten the matchup.
NothingRunsBehind == consumer = "done" => Running = {} /\ driver = "ended" /\ ~live

\* After an acknowledged stop no model is asked again.
StopHolds == [][aborted => gen' = gen]_vars

\* Each slot is read, answered and saved as SlotView promises: a reader never
\* sees a reset, a token or another answer after the answer it was given.  A
\* single round has no row but the answer, and slot B of a shadow no reader.
Row(s) == IF Persisted THEN saved[s] ELSE answer[s]

ViewA == INSTANCE SlotView
           WITH text <- wire["A"], answer <- answer["A"], row <- Row("A")
ViewB == INSTANCE SlotView
           WITH text <- wire["B"], answer <- answer["B"], row <- Row("B"),
                over <- IF "B" \in Visible THEN over ELSE None

ReadersView == ViewA!Spec /\ ViewB!Spec

\* A stop, or a failed save, ends the response however long the providers stay
\* silent.
TearDownEnds == aborted \/ failed ~> consumer = "done"

\* So does the round itself, if its providers end.
RoundEnds ==
  (\A s \in Letters : WF_vars(s \in Slots /\ ProviderEnds(s) /\ UNCHANGED out))
    => <>(consumer = "done" \/ server = "down")

\* Torn down or left alone, the response ends.
ResponseEnds == TearDownEnds /\ RoundEnds

\* A slot whose model cannot be asked leaves the other one streaming.
FaultIsolated == resolves # {} => server = "up"
=============================================================================
