---- MODULE WiredRound ----
(***************************************************************************)
(* ArenaStream's round on every wire format at once: each event that is    *)
(* written goes through each adapter to its reader.  ArenaStream leaves    *)
(* slot_error out, which changes nothing but what is written; here a slot  *)
(* may be told to have failed just before its slot_done.                   *)
(***************************************************************************)
EXTENDS ArenaStream, Wire

VARIABLES
  views,  \* per reader, its view
  chunks  \* what the OpenAI adapter keeps of the round

wired == <<views, chunks>>

Readers == {"hook", "surfaces", "ag-ui", "vercel", "bridge", "plain"}

\* The slots a reader has a column for.
Columns(r) == IF r = "plain" THEN {"A"} ELSE Visible

Receive(r, v, state, e) ==
  CASE r = "hook"     -> InTurn(HookReads, v, Sse(e))
    [] r = "surfaces" -> InTurn(SurfaceReads, v, A2ui(e))
    [] r = "ag-ui"    -> InTurn(AgUiReads, v, AgUi(e))
    [] r = "vercel"   -> InTurn(VercelReads, v, Vercel(e))
    [] r = "bridge"   -> InTurn(BridgeReads, v, OpenAi(state, e))
    [] r = "plain"    -> InTurn(PlainReads, v, OpenAi(state, e))

Received(from, state, e) == [r \in Readers |-> Receive(r, from[r], state, e)]

\* adapter.serialize, once per event.
Serialized(e) ==
  /\ chunks' = OpenAiAfter(chunks, e)
  /\ views' = Received(views, chunks', e)

\* A token of a slot, told apart from the other slot's.
Said(s, text) == [i \in DOMAIN text |-> <<s, text[i]>>]

\* toPublicEvent: a slot_done goes out without its text.
Public(e) == Event(e.type, e.slot, IF e.type = "token" THEN Said(e.slot, e.text) ELSE <<>>)

Started ==
  [type |-> "matchup_started", slots |-> IF "B" \in Visible THEN <<"A", "B">> ELSE <<"A">>]

\* streamRound writes matchup_started before it asks for an event.
WiredInit ==
  /\ Init
  /\ chunks = OpenAiAfter(OpenAiStart, Started)
  /\ views = Received([r \in Readers |-> NothingYet], chunks, Started)

\* The shadow handler keeps slot B from the wire.
WiredDeliver ==
  /\ Deliver
  /\ LET e == Head(queue) IN
     IF e.slot \in Visible \cup {None} THEN Serialized(Public(e)) ELSE UNCHANGED wired

SlotFails ==
  /\ Up /\ consumer = "reading" /\ queue # <<>>
  /\ LET e == Head(queue) IN
     /\ e.type = "slot_done"
     /\ e.slot \in Visible \ views["hook"].failures
     /\ Serialized(Event("slot_error", e.slot, <<>>))
  /\ UNCHANGED vars

WiredEnd ==
  /\ EndResponse
  /\ IF failed THEN Serialized(Event("run_error", None, <<>>)) ELSE UNCHANGED wired

WiredNext ==
  \/ (Generating \/ PersistFails \/ GeneratorFinally) /\ UNCHANGED <<out, wired>>
  \/ (Stop \/ Steer) /\ UNCHANGED <<out, wired>>
  \/ WiredDeliver \/ SlotFails \/ WiredEnd

WiredSpec == WiredInit /\ [][WiredNext]_<<vars, wired>> /\ Fairness

-----------------------------------------------------------------------------
\* A column without the mark of a failure, which nothing may follow.
Spoken(v, s) ==
  LET column == v.column[s] IN IF Marked \in Range(column) THEN Front(column) ELSE column

(* Every reader has one coherent answer per column, the same in every      *)
(* format (openai-sse.ts:28-43 tells of the adapter that spliced two       *)
(* models' tokens into one): only its own slot's tokens, all of them, in   *)
(* order, ending with the answer that is judged and equal to it unless the *)
(* round was steered, which no reader acts on.  It is finished exactly     *)
(* when the slot is, and the failures and the end it is told of are those  *)
(* of the round.                                                           *)
EveryReaderAgrees ==
  \A r \in Readers : LET v == views[r] IN
    /\ \A s \in Columns(r) :
         /\ Spoken(v, s) = Spoken(views["hook"], s)
         /\ IsSuffix(Said(s, wire[s]), Spoken(v, s))
         /\ accepted = 0 => Spoken(v, s) = Said(s, wire[s])
         /\ v.at[s] = "closed" <=> answer[s] # Absent
         /\ s \in views["hook"].failures =>
              s \in v.failures \/ Marked \in Range(v.column[s])
    /\ \A s \in Letters \ Columns(r) : v.column[s] = <<>>
    /\ v.end = "error" <=> over = "run_error"
    /\ over = "matchup_done" => v.end = "done" \/ \A s \in Columns(r) : v.at[s] = "closed"
====
