---- MODULE Wire ----
(***************************************************************************)
(* The wire formats: what each protocol adapter writes for an event of a   *)
(* round, and what a reader of that protocol puts together from it.  Frame *)
(* syntax is left out; which message, part or choice a text goes to is     *)
(* what tells the formats apart.                                           *)
(*                                                                         *)
(* A view is what a reader holds: per slot its column (tokens, and Marked  *)
(* where a failure was told in the text), where the column is, the slots   *)
(* told to have failed, and how the run ended for it.                      *)
(***************************************************************************)
EXTENDS Sequences, SequencesExt

Slot == {"A", "B"}
Nobody == "none"
Marked == <<Nobody, 0>>   \* the text that tells of a failure, a token of no model

NothingYet ==
  [column |-> [s \in Slot |-> <<>>], at |-> [s \in Slot |-> "unknown"],
   failures |-> {}, end |-> "none"]

Part(type, slot, text) == [type |-> type, slot |-> slot, text |-> text]

Opens(v, s)      == [v EXCEPT !.at[s] = "open"]
Hears(v, s, txt) == [v EXCEPT !.column[s] = @ \o txt]
Closes(v, s)     == [v EXCEPT !.at[s] = "closed"]
Fails(v, s)      == [v EXCEPT !.failures = @ \cup {s}]
Settles(v, how)  == [v EXCEPT !.end = how]

\* A reader takes the parts of an event one by one; none has more than four.
InTurn(Read(_, _), v, parts) ==
  LET Next(w, n) == IF n \in DOMAIN parts THEN Read(w, parts[n]) ELSE w
  IN Next(Next(Next(Next(v, 1), 2), 3), 4)

-----------------------------------------------------------------------------
(* Native SSE and A2UI name the slot in every event; the hook of the React *)
(* SDK takes the former.  Neither it nor any reader below acts on steered. *)

Sse(e) ==
  IF e.type = "matchup_started"
  THEN [i \in DOMAIN e.slots |-> Part(e.type, e.slots[i], <<>>)]
  ELSE <<e>>

HookReads(v, p) ==
  CASE p.type = "matchup_started" -> Opens(v, p.slot)
    [] p.type = "token"           -> Hears(v, p.slot, p.text)
    [] p.type = "slot_error"      -> Fails(v, p.slot)
    [] p.type = "slot_done"       -> Closes(v, p.slot)
    [] p.type = "run_error"       -> Settles(v, "error")
    [] p.type = "matchup_done"    -> Settles(v, "done")
    [] OTHER                      -> v

A2uiKind ==
  [matchup_started |-> "surface_init", token |-> "text_append", slot_error |-> "error",
   slot_done |-> "surface_done", steered |-> "steered", run_error |-> "session_error",
   matchup_done |-> "session_done"]

A2ui(e) ==
  IF e.type = "matchup_started"
  THEN [i \in DOMAIN e.slots |-> Part("surface_init", e.slots[i], <<>>)]
  ELSE <<Part(A2uiKind[e.type], e.slot, e.text)>>

SurfaceReads(v, p) ==
  CASE p.type = "surface_init"  -> Opens(v, p.slot)
    [] p.type = "text_append"   -> Hears(v, p.slot, p.text)
    [] p.type = "error"         -> Fails(v, p.slot)
    [] p.type = "surface_done"  -> Closes(v, p.slot)
    [] p.type = "session_error" -> Settles(v, "error")
    [] p.type = "session_done"  -> Settles(v, "done")
    [] OTHER                    -> v

-----------------------------------------------------------------------------
(* AG-UI: one message per slot, its id naming the slot.  Runtimes drop     *)
(* CUSTOM events, and text for a message that is not open.                 *)

AgUi(e) ==
  CASE e.type = "matchup_started" ->
         <<Part("RUN_STARTED", Nobody, <<>>), Part("CUSTOM", Nobody, <<>>)>>
           \o [i \in DOMAIN e.slots |-> Part("TEXT_MESSAGE_START", e.slots[i], <<>>)]
    [] e.type = "token"        -> <<Part("TEXT_MESSAGE_CONTENT", e.slot, e.text)>>
    [] e.type = "slot_error"   -> <<Part("CUSTOM", e.slot, <<>>),
                                    Part("TEXT_MESSAGE_CONTENT", e.slot, <<Marked>>)>>
    [] e.type = "slot_done"    -> <<Part("TEXT_MESSAGE_END", e.slot, <<>>)>>
    [] e.type = "steered"      -> <<Part("CUSTOM", Nobody, <<>>)>>
    [] e.type = "run_error"    -> <<Part("RUN_ERROR", Nobody, <<>>)>>
    [] e.type = "matchup_done" -> <<Part("RUN_FINISHED", Nobody, <<>>)>>

AgUiReads(v, p) ==
  CASE p.type = "TEXT_MESSAGE_START" -> Opens(v, p.slot)
    [] p.type = "TEXT_MESSAGE_CONTENT" /\ v.at[p.slot] = "open" ->
         IF p.text = <<Marked>> THEN Fails(Hears(v, p.slot, p.text), p.slot)
         ELSE Hears(v, p.slot, p.text)
    [] p.type = "TEXT_MESSAGE_END" -> Closes(v, p.slot)
    [] p.type = "RUN_ERROR"        -> Settles(v, "error")
    [] p.type = "RUN_FINISHED"     -> Settles(v, "done")
    [] OTHER                       -> v

-----------------------------------------------------------------------------
(* Vercel AI: slot A is the message's text part, slot B rides data parts.  *)

Vercel(e) ==
  CASE e.type = "matchup_started" ->
         <<Part("start", Nobody, <<>>),
           Part("data-arena-meta", IF "B" \in Range(e.slots) THEN "B" ELSE Nobody, <<>>),
           Part("text-start", Nobody, <<>>)>>
    [] e.type = "token" /\ e.slot = "A" -> <<Part("text-delta", Nobody, e.text)>>
    [] e.type = "token" /\ e.slot = "B" -> <<Part("data-arena-b-delta", Nobody, e.text)>>
    [] e.type = "slot_error"            -> <<Part("data-arena-error", e.slot, <<>>)>>
    [] e.type = "slot_done" /\ e.slot = "A" -> <<Part("text-end", Nobody, <<>>)>>
    [] e.type = "slot_done" /\ e.slot = "B" -> <<Part("data-arena-b-done", Nobody, <<>>)>>
    [] e.type = "steered"               -> <<Part("data-arena-steered", Nobody, <<>>)>>
    [] e.type = "run_error"             -> <<Part("error", Nobody, <<>>)>>
    [] e.type = "matchup_done"          -> <<Part("finish", Nobody, <<>>)>>

\* useChat, and readArenaMatchup over the parts it keeps.
VercelReads(v, p) ==
  CASE p.type = "text-start"         -> Opens(v, "A")
    [] p.type = "data-arena-meta" /\ p.slot = "B" -> Opens(v, "B")
    [] p.type = "text-delta" /\ v.at["A"] = "open" -> Hears(v, "A", p.text)
    [] p.type = "data-arena-b-delta" -> Hears(v, "B", p.text)
    [] p.type = "data-arena-error"   -> Fails(v, p.slot)
    [] p.type = "text-end"           -> Closes(v, "A")
    [] p.type = "data-arena-b-done"  -> Closes(v, "B")
    [] p.type = "error"              -> Settles(v, "error")
    [] p.type = "finish"             -> Settles(v, "done")
    [] OTHER                         -> v

-----------------------------------------------------------------------------
(* OpenAI: a chunk is a snapshot of every active slot.  The adapter keeps  *)
(* [slots, finished]; a finished slot keeps its finish_reason.             *)

OpenAiStart == [slots |-> <<"A", "B">>, finished |-> {}]

OpenAiAfter(state, e) ==
  CASE e.type = "matchup_started" -> [state EXCEPT !.slots = e.slots]
    [] e.type = "slot_done"       -> [state EXCEPT !.finished = @ \cup {e.slot}]
    [] OTHER                      -> state

Choice(state, slot, text) ==
  [index |-> slot, content |-> text, stop |-> slot \in state.finished]

\* What the adapter did before: one choice per frame, its index naming the slot.
Chunk_OneChoice(state, slot, text, failure) ==
  <<[type |-> "chunk", failure |-> failure,
     choices |-> IF slot = Nobody THEN <<>> ELSE <<Choice(state, slot, text)>>]>>

Chunk(state, slot, text, failure) ==
  <<[type |-> "chunk", failure |-> failure,
     choices |-> [i \in DOMAIN state.slots |->
       Choice(state, state.slots[i], IF state.slots[i] = slot THEN text ELSE <<>>)]]>>

OpenAi(state, e) ==
  CASE e.type = "token"        -> Chunk(state, e.slot, e.text, Nobody)
    [] e.type = "slot_error"   -> Chunk(state, e.slot, <<Marked>>, e.slot)
    [] e.type = "slot_done"    -> Chunk(state, e.slot, <<>>, Nobody)
    [] e.type \in {"matchup_started", "steered"} -> Chunk(state, Nobody, <<>>, Nobody)
    [] e.type = "run_error"    -> <<[type |-> "error"]>>
    [] e.type = "matchup_done" -> <<>>

ChoiceRead(v, c) ==
  LET heard == Hears(v, c.index, IF c.content = <<Marked>> THEN <<>> ELSE c.content)
  IN IF c.stop THEN Closes(heard, c.index) ELSE heard

(* The bridge reads choices by index and leaves the marked text out.  It   *)
(* has no event for the end of the run but that of its last slot.          *)
BridgeReads(v, p) ==
  IF p.type = "error" THEN Settles(v, "error")
  ELSE InTurn(ChoiceRead, IF p.failure = Nobody THEN v ELSE Fails(v, p.failure), p.choices)

\* Any other OpenAI client takes the text of choices[0], whatever its index.
PlainReads(v, p) ==
  IF p.type = "error" THEN Settles(v, "error")
  ELSE IF p.choices = <<>> THEN v
  ELSE LET c == p.choices[1]
           heard == Hears(v, "A", c.content)
       IN IF c.stop THEN Closes(heard, "A") ELSE heard
====
