---------------------------- MODULE Conversation ----------------------------
(***************************************************************************)
(* The arena's persisted state and the handlers that share it: the chat    *)
(* handler (blind and shadow plans), which reads a conversation, opens a   *)
(* round and saves its answers, and the vote handler.  Handlers interleave *)
(* at every await; one SQL statement, or the inserts of one transaction up *)
(* to its COMMIT, is one step.  The database survives a server crash, the  *)
(* handlers in flight do not.                                              *)
(*                                                                         *)
(* A request that opens a round gives its name to the UUIDs it mints: the  *)
(* matchup, the turn and, when it is the first, the conversation.  A       *)
(* response row is named by its unique key <<matchup, slot>>.  Prompts and *)
(* answers are immaterial: the row stands for its content.  A `single`     *)
(* round touches none of this state and is left out.                       *)
(***************************************************************************)
EXTENDS Integers, Sequences, FiniteSets

CONSTANTS Requests,   \* POST /api/arena/chat calls
          Ballots,    \* POST /api/arena/vote calls
          Sessions,   \* anonymous session ids; one may stand for their absence
          Models,     \* the enabled roster
          Pairings,   \* the <<slot A, slot B>> pairs the matchmaker may seat
          PlanModes,  \* the plans the deployment serves that persist rounds
          None

ASSUME RequestsFinite == IsFiniteSet(Requests)
ASSUME PairingsDistinct ==
         Pairings \subseteq {p \in Models \X Models : p[1] # p[2]}
ASSUME PlanModesPersist == PlanModes \subseteq {"blind", "shadow"}
ASSUME NoneIsNoValue ==
         None \notin Requests \cup Sessions \cup Models
                       \cup (Requests \X {"A", "B"})

VARIABLES conversations,  \* conversation -> anonymous_session_id, or None
          turns,          \* round -> its matchups and turns rows
          responses,      \* the response rows present
          preferences,    \* round -> its preferences row
          pc,             \* request -> where its handler is, or how it ended
          input,          \* request -> the validated body
          context,        \* request -> the turn it is to open, and its parent
          history,        \* request -> the answers of the turns before, in order
          ballot          \* ballot -> the vote handler's locals

db   == <<conversations, turns, responses, preferences>>
vars == <<conversations, turns, responses, preferences,
          pc, input, context, history, ballot>>

Slots     == {"A", "B"}
\* both_good and both_bad are recorded exactly as skip is
Votes     == {"left", "right", "skip"}
Responses == Requests \X Slots

InFlight == {"create", "insert", "streaming"}
\* "idle": no call under this name, or the last one ended without a round and
\* left nothing; "conflict": answered 409; "error": answered 500 although the
\* round was committed; "ended": the round's stream is over
Places   == InFlight \cup {"idle", "ended", "conflict", "error"}

NoTurn  == [conv |-> None, index |-> 0, parent |-> None, mode |-> "blind",
            model |-> [s \in Slots |-> None]]
NoVote  == [vote |-> "none", winner |-> None, session |-> None]
NoInput == [conv |-> None, session |-> None, mode |-> "blind"]
FirstTurn == [index |-> 0, parent |-> None]
NoBallot  == [at |-> "idle", round |-> None, row |-> NoVote]

Saved(r) == turns[r].conv # None           \* the matchups row of r exists
Rows(c)  == {r \in Requests : turns[r].conv = c}
Voted(r) == preferences[r].vote # "none"

(***************************************************************************)
(* SQL joins.                                                              *)
(***************************************************************************)
\* LEFT JOIN responses winner ON winner.model_id = p.winner_model_id
WinnerOf(r) ==
  LET won == {s \in Slots : /\ <<r, s>> \in responses
                            /\ preferences[r].winner # None
                            /\ turns[r].model[s] = preferences[r].winner}
  IN  IF won = {} THEN None ELSE <<r, CHOOSE s \in won : TRUE>>

TurnAt(c, i) == CHOOSE r \in Rows(c) : turns[r].index = i
IsLatest(c, r) == /\ r \in Rows(c)
                  /\ \A q \in Rows(c) : turns[q].index =< turns[r].index

\* The winning answers of the first n turns, in order: the history a round
\* sends to both models.
Messages(c, n) == [i \in 1..n |-> WinnerOf(TurnAt(c, i - 1))]

Ready_Unvoted(c) == Rows(c) # {}
Ready(c) == Rows(c) # {} /\ \A r \in Rows(c) : WinnerOf(r) # None

\* isContinuable of the latest vote, as the vote reply and the conversation
\* route report it.
Continuable(c) == \E r \in Requests : /\ IsLatest(c, r)
                                      /\ preferences[r].vote \in {"left", "right"}

Init ==
  /\ conversations = [r \in Requests |-> None]
  /\ turns = [r \in Requests |-> NoTurn]
  /\ responses = {}
  /\ preferences = [r \in Requests |-> NoVote]
  /\ pc = [r \in Requests |-> "idle"]
  /\ input = [r \in Requests |-> NoInput]
  /\ context = [r \in Requests |-> FirstTurn]
  /\ history = [r \in Requests |-> << >>]
  /\ ballot = [b \in Ballots |-> NoBallot]

(***************************************************************************)
(* The chat handler.                                                       *)
(***************************************************************************)
Goto(r, place) ==
  /\ pc' = [pc EXCEPT ![r] = place]
  /\ UNCHANGED <<db, ballot>>

\* The handler ends without a round: its locals go, the client may call again.
GiveUp(r) ==
  /\ Goto(r, "idle")
  /\ input' = [input EXCEPT ![r] = NoInput]
  /\ context' = [context EXCEPT ![r] = FirstTurn]
  /\ history' = [history EXCEPT ![r] = << >>]

\* A body without conversationId: the handler mints one and has turn 0, no
\* parent and no history.
Open(r, s, m) ==
  /\ pc[r] = "idle"
  /\ input' = [input EXCEPT ![r] = [conv |-> r, session |-> s, mode |-> m]]
  /\ Goto(r, "insert")
  /\ UNCHANGED <<context, history>>

\* A body with a conversationId, up to its first read, getConversationContext.
\* No rows (404), another session (403) and a turn without a winner (409) are
\* answered at once and leave nothing, so they are not steps.
Owns_Anyone(s, c) == TRUE
Owns(s, c) == conversations[c] = s

ReadContext(r, s, m, c) ==
  /\ pc[r] = "idle"
  /\ Owns(s, c)
  /\ Ready(c)
  /\ \E latest \in Requests :
       /\ IsLatest(c, latest)
       /\ context' = [context EXCEPT ![r] =
            [index |-> turns[latest].index + 1, parent |-> WinnerOf(latest)]]
       /\ history' = [history EXCEPT ![r] = Messages(c, turns[latest].index + 1)]
  /\ input' = [input EXCEPT ![r] = [conv |-> c, session |-> s, mode |-> m]]
  /\ pc' = [pc EXCEPT ![r] = "create"]
  /\ UNCHANGED <<db, ballot>>

\* createMatchup, before its inserts: the newest turn must still be the one
\* the context was read from.
UpToDate_OneAhead(r) ==
  \E latest \in Requests :
    /\ IsLatest(input[r].conv, latest)
    /\ turns[latest].index = context[r].index
    /\ WinnerOf(latest) = context[r].parent

UpToDate(r) ==
  \E latest \in Requests :
    /\ IsLatest(input[r].conv, latest)
    /\ turns[latest].index = context[r].index - 1
    /\ WinnerOf(latest) = context[r].parent

CheckLatest(r) ==
  /\ pc[r] = "create"
  /\ \/ ~UpToDate(r) /\ Goto(r, "conflict")
     \/ UpToDate(r) /\ Goto(r, "insert")
  /\ UNCHANGED <<input, context, history>>

\* UNIQUE (conversation_id, turn_index) and UNIQUE (parent_response_id)
Unique_Unchecked(r) == TRUE
Unique(r) ==
  \A q \in Requests :
    /\ ~(turns[q].conv = input[r].conv /\ turns[q].index = context[r].index)
    /\ context[r].parent # None => turns[q].parent # context[r].parent

\* The inserts and COMMIT.  If the reply to COMMIT is lost the rows stay and
\* the caller is told 500.
Commit(r) ==
  /\ pc[r] = "insert"
  /\ Unique(r)
  /\ conversations' = IF context[r].index = 0
                        THEN [conversations EXCEPT ![r] = input[r].session]
                        ELSE conversations
  /\ \E p \in Pairings :
       turns' = [turns EXCEPT ![r] =
         [conv |-> input[r].conv, index |-> context[r].index,
          parent |-> context[r].parent, mode |-> input[r].mode,
          model |-> [s \in Slots |-> IF s = "A" THEN p[1] ELSE p[2]]]]
  /\ \E told \in {"streaming", "error"} : pc' = [pc EXCEPT ![r] = told]
  /\ UNCHANGED <<responses, preferences, input, context, history, ballot>>

RollBack(r) ==
  pc[r] = "insert" /\ ~Unique(r) /\ Goto(r, "conflict")
  /\ UNCHANGED <<input, context, history>>

\* A query rejects, the handler throws: 500.
QueryFails(r) == pc[r] \in {"create", "insert"} /\ GiveUp(r)

\* persist on slot_done: INSERT ... ON CONFLICT (matchup_id, slot) DO NOTHING
\* The stream is over when both slots are saved.
SaveResponse(r) ==
  /\ pc[r] = "streaming"
  /\ \E s \in Slots :
       /\ <<r, s>> \notin responses
       /\ responses' = responses \cup {<<r, s>>}
       /\ pc' = IF \A o \in Slots \ {s} : <<r, o>> \in responses
                  THEN [pc EXCEPT ![r] = "ended"] ELSE pc
  /\ UNCHANGED <<conversations, turns, preferences, input, context, history, ballot>>

\* Or before that, on a stop, a failed save or an error: the unfinished slots
\* are never saved.
CutStream(r) == pc[r] = "streaming" /\ Goto(r, "ended") /\ UNCHANGED <<input, context, history>>

(***************************************************************************)
(* The vote handler.                                                       *)
(***************************************************************************)
\* matchup_started carried the token: never for a shadow round, and not when
\* the handler failed before streaming.
TokenHeld(t) == Saved(t) /\ turns[t].mode = "blind" /\ pc[t] # "error"

\* The checks of a vote on matchup m with the token of round t.
Admits_AnyToken(t, m) == Saved(m)
Admits(t, m) == Saved(m) /\ turns[m].mode # "shadow" /\ t = m

Row_LeftOnly(t, m, v) ==
  [vote |-> v,
   winner |-> IF v = "left" THEN turns[m].model["A"] ELSE None,
   session |-> input[t].session]

Row(t, m, v) ==
  [vote |-> v,
   winner |-> CASE v = "left"  -> turns[m].model["A"]
                [] v = "right" -> turns[m].model["B"]
                [] OTHER -> None,
   session |-> input[t].session]

\* Token verified, getMatchup read, winner looked up.  A refused vote (401 for
\* a bad or expired token, 403, 404) changes nothing and is not a step.
AdmitVote(b) ==
  /\ ballot[b].at = "idle"
  /\ \E t, m \in Requests, v \in Votes :
       /\ TokenHeld(t)
       /\ Admits(t, m)
       /\ ballot' = [ballot EXCEPT ![b] =
                       [at |-> "insert", round |-> m, row |-> Row(t, m, v)]]
  /\ UNCHANGED <<db, pc, input, context, history>>

\* recordPreference, whose UNIQUE (matchup_id) makes the second vote a 409.
RecordPreference_Upsert(b) ==
  /\ ballot[b].at = "insert"
  /\ preferences' = [preferences EXCEPT ![ballot[b].round] = ballot[b].row]
  /\ ballot' = [ballot EXCEPT ![b].at = "accepted"]
  /\ UNCHANGED <<conversations, turns, responses, pc, input, context, history>>

\* If the reply to the INSERT is lost the row stays and the voter is told 500.
RecordPreference(b) ==
  /\ ballot[b].at = "insert"
  /\ ~Voted(ballot[b].round)
  /\ preferences' = [preferences EXCEPT ![ballot[b].round] = ballot[b].row]
  /\ \/ ballot' = [ballot EXCEPT ![b].at = "accepted"]
     \/ ballot' = [ballot EXCEPT ![b] = NoBallot]
  /\ UNCHANGED <<conversations, turns, responses, pc, input, context, history>>

\* A duplicate (409) or a failed query (500).
VoteFails(b) ==
  /\ ballot[b].at = "insert"
  /\ ballot' = [ballot EXCEPT ![b] = NoBallot]
  /\ UNCHANGED <<db, pc, input, context, history>>

\* The server process dies and comes back: only the tables survive.
Crash ==
  LET lost == {r \in Requests : pc[r] \in {"create", "insert"}} IN
  /\ \/ \E r \in Requests : pc[r] \in InFlight
     \/ \E b \in Ballots : ballot[b].at = "insert"
  /\ pc' = [r \in Requests |-> CASE r \in lost -> "idle"
                                 [] pc[r] = "streaming" -> "ended"
                                 [] OTHER -> pc[r]]
  /\ input' = [r \in Requests |-> IF r \in lost THEN NoInput ELSE input[r]]
  /\ context' = [r \in Requests |-> IF r \in lost THEN FirstTurn ELSE context[r]]
  /\ history' = [r \in Requests |-> IF r \in lost THEN << >> ELSE history[r]]
  /\ ballot' = [b \in Ballots |->
                  IF ballot[b].at = "insert" THEN NoBallot ELSE ballot[b]]
  /\ UNCHANGED db

ChatStep(r) == \/ \E s \in Sessions, m \in PlanModes :
                    \/ Open(r, s, m)
                    \/ \E c \in Requests : ReadContext(r, s, m, c)
               \/ CheckLatest(r) \/ Commit(r) \/ RollBack(r) \/ QueryFails(r)
               \/ SaveResponse(r) \/ CutStream(r)
VoteStep(b) == AdmitVote(b) \/ RecordPreference(b) \/ VoteFails(b)

Next == \/ \E r \in Requests : ChatStep(r)
        \/ \E b \in Ballots : VoteStep(b)
        \/ Crash

Spec == Init /\ [][Next]_vars

(***************************************************************************)
(* Properties.                                                             *)
(***************************************************************************)
Preference == [vote : Votes \cup {"none"}, winner : Models \cup {None},
               session : Sessions \cup {None}]

\* Every variable keeps the shape of its table or of the handler's locals.
TypeOK ==
  /\ conversations \in [Requests -> Sessions \cup {None}]
  /\ turns \in [Requests -> [conv : Requests \cup {None}, index : Nat,
                             parent : Responses \cup {None}, mode : {"blind", "shadow"},
                             model : [Slots -> Models \cup {None}]]]
  /\ responses \subseteq Responses
  /\ preferences \in [Requests -> Preference]
  /\ pc \in [Requests -> Places]
  /\ input \in [Requests -> [conv : Requests \cup {None},
                             session : Sessions \cup {None}, mode : {"blind", "shadow"}]]
  /\ context \in [Requests -> [index : Nat, parent : Responses \cup {None}]]
  /\ DOMAIN history = Requests
  /\ \A r \in Requests :
       history[r] \in [1..context[r].index -> Responses \cup {None}]
  /\ ballot \in [Ballots -> [at : {"idle", "insert", "accepted"},
                             round : Requests \cup {None}, row : Preference]]

\* A conversation is one line of turns: no index is taken twice, however many
\* requests continue it at once, and every turn after the first was built on
\* the response that the vote on the turn just before it chose.
LinearThread ==
  \A r \in Requests : Saved(r) =>
    /\ \A q \in Rows(turns[r].conv) : turns[q].index = turns[r].index => q = r
    /\ turns[r].index > 0 =>
         \E p \in Rows(turns[r].conv) :
           /\ turns[p].index + 1 = turns[r].index
           /\ WinnerOf(p) # None
           /\ WinnerOf(p) = turns[r].parent

\* The history a round sent to its models, read from the database several
\* awaits before its row was inserted, is and stays the voted history of the
\* turns before it: no later vote, answer or turn makes it stale.
HistoryIsThread ==
  \A r \in Requests : Saved(r) =>
    history[r] = Messages(turns[r].conv, turns[r].index)

\* An accepted vote is the recorded one, and at most one vote on a round is
\* accepted, whatever the voters read before they inserted.
OneVoteCounts ==
  \A b \in Ballots : ballot[b].at = "accepted" =>
    /\ preferences[ballot[b].round] = ballot[b].row
    /\ \A d \in Ballots \ {b} :
         ~(ballot[d].at = "accepted" /\ ballot[d].round = ballot[b].round)

\* A preference is credited to the session that owns the conversation, on a
\* blind round, for one of the two models that answered it.
VoteCredited ==
  \A r \in Requests : Voted(r) =>
    /\ Saved(r) /\ turns[r].mode = "blind"
    /\ preferences[r].session = conversations[turns[r].conv]
    /\ preferences[r].winner \in {None} \cup {turns[r].model[s] : s \in Slots}

\* Only the session that opened a conversation ever adds a turn to it.
OwnerContinues ==
  \A r \in Requests : Saved(r) => input[r].session = conversations[turns[r].conv]

\* 409 conversation_conflict is answered only when another request really took
\* the turn this one was about to take.
ConflictIsReal ==
  \A r \in Requests : pc[r] = "conflict" =>
    \E q \in Rows(input[r].conv) : q # r /\ turns[q].index = context[r].index

\* When both answers of every turn were saved, the chat route accepts the next
\* turn exactly when the vote reply and the conversation route say it may.
SavedThreadContinuable ==
  \A c \in Requests :
    (Rows(c) # {} /\ \A r \in Rows(c) : \A s \in Slots : <<r, s>> \in responses)
      => (Ready(c) <=> Continuable(c))

\* What a client is told of a conversation holds: a conflict that it lost, and
\* of a round that was saved whole whether it may go on.
RepliesAreTrue == ConflictIsReal /\ SavedThreadContinuable

\* What the vote reply says of `continuable` is what the chat route will do.
ContinuableIsAccepted == \A c \in Requests : Continuable(c) => Ready(c)

(***************************************************************************)
(* The tables implement an append-only chain of rounds.                    *)
(***************************************************************************)
ThreadOf(c) == [i \in 1..Cardinality(Rows(c)) |->
                  [round |-> TurnAt(c, i - 1), winner |-> WinnerOf(TurnAt(c, i - 1))]]

AbstractThread == INSTANCE Thread WITH
                    Conversations <- Requests, Rounds <- Requests,
                    owner <- conversations, thread <- [c \in Requests |-> ThreadOf(c)]

\* Votes, answers, crashes and racing requests only ever append a round to a
\* chain whose rounds all have a winner, or settle the winner of the last one.
ImplementsThread == AbstractThread!Spec
=============================================================================
