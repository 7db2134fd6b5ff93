------------------------ MODULE Conversation_proofs ------------------------
(***************************************************************************)
(* The safety of Conversation for every set of requests, ballots, sessions *)
(* and models.                                                             *)
(***************************************************************************)
EXTENDS Conversation, FiniteSetTheorems, SequenceTheorems, WellFoundedInduction, TLAPS

(***************************************************************************)
(* The inductive invariant.                                                *)
(***************************************************************************)
Opening(r) == pc[r] \in {"create", "insert"}   \* before its rows are committed

\* Rows of a round: written by its own handler, from what it was asked and what
\* it read; a first turn opens its own conversation.
RowsOfRequest ==
  \A r \in Requests :
    /\ pc[r] = "idle" \/ pc[r] = "conflict" \/ Opening(r) => ~Saved(r)
    /\ Saved(r) => /\ turns[r].conv = input[r].conv
                   /\ turns[r].index = context[r].index
                   /\ turns[r].parent = context[r].parent
                   /\ turns[r].model["A"] # turns[r].model["B"]
    /\ Saved(r) \/ Opening(r) =>
         /\ input[r].conv \in Requests
         /\ input[r].session \in Sessions
         /\ context[r].index = 0 <=> input[r].conv = r
    /\ pc[r] = "idle" => context[r].index = 0 /\ history[r] = << >>

\* The turns of c numbered 0 to n - 1 are all there, each with its winner.
Settled(c, n) ==
  \A i \in 0..(n - 1) : \E q \in Rows(c) : turns[q].index = i /\ WinnerOf(q) # None

\* What a handler read is still true: of the conversation it opens a turn of,
\* and, once its row is there, of the turn.
TrueRead(r) ==
  LET c == input[r].conv IN
  /\ Settled(c, context[r].index)
  /\ history[r] = Messages(c, context[r].index)
  /\ context[r].index > 0 =>
       \E p \in Rows(c) : /\ turns[p].index + 1 = context[r].index
                          /\ WinnerOf(p) # None
                          /\ WinnerOf(p) = context[r].parent

Live(r) == Saved(r) \/ Opening(r)

ReadIsTrue == \A r \in Requests : Live(r) => TrueRead(r)

OwnedRows ==
  \A r \in Requests :
    /\ Saved(r) \/ (Opening(r) /\ context[r].index > 0) =>
         conversations[input[r].conv] = input[r].session
    /\ conversations[r] # None => Saved(r)

UniqueTurns ==
  \A r, q \in Requests :
    (Saved(r) /\ turns[q].conv = turns[r].conv /\ turns[q].index = turns[r].index)
      => q = r

\* A preferences row that may be written for round r.
Votable(r, row) ==
  /\ Saved(r) /\ turns[r].mode = "blind"
  /\ row.vote # "none"
  /\ row.session = conversations[turns[r].conv]
  /\ row.winner \in {None} \cup {turns[r].model[s] : s \in Slots}

RecordedVotes ==
  \A r \in Requests : /\ Voted(r) => Votable(r, preferences[r])
                      /\ ~Voted(r) => preferences[r].winner = None

VotesUnderWay ==
  \A b \in Ballots : ballot[b].at # "idle" =>
    /\ ballot[b].round \in Requests
    /\ Votable(ballot[b].round, ballot[b].row)

VotesOfRows == RecordedVotes /\ VotesUnderWay /\ OneVoteCounts

IndInv == TypeOK /\ RowsOfRequest /\ ReadIsTrue /\ OwnedRows /\ UniqueTurns /\ VotesOfRows

USE NoneIsNoValue

(***************************************************************************)
(* Types.                                                                  *)
(***************************************************************************)
\* The winner join yields the response row of the round's winning model, if any.
LEMMA WinnerRow ==
  ASSUME NEW r, WinnerOf(r) # None
  PROVE  \E s \in Slots : /\ <<r, s>> \in responses
                          /\ preferences[r].winner # None
                          /\ turns[r].model[s] = preferences[r].winner
                          /\ WinnerOf(r) = <<r, s>>
<1> DEFINE won == {s \in Slots : /\ <<r, s>> \in responses
                                 /\ preferences[r].winner # None
                                 /\ turns[r].model[s] = preferences[r].winner}
<1>1. won # {} /\ WinnerOf(r) = <<r, CHOOSE s \in won : TRUE>>
  BY DEF WinnerOf
<1>2. (CHOOSE s \in won : TRUE) \in won
  BY <1>1
<1> QED BY <1>1, <1>2

LEMMA WinnerType ==
  ASSUME TypeOK, NEW r PROVE WinnerOf(r) \in Responses \cup {None}
BY WinnerRow DEF TypeOK

\* Opening a round writes one well-typed row and nothing else that matters.
LEMMA TypeInit == Init => TypeOK
BY DEF Init, TypeOK, NoTurn, NoVote, NoInput, FirstTurn, NoBallot, Preference,
       Places, Slots, Votes

\* Every chat step keeps the shape of the tables and of the handler's locals.
LEMMA TypeChat ==
  ASSUME TypeOK, NEW r \in Requests, ChatStep(r) PROVE TypeOK'
<1> USE DEF TypeOK, Goto, db, Places, InFlight
<1>1. ASSUME NEW s \in Sessions, NEW m \in PlanModes, Open(r, s, m)
      PROVE  TypeOK'
  <2>2. input' \in [Requests -> [conv : Requests \cup {None},
                                 session : Sessions \cup {None},
                                 mode : {"blind", "shadow"}]]
    BY <1>1, PlanModesPersist DEF Open
  <2> QED BY <1>1, <2>2 DEF Open
<1>2. ASSUME NEW s \in Sessions, NEW m \in PlanModes, NEW c \in Requests,
             ReadContext(r, s, m, c)
      PROVE  TypeOK'
  <2>1. PICK latest \in Requests :
          /\ context' = [context EXCEPT ![r] =
               [index |-> turns[latest].index + 1, parent |-> WinnerOf(latest)]]
          /\ history' = [history EXCEPT ![r] = Messages(c, turns[latest].index + 1)]
    BY <1>2, Zenon DEF ReadContext
  <2>2. input' \in [Requests -> [conv : Requests \cup {None},
                                 session : Sessions \cup {None},
                                 mode : {"blind", "shadow"}]]
    BY <1>2, PlanModesPersist DEF ReadContext
  <2>3. turns[latest].index + 1 \in Nat
    OBVIOUS
  <2>4. WinnerOf(latest) \in Responses \cup {None}
    BY WinnerType
  <2>5. context' \in [Requests -> [index : Nat, parent : Responses \cup {None}]]
    BY <2>1, <2>3, <2>4
  <2>6. Messages(c, turns[latest].index + 1)
          \in [1..(turns[latest].index + 1) -> Responses \cup {None}]
    <3>1. \A i \in 1..(turns[latest].index + 1) :
             WinnerOf(TurnAt(c, i - 1)) \in Responses \cup {None}
      BY WinnerType
    <3> QED BY <3>1 DEF Messages
  <2>7. DOMAIN history' = Requests
    BY <2>1
  <2>8. ASSUME NEW q \in Requests
        PROVE  history'[q] \in [1..context'[q].index -> Responses \cup {None}]
    <3>1. CASE q = r
      BY <3>1, <2>1, <2>6
    <3>2. CASE q # r
      BY <3>2, <2>1
    <3> QED BY <3>1, <3>2
  <2> QED BY <1>2, <2>2, <2>5, <2>7, <2>8 DEF ReadContext
<1>3. CASE CheckLatest(r)
  BY <1>3 DEF CheckLatest
<1>4. CASE Commit(r)
  <2>1. input[r].session \in Sessions \cup {None}
    OBVIOUS
  <2>2. conversations' \in [Requests -> Sessions \cup {None}]
    BY <1>4, <2>1 DEF Commit
  <2>3. PICK p \in Pairings :
          turns' = [turns EXCEPT ![r] =
            [conv |-> input[r].conv, index |-> context[r].index,
             parent |-> context[r].parent, mode |-> input[r].mode,
             model |-> [s \in Slots |-> IF s = "A" THEN p[1] ELSE p[2]]]]
    BY <1>4 DEF Commit
  <2>4. [s \in Slots |-> IF s = "A" THEN p[1] ELSE p[2]] \in [Slots -> Models \cup {None}]
    BY PairingsDistinct
  <2>5. turns' \in [Requests -> [conv : Requests \cup {None}, index : Nat,
                                parent : Responses \cup {None},
                                mode : {"blind", "shadow"},
                                model : [Slots -> Models \cup {None}]]]
    BY <2>3, <2>4
  <2>6. pc' \in [Requests -> Places]
    BY <1>4 DEF Commit
  <2> QED BY <1>4, <2>2, <2>5, <2>6 DEF Commit
<1>5. CASE RollBack(r)
  BY <1>5 DEF RollBack
<1>6. CASE QueryFails(r)
  BY <1>6 DEF QueryFails, GiveUp, NoInput, FirstTurn
<1>7. CASE SaveResponse(r)
  BY <1>7 DEF SaveResponse, Responses
<1>8. CASE CutStream(r)
  BY <1>8 DEF CutStream
<1> QED BY <1>1, <1>2, <1>3, <1>4, <1>5, <1>6, <1>7, <1>8 DEF ChatStep

\* So does every vote step.
LEMMA TypeVote ==
  ASSUME TypeOK, NEW b \in Ballots, VoteStep(b) PROVE TypeOK'
<1> USE DEF TypeOK, db
<1>1. CASE AdmitVote(b)
  <2>1. PICK t \in Requests, m \in Requests, v \in Votes :
          ballot' = [ballot EXCEPT ![b] =
                       [at |-> "insert", round |-> m, row |-> Row(t, m, v)]]
    BY <1>1 DEF AdmitVote
  <2>2. Row(t, m, v) \in Preference
    BY DEF Row, Preference, Slots
  <2>3. ballot' \in [Ballots -> [at : {"idle", "insert", "accepted"},
                                 round : Requests \cup {None}, row : Preference]]
    BY <2>1, <2>2
  <2> QED BY <1>1, <2>3 DEF AdmitVote
<1>2. CASE RecordPreference(b)
  <2>1. preferences' \in [Requests -> Preference]
    BY <1>2 DEF RecordPreference
  <2>2. ballot' \in [Ballots -> [at : {"idle", "insert", "accepted"},
                                 round : Requests \cup {None}, row : Preference]]
    <3>1. CASE ballot' = [ballot EXCEPT ![b].at = "accepted"]
      <4> DEFINE Ballot == [at : {"idle", "insert", "accepted"},
                             round : Requests \cup {None}, row : Preference]
      <4>1. ballot \in [Ballots -> Ballot]
        OBVIOUS
      <4> HIDE DEF TypeOK
      <4>2. [ballot[b] EXCEPT !.at = "accepted"] \in Ballot
        BY <4>1
      <4>3. ballot' = [ballot EXCEPT ![b] = [ballot[b] EXCEPT !.at = "accepted"]]
        BY <3>1
      <4> HIDE DEF Ballot
      <4>4. ballot' \in [Ballots -> Ballot]
        BY <4>1, <4>2, <4>3
      <4> QED BY <4>4 DEF Ballot
    <3>2. CASE ballot' = [ballot EXCEPT ![b] = NoBallot]
      <4>1. NoVote \in Preference
        BY DEF NoVote, Preference
      <4> QED BY <3>2, <4>1 DEF NoBallot
    <3> QED BY <1>2, <3>1, <3>2 DEF RecordPreference
  <2> QED BY <1>2, <2>1, <2>2 DEF RecordPreference
<1>3. CASE VoteFails(b)
  BY <1>3 DEF VoteFails, NoBallot, NoVote, Preference
<1> QED BY <1>1, <1>2, <1>3 DEF VoteStep

\* And a crash.
LEMMA TypeCrash == ASSUME TypeOK, Crash PROVE TypeOK'
<1> USE DEF TypeOK, db, Crash
<1>1. pc' \in [Requests -> Places]
  BY DEF Places, InFlight
<1>2. input' \in [Requests -> [conv : Requests \cup {None},
                               session : Sessions \cup {None},
                               mode : {"blind", "shadow"}]]
  BY DEF NoInput
<1>3. context' \in [Requests -> [index : Nat, parent : Responses \cup {None}]]
  BY DEF FirstTurn
<1>4. \A r \in Requests :
        history'[r] \in [1..context'[r].index -> Responses \cup {None}]
  BY DEF FirstTurn
<1>5. ballot' \in [Ballots -> [at : {"idle", "insert", "accepted"},
                               round : Requests \cup {None}, row : Preference]]
  BY DEF NoBallot, NoVote, Preference
<1> QED BY <1>1, <1>2, <1>3, <1>4, <1>5

\* The tables and the handlers' locals always have their declared shape.
THEOREM TypeCorrect == Spec => []TypeOK
<1>1. TypeOK /\ [Next]_vars => TypeOK'
  BY TypeChat, TypeVote, TypeCrash DEF Next, vars, TypeOK
<1> QED BY <1>1, TypeInit, PTL DEF Spec

(***************************************************************************)
(* What no step undoes: a row, an answer, a vote, an owner.                *)
(***************************************************************************)
Kept ==
  /\ \A r \in Requests : Saved(r) => turns'[r] = turns[r]
  /\ responses \subseteq responses'
  /\ \A r \in Requests : Voted(r) => preferences'[r] = preferences[r]
  /\ \A c \in Requests : conversations[c] # None => conversations'[c] = conversations[c]

LEMMA StepKeeps == ASSUME IndInv, [Next]_vars PROVE Kept
<1> USE DEF Kept, db, Goto
<1>1. ASSUME NEW r \in Requests, NEW s \in Sessions, NEW m \in PlanModes, Open(r, s, m)
      PROVE  Kept
  BY <1>1 DEF Open
<1>2. ASSUME NEW r \in Requests, NEW s \in Sessions, NEW m \in PlanModes,
             NEW c \in Requests, ReadContext(r, s, m, c)
      PROVE  Kept
  BY <1>2 DEF ReadContext
<1>3. ASSUME NEW r \in Requests, CheckLatest(r) PROVE Kept
  BY <1>3 DEF CheckLatest
<1>4. ASSUME NEW r \in Requests, Commit(r) PROVE Kept
  <2>1. ~Saved(r) /\ conversations[r] = None
    BY <1>4 DEF Commit, IndInv, RowsOfRequest, OwnedRows, Opening
  <2>2. \A q \in Requests : q # r => turns'[q] = turns[q]
    BY <1>4 DEF Commit, IndInv, TypeOK
  <2>3. \A c \in Requests : c # r => conversations'[c] = conversations[c]
    BY <1>4 DEF Commit, IndInv, TypeOK
  <2> QED BY <1>4, <2>1, <2>2, <2>3 DEF Commit
<1>5. ASSUME NEW r \in Requests, RollBack(r) PROVE Kept
  BY <1>5 DEF RollBack
<1>6. ASSUME NEW r \in Requests, QueryFails(r) PROVE Kept
  BY <1>6 DEF QueryFails, GiveUp
<1>7. ASSUME NEW r \in Requests, SaveResponse(r) PROVE Kept
  BY <1>7 DEF SaveResponse
<1>8. ASSUME NEW r \in Requests, CutStream(r) PROVE Kept
  BY <1>8 DEF CutStream
<1>9. ASSUME NEW b \in Ballots, AdmitVote(b) PROVE Kept
  BY <1>9 DEF AdmitVote
<1>10. ASSUME NEW b \in Ballots, RecordPreference(b) PROVE Kept
  BY <1>10 DEF RecordPreference, IndInv, TypeOK
<1>11. ASSUME NEW b \in Ballots, VoteFails(b) PROVE Kept
  BY <1>11 DEF VoteFails
<1>12. CASE Crash
  BY <1>12 DEF Crash
<1>13. CASE UNCHANGED vars
  BY <1>13 DEF vars
<1> QED BY <1>1, <1>2, <1>3, <1>4, <1>5, <1>6, <1>7, <1>8, <1>9, <1>10, <1>11,
           <1>12, <1>13 DEF Next, ChatStep, VoteStep

\* A winner, once there, stays: the vote is final and the other slot's answer
\* is another model's.
LEMMA WinnerKept ==
  ASSUME IndInv, Kept, NEW r \in Requests, Saved(r), WinnerOf(r) # None
  PROVE  WinnerOf(r)' = WinnerOf(r)
<1>1. PICK s \in Slots : /\ <<r, s>> \in responses
                         /\ preferences[r].winner # None
                         /\ turns[r].model[s] = preferences[r].winner
                         /\ WinnerOf(r) = <<r, s>>
  BY WinnerRow
<1>2. turns'[r] = turns[r] /\ preferences'[r] = preferences[r]
  BY <1>1 DEF Kept, IndInv, VotesOfRows, RecordedVotes
<1>3. turns[r].model["A"] # turns[r].model["B"]
  BY DEF IndInv, RowsOfRequest
<1>4. {x \in Slots : /\ <<r, x>> \in responses'
                     /\ preferences[r].winner # None
                     /\ turns[r].model[x] = preferences[r].winner} = {s}
  BY <1>1, <1>3 DEF Kept, Slots
<1>5. (CHOOSE x \in {s} : TRUE) = s
  OBVIOUS
<1> QED BY <1>1, <1>2, <1>4, <1>5 DEF WinnerOf

\* A row keeps its place in its conversation.
LEMMA RowKept ==
  ASSUME IndInv, Kept, NEW c \in Requests, NEW q \in Rows(c)
  PROVE  q \in Rows(c)' /\ turns'[q] = turns[q]
BY NoneIsNoValue DEF Kept, Rows, Saved

LEMMA TurnAtIs ==
  ASSUME UniqueTurns, NEW c \in Requests, NEW q \in Rows(c)
  PROVE  TurnAt(c, turns[q].index) = q
<1>1. \A p \in Rows(c) : turns[p].index = turns[q].index => p = q
  BY NoneIsNoValue DEF UniqueTurns, Rows, Saved
<1> QED BY <1>1 DEF TurnAt

\* What was read of the first n turns of c stays what is there to be read.
LEMMA HistoryKept ==
  ASSUME IndInv, Kept, UniqueTurns', NEW c \in Requests, NEW n \in Nat, Settled(c, n)
  PROVE  Settled(c, n)' /\ Messages(c, n)' = Messages(c, n)
<1>1. ASSUME NEW i \in 0..(n - 1)
      PROVE  /\ \E q \in Rows(c)' : turns'[q].index = i /\ WinnerOf(q)' # None
             /\ WinnerOf(TurnAt(c, i))' = WinnerOf(TurnAt(c, i))
  <2>1. PICK q \in Rows(c) : turns[q].index = i /\ WinnerOf(q) # None
    BY DEF Settled
  <2>2. q \in Requests /\ Saved(q)
    BY NoneIsNoValue DEF Rows, Saved
  <2>3. q \in Rows(c)' /\ turns'[q] = turns[q]
    BY RowKept
  <2>4. WinnerOf(q)' = WinnerOf(q)
    BY <2>1, <2>2, WinnerKept
  <2>5. TurnAt(c, i) = q
    BY <2>1, TurnAtIs DEF IndInv
  <2>6. TurnAt(c, i)' = q
    <3>1. \A p \in Rows(c)' : turns'[p].index = turns'[q].index => p = q
      BY <2>3, NoneIsNoValue DEF UniqueTurns, Rows, Saved
    <3> QED BY <3>1, <2>1, <2>3 DEF TurnAt
  <2> QED BY <2>1, <2>3, <2>4, <2>5, <2>6
<1>2. Settled(c, n)'
  BY <1>1 DEF Settled
<1>3. \A i \in 1..n : WinnerOf(TurnAt(c, i - 1))' = WinnerOf(TurnAt(c, i - 1))
  BY <1>1
<1> QED BY <1>2, <1>3 DEF Messages

(***************************************************************************)
(* Only Commit adds a row, and only Open and ReadContext begin a turn.     *)
(***************************************************************************)
Locals(r) == <<input[r], context[r], history[r]>>

LEMMA RowsChange ==
  ASSUME IndInv, [Next]_vars
  PROVE  turns' = turns \/ \E r \in Requests : Commit(r)
<1> USE DEF db, Goto
<1>1. \A r \in Requests : ChatStep(r) => turns' = turns \/ Commit(r)
  BY DEF ChatStep, Open, ReadContext, CheckLatest, RollBack, QueryFails, GiveUp,
         SaveResponse, CutStream
<1>2. \A b \in Ballots : VoteStep(b) => turns' = turns
  BY DEF VoteStep, AdmitVote, RecordPreference, VoteFails
<1> QED BY <1>1, <1>2 DEF Next, Crash, vars

\* A handler touches its own locals and its own rows only.
LEMMA OthersKeep ==
  ASSUME TypeOK, NEW r \in Requests, NEW q \in Requests, q # r, ChatStep(q)
  PROVE  pc'[r] = pc[r] /\ Locals(r)' = Locals(r) /\ turns'[r] = turns[r]
<1> USE DEF TypeOK, Locals, Goto, db
<1>1. CASE \E s \in Sessions, m \in PlanModes : Open(q, s, m)
  BY <1>1 DEF Open
<1>2. CASE \E s \in Sessions, m \in PlanModes, c \in Requests : ReadContext(q, s, m, c)
  BY <1>2 DEF ReadContext
<1>3. CASE CheckLatest(q) \/ RollBack(q) \/ CutStream(q)
  BY <1>3 DEF CheckLatest, RollBack, CutStream
<1>4. CASE Commit(q)
  BY <1>4 DEF Commit
<1>5. CASE QueryFails(q)
  BY <1>5 DEF QueryFails, GiveUp
<1>6. CASE SaveResponse(q)
  BY <1>6 DEF SaveResponse
<1> QED BY <1>1, <1>2, <1>3, <1>4, <1>5, <1>6 DEF ChatStep

\* A live request either was live with the same locals, or has just begun.
LEMMA LiveBefore ==
  ASSUME IndInv, [Next]_vars, NEW r \in Requests, Live(r)'
  PROVE  \/ Live(r) /\ Locals(r)' = Locals(r)
         \/ \E s \in Sessions, m \in PlanModes : Open(r, s, m)
         \/ \E s \in Sessions, m \in PlanModes, c \in Requests : ReadContext(r, s, m, c)
<1> USE DEF Live, Opening, Saved, Locals, db, Goto
<1>1. TypeOK
  BY DEF IndInv
<1>2. ASSUME NEW q \in Requests, ChatStep(q), q # r PROVE Live(r) /\ Locals(r)' = Locals(r)
  BY <1>1, <1>2, OthersKeep
<1>3. ASSUME CheckLatest(r) \/ Commit(r) \/ RollBack(r) \/ QueryFails(r)
               \/ SaveResponse(r) \/ CutStream(r)
      PROVE  Live(r) /\ Locals(r)' = Locals(r)
  <2>1. CASE CheckLatest(r)
    BY <1>1, <2>1 DEF CheckLatest, TypeOK
  <2>2. CASE Commit(r)
    BY <2>2 DEF Commit
  <2>3. CASE RollBack(r)
    BY <1>1, <2>3 DEF RollBack, TypeOK
  <2>4. CASE QueryFails(r)
    <3>1. ~Saved(r) /\ turns' = turns /\ pc'[r] = "idle"
      BY <1>1, <2>4 DEF QueryFails, GiveUp, TypeOK, IndInv, RowsOfRequest
    <3> QED BY <3>1
  <2>5. CASE SaveResponse(r)
    BY <1>1, <2>5 DEF SaveResponse, TypeOK
  <2>6. CASE CutStream(r)
    BY <1>1, <2>6 DEF CutStream, TypeOK
  <2> QED BY <1>3, <2>1, <2>2, <2>3, <2>4, <2>5, <2>6
<1>4. ASSUME NEW b \in Ballots, VoteStep(b) PROVE Live(r) /\ Locals(r)' = Locals(r)
  BY <1>4 DEF VoteStep, AdmitVote, RecordPreference, VoteFails
<1>5. CASE Crash
  BY <1>1, <1>5 DEF Crash, TypeOK, IndInv, RowsOfRequest
<1>6. CASE UNCHANGED vars
  BY <1>6 DEF vars
<1> QED BY <1>2, <1>3, <1>4, <1>5, <1>6 DEF Next, ChatStep

\* UNIQUE (conversation_id, turn_index) keeps the turns of a conversation apart.
LEMMA UniqueStep == ASSUME IndInv, [Next]_vars PROVE UniqueTurns'
<1>1. CASE turns' = turns
  BY <1>1 DEF IndInv, UniqueTurns, Saved
<1>2. ASSUME NEW r \in Requests, Commit(r) PROVE UniqueTurns'
  <2>1. /\ turns'[r].conv = input[r].conv
        /\ turns'[r].index = context[r].index
        /\ \A q \in Requests : q # r => turns'[q] = turns[q]
    BY <1>2 DEF Commit, IndInv, TypeOK
  <2>2. \A q \in Requests : ~(turns[q].conv = input[r].conv /\ turns[q].index = context[r].index)
    BY <1>2 DEF Commit, Unique
  <2> QED BY <2>1, <2>2 DEF UniqueTurns, Saved, IndInv
<1> QED BY <1>1, <1>2, RowsChange

\* What a handler read before it inserted is true when it inserts and after.
LEMMA ReadStep == ASSUME IndInv, [Next]_vars PROVE ReadIsTrue'
<1>1. Kept /\ UniqueTurns'
  BY StepKeeps, UniqueStep
<1>2. ASSUME NEW c \in Requests, NEW n \in Nat, Settled(c, n), n > 0,
             NEW w, \E p \in Rows(c) : /\ turns[p].index + 1 = n
                                       /\ WinnerOf(p) # None /\ WinnerOf(p) = w
      PROVE  \E p \in Rows(c)' : /\ turns'[p].index + 1 = n
                                 /\ WinnerOf(p)' # None /\ WinnerOf(p)' = w
  <2>1. PICK p \in Rows(c) : /\ turns[p].index + 1 = n
                             /\ WinnerOf(p) # None /\ WinnerOf(p) = w
    BY <1>2
  <2>2. p \in Requests /\ Saved(p)
    BY NoneIsNoValue DEF Rows, Saved
  <2>3. p \in Rows(c)' /\ turns'[p] = turns[p] /\ WinnerOf(p)' = WinnerOf(p)
    BY <1>1, <2>1, <2>2, RowKept, WinnerKept
  <2> QED BY <2>1, <2>3
<1>3. ASSUME NEW r \in Requests, Live(r), Locals(r)' = Locals(r) PROVE TrueRead(r)'
  <2>1. input[r].conv \in Requests /\ context[r].index \in Nat
    BY <1>3 DEF Live, IndInv, RowsOfRequest, TypeOK
  <2>a. PICK c \in Requests, n \in Nat : c = input[r].conv /\ n = context[r].index
    BY <2>1
  <2>b. PICK w : w = context[r].parent
    OBVIOUS
  <2>c. PICK h : h = history[r]
    OBVIOUS
  <2>2. c = input[r].conv /\ n = context[r].index /\ w = context[r].parent /\ h = history[r]
    BY <2>a, <2>b, <2>c
  <2>3. c = input'[r].conv /\ n = context'[r].index /\ w = context'[r].parent /\ h = history'[r]
    BY <1>3, <2>2 DEF Locals
  <2>4. /\ Settled(c, n)
        /\ h = Messages(c, n)
        /\ n > 0 => \E p \in Rows(c) : /\ turns[p].index + 1 = n
                                       /\ WinnerOf(p) # None
                                       /\ WinnerOf(p) = w
    BY <1>3, <2>2 DEF IndInv, ReadIsTrue, TrueRead
  <2>5. Settled(c, n)' /\ Messages(c, n)' = Messages(c, n)
    BY <1>1, <2>4, HistoryKept
  <2>6. n > 0 => \E p \in Rows(c)' : /\ turns'[p].index + 1 = n
                                     /\ WinnerOf(p)' # None
                                     /\ WinnerOf(p)' = w
    BY <1>2, <2>4
  <2> QED BY <2>3, <2>4, <2>5, <2>6 DEF TrueRead
<1>4. ASSUME NEW r \in Requests, NEW s \in Sessions, NEW m \in PlanModes, Open(r, s, m)
      PROVE  TrueRead(r)'
  <2>1. context'[r].index = 0 /\ history'[r] = << >>
    <3>1. pc[r] = "idle" /\ UNCHANGED <<context, history>>
      BY <1>4 DEF Open
    <3>2. context[r].index = 0 /\ history[r] = << >>
      BY <3>1 DEF IndInv, RowsOfRequest
    <3> QED BY <3>1, <3>2
  <2> QED BY <2>1 DEF TrueRead, Settled, Messages
<1>5. ASSUME NEW r \in Requests, NEW s \in Sessions, NEW m \in PlanModes,
             NEW c \in Requests, ReadContext(r, s, m, c)
      PROVE  TrueRead(r)'
  <2>1. PICK latest \in Requests :
          /\ IsLatest(c, latest)
          /\ context' = [context EXCEPT ![r] =
               [index |-> turns[latest].index + 1, parent |-> WinnerOf(latest)]]
          /\ history' = [history EXCEPT ![r] = Messages(c, turns[latest].index + 1)]
    BY <1>5, Zenon DEF ReadContext
  <2>2. input'[r].conv = c /\ UNCHANGED <<turns, responses, preferences>>
    BY <1>5 DEF ReadContext, db, IndInv, TypeOK
  <2>3. latest \in Rows(c) /\ WinnerOf(latest) # None
    BY <1>5, <2>1 DEF ReadContext, IsLatest, Ready
  <2>4. turns[latest].conv = c /\ Saved(latest) /\ turns[latest].index \in Nat
    BY <2>3, NoneIsNoValue DEF Rows, Saved, IndInv, TypeOK
  <2>5. Settled(c, turns[latest].index)
    BY <2>4 DEF IndInv, RowsOfRequest, ReadIsTrue, Live, TrueRead
  <2>6. Settled(c, turns[latest].index + 1)
    <3>1. ASSUME NEW i \in 0..turns[latest].index
          PROVE  \E q \in Rows(c) : turns[q].index = i /\ WinnerOf(q) # None
      <4>1. CASE i = turns[latest].index
        BY <2>3, <4>1
      <4>2. CASE i # turns[latest].index
        BY <2>4, <2>5, <4>2 DEF Settled
      <4> QED BY <4>1, <4>2
    <3> QED BY <2>4, <3>1 DEF Settled
  <2>a. PICK n \in Nat : n = turns[latest].index + 1
    BY <2>4
  <2>b. PICK w : w = WinnerOf(latest)
    OBVIOUS
  <2>c. PICK h : h = Messages(c, turns[latest].index + 1)
    OBVIOUS
  <2>7. n = turns[latest].index + 1 /\ w = WinnerOf(latest)
          /\ h = Messages(c, turns[latest].index + 1)
    BY <2>a, <2>b, <2>c
  <2>8. context'[r].index = n /\ context'[r].parent = w /\ history'[r] = h
    BY <2>1, <2>7 DEF IndInv, TypeOK
  <2>9. Settled(c, n)' /\ h = Messages(c, n)'
    <3>1. Rows(c)' = Rows(c) /\ turns' = turns
      BY <2>2 DEF Rows
    <3>2. \A q : WinnerOf(q)' = WinnerOf(q)
      BY <2>2 DEF WinnerOf
    <3>3. \A i : TurnAt(c, i)' = TurnAt(c, i)
      BY <3>1 DEF TurnAt
    <3>4. Settled(c, n)'
      BY <2>6, <2>7, <3>1, <3>2 DEF Settled
    <3>5. Messages(c, n)' = Messages(c, n)
      BY <3>2, <3>3 DEF Messages
    <3> QED BY <2>7, <3>4, <3>5
  <2>10. /\ latest \in Rows(c)' /\ turns'[latest].index + 1 = n
         /\ WinnerOf(latest)' # None /\ WinnerOf(latest)' = w
    BY <2>2, <2>3, <2>7 DEF Rows, WinnerOf
  <2> QED BY <2>2, <2>8, <2>9, <2>10 DEF TrueRead
<1> QED BY <1>3, <1>4, <1>5, LiveBefore DEF ReadIsTrue

(***************************************************************************)
(* The rows of a round and the votes on it.                                *)
(***************************************************************************)
LEMMA RowsStep == ASSUME IndInv, [Next]_vars PROVE RowsOfRequest'
<1> USE DEF db, Goto, Opening, Saved, RowsOfRequest
<1>0. TypeOK /\ RowsOfRequest
  BY DEF IndInv
<1>1. ASSUME NEW r \in Requests, NEW s \in Sessions, NEW m \in PlanModes, Open(r, s, m)
      PROVE  RowsOfRequest'
  BY <1>0, <1>1 DEF Open, TypeOK
<1>2. ASSUME NEW r \in Requests, NEW s \in Sessions, NEW m \in PlanModes,
             NEW c \in Requests, ReadContext(r, s, m, c)
      PROVE  RowsOfRequest'
  <2>1. PICK latest \in Requests :
          /\ IsLatest(c, latest)
          /\ context' = [context EXCEPT ![r] =
               [index |-> turns[latest].index + 1, parent |-> WinnerOf(latest)]]
          /\ history' = [history EXCEPT ![r] = Messages(c, turns[latest].index + 1)]
    BY <1>2, Zenon DEF ReadContext
  <2>2. /\ pc[r] = "idle" /\ turns' = turns
        /\ pc' = [pc EXCEPT ![r] = "create"]
        /\ input' = [input EXCEPT ![r] = [conv |-> c, session |-> s, mode |-> m]]
    BY <1>2 DEF ReadContext
  <2>3. turns[latest].index \in Nat
    BY <1>0 DEF TypeOK
  <2>4. c # r
    BY <1>0, <1>2, <2>2, NoneIsNoValue DEF ReadContext, Ready, Rows, IndInv, OwnedRows
  <2> QED BY <1>0, <2>1, <2>2, <2>3, <2>4 DEF TypeOK
<1>3. ASSUME NEW r \in Requests, CheckLatest(r) PROVE RowsOfRequest'
  BY <1>0, <1>3 DEF CheckLatest, TypeOK
<1>4. ASSUME NEW r \in Requests, Commit(r) PROVE RowsOfRequest'
  <2>1. PICK p \in Pairings :
          turns' = [turns EXCEPT ![r] =
            [conv |-> input[r].conv, index |-> context[r].index,
             parent |-> context[r].parent, mode |-> input[r].mode,
             model |-> [s \in Slots |-> IF s = "A" THEN p[1] ELSE p[2]]]]
    BY <1>4 DEF Commit
  <2>2. p[1] # p[2]
    BY PairingsDistinct
  <2>3. /\ pc[r] = "insert"
        /\ pc' = [pc EXCEPT ![r] = "streaming"] \/ pc' = [pc EXCEPT ![r] = "error"]
        /\ UNCHANGED <<input, context, history>>
    BY <1>4 DEF Commit
  <2> QED BY <1>0, <2>1, <2>2, <2>3 DEF TypeOK, Slots
<1>5. ASSUME NEW r \in Requests, RollBack(r) PROVE RowsOfRequest'
  BY <1>0, <1>5 DEF RollBack, TypeOK
<1>6. ASSUME NEW r \in Requests, QueryFails(r) PROVE RowsOfRequest'
  BY <1>0, <1>6 DEF QueryFails, GiveUp, FirstTurn, TypeOK
<1>7. ASSUME NEW r \in Requests, SaveResponse(r) PROVE RowsOfRequest'
  BY <1>0, <1>7 DEF SaveResponse, TypeOK
<1>8. ASSUME NEW r \in Requests, CutStream(r) PROVE RowsOfRequest'
  BY <1>0, <1>8 DEF CutStream, TypeOK
<1>9. ASSUME NEW b \in Ballots, VoteStep(b) PROVE RowsOfRequest'
  BY <1>0, <1>9 DEF VoteStep, AdmitVote, RecordPreference, VoteFails
<1>10. CASE Crash
  BY <1>0, <1>10 DEF Crash, FirstTurn, TypeOK
<1>11. CASE UNCHANGED vars
  BY <1>0, <1>11 DEF vars
<1> QED BY <1>1, <1>2, <1>3, <1>4, <1>5, <1>6, <1>7, <1>8, <1>9, <1>10, <1>11
       DEF Next, ChatStep

\* An owner is recorded with the first turn, and every later turn is his.
LEMMA OwnedStep == ASSUME IndInv, [Next]_vars PROVE OwnedRows'
<1> USE DEF Saved, Opening
<1>1. Kept /\ TypeOK /\ RowsOfRequest /\ OwnedRows
  BY StepKeeps DEF IndInv
<1>2. ASSUME NEW r \in Requests, (Saved(r) \/ (Opening(r) /\ context[r].index > 0))'
      PROVE  conversations'[input'[r].conv] = input'[r].session
  <2>1. CASE Live(r) /\ Locals(r)' = Locals(r)
    <3>1. input'[r] = input[r] /\ context'[r] = context[r]
      BY <2>1 DEF Locals
    <3>2. input[r].session \in Sessions /\ input[r].conv \in Requests
      BY <1>1, <2>1 DEF Live, RowsOfRequest
    <3>3. CASE Saved(r) \/ (Opening(r) /\ context[r].index > 0)
      BY <1>1, <3>1, <3>2, <3>3, NoneIsNoValue DEF Kept, OwnedRows
    <3>4. CASE ~Saved(r) /\ ~(Opening(r) /\ context[r].index > 0)
      <4>1. Saved(r)' /\ turns' # turns
        BY <1>2, <2>1, <3>1, <3>4 DEF Live
      <4>2. PICK q \in Requests : Commit(q)
        BY <4>1, RowsChange
      <4>3. q = r
        BY <1>1, <3>4, <4>1, <4>2 DEF Commit, TypeOK
      <4>4. context[r].index = 0 /\ input[r].conv = r
        BY <1>1, <2>1, <3>4 DEF Live, RowsOfRequest, TypeOK
      <4> QED BY <1>1, <3>1, <4>2, <4>3, <4>4 DEF Commit, TypeOK
    <3> QED BY <3>3, <3>4
  <2>2. ASSUME NEW s \in Sessions, NEW m \in PlanModes, Open(r, s, m)
        PROVE  FALSE
    BY <1>1, <1>2, <2>2 DEF Open, Goto, db, RowsOfRequest
  <2>3. ASSUME NEW s \in Sessions, NEW m \in PlanModes, NEW c \in Requests,
               ReadContext(r, s, m, c)
        PROVE  conversations'[input'[r].conv] = input'[r].session
    BY <1>1, <2>3 DEF ReadContext, Owns, db, TypeOK
  <2>4. Live(r)'
    BY <1>2 DEF Live
  <2> QED BY <2>1, <2>2, <2>3, <2>4, LiveBefore
<1>3. ASSUME NEW r \in Requests, conversations'[r] # None PROVE Saved(r)'
  <2>1. CASE conversations[r] # None
    BY <1>1, <2>1, NoneIsNoValue DEF OwnedRows, Kept
  <2>2. CASE conversations[r] = None
    <3>1. conversations' = conversations \/ \E q \in Requests : Commit(q)
      BY DEF Next, ChatStep, VoteStep, Open, ReadContext, CheckLatest, RollBack,
             QueryFails, GiveUp, SaveResponse, CutStream, AdmitVote,
             RecordPreference, VoteFails, Crash, vars, db, Goto
    <3>2. PICK q \in Requests : Commit(q)
      BY <1>3, <2>2, <3>1
    <3>3. q = r
      BY <1>1, <1>3, <2>2, <3>2 DEF Commit, TypeOK
    <3>4. input[r].conv \in Requests
      BY <1>1, <3>2, <3>3 DEF Commit, RowsOfRequest
    <3>5. turns'[r].conv = input[r].conv
      BY <1>1, <3>2, <3>3 DEF Commit, TypeOK
    <3> QED BY <3>4, <3>5, NoneIsNoValue
  <2> QED BY <2>1, <2>2
<1> QED BY <1>2, <1>3 DEF OwnedRows

\* A round that takes a vote keeps what the vote says of it.
LEMMA VotableKept ==
  ASSUME IndInv, Kept, NEW r \in Requests, NEW row, Votable(r, row)
  PROVE  Votable(r, row)'
<1>1. turns'[r] = turns[r]
  BY DEF Votable, Kept
<1>2. conversations'[turns[r].conv] = conversations[turns[r].conv]
  BY NoneIsNoValue DEF Votable, Kept, IndInv, OwnedRows, RowsOfRequest, Saved
<1> QED BY <1>1, <1>2 DEF Votable, Saved

LEMMA VotesStep == ASSUME IndInv, [Next]_vars PROVE VotesOfRows'
<1>1. Kept /\ TypeOK /\ VotesOfRows
  BY StepKeeps DEF IndInv
<1>2. CASE UNCHANGED <<preferences, ballot>>
  BY <1>1, <1>2, VotableKept DEF VotesOfRows, RecordedVotes, VotesUnderWay, Voted, OneVoteCounts
<1>3. ASSUME NEW b \in Ballots, AdmitVote(b) PROVE VotesOfRows'
  <2>1. PICK t \in Requests, m \in Requests, v \in Votes :
          /\ TokenHeld(t) /\ Admits(t, m)
          /\ ballot' = [ballot EXCEPT ![b] =
                          [at |-> "insert", round |-> m, row |-> Row(t, m, v)]]
    BY <1>3 DEF AdmitVote
  <2>2. Votable(m, Row(t, m, v))
    BY <2>1 DEF Admits, TokenHeld, Votable, Row, Votes, Slots, IndInv, OwnedRows,
                RowsOfRequest
  <2>3. UNCHANGED <<turns, conversations, preferences>>
    BY <1>3 DEF AdmitVote, db
  <2> QED BY <1>1, <2>1, <2>2, <2>3
          DEF VotesOfRows, RecordedVotes, VotesUnderWay, OneVoteCounts, Votable, Saved, Voted, TypeOK
<1>4. ASSUME NEW b \in Ballots, RecordPreference(b) PROVE VotesOfRows'
  <2>1. /\ ballot[b].at = "insert"
        /\ ~Voted(ballot[b].round)
        /\ preferences' = [preferences EXCEPT ![ballot[b].round] = ballot[b].row]
        /\ UNCHANGED <<turns, conversations>>
    BY <1>4 DEF RecordPreference
  <2>2. ballot[b].round \in Requests /\ Votable(ballot[b].round, ballot[b].row)
    BY <1>1, <2>1 DEF VotesOfRows, RecordedVotes, VotesUnderWay
  <2>3. \A d \in Ballots : ballot[d].at = "accepted" => ballot[d].round # ballot[b].round
    BY <1>1, <2>1, <2>2
       DEF VotesOfRows, RecordedVotes, VotesUnderWay, OneVoteCounts, Votable, Voted
  <2>4. \A d \in Ballots : d # b => ballot'[d] = ballot[d]
    BY <1>1, <1>4 DEF RecordPreference, TypeOK
  <2>5. \/ ballot'[b] = [ballot[b] EXCEPT !.at = "accepted"]
        \/ ballot'[b] = NoBallot
    BY <1>1, <1>4 DEF RecordPreference, TypeOK
  <2>6. RecordedVotes'
    <3>1. ASSUME NEW r \in Requests, r # ballot[b].round
          PROVE  preferences'[r] = preferences[r]
      BY <1>1, <2>1, <3>1 DEF TypeOK
    <3>2. preferences'[ballot[b].round] = ballot[b].row
      BY <1>1, <2>1, <2>2 DEF TypeOK
    <3> QED BY <1>1, <2>1, <2>2, <3>1, <3>2
            DEF VotesOfRows, RecordedVotes, Voted, Votable, Saved
  <2>7. VotesUnderWay'
    <3>1. ASSUME NEW d \in Ballots, ballot'[d].at # "idle"
          PROVE  ballot'[d].round = ballot[d].round /\ ballot'[d].row = ballot[d].row
                   /\ ballot[d].at # "idle"
      <4>1. CASE d = b
        <5>1. ballot'[b] = [ballot[b] EXCEPT !.at = "accepted"]
          BY <2>5, <3>1, <4>1 DEF NoBallot
        <5>2. ballot[b].at = "insert"
          BY <2>1
        <5> QED BY <1>1, <4>1, <5>1, <5>2 DEF TypeOK
      <4>2. CASE d # b
        BY <2>4, <3>1, <4>2
      <4> QED BY <4>1, <4>2
    <3> QED BY <1>1, <2>1, <3>1 DEF VotesOfRows, VotesUnderWay, Votable, Saved
  <2>8. OneVoteCounts'
    <3>1. preferences'[ballot[b].round] = ballot[b].row
      BY <1>1, <2>1, <2>2 DEF TypeOK
    <3>2. \A d \in Ballots : ballot[d].at = "accepted" =>
            preferences'[ballot[d].round] = preferences[ballot[d].round]
      BY <1>1, <2>1, <2>3 DEF TypeOK
    <3>3. /\ ballot'[b].at = "accepted" => /\ ballot'[b].round = ballot[b].round
                                           /\ ballot'[b].row = ballot[b].row
          /\ ballot[b].at # "accepted"
      BY <1>1, <2>1, <2>5 DEF NoBallot, TypeOK
    <3> QED BY <1>1, <2>3, <2>4, <3>1, <3>2, <3>3 DEF VotesOfRows, OneVoteCounts
  <2> QED BY <2>6, <2>7, <2>8 DEF VotesOfRows
<1>5. ASSUME NEW b \in Ballots, VoteFails(b) PROVE VotesOfRows'
  BY <1>1, <1>5 DEF VoteFails, db, VotesOfRows, RecordedVotes, VotesUnderWay, OneVoteCounts, Votable, Saved, Voted,
                    NoBallot, TypeOK
<1>6. CASE Crash
  BY <1>1, <1>6 DEF Crash, db, VotesOfRows, RecordedVotes, VotesUnderWay, OneVoteCounts, Votable, Saved, Voted,
                    NoBallot, TypeOK
<1>7. ASSUME NEW r \in Requests, ChatStep(r) PROVE UNCHANGED <<preferences, ballot>>
  BY <1>7 DEF ChatStep, Open, ReadContext, CheckLatest, Commit, RollBack, QueryFails,
       GiveUp, SaveResponse, CutStream, db, Goto
<1> QED BY <1>2, <1>3, <1>4, <1>5, <1>6, <1>7 DEF Next, VoteStep, vars

(***************************************************************************)
(* The theorems.                                                           *)
(***************************************************************************)
LEMMA IndInit == Init => IndInv
<1> SUFFICES ASSUME Init PROVE IndInv
  OBVIOUS
<1>1. \A r \in Requests : ~Saved(r) /\ ~Opening(r) /\ ~Voted(r)
  BY DEF Init, Saved, Opening, Voted, NoTurn, NoVote
<1>2. RowsOfRequest /\ OwnedRows /\ UniqueTurns /\ ReadIsTrue
  BY <1>1 DEF Init, RowsOfRequest, OwnedRows, UniqueTurns, ReadIsTrue, Live, FirstTurn
<1>3. VotesOfRows
  BY <1>1 DEF Init, VotesOfRows, RecordedVotes, VotesUnderWay, OneVoteCounts, NoBallot, NoVote
<1> QED BY <1>2, <1>3, TypeInit DEF IndInv

THEOREM Inductive == Spec => []IndInv
<1>1. IndInv /\ [Next]_vars => TypeOK'
  BY TypeChat, TypeVote, TypeCrash DEF Next, vars, TypeOK, IndInv
<1>2. IndInv /\ [Next]_vars => IndInv'
  BY <1>1, RowsStep, ReadStep, OwnedStep, UniqueStep, VotesStep DEF IndInv
<1> QED BY <1>2, IndInit, PTL DEF Spec

\* However many requests continue a conversation at once, and whichever of them
\* the server loses, its turns form one line, each built on the winner of the
\* turn before (createMatchup's checks and the constraints on turns).
THEOREM Linear == Spec => []LinearThread
<1>1. IndInv => LinearThread
  BY DEF IndInv, LinearThread, UniqueTurns, RowsOfRequest, ReadIsTrue, Live, TrueRead,
         Rows
<1> QED BY <1>1, Inductive, PTL

\* The history sent to the models of a round is for ever the voted history of
\* the turns before it, though it was read several awaits before the insert.
THEOREM HistoryTrue == Spec => []HistoryIsThread
<1>1. IndInv => HistoryIsThread
  BY DEF IndInv, HistoryIsThread, RowsOfRequest, ReadIsTrue, Live, TrueRead
<1> QED BY <1>1, Inductive, PTL

\* No two votes on a round are accepted, and the accepted one is the recorded
\* one (the UNIQUE matchup_id of preferences).
THEOREM OneVote == Spec => []OneVoteCounts
<1>1. IndInv => OneVoteCounts
  BY DEF IndInv, VotesOfRows, RecordedVotes
<1> QED BY <1>1, Inductive, PTL

\* Every preference is credited to the owner of the conversation, on a blind
\* round, for a model that sat in it (the token checks of the vote route).
THEOREM VoteCreditedToOwner == Spec => []VoteCredited
<1>1. IndInv => VoteCredited
  BY DEF IndInv, VotesOfRows, RecordedVotes, VotesUnderWay, VoteCredited, Votable
<1> QED BY <1>1, Inductive, PTL

\* Nobody but its owner adds a turn to a conversation.
THEOREM OwnerOnly == Spec => []OwnerContinues
<1>1. IndInv => OwnerContinues
  BY DEF IndInv, OwnedRows, OwnerContinues, RowsOfRequest
<1> QED BY <1>1, Inductive, PTL

(***************************************************************************)
(* Finite conversations.                                                   *)
(***************************************************************************)
\* A nonempty set of numbers has a least one.
LEMMA LeastNumber ==
  ASSUME NEW T, T \subseteq Nat, T # {} PROVE \E n \in T : \A m \in T : n =< m
<1> DEFINE R == OpToRel(<, Nat)
<1>1. \A x, y \in Nat : y < x => <<y, x>> \in R
  BY DEF OpToRel
<1>2. IsWellFoundedOn(R, Nat)
  BY NatLessThanWellFounded
<1> HIDE DEF R
<1>3. \E x \in T : \A y \in T : ~(<<y, x>> \in R)
  BY <1>2, WFMin
<1>4. \E x \in T : \A y \in T : ~(y < x)
  BY <1>1, <1>3
<1> QED BY <1>4

\* No turn is missing before another, and each of those was won.
LEMMA EarlierTurns ==
  ASSUME IndInv, NEW c \in Requests, NEW q \in Rows(c), NEW i \in 0..(turns[q].index - 1)
  PROVE  \E p \in Rows(c) : turns[p].index = i /\ WinnerOf(p) # None
<1>1. q \in Requests /\ Saved(q) /\ turns[q].conv = c
  BY NoneIsNoValue DEF Rows, Saved
<1>2. Settled(c, turns[q].index)
  BY <1>1 DEF IndInv, RowsOfRequest, ReadIsTrue, Live, TrueRead
<1> QED BY <1>2 DEF Settled

\* The turns of a conversation do not go on for ever: there are not more of
\* them than requests.
LEMMA TurnsBounded ==
  ASSUME IndInv, NEW c \in Requests
  PROVE  \E n \in Nat : \A r \in Rows(c) : turns[r].index < n
<1>1. PICK N \in Nat : N = Cardinality(Requests)
  BY RequestsFinite, FS_CardinalityType
<1> SUFFICES ASSUME NEW r \in Rows(c), ~(turns[r].index < N) PROVE FALSE
  BY <1>1
<1>2. turns[r].index \in Nat
  BY DEF IndInv, TypeOK, Rows
<1>3. \A i \in 0..N : \E p \in Rows(c) : turns[p].index = i
  BY <1>1, <1>2, EarlierTurns
<1> DEFINE I == 0..N
           at == [i \in I |-> CHOOSE p \in Rows(c) : turns[p].index = i]
<1>4. \A i \in I : at[i] \in Requests /\ turns[at[i]].index = i
  BY <1>3 DEF Rows
<1>5. at \in [I -> Requests]
  BY <1>4
<1>6. IsFiniteSet(I) /\ Cardinality(I) = N + 1
  BY <1>1, FS_Interval
<1>7. Cardinality(Requests) < Cardinality(I)
  BY <1>1, <1>6
<1> HIDE DEF at, I
<1>8. \E i, j \in I : i # j /\ at[i] = at[j]
  BY <1>5, <1>6, <1>7, RequestsFinite, FS_PigeonHole
<1> QED BY <1>4, <1>8

LEMMA LatestOf ==
  ASSUME IndInv, NEW c \in Requests, Rows(c) # {}
  PROVE  \E latest \in Requests : IsLatest(c, latest)
<1> DEFINE T == {n \in Nat : \A r \in Rows(c) : turns[r].index < n}
<1>0. \A r \in Rows(c) : turns[r].index \in Nat /\ r \in Requests
  BY DEF IndInv, TypeOK, Rows
<1>1. PICK n \in T : \A m \in T : n =< m
  BY TurnsBounded, LeastNumber
<1>2. n > 0
  BY <1>0, <1>1
<1>3. n - 1 \in Nat /\ n - 1 \notin T
  BY <1>1, <1>2
<1>4. PICK r \in Rows(c) : ~(turns[r].index < n - 1)
  BY <1>3
<1>5. \A q \in Rows(c) : turns[q].index =< turns[r].index
  BY <1>0, <1>1, <1>3, <1>4
<1> QED BY <1>0, <1>5 DEF IsLatest

\* Once its latest turn is won a conversation is ready for the next.
LEMMA ReadyIfWon ==
  ASSUME IndInv, NEW c \in Requests, NEW latest, IsLatest(c, latest), WinnerOf(latest) # None
  PROVE  Ready(c)
<1> SUFFICES ASSUME NEW r \in Rows(c) PROVE WinnerOf(r) # None
  BY DEF Ready, IsLatest
<1>1. r \in Requests /\ latest \in Rows(c) /\ latest \in Requests
      /\ turns[r].index =< turns[latest].index
  BY DEF IsLatest, Rows
<1>2. turns[r].index \in Nat /\ turns[latest].index \in Nat
  BY <1>1 DEF IndInv, TypeOK
<1>3. CASE turns[r].index = turns[latest].index
  <2>1. r = latest
    BY <1>1, <1>3, NoneIsNoValue DEF IndInv, UniqueTurns, Rows, Saved
  <2> QED BY <2>1
<1>4. CASE turns[r].index < turns[latest].index
  <2>1. PICK p \in Rows(c) : turns[p].index = turns[r].index /\ WinnerOf(p) # None
    BY <1>1, <1>2, <1>4, EarlierTurns
  <2>2. p = r
    BY <1>1, <2>1, NoneIsNoValue DEF IndInv, UniqueTurns, Rows, Saved
  <2> QED BY <2>1, <2>2
<1> QED BY <1>1, <1>2, <1>3, <1>4

(***************************************************************************)
(* What the replies rest on.                                               *)
(***************************************************************************)
\* A request that checks the latest turn continues one, and a first turn has
\* no parent.
ContextShape ==
  \A r \in Requests : /\ pc[r] = "create" => context[r].index > 0
                      /\ pc[r] = "conflict" => input[r].conv \in Requests
                      /\ context[r].index = 0 => context[r].parent = None

\* A row has its models, and only a row has a parent.
RowsSeated ==
  \A r \in Requests : /\ Saved(r) => \A s \in Slots : turns[r].model[s] # None
                      /\ ~Saved(r) => turns[r].parent = None

\* A vote names a winner exactly when it takes a side.
Sided(row) == row.vote \in {"left", "right"} <=> row.winner # None
VotesSided == /\ \A r \in Requests : Sided(preferences[r])
              /\ \A b \in Ballots : Sided(ballot[b].row)

RepliesInv == ContextShape /\ RowsSeated /\ VotesSided /\ ConflictIsReal

LEMMA ShapeStep == ASSUME IndInv, RepliesInv, [Next]_vars PROVE ContextShape'
<1> USE DEF ContextShape, db, Goto
<1>0. TypeOK /\ ContextShape /\ RowsOfRequest
  BY DEF IndInv, RepliesInv
<1>1. ASSUME NEW r \in Requests, NEW s \in Sessions, NEW m \in PlanModes, Open(r, s, m)
      PROVE  ContextShape'
  BY <1>0, <1>1 DEF Open, TypeOK
<1>2. ASSUME NEW r \in Requests, NEW s \in Sessions, NEW m \in PlanModes, NEW c \in Requests,
             ReadContext(r, s, m, c)
      PROVE  ContextShape'
  <2>1. PICK latest \in Requests : context' = [context EXCEPT ![r] =
          [index |-> turns[latest].index + 1, parent |-> WinnerOf(latest)]]
    BY <1>2, Zenon DEF ReadContext
  <2>2. turns[latest].index + 1 > 0 /\ turns[latest].index + 1 # 0
    BY <1>0 DEF TypeOK
  <2>3. pc' = [pc EXCEPT ![r] = "create"]
        /\ input' = [input EXCEPT ![r] = [conv |-> c, session |-> s, mode |-> m]]
    BY <1>2 DEF ReadContext
  <2>4. ASSUME NEW q \in Requests, q # r
        PROVE  pc'[q] = pc[q] /\ input'[q] = input[q] /\ context'[q] = context[q]
    BY <1>0, <2>1, <2>3, <2>4 DEF TypeOK
  <2>5. pc'[r] = "create" /\ context'[r].index > 0 /\ context'[r].index # 0
    BY <1>0, <2>1, <2>2, <2>3 DEF TypeOK
  <2> QED BY <1>0, <2>4, <2>5
<1>3. ASSUME NEW r \in Requests,
             CheckLatest(r) \/ Commit(r) \/ RollBack(r) \/ SaveResponse(r) \/ CutStream(r)
      PROVE  ContextShape'
  <2>1. UNCHANGED context
    BY <1>3 DEF CheckLatest, Commit, RollBack, SaveResponse, CutStream
  <2>2. \A q \in Requests : pc'[q] = "create" => pc[q] = "create"
    BY <1>0, <1>3 DEF CheckLatest, Commit, RollBack, SaveResponse, CutStream, TypeOK
  <2>4. \A q \in Requests : pc'[q] = "conflict" => pc[q] = "conflict" \/ Opening(q)
    BY <1>0, <1>3 DEF CheckLatest, Commit, RollBack, SaveResponse, CutStream, TypeOK, Opening
  <2>5. \A q \in Requests : pc'[q] = "conflict" => input[q].conv \in Requests
    BY <1>0, <2>4 DEF RowsOfRequest
  <2>3. UNCHANGED input
    BY <1>3 DEF CheckLatest, Commit, RollBack, SaveResponse, CutStream
  <2> QED BY <1>0, <2>1, <2>2, <2>3, <2>5
<1>4. ASSUME NEW r \in Requests, QueryFails(r) PROVE ContextShape'
  BY <1>0, <1>4 DEF QueryFails, GiveUp, FirstTurn, TypeOK
<1>5. ASSUME NEW b \in Ballots, VoteStep(b) PROVE ContextShape'
  BY <1>0, <1>5 DEF VoteStep, AdmitVote, RecordPreference, VoteFails
<1>6. CASE Crash
  BY <1>0, <1>6 DEF Crash, FirstTurn, TypeOK
<1>7. CASE UNCHANGED vars
  BY <1>0, <1>7 DEF vars
<1> QED BY <1>1, <1>2, <1>3, <1>4, <1>5, <1>6, <1>7 DEF Next, ChatStep

LEMMA SeatedStep == ASSUME IndInv, RepliesInv, [Next]_vars PROVE RowsSeated'
<1>1. CASE turns' = turns
  BY <1>1 DEF RepliesInv, RowsSeated, Saved
<1>2. ASSUME NEW r \in Requests, Commit(r) PROVE RowsSeated'
  <2>1. PICK p \in Pairings :
          turns' = [turns EXCEPT ![r] =
            [conv |-> input[r].conv, index |-> context[r].index,
             parent |-> context[r].parent, mode |-> input[r].mode,
             model |-> [s \in Slots |-> IF s = "A" THEN p[1] ELSE p[2]]]]
    BY <1>2 DEF Commit
  <2>2. p[1] # None /\ p[2] # None
    BY PairingsDistinct, NoneIsNoValue
  <2>3. input[r].conv # None
    BY <1>2, NoneIsNoValue DEF Commit, IndInv, RowsOfRequest, Opening
  <2> QED BY <2>1, <2>2, <2>3 DEF RepliesInv, RowsSeated, Saved, IndInv, TypeOK
<1> QED BY <1>1, <1>2, RowsChange

LEMMA SidedStep == ASSUME IndInv, RepliesInv, [Next]_vars PROVE VotesSided'
<1> USE DEF VotesSided
<1>0. TypeOK /\ VotesSided /\ RowsSeated
  BY DEF IndInv, RepliesInv
<1>1. Sided(NoVote)
  BY DEF Sided, NoVote
<1>2. ASSUME NEW b \in Ballots, AdmitVote(b) PROVE VotesSided'
  <2>1. PICK t \in Requests, m \in Requests, v \in Votes :
          /\ Admits(t, m)
          /\ ballot' = [ballot EXCEPT ![b] =
                          [at |-> "insert", round |-> m, row |-> Row(t, m, v)]]
    BY <1>2 DEF AdmitVote
  <2>2. Sided(Row(t, m, v))
    BY <1>0, <2>1 DEF Admits, Sided, Row, Votes, Slots, RowsSeated
  <2>3. UNCHANGED preferences
    BY <1>2 DEF AdmitVote, db
  <2> QED BY <1>0, <2>1, <2>2, <2>3 DEF TypeOK
<1>3. ASSUME NEW b \in Ballots, RecordPreference(b) PROVE VotesSided'
  <2>1. preferences' = [preferences EXCEPT ![ballot[b].round] = ballot[b].row]
        /\ (ballot' = [ballot EXCEPT ![b].at = "accepted"] \/ ballot' = [ballot EXCEPT ![b] = NoBallot])
    BY <1>3 DEF RecordPreference
  <2>2. \A r \in Requests : Sided(preferences'[r])
    BY <1>0, <2>1 DEF TypeOK
  <2>3. \A d \in Ballots : ballot'[d].row = ballot[d].row \/ ballot'[d].row = NoVote
    <3>1. CASE ballot' = [ballot EXCEPT ![b].at = "accepted"]
      BY <1>0, <3>1 DEF TypeOK
    <3>2. CASE ballot' = [ballot EXCEPT ![b] = NoBallot]
      BY <1>0, <3>2 DEF TypeOK, NoBallot
    <3> QED BY <2>1, <3>1, <3>2
  <2> QED BY <1>0, <1>1, <2>2, <2>3
<1>4. ASSUME NEW b \in Ballots, VoteFails(b) PROVE VotesSided'
  BY <1>0, <1>1, <1>4 DEF VoteFails, db, NoBallot, TypeOK
<1>5. CASE Crash
  BY <1>0, <1>1, <1>5 DEF Crash, db, NoBallot, TypeOK
<1>6. CASE UNCHANGED <<preferences, ballot>>
  BY <1>0, <1>6
<1>7. ASSUME NEW r \in Requests, ChatStep(r) PROVE UNCHANGED <<preferences, ballot>>
  BY <1>7 DEF ChatStep, Open, ReadContext, CheckLatest, Commit, RollBack, QueryFails,
       GiveUp, SaveResponse, CutStream, db, Goto
<1> QED BY <1>2, <1>3, <1>4, <1>5, <1>6, <1>7 DEF Next, VoteStep, vars

\* A request that finds its turn taken lost it to another: the check sees a
\* later turn, the constraints one of the same place or of the same parent.
LEMMA ConflictStep == ASSUME IndInv, RepliesInv, [Next]_vars PROVE ConflictIsReal'
<1>0. TypeOK /\ RowsOfRequest /\ UniqueTurns /\ ReadIsTrue /\ ContextShape /\ ConflictIsReal /\ Kept
  BY StepKeeps DEF IndInv, RepliesInv
<1> USE DEF db, Goto
\* What is there stays there.
<1>k. ASSUME NEW r \in Requests, NEW q \in Rows(input[r].conv), q # r,
             input[r].conv \in Requests, turns[q].index = context[r].index,
             input'[r] = input[r], context'[r] = context[r]
      PROVE  \E p \in Rows(input[r].conv)' : p # r /\ turns'[p].index = context'[r].index
  <2>1. q \in Rows(input[r].conv) /\ Saved(q) /\ q \in Requests
    BY <1>k, NoneIsNoValue DEF Rows, Saved
  <2>2. turns'[q] = turns[q]
    BY <1>0, <2>1 DEF Kept
  <2> QED BY <1>k, <2>1, <2>2 DEF Rows
<1>1. ASSUME NEW r \in Requests, CheckLatest(r), ~UpToDate(r)
      PROVE  \E q \in Rows(input[r].conv) : q # r /\ turns[q].index = context[r].index
  <2> DEFINE c == input[r].conv
             n == context[r].index
  <2>1. pc[r] = "create" /\ c \in Requests /\ n \in Nat /\ n > 0 /\ ~Saved(r)
    BY <1>0, <1>1 DEF CheckLatest, RowsOfRequest, Opening, ContextShape, TypeOK
  <2>2. PICK p \in Rows(c) : /\ turns[p].index + 1 = n
                             /\ WinnerOf(p) # None /\ WinnerOf(p) = context[r].parent
    BY <1>0, <2>1 DEF ReadIsTrue, Live, Opening, TrueRead
  <2>3. p \in Requests /\ turns[p].index \in Nat
    BY <1>0 DEF Rows, TypeOK
  <2>4. ~IsLatest(c, p)
    BY <1>1, <2>1, <2>2, <2>3 DEF UpToDate
  <2>5. PICK q \in Rows(c) : ~(turns[q].index =< turns[p].index)
    BY <2>4 DEF IsLatest
  <2>6. turns[q].index \in Nat
    BY <1>0 DEF Rows, TypeOK
  <2>7. \E o \in Rows(c) : turns[o].index = n
    BY <2>1, <2>2, <2>3, <2>5, <2>6, EarlierTurns
  <2>8. \A o \in Rows(c) : o # r
    BY <2>1, NoneIsNoValue DEF Rows, Saved
  <2> QED BY <2>7, <2>8
<1>2. ASSUME NEW r \in Requests, RollBack(r)
      PROVE  \E q \in Rows(input[r].conv) : q # r /\ turns[q].index = context[r].index
  <2>1. pc[r] = "insert" /\ ~Unique(r) /\ input[r].conv \in Requests /\ ~Saved(r)
    BY <1>0, <1>2 DEF RollBack, RowsOfRequest, Opening
  <2>2. PICK q \in Requests :
          \/ turns[q].conv = input[r].conv /\ turns[q].index = context[r].index
          \/ context[r].parent # None /\ turns[q].parent = context[r].parent
    BY <2>1 DEF Unique
  <2>3. CASE turns[q].conv = input[r].conv /\ turns[q].index = context[r].index
    BY <2>1, <2>3, NoneIsNoValue DEF Rows, Saved
  <2>4. CASE context[r].parent # None /\ turns[q].parent = context[r].parent
    <3>1. context[r].index > 0
      BY <1>0, <2>4 DEF ContextShape, TypeOK
    <3>2. PICK p \in Rows(input[r].conv) : /\ turns[p].index + 1 = context[r].index
                                           /\ WinnerOf(p) # None /\ WinnerOf(p) = context[r].parent
      BY <1>0, <2>1, <3>1 DEF ReadIsTrue, Live, Opening, TrueRead
    <3>3. Saved(q)
      BY <2>4 DEF RepliesInv, RowsSeated
    <3>4. turns[q].conv = input[q].conv /\ turns[q].index = context[q].index
          /\ turns[q].parent = context[q].parent /\ context[q].index > 0
      BY <1>0, <2>4, <3>3 DEF RowsOfRequest, ContextShape, TypeOK
    <3>5. PICK o \in Rows(input[q].conv) : /\ turns[o].index + 1 = context[q].index
                                           /\ WinnerOf(o) # None /\ WinnerOf(o) = context[q].parent
      BY <1>0, <3>3, <3>4 DEF ReadIsTrue, Live, TrueRead
    <3>6. o = p
      <4>1. PICK s : WinnerOf(o) = <<o, s>>
        BY <3>5, WinnerRow
      <4>2. PICK s2 : WinnerOf(p) = <<p, s2>>
        BY <3>2, WinnerRow
      <4>3. WinnerOf(o) = WinnerOf(p)
        BY <2>4, <3>2, <3>4, <3>5
      <4> QED BY <4>1, <4>2, <4>3
    <3> QED BY <2>1, <3>2, <3>3, <3>4, <3>5, <3>6, NoneIsNoValue DEF Rows, Saved
  <2> QED BY <2>2, <2>3, <2>4
<1>3. ASSUME NEW r \in Requests, pc'[r] = "conflict"
      PROVE  \/ pc[r] = "conflict" /\ input'[r] = input[r] /\ context'[r] = context[r]
             \/ CheckLatest(r) /\ ~UpToDate(r)
             \/ RollBack(r)
  <2>1. ASSUME NEW q \in Requests, ChatStep(q), q # r
        PROVE  pc[r] = "conflict" /\ input'[r] = input[r] /\ context'[r] = context[r]
    BY <1>0, <1>3, <2>1, OthersKeep DEF Locals
  <2>2. ASSUME ChatStep(r) PROVE (CheckLatest(r) /\ ~UpToDate(r)) \/ RollBack(r)
    BY <1>0, <1>3, <2>2 DEF ChatStep, Open, ReadContext, CheckLatest, Commit,
         QueryFails, GiveUp, SaveResponse, CutStream, TypeOK
  <2>3. ASSUME NEW b \in Ballots, VoteStep(b)
        PROVE  pc[r] = "conflict" /\ input'[r] = input[r] /\ context'[r] = context[r]
    BY <1>3, <2>3 DEF VoteStep, AdmitVote, RecordPreference, VoteFails
  <2>4. CASE Crash
    BY <1>0, <1>3, <2>4 DEF Crash, TypeOK
  <2>5. CASE UNCHANGED vars
    BY <1>3, <2>5 DEF vars
  <2> QED BY <2>1, <2>2, <2>3, <2>4, <2>5 DEF Next
<1> SUFFICES ASSUME NEW r \in Requests, pc'[r] = "conflict"
             PROVE  \E q \in Rows(input[r].conv)' : q # r /\ turns'[q].index = context'[r].index
  BY DEF ConflictIsReal
<1>4. CASE pc[r] = "conflict" /\ input'[r] = input[r] /\ context'[r] = context[r]
  <2>1. PICK q \in Rows(input[r].conv) : q # r /\ turns[q].index = context[r].index
    BY <1>0, <1>4 DEF ConflictIsReal
  <2>2. input[r].conv \in Requests
    BY <1>0, <1>4 DEF ContextShape
  <2> QED BY <1>4, <1>k, <2>1, <2>2
<1>5. CASE CheckLatest(r) /\ ~UpToDate(r)
  <2>1. UNCHANGED <<turns, input, context>>
    BY <1>5 DEF CheckLatest
  <2> QED BY <1>1, <1>5, <2>1 DEF Rows
<1>6. CASE RollBack(r)
  <2>1. UNCHANGED <<turns, input, context>>
    BY <1>6 DEF RollBack
  <2> QED BY <1>2, <1>6, <2>1 DEF Rows
<1> QED BY <1>3, <1>4, <1>5, <1>6

LEMMA RepliesInit == Init => RepliesInv
<1> SUFFICES ASSUME Init PROVE RepliesInv
  OBVIOUS
<1>1. ContextShape
  BY DEF Init, ContextShape, FirstTurn
<1>2. RowsSeated
  BY DEF Init, RowsSeated, NoTurn, Saved
<1>3. VotesSided
  BY DEF Init, VotesSided, Sided, NoVote, NoBallot
<1>4. ConflictIsReal
  BY DEF Init, ConflictIsReal
<1> QED BY <1>1, <1>2, <1>3, <1>4 DEF RepliesInv

\* What the replies rest on always holds.
THEOREM RepliesAlways == Spec => []RepliesInv
<1>1. IndInv /\ RepliesInv /\ [Next]_vars => RepliesInv'
  BY ShapeStep, SeatedStep, SidedStep, ConflictStep DEF RepliesInv
<1> QED BY <1>1, RepliesInit, Inductive, PTL DEF Spec

\* A recorded winner whose answer was saved is found by the winner join.
LEMMA WinnerFound ==
  ASSUME NEW r \in Requests, NEW s \in Slots, <<r, s>> \in responses,
         preferences[r].winner # None, turns[r].model[s] = preferences[r].winner
  PROVE  WinnerOf(r) # None
<1> DEFINE won == {o \in Slots : /\ <<r, o>> \in responses
                                 /\ preferences[r].winner # None
                                 /\ turns[r].model[o] = preferences[r].winner}
<1>1. won # {} /\ WinnerOf(r) = <<r, CHOOSE o \in won : TRUE>>
  BY DEF WinnerOf
<1>2. (CHOOSE o \in won : TRUE) \in won
  BY <1>1
<1>3. <<r, CHOOSE o \in won : TRUE>> \in Requests \X {"A", "B"}
  BY <1>2 DEF Slots
<1> QED BY <1>1, <1>3

LEMMA ContinuableTrue == ASSUME IndInv, RepliesInv PROVE SavedThreadContinuable
<1> SUFFICES ASSUME NEW c \in Requests, Rows(c) # {},
                    \A r \in Rows(c) : \A s \in Slots : <<r, s>> \in responses
             PROVE  Ready(c) <=> Continuable(c)
  BY DEF SavedThreadContinuable
<1>0. VotesSided /\ RecordedVotes
  BY DEF RepliesInv, IndInv, VotesOfRows
<1>1. ASSUME Ready(c) PROVE Continuable(c)
  <2>1. PICK r \in Requests : IsLatest(c, r)
    BY LatestOf
  <2>2. WinnerOf(r) # None
    BY <1>1, <2>1 DEF Ready, IsLatest
  <2>3. preferences[r].winner # None
    BY <2>2, WinnerRow
  <2> QED BY <1>0, <2>1, <2>3 DEF VotesSided, Sided, Continuable
<1>2. ASSUME Continuable(c) PROVE Ready(c)
  <2>1. PICK r \in Requests : IsLatest(c, r) /\ preferences[r].vote \in {"left", "right"}
    BY <1>2 DEF Continuable
  <2>2. preferences[r].winner # None /\ Voted(r)
    BY <1>0, <2>1 DEF VotesSided, Sided, Voted
  <2>3. PICK s \in Slots : turns[r].model[s] = preferences[r].winner
    BY <1>0, <2>2 DEF RecordedVotes, Votable
  <2>4. <<r, s>> \in responses
    BY <2>1 DEF IsLatest
  <2>5. WinnerOf(r) # None
    BY <2>2, <2>3, <2>4, WinnerFound
  <2> QED BY <2>1, <2>5, ReadyIfWon
<1> QED BY <1>1, <1>2

\* A 409 conversation_conflict is answered only to a request that lost its turn
\* to another, and of a conversation whose answers were all saved the vote
\* reply's `continuable` is what the chat route does.
THEOREM RepliesTrue == Spec => []RepliesAreTrue
<1>1. IndInv /\ RepliesInv => RepliesAreTrue
  BY ContinuableTrue DEF RepliesAreTrue, RepliesInv
<1> QED BY <1>1, Inductive, RepliesAlways, PTL

(***************************************************************************)
(* The tables implement the abstract thread.                               *)
(***************************************************************************)
Entries == [round : Requests, winner : Responses \cup {None}]
Length(c) == Cardinality(Rows(c))

\* The thread of c is its turns in the order of their indices, of which none is
\* missing, and all but the last of them are won.
Chain(c) ==
  /\ Length(c) \in Nat
  /\ ThreadOf(c) \in [1..Length(c) -> Entries]
  /\ \A r \in Rows(c) :
       /\ turns[r].index + 1 \in 1..Length(c)
       /\ ThreadOf(c)[turns[r].index + 1] = [round |-> r, winner |-> WinnerOf(r)]
  /\ \A i \in 1..Length(c) : /\ ThreadOf(c)[i].round \in Rows(c)
                             /\ turns[ThreadOf(c)[i].round].index = i - 1
  /\ \A i \in 1..(Length(c) - 1) : ThreadOf(c)[i].winner # None

\* The index maps the turns of a conversation one to one onto 0 to its latest.
LEMMA LengthIs ==
  ASSUME IndInv, NEW c \in Requests, NEW latest \in Requests, IsLatest(c, latest)
  PROVE  Length(c) = turns[latest].index + 1
<1>1. PICK n \in Nat : n = turns[latest].index
  BY DEF IndInv, TypeOK
<1>2. \A r \in Rows(c) : r \in Requests /\ turns[r].index \in Nat
  BY DEF IndInv, TypeOK, Rows
<1> DEFINE I == 0..n
           f == [r \in Rows(c) |-> turns[r].index]
<1>3. IsFiniteSet(I) /\ Cardinality(I) = n + 1
  BY <1>1, FS_Interval
<1>4. f \in [Rows(c) -> I]
  BY <1>1, <1>2 DEF IsLatest
<1>5. \A p, q \in Rows(c) : f[p] = f[q] => p = q
  BY NoneIsNoValue DEF IndInv, UniqueTurns, Rows, Saved
<1>6. ASSUME NEW i \in I PROVE \E r \in Rows(c) : f[r] = i
  <2>1. CASE i = n
    BY <1>1, <2>1 DEF IsLatest
  <2>2. CASE i # n
    <3>1. i \in 0..(turns[latest].index - 1) /\ latest \in Rows(c)
      BY <1>1, <2>2 DEF IsLatest
    <3> QED BY <3>1, EarlierTurns
  <2> QED BY <2>1, <2>2
<1>7. f \in Injection(Rows(c), I) /\ f \in Surjection(Rows(c), I)
  BY <1>4, <1>5, <1>6 DEF Injection, Surjection, IsInjective
<1> HIDE DEF I, f
<1>8. Cardinality(Rows(c)) = Cardinality(I)
  BY <1>3, <1>7, FS_Injection
<1> QED BY <1>1, <1>3, <1>8 DEF Length

LEMMA ChainNow == ASSUME IndInv PROVE \A c \in Requests : Chain(c)
<1> SUFFICES ASSUME NEW c \in Requests PROVE Chain(c)
  OBVIOUS
<1>0. ThreadOf(c) = [i \in 1..Length(c) |->
                       [round |-> TurnAt(c, i - 1), winner |-> WinnerOf(TurnAt(c, i - 1))]]
  BY DEF ThreadOf, Length
<1>1. CASE Rows(c) = {}
  <2>1. Length(c) = 0
    BY <1>1, FS_EmptySet DEF Length
  <2>2. ThreadOf(c) \in [1..0 -> Entries]
    BY <1>0, <2>1
  <2> QED BY <1>1, <2>1, <2>2 DEF Chain
<1>2. CASE Rows(c) # {}
  <2>1. PICK latest \in Requests : IsLatest(c, latest)
    BY <1>2, LatestOf
  <2>2. PICK n \in Nat : n = turns[latest].index /\ Length(c) = n + 1
    BY <2>1, LengthIs DEF IndInv, TypeOK
  <2>3. ASSUME NEW r \in Rows(c)
        PROVE  r \in Requests /\ turns[r].index \in 0..n /\ TurnAt(c, turns[r].index) = r
    <3>1. r \in Requests /\ turns[r].index \in Nat
      BY DEF IndInv, TypeOK, Rows
    <3> QED BY <3>1, <2>1, <2>2, TurnAtIs DEF IsLatest, IndInv
  <2>4. ASSUME NEW j \in 0..n
        PROVE  \E r \in Rows(c) : turns[r].index = j /\ (j < n => WinnerOf(r) # None)
    <3>1. CASE j = n
      BY <2>1, <2>2, <3>1 DEF IsLatest
    <3>2. CASE j < n
      <4>1. j \in 0..(turns[latest].index - 1) /\ latest \in Rows(c)
        BY <2>1, <2>2, <3>2 DEF IsLatest
      <4> QED BY <4>1, EarlierTurns
    <3> QED BY <3>1, <3>2
  <2>5. ASSUME NEW j \in 0..n
        PROVE  /\ TurnAt(c, j) \in Rows(c) /\ turns[TurnAt(c, j)].index = j
               /\ j < n => WinnerOf(TurnAt(c, j)) # None
    BY <2>3, <2>4
  <2>6. ASSUME NEW i \in 1..(n + 1)
        PROVE  /\ i - 1 \in 0..n
               /\ ThreadOf(c)[i] = [round |-> TurnAt(c, i - 1), winner |-> WinnerOf(TurnAt(c, i - 1))]
    BY <1>0, <2>2
  <2>7. ThreadOf(c) \in [1..Length(c) -> Entries]
    <3>1. \A r : WinnerOf(r) \in Responses \cup {None}
      BY WinnerType DEF IndInv
    <3>2. \A i \in 1..(n + 1) : TurnAt(c, i - 1) \in Requests
      BY <2>3, <2>5, <2>6
    <3>3. \A i \in 1..(n + 1) :
            [round |-> TurnAt(c, i - 1), winner |-> WinnerOf(TurnAt(c, i - 1))] \in Entries
      BY <3>1, <3>2 DEF Entries
    <3> QED BY <1>0, <2>2, <3>3
  <2>8. \A r \in Rows(c) :
          /\ turns[r].index + 1 \in 1..Length(c)
          /\ ThreadOf(c)[turns[r].index + 1] = [round |-> r, winner |-> WinnerOf(r)]
    <3> SUFFICES ASSUME NEW r \in Rows(c)
                 PROVE  /\ turns[r].index + 1 \in 1..(n + 1)
                        /\ ThreadOf(c)[turns[r].index + 1] = [round |-> r, winner |-> WinnerOf(r)]
      BY <2>2
    <3>1. PICK j \in 0..n : j = turns[r].index /\ TurnAt(c, j) = r
      BY <2>3
    <3>2. j + 1 \in 1..(n + 1) /\ (j + 1) - 1 = j
      OBVIOUS
    <3> QED BY <2>6, <3>1, <3>2
  <2>9. \A i \in 1..Length(c) : /\ ThreadOf(c)[i].round \in Rows(c)
                                /\ turns[ThreadOf(c)[i].round].index = i - 1
    <3> SUFFICES ASSUME NEW i \in 1..(n + 1)
                 PROVE  /\ ThreadOf(c)[i].round \in Rows(c)
                        /\ turns[ThreadOf(c)[i].round].index = i - 1
      BY <2>2
    <3>0. i - 1 \in 0..n /\ ThreadOf(c)[i] =
                             [round |-> TurnAt(c, i - 1), winner |-> WinnerOf(TurnAt(c, i - 1))]
      BY <2>6
    <3>1. i - 1 \in 0..n /\ ThreadOf(c)[i].round = TurnAt(c, i - 1)
      BY <3>0
    <3>2. TurnAt(c, i - 1) \in Rows(c) /\ turns[TurnAt(c, i - 1)].index = i - 1
      BY <2>5, <3>1
    <3> QED BY <3>1, <3>2
  <2>10. \A i \in 1..(Length(c) - 1) : ThreadOf(c)[i].winner # None
    <3> SUFFICES ASSUME NEW i \in 1..n PROVE ThreadOf(c)[i].winner # None
      BY <2>2
    <3>1. i \in 1..(n + 1) /\ i - 1 \in 0..n /\ i - 1 < n
      OBVIOUS
    <3>2. WinnerOf(TurnAt(c, i - 1)) # None
      BY <2>5, <3>1
    <3>3. ThreadOf(c)[i] = [round |-> TurnAt(c, i - 1), winner |-> WinnerOf(TurnAt(c, i - 1))]
      BY <2>6, <3>1
    <3>4. ThreadOf(c)[i].winner = WinnerOf(TurnAt(c, i - 1))
      BY <3>3
    <3> QED BY <3>2, <3>4
  <2> QED BY <2>2, <2>7, <2>8, <2>9, <2>10 DEF Chain
<1> QED BY <1>1, <1>2

LEMMA ChainNext == IndInv' => (\A c \in Requests : Chain(c))'
<1>1. IndInv => \A c \in Requests : Chain(c)
  BY ChainNow
<1> QED BY <1>1, PTL

\* A winner is an answer of its round; a round without a row has none.
LEMMA WinnerShape ==
  IndInv => \A r \in Requests : /\ WinnerOf(r) = None \/ \E s \in Slots : WinnerOf(r) = <<r, s>>
                                /\ ~Saved(r) => WinnerOf(r) = None
<1> SUFFICES ASSUME IndInv, NEW r \in Requests
             PROVE  /\ WinnerOf(r) = None \/ \E s \in Slots : WinnerOf(r) = <<r, s>>
                    /\ ~Saved(r) => WinnerOf(r) = None
  OBVIOUS
<1>1. ~Saved(r) => preferences[r].winner = None
  BY DEF IndInv, VotesOfRows, RecordedVotes, Votable
<1> QED BY <1>1, WinnerRow

LEMMA WinnerShapeNext ==
  IndInv' => (\A r \in Requests : /\ WinnerOf(r) = None \/ \E s \in Slots : WinnerOf(r) = <<r, s>>
                                  /\ ~Saved(r) => WinnerOf(r) = None)'
BY WinnerShape, PTL

Won(r) == {s \in Slots : /\ <<r, s>> \in responses
                         /\ preferences[r].winner # None
                         /\ turns[r].model[s] = preferences[r].winner}

LEMMA WonKept == ASSUME NEW r, Won(r)' = Won(r) PROVE WinnerOf(r)' = WinnerOf(r)
<1>1. WinnerOf(r) = IF Won(r) = {} THEN None ELSE <<r, CHOOSE s \in Won(r) : TRUE>>
  BY DEF WinnerOf, Won
<1>2. WinnerOf(r)' = IF Won(r)' = {} THEN None ELSE <<r, CHOOSE s \in Won(r)' : TRUE>>
  BY DEF WinnerOf, Won
<1> QED BY <1>1, <1>2

\* A step commits one round, or may give one round its winner, or leaves the
\* tables as the thread sees them.
LEMMA WinnersChange ==
  ASSUME IndInv, [Next]_vars
  PROVE  \/ \E r \in Requests : Commit(r)
         \/ /\ UNCHANGED <<conversations, turns>>
            /\ \E r \in Requests : \A q \in Requests \ {r} : WinnerOf(q)' = WinnerOf(q)
         \/ UNCHANGED db
<1> USE DEF db, Goto
<1>1. ASSUME NEW r \in Requests, SaveResponse(r)
      PROVE  /\ UNCHANGED <<conversations, turns>>
             /\ \A q \in Requests \ {r} : WinnerOf(q)' = WinnerOf(q)
  <2>1. PICK s \in Slots : responses' = responses \cup {<<r, s>>}
    BY <1>1 DEF SaveResponse
  <2>2. UNCHANGED <<conversations, turns, preferences>>
    BY <1>1 DEF SaveResponse
  <2>3. \A q \in Requests \ {r} : Won(q)' = Won(q)
    BY <2>1, <2>2 DEF Won
  <2> QED BY <2>2, <2>3, WonKept
<1>2. ASSUME NEW b \in Ballots, RecordPreference(b)
      PROVE  /\ UNCHANGED <<conversations, turns>>
             /\ \E r \in Requests : \A q \in Requests \ {r} : WinnerOf(q)' = WinnerOf(q)
  <2>1. ballot[b].round \in Requests
    BY <1>2 DEF RecordPreference, IndInv, VotesOfRows, VotesUnderWay
  <2>2. UNCHANGED <<conversations, turns, responses>>
        /\ preferences' = [preferences EXCEPT ![ballot[b].round] = ballot[b].row]
    BY <1>2 DEF RecordPreference
  <2>3. \A q \in Requests \ {ballot[b].round} : preferences'[q] = preferences[q]
    BY <2>2 DEF IndInv, TypeOK
  <2>4. \A q \in Requests \ {ballot[b].round} : Won(q)' = Won(q)
    BY <2>2, <2>3 DEF Won
  <2> QED BY <2>1, <2>2, <2>4, WonKept
<1>3. ASSUME NEW r \in Requests, ChatStep(r)
      PROVE  Commit(r) \/ SaveResponse(r) \/ UNCHANGED db
  BY <1>3 DEF ChatStep, Open, ReadContext, CheckLatest, RollBack, QueryFails, GiveUp, CutStream
<1>4. ASSUME NEW b \in Ballots, VoteStep(b) PROVE RecordPreference(b) \/ UNCHANGED db
  BY <1>4 DEF VoteStep, AdmitVote, VoteFails
<1> QED BY <1>1, <1>2, <1>3, <1>4 DEF Next, Crash, vars

LEMMA SameFunction ==
  ASSUME NEW S, NEW T, NEW f \in [S -> T], NEW g \in [S -> T], \A x \in S : f[x] = g[x]
  PROVE  f = g
OBVIOUS

\* A thread whose rows and winners stand still does.
LEMMA ThreadStands ==
  ASSUME NEW c \in Requests, Chain(c), Chain(c)', Rows(c)' = Rows(c),
         \A r \in Rows(c) : turns'[r] = turns[r] /\ WinnerOf(r)' = WinnerOf(r)
  PROVE  ThreadOf(c)' = ThreadOf(c)
<1>1. Length(c)' = Length(c) /\ Length(c) \in Nat
  BY DEF Length, Chain
<1>2. ThreadOf(c) \in [1..Length(c) -> Entries] /\ ThreadOf(c)' \in [1..Length(c) -> Entries]
  BY <1>1 DEF Chain, Entries
<1>3. ASSUME NEW i \in 1..Length(c) PROVE ThreadOf(c)'[i] = ThreadOf(c)[i]
  <2>1. PICK r \in Rows(c) : r = ThreadOf(c)[i].round /\ turns[r].index = i - 1
    BY DEF Chain
  <2>2. turns[r].index + 1 = i /\ turns'[r].index + 1 = i
    BY <2>1
  <2>3. ThreadOf(c)[i] = [round |-> r, winner |-> WinnerOf(r)]
    BY <2>1, <2>2 DEF Chain
  <2>4. ThreadOf(c)'[i] = [round |-> r, winner |-> WinnerOf(r)']
    BY <2>1, <2>2 DEF Chain
  <2> QED BY <2>1, <2>3, <2>4
<1>4. PICK f, g, S : f = ThreadOf(c) /\ g = ThreadOf(c)' /\ S = 1..Length(c)
  OBVIOUS
<1>5. f \in [S -> Entries] /\ g \in [S -> Entries] /\ \A i \in S : f[i] = g[i]
  BY <1>2, <1>3, <1>4
<1>6. f = g
  BY <1>5, SameFunction
<1> QED BY <1>4, <1>6

LEMMA SeqOf ==
  ASSUME NEW S, NEW n \in Nat, NEW f \in [1..n -> S]
  PROVE  f \in Seq(S) /\ Len(f) = n
<1>1. f \in Seq(S)
  BY SeqDef
<1>2. Len(f) \in Nat /\ DOMAIN f = 1..Len(f)
  BY <1>1, LenProperties
<1>3. 1..Len(f) = 1..n
  BY <1>2
<1> QED BY <1>1, <1>2, <1>3

\* The committed round joins the end of its thread, whose rounds are all won,
\* and no other thread changes.
LEMMA CommitJoins ==
  ASSUME IndInv, IndInv', [Next]_vars, NEW r \in Requests, Commit(r),
         NEW c, c = input[r].conv
  PROVE  /\ c \in Requests
         /\ ThreadOf(c)' = Append(ThreadOf(c), [round |-> r, winner |-> None])
         /\ \A d \in Requests \ {c} : ThreadOf(d)' = ThreadOf(d)
         /\ context[r].index = Length(c)
         /\ Length(c) > 0 => ThreadOf(c)[Length(c)].winner # None
<1>0. TypeOK /\ RowsOfRequest /\ Kept /\ (\A d \in Requests : Chain(d))
      /\ (\A d \in Requests : Chain(d)')
  BY StepKeeps, ChainNow, ChainNext DEF IndInv
<1>1. c \in Requests /\ ~Saved(r)
  BY <1>0 DEF Commit, RowsOfRequest, Opening
<1>2. PICK k \in Nat : k = context[r].index
  BY <1>0 DEF TypeOK
<1>3. /\ \A q \in Requests : q # r => turns'[q] = turns[q]
      /\ turns'[r].conv = c /\ turns'[r].index = k
      /\ UNCHANGED <<responses, preferences>>
  BY <1>0, <1>2 DEF Commit, TypeOK
<1>4. \A q \in Requests : q # r => WinnerOf(q)' = WinnerOf(q)
  BY <1>3, WonKept DEF Won
<1>5. Rows(c)' = Rows(c) \cup {r} /\ r \notin Rows(c)
  BY <1>1, <1>3 DEF Rows, Saved
<1>6. \A d \in Requests \ {c} : ThreadOf(d)' = ThreadOf(d)
  <2> SUFFICES ASSUME NEW d \in Requests \ {c} PROVE ThreadOf(d)' = ThreadOf(d)
    OBVIOUS
  <2>1. Rows(d)' = Rows(d) /\ r \notin Rows(d)
    BY <1>1, <1>3 DEF Rows, Saved
  <2>2. \A q \in Rows(d) : turns'[q] = turns[q] /\ WinnerOf(q)' = WinnerOf(q)
    BY <1>3, <1>4, <2>1 DEF Rows
  <2> QED BY <1>0, <2>1, <2>2, ThreadStands
<1>7. PICK n \in Nat : n = Length(c) /\ Length(c)' = n + 1
  <2>1. IsFiniteSet(Rows(c))
    <3>1. Rows(c) \subseteq Requests
      BY DEF Rows
    <3> QED BY <3>1, RequestsFinite, FS_Subset
  <2>2. Length(c)' = Length(c) + 1
    BY <1>5, <2>1, FS_AddElement DEF Length
  <2> QED BY <1>0, <1>1, <2>2 DEF Chain
<1>8. \A i \in 1..n : \E q \in Rows(c) : turns[q].index = i - 1
  BY <1>0, <1>1, <1>7 DEF Chain
<1>9. k = n
  <2>1. k + 1 \in 1..(n + 1)
    BY <1>0, <1>1, <1>3, <1>5, <1>7 DEF Chain
  <2>2. k + 1 \notin 1..n
    <3> SUFFICES ASSUME k + 1 \in 1..n PROVE FALSE
      OBVIOUS
    <3>1. PICK q \in Rows(c) : turns[q].index = (k + 1) - 1
      BY <1>8
    <3>2. turns[q].index = k /\ turns[q].conv = c /\ q \in Requests
      BY <3>1 DEF Rows
    <3> QED BY <1>2, <3>2 DEF Commit, Unique
  <2> QED BY <2>1, <2>2
<1>10. ThreadOf(c) \in Seq(Entries) /\ Len(ThreadOf(c)) = n
  <2>1. ThreadOf(c) \in [1..n -> Entries]
    BY <1>0, <1>1, <1>7 DEF Chain
  <2> QED BY <2>1, SeqOf
<1>11. ThreadOf(c)' \in Seq(Entries) /\ Len(ThreadOf(c)') = n + 1
  <2>1. ThreadOf(c)' \in [1..(n + 1) -> Entries]
    BY <1>0, <1>1, <1>7 DEF Chain, Entries
  <2> QED BY <2>1, SeqOf
<1>12. WinnerOf(r)' = None /\ ThreadOf(c)'[n + 1] = [round |-> r, winner |-> None]
  <2>1. preferences'[r].winner = None
    BY <1>1, <1>3 DEF IndInv, VotesOfRows, RecordedVotes, Votable
  <2>2. Won(r)' = {}
    BY <2>1 DEF Won
  <2>3. WinnerOf(r)' = None
    BY <2>2 DEF Won, WinnerOf
  <2>4. ThreadOf(c)'[turns'[r].index + 1] = [round |-> r, winner |-> WinnerOf(r)']
    BY <1>0, <1>1, <1>5 DEF Chain
  <2> QED BY <1>3, <1>9, <2>3, <2>4
<1>13. ASSUME NEW i \in 1..n PROVE ThreadOf(c)'[i] = ThreadOf(c)[i]
  <2>1. PICK q \in Rows(c) : q = ThreadOf(c)[i].round /\ turns[q].index = i - 1
    BY <1>0, <1>1, <1>7 DEF Chain
  <2>2. q \in Requests /\ q # r /\ q \in Rows(c)'
    BY <1>5 DEF Rows
  <2>3. turns[q].index + 1 = i /\ turns'[q].index + 1 = i
    BY <1>3, <2>1, <2>2
  <2>4. ThreadOf(c)[i] = [round |-> q, winner |-> WinnerOf(q)]
    BY <1>0, <1>1, <2>1, <2>3 DEF Chain
  <2>5. ThreadOf(c)'[i] = [round |-> q, winner |-> WinnerOf(q)']
    BY <1>0, <1>1, <2>2, <2>3 DEF Chain
  <2> QED BY <1>4, <2>2, <2>4, <2>5
<1>14. ThreadOf(c)' = Append(ThreadOf(c), [round |-> r, winner |-> None])
  <2>1. [round |-> r, winner |-> None] \in Entries
    BY DEF Entries
  <2>2. PICK f, g, e : f = ThreadOf(c) /\ g = ThreadOf(c)' /\ e = [round |-> r, winner |-> None]
    OBVIOUS
  <2>3. /\ f \in Seq(Entries) /\ Len(f) = n /\ g \in Seq(Entries) /\ Len(g) = n + 1
        /\ e \in Entries /\ g[n + 1] = e /\ \A i \in 1..n : g[i] = f[i]
    BY <1>10, <1>11, <1>12, <1>13, <2>1, <2>2
  <2>4. g = Append(f, e)
    BY <2>3, AppendProperties, SeqEqual
  <2> QED BY <2>2, <2>4
<1>15. n > 0 => ThreadOf(c)[n].winner # None
  <2> SUFFICES ASSUME n > 0 PROVE ThreadOf(c)[n].winner # None
    OBVIOUS
  <2>1. n \in 1..n /\ n \in 1..((n + 1) - 1)
    OBVIOUS
  <2>2. ThreadOf(c)'[n].winner # None
    BY <1>0, <1>1, <1>7, <2>1 DEF Chain
  <2> QED BY <1>13, <2>1, <2>2
<1> QED BY <1>1, <1>2, <1>6, <1>7, <1>9, <1>14, <1>15

\* A round that gets a winner is the last of its thread: the others have theirs.
LEMMA SettleWins ==
  ASSUME IndInv, IndInv', [Next]_vars, turns' = turns, NEW r \in Requests,
         \A q \in Requests \ {r} : WinnerOf(q)' = WinnerOf(q), WinnerOf(r)' # WinnerOf(r)
  PROVE  \E c \in Requests, s \in Slots :
           /\ Length(c) > 0
           /\ ThreadOf(c)[Length(c)] = [round |-> r, winner |-> None]
           /\ ThreadOf(c)' = [ThreadOf(c) EXCEPT ![Length(c)].winner = <<r, s>>]
           /\ \A d \in Requests \ {c} : ThreadOf(d)' = ThreadOf(d)
<1>0. TypeOK /\ Kept /\ (\A d \in Requests : Chain(d)) /\ (\A d \in Requests : Chain(d)')
      /\ \A d \in Requests : Rows(d)' = Rows(d)
  BY StepKeeps, ChainNow, ChainNext DEF IndInv, Rows
<1>1. Saved(r)
  BY WinnerShape, WinnerShapeNext DEF Saved
<1>2. WinnerOf(r) = None
  BY <1>0, <1>1, WinnerKept
<1>3. PICK s \in Slots : WinnerOf(r)' = <<r, s>>
  BY <1>2, WinnerShapeNext
<1>4. PICK c \in Requests : c = turns[r].conv
  BY <1>0, <1>1 DEF TypeOK, Saved
<1>5. r \in Rows(c)
  BY <1>4 DEF Rows
<1>6. PICK n \in Nat : n = Length(c) /\ Length(c)' = n
  BY <1>0 DEF Chain, Length
<1>7. turns[r].index + 1 \in 1..n
      /\ ThreadOf(c)[turns[r].index + 1] = [round |-> r, winner |-> None]
      /\ ThreadOf(c)'[turns[r].index + 1] = [round |-> r, winner |-> <<r, s>>]
  <2>1. /\ turns[r].index + 1 \in 1..n
        /\ ThreadOf(c)[turns[r].index + 1] = [round |-> r, winner |-> WinnerOf(r)]
    BY <1>0, <1>5, <1>6 DEF Chain
  <2>2. ThreadOf(c)'[turns'[r].index + 1] = [round |-> r, winner |-> WinnerOf(r)']
    BY <1>0, <1>5 DEF Chain
  <2> QED BY <1>2, <1>3, <2>1, <2>2
<1>8. turns[r].index + 1 = n
  <2> SUFFICES ASSUME turns[r].index + 1 # n PROVE FALSE
    OBVIOUS
  <2>1. turns[r].index + 1 \in 1..(n - 1)
    BY <1>7
  <2>2. ThreadOf(c)[turns[r].index + 1].winner # None
    BY <1>0, <1>6, <2>1 DEF Chain
  <2> QED BY <1>7, <2>2
<1>9. ASSUME NEW i \in 1..n, i # n PROVE ThreadOf(c)'[i] = ThreadOf(c)[i]
  <2>1. PICK q \in Rows(c) : q = ThreadOf(c)[i].round /\ turns[q].index = i - 1
    BY <1>0, <1>6 DEF Chain
  <2>2. q \in Requests /\ q # r /\ q \in Rows(c)'
    BY <1>0, <1>8, <1>9, <2>1 DEF Rows
  <2>3. turns[q].index + 1 = i /\ turns'[q].index + 1 = i
    BY <2>1
  <2>4. ThreadOf(c)[i] = [round |-> q, winner |-> WinnerOf(q)]
    BY <1>0, <2>1, <2>3 DEF Chain
  <2>5. ThreadOf(c)'[i] = [round |-> q, winner |-> WinnerOf(q)']
    BY <1>0, <2>2, <2>3 DEF Chain
  <2> QED BY <2>2, <2>4, <2>5
<1>10. ThreadOf(c)' = [ThreadOf(c) EXCEPT ![n].winner = <<r, s>>]
  <2>1. PICK f, g : f = ThreadOf(c) /\ g = ThreadOf(c)'
    OBVIOUS
  <2>2. f \in [1..n -> Entries] /\ g \in [1..n -> Entries]
    BY <1>0, <1>6, <2>1 DEF Chain, Entries
  <2>3. /\ n \in 1..n /\ f[n] = [round |-> r, winner |-> None]
        /\ g[n] = [round |-> r, winner |-> <<r, s>>]
        /\ \A i \in 1..n : i # n => g[i] = f[i]
    BY <1>7, <1>8, <1>9, <2>1
  <2>4. [f[n] EXCEPT !.winner = <<r, s>>] = g[n]
    BY <2>3
  <2>5. g = [f EXCEPT ![n] = [f[n] EXCEPT !.winner = <<r, s>>]]
    BY <2>2, <2>3, <2>4
  <2> QED BY <2>1, <2>5
<1>11. \A d \in Requests \ {c} : ThreadOf(d)' = ThreadOf(d)
  <2> SUFFICES ASSUME NEW d \in Requests \ {c} PROVE ThreadOf(d)' = ThreadOf(d)
    OBVIOUS
  <2>1. \A q \in Rows(d) : turns'[q] = turns[q] /\ WinnerOf(q)' = WinnerOf(q)
    BY <1>4 DEF Rows
  <2> QED BY <1>0, <2>1, ThreadStands
<1> QED BY <1>6, <1>7, <1>8, <1>10, <1>11

LEMMA ThreadInit == Init => AbstractThread!Init
<1> SUFFICES ASSUME Init PROVE AbstractThread!Init
  OBVIOUS
<1>1. \A c \in Requests : Chain(c) /\ Rows(c) = {}
  BY IndInit, ChainNow DEF Init, NoTurn, Rows
<1>2. \A c \in Requests : ThreadOf(c) = << >>
  <2> SUFFICES ASSUME NEW c \in Requests PROVE ThreadOf(c) = << >>
    OBVIOUS
  <2>1. Length(c) = 0
    BY <1>1, FS_EmptySet DEF Length
  <2>2. ThreadOf(c) \in [1..0 -> Entries]
    BY <1>1, <2>1 DEF Chain
  <2>3. ThreadOf(c) \in Seq(Entries) /\ Len(ThreadOf(c)) = 0
    BY <2>2, SeqOf
  <2> QED BY <2>3, EmptySeq
<1> QED BY <1>2 DEF Init, AbstractThread!Init

\* A committed round opens its thread or continues it.
LEMMA CommitMapped ==
  ASSUME IndInv, IndInv', [Next]_vars, NEW r \in Requests, Commit(r)
  PROVE  AbstractThread!Next
<1> DEFINE th == [d \in Requests |-> ThreadOf(d)]
           e == [round |-> r, winner |-> None]
<1>0. TypeOK /\ RowsOfRequest /\ OwnedRows /\ (\A d \in Requests : Chain(d))
  BY ChainNow DEF IndInv
<1>1. PICK c \in Requests :
        /\ c = input[r].conv
        /\ ThreadOf(c)' = Append(ThreadOf(c), e)
        /\ \A d \in Requests \ {c} : ThreadOf(d)' = ThreadOf(d)
        /\ context[r].index = Length(c)
        /\ Length(c) > 0 => ThreadOf(c)[Length(c)].winner # None
  BY CommitJoins
<1>2. th' = [th EXCEPT ![c] = Append(th[c], e)]
  BY <1>1
<1>3. \A d \in Requests : ThreadOf(d) \in Seq(Entries) /\ Len(ThreadOf(d)) = Length(d)
  <2> SUFFICES ASSUME NEW d \in Requests
               PROVE  ThreadOf(d) \in Seq(Entries) /\ Len(ThreadOf(d)) = Length(d)
    OBVIOUS
  <2>1. PICK n \in Nat : n = Length(d)
    BY <1>0 DEF Chain
  <2>2. ThreadOf(d) \in [1..n -> Entries]
    BY <1>0, <2>1 DEF Chain
  <2> QED BY <2>1, <2>2, SeqOf
<1>4. th'[c] # th[c]
  <2>1. e \in Entries
    BY DEF Entries
  <2>2. PICK f : f = ThreadOf(c)
    OBVIOUS
  <2>3. Append(f, e) # f
    BY <1>3, <2>1, <2>2, AppendProperties, LenProperties
  <2> QED BY <1>1, <2>2, <2>3
<1>5. \A d \in Requests : \A i \in 1..Len(ThreadOf(d)) : ThreadOf(d)[i].round # r
  <2>1. ~Saved(r)
    BY <1>0 DEF Commit, RowsOfRequest, Opening
  <2>2. \A d \in Requests : r \notin Rows(d)
    BY <2>1 DEF Rows, Saved
  <2> QED BY <1>0, <1>3, <2>2 DEF Chain
<1>6. AbstractThread!Fresh(r) /\ AbstractThread!Entry(r) = e
  BY <1>5 DEF AbstractThread!Fresh, AbstractThread!Entry
<1>7. CASE context[r].index = 0
  <2>1. c = r /\ input[r].session \in Sessions /\ ~Saved(r)
    BY <1>0, <1>1, <1>7 DEF Commit, RowsOfRequest, Opening
  <2>2. conversations[r] = None
    BY <1>0, <2>1 DEF OwnedRows
  <2>3. conversations' = [conversations EXCEPT ![r] = input[r].session]
    BY <1>7 DEF Commit
  <2>4. ThreadOf(c) = << >>
    BY <1>1, <1>3, <1>7, EmptySeq
  <2>5. Append(<< >>, e) = <<e>>
    OBVIOUS
  <2>6. th[c] = << >> /\ th' = [th EXCEPT ![c] = <<e>>]
    BY <1>2, <2>4, <2>5
  <2>7. AbstractThread!Open(c, input[r].session)
    BY <1>6, <2>1, <2>2, <2>3, <2>6 DEF AbstractThread!Open
  <2> QED BY <1>4, <2>1, <2>7 DEF AbstractThread!Next
<1>8. CASE context[r].index # 0
  <2>1. UNCHANGED conversations
    BY <1>8 DEF Commit
  <2>2. Length(c) > 0 /\ Len(th[c]) = Length(c) /\ th[c] # << >>
    BY <1>0, <1>1, <1>3, <1>8, EmptySeq DEF Chain
  <2>3. AbstractThread!Last(c).winner # None
    BY <1>1, <2>2 DEF AbstractThread!Last
  <2>4. AbstractThread!Continue(c)
    BY <1>2, <1>6, <2>1, <2>2, <2>3 DEF AbstractThread!Continue
  <2> QED BY <1>4, <2>4 DEF AbstractThread!Next
<1> QED BY <1>7, <1>8

LEMMA AllStand ==
  ASSUME IndInv, IndInv', UNCHANGED <<conversations, turns>>,
         \A q \in Requests : WinnerOf(q)' = WinnerOf(q)
  PROVE  UNCHANGED AbstractThread!vars
<1>1. ASSUME NEW c \in Requests PROVE ThreadOf(c)' = ThreadOf(c)
  <2>1. Chain(c) /\ Chain(c)' /\ Rows(c)' = Rows(c)
    BY ChainNow, ChainNext DEF Rows
  <2>2. \A r \in Rows(c) : turns'[r] = turns[r] /\ WinnerOf(r)' = WinnerOf(r)
    BY DEF Rows
  <2> QED BY <2>1, <2>2, ThreadStands
<1> QED BY <1>1 DEF AbstractThread!vars

\* A vote or an answer that gives a round its winner settles the last of a thread.
LEMMA SettleMapped ==
  ASSUME IndInv, IndInv', [Next]_vars, UNCHANGED <<conversations, turns>>,
         NEW r \in Requests, \A q \in Requests \ {r} : WinnerOf(q)' = WinnerOf(q),
         WinnerOf(r)' # WinnerOf(r)
  PROVE  AbstractThread!Next
<1> DEFINE th == [d \in Requests |-> ThreadOf(d)]
<1>1. PICK c \in Requests, s \in Slots :
        /\ Length(c) > 0
        /\ ThreadOf(c)[Length(c)] = [round |-> r, winner |-> None]
        /\ ThreadOf(c)' = [ThreadOf(c) EXCEPT ![Length(c)].winner = <<r, s>>]
        /\ \A d \in Requests \ {c} : ThreadOf(d)' = ThreadOf(d)
  <2>1. turns' = turns
    OBVIOUS
  <2> QED BY <2>1, SettleWins
<1>2. PICK n \in Nat : n = Length(c) /\ n > 0
  BY <1>1, ChainNow DEF Chain
<1>3. ThreadOf(c) \in [1..n -> Entries]
  BY <1>2, ChainNow DEF Chain
<1>4. Len(th[c]) = n /\ th[c] # << >> /\ th[c] = ThreadOf(c)
  BY <1>2, <1>3, SeqOf
<1>5. th' = [th EXCEPT ![c] = [th[c] EXCEPT ![n].winner = <<r, s>>]]
  BY <1>1, <1>2
<1>6. th'[c] # th[c]
  <2>1. PICK f : f = ThreadOf(c) /\ f \in [1..n -> Entries] /\ f[n].winner = None
    BY <1>1, <1>2, <1>3
  <2>2. f[n] \in Entries
    BY <1>2, <2>1
  <2>3. [f EXCEPT ![n].winner = <<r, s>>][n].winner = <<r, s>>
    BY <1>2, <2>1, <2>2 DEF Entries
  <2>4. <<r, s>> # None
    BY DEF Slots
  <2>5. [f EXCEPT ![n].winner = <<r, s>>] # f
    BY <2>1, <2>3, <2>4
  <2> QED BY <1>1, <1>2, <2>1, <2>5
<1>7. AbstractThread!Last(c) = [round |-> r, winner |-> None]
  BY <1>1, <1>2, <1>4 DEF AbstractThread!Last
<1>8. AbstractThread!Settle(c)
  <2>1. th' = [th EXCEPT ![c][Len(th[c])].winner = <<AbstractThread!Last(c).round, s>>]
    <3>1. PICK f : f = th
      OBVIOUS
    <3>2. th' = [f EXCEPT ![c] = [f[c] EXCEPT ![n].winner = <<r, s>>]]
      BY <1>5, <3>1, Zenon
    <3>3. [f EXCEPT ![c] = [f[c] EXCEPT ![n].winner = <<r, s>>]]
          = [f EXCEPT ![c][n].winner = <<r, s>>]
      BY Zenon
    <3>4. th' = [th EXCEPT ![c][n].winner = <<r, s>>]
      BY <3>1, <3>2, <3>3, Zenon
    <3>5. n = Len(th[c]) /\ r = AbstractThread!Last(c).round
      BY <1>4, <1>7
    <3> QED BY <3>4, <3>5, Zenon
  <2>2. UNCHANGED conversations /\ AbstractThread!Last(c).winner = None /\ th[c] # << >>
    BY <1>4, <1>7
  <2> QED BY <2>1, <2>2, Zenon DEF AbstractThread!Settle
<1> QED BY <1>6, <1>8 DEF AbstractThread!Next

LEMMA ThreadStep ==
  ASSUME IndInv, IndInv', [Next]_vars
  PROVE  AbstractThread!Next \/ UNCHANGED AbstractThread!vars
<1>1. CASE \E r \in Requests : Commit(r)
  BY <1>1, CommitMapped
<1>2. ASSUME UNCHANGED <<conversations, turns>>, NEW r \in Requests,
             \A q \in Requests \ {r} : WinnerOf(q)' = WinnerOf(q)
      PROVE  AbstractThread!Next \/ UNCHANGED AbstractThread!vars
  <2>1. CASE WinnerOf(r)' # WinnerOf(r)
    BY <1>2, <2>1, SettleMapped
  <2>2. CASE WinnerOf(r)' = WinnerOf(r)
    BY <1>2, <2>2, AllStand
  <2> QED BY <2>1, <2>2
<1>3. CASE UNCHANGED db
  <2>1. UNCHANGED <<conversations, turns>>
    BY <1>3 DEF db
  <2>2. \A q \in Requests : Won(q)' = Won(q)
    BY <1>3 DEF db, Won
  <2>3. \A q \in Requests : WinnerOf(q)' = WinnerOf(q)
    BY <2>2, WonKept
  <2> QED BY <2>1, <2>3, AllStand
<1> QED BY <1>1, <1>2, <1>3, WinnersChange

\* However requests, votes, answers and crashes interleave, the tables only ever
\* append a round to a thread whose rounds are all won, or settle the winner of
\* the last one (createMatchup's checks, the constraints on turns, preferences
\* and responses): the refinement of Thread.
THEOREM ThreadImplemented == Spec => ImplementsThread
<1>1. IndInv /\ IndInv' /\ [Next]_vars
        => AbstractThread!Next \/ UNCHANGED AbstractThread!vars
  BY ThreadStep
<1> QED BY <1>1, ThreadInit, Inductive, PTL DEF Spec, ImplementsThread, AbstractThread!Spec

=============================================================================
