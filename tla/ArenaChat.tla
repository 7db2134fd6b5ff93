----------------------------- MODULE ArenaChat -----------------------------
(***************************************************************************)
(* useArenaChat, the React hook, over a server that answers, votes and     *)
(* stops at its own pace.  Each callback of the hook runs to its next      *)
(* await in one step, so a reply may find the hook showing another round   *)
(* than the one it was asked for.  Rounds are named by the prompt that     *)
(* opens them, conversations by their first round.  Both slots are handled *)
(* alike, so one text and one status stand for them; error messages are    *)
(* left out.                                                               *)
(***************************************************************************)
EXTENDS Naturals, Sequences, FiniteSets

CONSTANTS MaxPrompts,  \* bound: prompts sent
          MaxTokens    \* bound: tokens of an answer

ASSUME Bounds == MaxPrompts \in Nat /\ MaxTokens \in Nat

VARIABLES
  \* the hook's refs
  current, matchup, conversation, socket,
  \* its state: what it renders
  text, status, isStreaming, canVote, revealed,
  \* its calls in flight
  prompts,   \* prompts sent so far
  request,   \* prompt -> how far its fetch is
  aborted,   \* prompt -> its AbortController was aborted
  asked,     \* prompt -> the conversationId it carried
  ballot,    \* round -> how far the vote on it is
  choice,    \* round -> whether that vote is decisive
  stops,     \* the rounds whose stop waits for the socket to open
  \* the server
  round,     \* prompt -> what the server made of it
  kind,      \* round -> its mode
  conv,      \* round -> its conversation
  verdict    \* round -> the vote recorded for it

refs   == <<current, matchup, conversation, socket>>
shown  == <<text, status, isStreaming, canVote, revealed>>
calls  == <<prompts, request, aborted, asked, ballot, choice, stops>>
server == <<round, kind, conv, verdict>>
vars   == <<refs, shown, calls, server>>

Prompts == 1..MaxPrompts
None    == 0

Init ==
  /\ current = None /\ matchup = None /\ conversation = None /\ socket = "none"
  /\ text = << >> /\ status = "idle" /\ isStreaming = FALSE /\ canVote = FALSE
  /\ revealed = None
  /\ prompts = 0 /\ stops = {}
  /\ request = [p \in Prompts |-> "idle"] /\ aborted = [p \in Prompts |-> FALSE]
  /\ asked = [p \in Prompts |-> None]
  /\ ballot = [p \in Prompts |-> "none"] /\ choice = [p \in Prompts |-> "none"]
  /\ round = [p \in Prompts |-> "none"] /\ kind = [p \in Prompts |-> "none"]
  /\ conv = [p \in Prompts |-> None] /\ verdict = [p \in Prompts |-> "none"]

(***************************************************************************)
(* The server.                                                             *)
(***************************************************************************)
Continues(c) ==
  LET turns == {p \in Prompts : conv[p] = c}
      last  == CHOOSE p \in turns : \A q \in turns : q =< p
  IN  turns # {} /\ verdict[last] = "decisive"

\* It may open the round of a request the hook has given up.
Opens(p) ==
  /\ round[p] = "asked"
  /\ \E mode \in {"matchup", "shadow", "single"} :
       /\ mode # "single" /\ asked[p] # None => Continues(asked[p])
       /\ kind' = [kind EXCEPT ![p] = mode]
       /\ conv' = [conv EXCEPT ![p] = CASE mode = "single"  -> None
                                        [] mode # "single" /\ asked[p] # None -> asked[p]
                                        [] OTHER            -> p]
  /\ round' = [round EXCEPT ![p] = "open"]
  /\ UNCHANGED <<refs, shown, calls, verdict>>

Refuses(p) ==
  /\ round[p] = "asked"
  /\ round' = [round EXCEPT ![p] = "refused"]
  /\ UNCHANGED <<refs, shown, calls, kind, conv, verdict>>

Records(p) ==
  /\ ballot[p] = "posted"
  /\ verdict' = [verdict EXCEPT ![p] = choice[p]]
  /\ ballot' = [ballot EXCEPT ![p] = "recorded"]
  /\ UNCHANGED <<refs, shown, prompts, request, aborted, asked, choice, stops,
                 round, kind, conv>>

(***************************************************************************)
(* sendPrompt.                                                             *)
(***************************************************************************)
Abort_Nothing == UNCHANGED aborted
Abort == aborted' = IF current = None THEN aborted
                    ELSE [aborted EXCEPT ![current] = TRUE]

SendPrompt ==
  /\ prompts < MaxPrompts
  /\ Abort
  /\ LET p == prompts + 1
     IN  /\ prompts' = p
         /\ current' = p
         /\ request' = [request EXCEPT ![p] = "fetching"]
         /\ asked' = [asked EXCEPT ![p] = conversation]
         /\ round' = [round EXCEPT ![p] = "asked"]
  /\ matchup' = None
  /\ text' = << >> /\ status' = "idle" /\ isStreaming' = TRUE /\ canVote' = FALSE
  /\ revealed' = None
  /\ UNCHANGED <<conversation, socket, ballot, choice, stops, kind, conv, verdict>>

\* The finally of a request: only the current one speaks for the view.
Settles(p) ==
  /\ request' = [request EXCEPT ![p] = "settled"]
  /\ isStreaming' = (isStreaming /\ current # p)

\* An HTTP error, the end of the body, a lost connection or an abort.
Returns(p) ==
  /\ request[p] \in {"fetching", "reading", "finished"}
  /\ Settles(p)
  /\ UNCHANGED <<refs, text, status, canVote, revealed, prompts, aborted, asked, ballot,
                 choice, stops, server>>

(***************************************************************************)
(* handleEvent: the events of a request that was not aborted.              *)
(***************************************************************************)
Hears(p, place) == request[p] = place /\ ~aborted[p]

Remembered_IfAny(p) == IF conv[p] = None THEN conversation ELSE conv[p]
Remembered(p) == conv[p]

MatchupStarted(p) ==
  /\ Hears(p, "fetching") /\ round[p] = "open"
  /\ request' = [request EXCEPT ![p] = "reading"]
  /\ matchup' = p
  /\ conversation' = Remembered(p)
  /\ canVote' = (kind[p] = "matchup")
  /\ status' = "streaming"
  /\ UNCHANGED <<current, socket, text, isStreaming, revealed, prompts, aborted, asked,
                 ballot, choice, stops, server>>

Token(p) ==
  /\ Hears(p, "reading") /\ status = "streaming" /\ Len(text) < MaxTokens
  /\ text' = Append(text, p)
  /\ UNCHANGED <<refs, status, isStreaming, canVote, revealed, calls, server>>

\* slot_error, then slot_done; or slot_done alone.
SlotDone(p) ==
  /\ Hears(p, "reading") /\ status = "streaming"
  /\ status' \in {"done", "error"}
  /\ UNCHANGED <<refs, text, isStreaming, canVote, revealed, calls, server>>

MatchupDone(p) ==
  /\ Hears(p, "reading") /\ status \in {"done", "error"}
  /\ request' = [request EXCEPT ![p] = "finished"]
  /\ isStreaming' = FALSE
  /\ UNCHANGED <<refs, text, status, canVote, revealed, prompts, aborted, asked, ballot,
                 choice, stops, server>>

SettleSlot(s) == IF s = "streaming" THEN "done" ELSE s

RunError(p) ==
  /\ Hears(p, "reading")
  /\ request' = [request EXCEPT ![p] = "finished"]
  /\ status' = SettleSlot(status)
  /\ isStreaming' = FALSE /\ canVote' = FALSE
  /\ UNCHANGED <<refs, text, revealed, prompts, aborted, asked, ballot, choice, stops,
                 server>>

(***************************************************************************)
(* vote.  A failed one may be tried again; one the server has already      *)
(* recorded is refused, which changes nothing here.                        *)
(***************************************************************************)
Vote ==
  /\ matchup # None /\ kind[matchup] = "matchup"
  /\ ballot[matchup] \in {"none", "failed"} /\ verdict[matchup] = "none"
  /\ ballot' = [ballot EXCEPT ![matchup] = "posted"]
  /\ \E c \in {"decisive", "indecisive"} : choice' = [choice EXCEPT ![matchup] = c]
  /\ UNCHANGED <<refs, shown, prompts, request, aborted, asked, stops, server>>

Kept(p) == IF choice[p] = "decisive" THEN conversation ELSE None

VoteAccepted(p) ==
  /\ ballot[p] = "recorded"
  /\ ballot' = [ballot EXCEPT ![p] = "accepted"]
  /\ revealed' = p
  /\ canVote' = FALSE
  /\ conversation' = Kept(p)
  /\ UNCHANGED <<current, matchup, socket, text, status, isStreaming, prompts, request,
                 aborted, asked, choice, stops, server>>

\* The call fails before or after the server recorded it: an error, no more.
VoteFails(p) ==
  /\ ballot[p] \in {"posted", "recorded"}
  /\ ballot' = [ballot EXCEPT ![p] = "failed"]
  /\ UNCHANGED <<refs, shown, prompts, request, aborted, asked, choice, stops, server>>

(***************************************************************************)
(* stop, over a socket opened on its first use, and resetConversation.     *)
(***************************************************************************)
\* What follows `await openControlSocket()`.
Cancels == /\ Abort
           /\ status' = SettleSlot(status)
           /\ isStreaming' = FALSE

Stop ==
  /\ matchup # None /\ matchup \notin stops
  /\ \/ /\ socket = "open"
        /\ Cancels
        /\ UNCHANGED <<stops, socket>>
     \/ /\ socket # "open"
        /\ socket' = "connecting"
        /\ stops' = stops \cup {matchup}
        /\ UNCHANGED <<aborted, status, isStreaming>>
  /\ UNCHANGED <<current, matchup, conversation, text, canVote, revealed, prompts,
                 request, asked, ballot, choice, server>>

SocketOpens ==
  /\ socket = "connecting"
  /\ socket' = "open"
  /\ stops' = {}
  /\ Cancels
  /\ UNCHANGED <<current, matchup, conversation, text, canVote, revealed, prompts,
                 request, asked, ballot, choice, server>>

\* It fails to open; or a `stopped` reply, or the server, ends it.
SocketCloses ==
  /\ socket # "none"
  /\ socket' = "none"
  /\ stops' = {}
  /\ UNCHANGED <<current, matchup, conversation, shown, prompts, request, aborted, asked,
                 ballot, choice, server>>

ResetConversation ==
  /\ Abort
  /\ current' = None /\ matchup' = None /\ conversation' = None
  /\ socket' = "none" /\ stops' = {}
  /\ text' = << >> /\ status' = "idle" /\ isStreaming' = FALSE /\ canVote' = FALSE
  /\ revealed' = None
  /\ UNCHANGED <<prompts, request, asked, ballot, choice, server>>

Next == \/ SendPrompt \/ Vote \/ Stop \/ ResetConversation
        \/ SocketOpens \/ SocketCloses
        \/ \E p \in Prompts :
             \/ Opens(p) \/ Refuses(p) \/ Records(p)
             \/ Returns(p) \/ MatchupStarted(p) \/ Token(p) \/ SlotDone(p)
             \/ MatchupDone(p) \/ RunError(p)
             \/ VoteAccepted(p) \/ VoteFails(p)

Spec == Init /\ [][Next]_vars

(***************************************************************************)
(* Properties.                                                             *)
(***************************************************************************)
\* The shape of the hook's refs and state, and of what the server keeps.
TypeOK ==
  /\ {current, matchup, conversation, revealed} \subseteq Prompts \cup {None}
  /\ socket \in {"none", "connecting", "open"} /\ stops \subseteq Prompts
  /\ text \in Seq(Prompts) /\ status \in {"idle", "streaming", "done", "error"}
  /\ {isStreaming, canVote} \subseteq BOOLEAN
  /\ prompts \in 0..MaxPrompts
  /\ request \in [Prompts -> {"idle", "fetching", "reading", "finished", "settled"}]
  /\ aborted \in [Prompts -> BOOLEAN]
  /\ asked \in [Prompts -> Prompts \cup {None}]
  /\ ballot \in [Prompts -> {"none", "posted", "recorded", "accepted", "failed"}]
  /\ choice \in [Prompts -> {"none", "decisive", "indecisive"}]
  /\ round \in [Prompts -> {"none", "asked", "open", "refused"}]
  /\ kind \in [Prompts -> {"none", "matchup", "shadow", "single"}]
  /\ conv \in [Prompts -> Prompts \cup {None}]
  /\ verdict \in [Prompts -> {"none", "decisive", "indecisive"}]

\* Whatever prompts follow each other, the text shown is the current prompt's
\* alone, and so is the round a vote or a stop would name.
ViewIsCurrent == /\ \A i \in DOMAIN text : text[i] = current
                 /\ matchup \in {None, current}

\* isStreaming is what it says: the current request has not ended, and has not
\* been given up.
StreamingIsShown ==
  isStreaming = /\ current # None
                /\ request[current] \in {"fetching", "reading"} /\ ~aborted[current]

\* The view is that of the prompt last sent: its text, its round, its activity.
ViewIsTrue == TypeOK /\ ViewIsCurrent /\ StreamingIsShown

\* The conversation the next prompt would name is that of the round shown, or
\* none: never that of an earlier one left behind by a round without.
HandlesAgree == matchup # None => conversation \in {None, conv[matchup]}

\* A conversation that ended with an indecisive vote, once the hook was told,
\* is never asked for again.
ClosedStaysClosed ==
  \A p \in Prompts :
    (ballot[p] = "accepted" /\ choice[p] = "indecisive") => conversation # conv[p]

\* So the conversation a prompt names is the open one of the round shown.
NextPromptContinues == HandlesAgree /\ ClosedStaysClosed

\* Identities are shown only of a round whose vote was accepted, and that is
\* the round shown.
RevealedAfterVote ==
  revealed # None => matchup # None /\ ballot[matchup] = "accepted"

\* A stop gives up the request of the round it names.
StopCancelsItsOwn ==
  [][\A p \in Prompts :
       (~aborted[p] /\ aborted'[p] /\ current' = current) => p = matchup \/ p \in stops]_vars
=============================================================================
