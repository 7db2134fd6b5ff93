---- MODULE Bridge ----
(***************************************************************************)
(* The Open WebUI bridge (src/integrations/open-webui/bridge): an          *)
(* OpenAI-compatible process that keeps, per chat, the matchup a later     *)
(* "!a" votes on and the conversation a later prompt may continue, writes  *)
(* the latter to disk, and joins the two requests of a side-by-side turn   *)
(* into one round.                                                         *)
(*                                                                         *)
(* Each request is handled by an async function; an action is the code     *)
(* between two awaits.  A call to the arena is the arena's step and the    *)
(* return of its reply; it may fail, with or without effect (faults), and  *)
(* the bridge may be restarted at any point.                               *)
(***************************************************************************)
EXTENDS ArenaService

CONSTANTS
  Requests,   \* the completions Open WebUI posts
  Kind,       \* [Requests -> {"slot", "prompt", "vote"}]
  Key,        \* [Requests -> STRING]: chatKeyOf, which is also the session
  Prompt,     \* [Requests -> what identifies the prompt]
  Column,     \* [Requests -> {"A", "B"}]: the slot of a column's model
  Choice,     \* [Requests -> Ballots]: what a vote message says
  MaxFaults,  \* bound: failed calls and restarts
  MaxExpiries \* bound: chats swept after their TTL

ASSUME BridgeAssumption ==
  /\ IsFiniteSet(Requests)
  /\ \A r \in Requests : Kind[r] \in {"slot", "prompt", "vote"} /\ Choice[r] \in Ballots
  /\ MaxFaults \in Nat /\ MaxExpiries \in Nat

Keys == {Key[r] : r \in Requests}

NoMatchup == [round |-> NoRound, votable |-> FALSE, recorded |-> NoVote]
NewChat == [matchup |-> NoMatchup, continueFrom |-> NoConv]
\* The model a prompt was sent to; a column's is a duel.
Modes == {"duel", "single", "raw"}
NoStart == [claimed |-> {}, mode |-> "duel", phase |-> "none", conv |-> NoConv, round |-> NoRound, error |-> "none"]
NoSends == [i \in {} |-> NoVote]
NewRequest == [at |-> "new", entry |-> "none", round |-> NoRound, told |-> "nothing", paired |-> FALSE]

VARIABLES
  chats,    \* ChatStore: [Keys -> matchup, continueFrom]
  disk,     \* the continuations on the data volume
  starts,   \* one shared start of a round per entry, named by its first request
  sends,    \* votesInFlight: the calls by round, until 30 s after they settled
  req,      \* the handlers
  faults, expiries

bridge == <<chats, disk, starts, sends, req>>
bounds == <<faults, expiries>>
vars == <<rounds, bridge, bounds>>

Init ==
  /\ rounds = <<>>
  /\ chats = [k \in Keys |-> NewChat]
  /\ disk = [k \in Keys |-> NoConv]
  /\ starts = [r \in Requests |-> NoStart]
  /\ sends = NoSends
  /\ req = [r \in Requests |-> NewRequest]
  /\ faults = 0
  /\ expiries = 0

-----------------------------------------------------------------------------
(* ChatStore: memory and disk change together                              *)

Continue(k, conv) ==
  /\ chats' = [chats EXCEPT ![k].continueFrom = conv]
  /\ disk' = [disk EXCEPT ![k] = conv]

\* #sweep: an hour without a request of this chat.
Expire(k) ==
  /\ expiries < MaxExpiries
  /\ expiries' = expiries + 1
  /\ chats[k] # NewChat
  /\ \A r \in Requests : Key[r] = k => req[r].at \in {"new", "end"}
  /\ chats' = [chats EXCEPT ![k] = NewChat]
  /\ disk' = [disk EXCEPT ![k] = NoConv]
  /\ UNCHANGED <<rounds, starts, sends, req, faults>>

-----------------------------------------------------------------------------
(* Starting a round: startRoundFor                                         *)

\* resolveContinuation looks only when an id is held, and only for a duel.
Started(e, claimed, mode) ==
  LET held == IF mode = "duel" THEN chats[Key[e]].continueFrom ELSE NoConv
  IN [NoStart EXCEPT !.claimed = claimed, !.mode = mode, !.conv = held,
                     !.phase = IF held = NoConv THEN "post" ELSE "lookup"]

Park(r, e) == [req EXCEPT ![r].at = "parked", ![r].entry = e]

\* renderDuel, renderSingle, renderRaw: a round of one's own.
Ask(r) ==
  /\ Kind[r] = "prompt"
  /\ req[r].at = "new"
  /\ req' = Park(r, r)
  /\ \E mode \in Modes : starts' = [starts EXCEPT ![r] = Started(r, {r}, mode)]
  /\ UNCHANGED <<rounds, chats, disk, sends, bounds>>

Siblings(r) == {e \in Requests : /\ starts[e].phase = "open"
                                 /\ Key[e] = Key[r] /\ Prompt[e] = Prompt[r]}

Columns(claimed) == {Column[q] : q \in claimed}

(* SlotRendezvous.join: the first column opens an entry and waits; a       *)
(* second column of the same prompt starts the round at once.              *)
Join(r) ==
  /\ Kind[r] = "slot"
  /\ req[r].at = "new"
  /\ \/ /\ Siblings(r) = {}
        /\ req' = Park(r, r)
        /\ starts' = [starts EXCEPT ![r] = [NoStart EXCEPT !.phase = "open", !.claimed = {r}]]
     \/ \E e \in Siblings(r) :
          LET claimed == starts[e].claimed \cup {r} IN
          /\ req' = Park(r, e)
          /\ starts' = [starts EXCEPT ![e] =
               IF Cardinality(Columns(claimed)) >= 2 THEN Started(e, claimed, "duel")
               ELSE [@ EXCEPT !.claimed = claimed]]
  /\ UNCHANGED <<rounds, chats, disk, sends, bounds>>

\* The 2 s timer of an entry whose sibling did not come.
TimerFires_Ignored(e) == FALSE /\ UNCHANGED vars

TimerFires(e) ==
  /\ starts[e].phase = "open"
  /\ starts' = [starts EXCEPT ![e] = Started(e, @.claimed, "duel")]
  /\ UNCHANGED <<rounds, chats, disk, sends, req, bounds>>

\* The arena answers GET /api/arena/conversations/:id ...
LookupAnswered(e) ==
  /\ starts[e].phase = "lookup"
  /\ LET conv == starts[e].conv
         good == ConversationFound(conv, Key[e]) /\ ConversationContinuable(conv)
     IN starts' = [starts EXCEPT ![e].phase = IF good THEN "post" ELSE "stale"]
  /\ UNCHANGED <<rounds, chats, disk, sends, req, bounds>>

\* ... and a thread that cannot be continued is forgotten.
LookupStale(e) ==
  /\ starts[e].phase = "stale"
  /\ Continue(Key[e], NoConv)
  /\ starts' = [starts EXCEPT ![e].phase = "post", ![e].conv = NoConv]
  /\ UNCHANGED <<rounds, sends, req, bounds>>

\* A failed lookup keeps the id and lets the chat request decide.
LookupFails(e) ==
  /\ starts[e].phase = "lookup"
  /\ faults < MaxFaults
  /\ faults' = faults + 1
  /\ starts' = [starts EXCEPT ![e].phase = "post"]
  /\ UNCHANGED <<rounds, chats, disk, sends, req, expiries>>

(* POST /api/arena/chat at the arena: refused, a round stored, or a single *)
(* round of which nothing is stored.                                       *)
PostAnswered(e) ==
  /\ starts[e].phase = "post"
  /\ IF Refuses(Key[e], starts[e].conv)
     THEN /\ starts' = [starts EXCEPT ![e].phase = "refused"]
          /\ UNCHANGED rounds
     ELSE IF starts[e].mode = "single"
     THEN /\ starts' = [starts EXCEPT ![e].phase = "accepted"]
          /\ UNCHANGED rounds
     ELSE /\ starts' = [starts EXCEPT ![e].phase = "accepted", ![e].round = Len(rounds) + 1]
          /\ rounds' = Opened(Key[e], starts[e].conv)
  /\ UNCHANGED <<chats, disk, sends, req, bounds>>

\* The call fails; the round may have been stored.
PostFails(e) ==
  /\ starts[e].phase = "post"
  /\ faults < MaxFaults
  /\ faults' = faults + 1
  /\ starts' = [starts EXCEPT ![e].phase = "failed", ![e].error = "transport"]
  /\ \/ UNCHANGED rounds
     \/ /\ starts[e].mode # "single"
        /\ ~Refuses(Key[e], starts[e].conv)
        /\ rounds' = Opened(Key[e], starts[e].conv)
  /\ UNCHANGED <<chats, disk, sends, req, expiries>>

\* The continuation is consumed once the arena took it.
Accepted(e) ==
  /\ starts[e].phase = "accepted"
  /\ starts' = [starts EXCEPT ![e].phase = "served"]
  /\ IF starts[e].conv # NoConv THEN Continue(Key[e], NoConv) ELSE UNCHANGED <<chats, disk>>
  /\ UNCHANGED <<rounds, sends, req, bounds>>

\* 404 and 409 of a continuation; a foreign one (403) is not recognised.
IsContinuationRefusal_NotFoundOnly(e) == TurnsOf(starts[e].conv) = {}

IsContinuationRefusal(e) ==
  /\ starts[e].conv # NoConv
  /\ \/ TurnsOf(starts[e].conv) = {}
     \/ OwnedBy(starts[e].conv, Key[e])

(* A refused continuation is forgotten and the prompt asked afresh; any    *)
(* other refusal is the request's error.                                   *)
Refused(e) ==
  /\ starts[e].phase = "refused"
  /\ IF IsContinuationRefusal(e)
     THEN /\ Continue(Key[e], NoConv)
          /\ starts' = [starts EXCEPT ![e].phase = "post", ![e].conv = NoConv]
     ELSE /\ starts' = [starts EXCEPT ![e].phase = "failed", ![e].error = "refusal"]
          /\ UNCHANGED <<chats, disk>>
  /\ UNCHANGED <<rounds, sends, req, bounds>>

\* What `paired` tells a column: whether both columns share the round.
IsPaired_First(r) == req[r].entry # r

IsPaired(r) == Cardinality(Columns(starts[req[r].entry].claimed)) >= 2

(* The round is there: setMatchup, then the answer.  A single round leaves *)
(* a matchup nobody can vote on; a raw one leaves no trace.                *)
Show(r) ==
  /\ req[r].at = "parked"
  /\ LET s == starts[req[r].entry] IN
     /\ s.phase = "served"
     /\ req' = [req EXCEPT ![r] =
          [@ EXCEPT !.at = "end", !.told = "served", !.round = s.round,
                    !.paired = Kind[r] = "slot" /\ IsPaired(r)]]
     /\ chats' = IF s.mode = "raw" THEN chats ELSE
          [chats EXCEPT ![Key[r]].matchup =
             [NoMatchup EXCEPT !.round = s.round, !.votable = s.mode # "single"]]
  /\ UNCHANGED <<rounds, disk, starts, sends, bounds>>

\* The round is not: 502, to both columns.
ShowError(r) ==
  /\ req[r].at = "parked"
  /\ starts[req[r].entry].phase = "failed"
  /\ req' = [req EXCEPT ![r].at = "end", ![r].told = "failed"]
  /\ UNCHANGED <<rounds, chats, disk, starts, sends, bounds>>

-----------------------------------------------------------------------------
(* renderVote                                                              *)

\* The call of the first message; its twin in the other column shares it.
InFlight(i, vote) ==
  [j \in DOMAIN sends \cup {i} |->
    IF j \in DOMAIN sends THEN sends[j]
    ELSE [phase |-> "sent", vote |-> vote, continuable |-> FALSE]]

\* The message votes on the matchup of the chat at this moment.
Vote(r) ==
  /\ Kind[r] = "vote"
  /\ req[r].at = "new"
  /\ LET m == chats[Key[r]].matchup IN
     \/ /\ m.round = NoRound \/ ~m.votable
        /\ req' = [req EXCEPT ![r].at = "end"]
        /\ UNCHANGED sends
     \/ /\ m.votable /\ m.recorded # NoVote
        /\ req' = [req EXCEPT ![r].at = "end", ![r].told = m.recorded, ![r].round = m.round]
        /\ UNCHANGED sends
     \/ /\ m.votable /\ m.recorded = NoVote
        /\ req' = [req EXCEPT ![r].at = "voting", ![r].round = m.round]
        /\ sends' = InFlight(m.round, Choice[r])
  /\ UNCHANGED <<rounds, chats, disk, starts, bounds>>

\* POST /api/arena/vote at the arena.
VoteAnswered(i) ==
  /\ sends[i].phase = "sent"
  /\ IF VoteAccepted(i)
     THEN /\ rounds' = Voted(i, sends[i].vote)
          /\ sends' = [sends EXCEPT ![i].phase = "recorded",
                                    ![i].continuable = VoteReply(i, sends[i].vote).continuable]
     ELSE sends' = [sends EXCEPT ![i].phase = "rejected"] /\ UNCHANGED rounds
  /\ UNCHANGED <<chats, disk, starts, req, bounds>>

VoteCallFails(i) ==
  /\ sends[i].phase = "sent"
  /\ faults < MaxFaults
  /\ faults' = faults + 1
  /\ sends' = [sends EXCEPT ![i].phase = "rejected"]
  /\ rounds' \in {rounds} \cup (IF VoteAccepted(i) THEN {Voted(i, sends[i].vote)} ELSE {})
  /\ UNCHANGED <<chats, disk, starts, req, expiries>>

\* What a column reports is what was recorded, whatever its own message said.
Reported_OwnChoice(r) == Choice[r]

Reported(r) == sends[req[r].round].vote

(* The reply: the matchup captured before the call is written back with    *)
(* its record, and the continuation set or cleared as the arena said.      *)
VoteReturns(r) ==
  /\ req[r].at = "voting"
  /\ LET i == req[r].round IN
     \/ /\ sends[i].phase = "recorded"
        /\ req' = [req EXCEPT ![r].at = "end", ![r].told = Reported(r)]
        /\ LET conv == IF sends[i].continuable THEN rounds[i].conv ELSE NoConv IN
           /\ chats' = [chats EXCEPT ![Key[r]] =
                [matchup |-> [round |-> i, votable |-> TRUE, recorded |-> sends[i].vote],
                 continueFrom |-> conv]]
           /\ disk' = [disk EXCEPT ![Key[r]] = conv]
     \/ /\ sends[i].phase = "rejected"
        /\ req' = [req EXCEPT ![r].at = "end", ![r].told = "rejected"]
        /\ UNCHANGED <<chats, disk>>
  /\ UNCHANGED <<rounds, starts, sends, bounds>>

\* 30 s after it settled the call is no longer shared.
Forget(i) ==
  /\ sends[i].phase \in {"recorded", "rejected"}
  /\ \A r \in Requests : ~(req[r].at = "voting" /\ req[r].round = i)
  /\ sends' = [j \in DOMAIN sends \ {i} |-> sends[j]]
  /\ UNCHANGED <<rounds, chats, disk, starts, req, bounds>>

-----------------------------------------------------------------------------
(* A restart: the handlers are gone, #load brings the continuations back.  *)

Restart ==
  /\ faults < MaxFaults
  /\ faults' = faults + 1
  /\ chats' = [k \in Keys |-> [NewChat EXCEPT !.continueFrom = disk[k]]]
  /\ starts' = [e \in Requests |-> NoStart]
  /\ sends' = NoSends
  /\ req' = [r \in Requests |->
       IF req[r].at \in {"new", "end"} THEN req[r]
       ELSE [req[r] EXCEPT !.at = "end", !.told = "dropped"]]
  /\ UNCHANGED <<rounds, disk, expiries>>

Proceed ==
  \/ \E e \in Requests :
       \/ TimerFires(e)
       \/ LookupAnswered(e)
       \/ LookupStale(e)
       \/ PostAnswered(e)
       \/ Accepted(e)
       \/ Refused(e)
  \/ \E r \in Requests : Show(r) \/ ShowError(r) \/ VoteReturns(r)
  \/ \E i \in DOMAIN sends : VoteAnswered(i)

Next ==
  \/ Proceed
  \/ \E r \in Requests : Ask(r) \/ Join(r) \/ Vote(r)
  \/ \E e \in Requests : LookupFails(e) \/ PostFails(e)
  \/ \E i \in DOMAIN sends : VoteCallFails(i) \/ Forget(i)
  \/ \E k \in Keys : Expire(k)
  \/ Restart

(* Timers fire, the arena answers and a settled promise runs its handlers. *)
Spec == Init /\ [][Next]_vars /\ WF_vars(Proceed)

-----------------------------------------------------------------------------
(* Properties                                                              *)

(* A prompt is never lost to a stale continuation: whatever the lookup     *)
(* said, whoever else continued the thread meanwhile and whatever a        *)
(* restart brought back from disk, a refusal ends in a fresh round and not *)
(* in the user's error (server.mjs:464-470).                               *)
PromptServed == \A e \in Requests : starts[e].error # "refusal"

(* Both columns of a vote, their retries and their repeats report the vote *)
(* the arena has, also when the two messages disagree, a reply was lost or *)
(* the bridge was restarted in between (server.mjs:255-257).               *)
ReportedIsRecorded ==
  \A r \in Requests :
    Kind[r] = "vote" /\ req[r].told \in Ballots => rounds[req[r].round].vote = req[r].told

(* A column says it is one half of a side-by-side turn exactly when the    *)
(* other column shows the other half of the same round; only a repeat of   *)
(* the same column shares a round that is not paired.                      *)
PairedTogether ==
  \A r \in Requests :
    Kind[r] = "slot" /\ req[r].told = "served" =>
      /\ req[r].paired => \E s \in Requests \ {r} :
           /\ req[s].entry = req[r].entry
           /\ Column[s] # Column[r]
           /\ req[s].told = "served" => req[s].round = req[r].round /\ req[s].paired
      /\ ~req[r].paired => \A s \in Requests :
           req[s].told = "served" /\ req[s].round = req[r].round =>
             Kind[s] = "slot" /\ Column[s] = Column[r]

(* Every completion ends: a column without a sibling, a vote that shares a *)
(* call, a prompt whose continuation is refused.                           *)
RequestsEnd == <>[](\A r \in Requests : req[r].at \in {"new", "end"})
====
