---- MODULE AgUiHosts ----
(***************************************************************************)
(* The two AG-UI hosts of src/integrations, assistant-ui and copilotkit:   *)
(* a page keeps the continuation handle of its thread and the rounds it    *)
(* knows, saves the handle and the open rounds' vote tokens in the         *)
(* browser's storage, and rebuilds the thread from the server on reload.   *)
(* They differ in how a round's metadata reaches the page (a response      *)
(* header; an event and, as a fallback, a poll of a server-side cache) and *)
(* in what a reload leaves in the storage.                                 *)
(***************************************************************************)
EXTENDS ArenaService

CONSTANTS
  MaxPrompts,  \* bound: prompts sent, and so rounds
  MaxVotes,    \* bound: votes posted
  MaxReloads,  \* bound: reloads of the page
  MaxFaults    \* bound: replies and events that never arrive

ASSUME AgUiHostsAssumption ==
  MaxPrompts \in Nat /\ MaxVotes \in Nat /\ MaxReloads \in Nat /\ MaxFaults \in Nat

Rounds == 1..MaxPrompts
Session == "anonymous"

NewThread == [on |-> TRUE, conv |-> NoConv, shown |-> {}]
Unknown == [known |-> FALSE, token |-> FALSE, vote |-> NoVote, voting |-> FALSE, streaming |-> FALSE]
NothingSaved == [conv |-> NoConv, tokens |-> {}]
NoPrompt == [at |-> "idle", on |-> TRUE, conv |-> NoConv, round |-> NoRound]
NoLoad == [at |-> "none", conv |-> NoConv, turns |-> <<>>]
NoBallot == [at |-> "none", round |-> NoRound, vote |-> NoVote]

VARIABLES
  host,      \* which of the two this is
  thread,    \* the store's ThreadState: toggle, handle, matchupIds
  matchups,  \* the store's matchups, by round
  saved,     \* localStorage: PersistedArena
  prompt,    \* the run in progress
  ballots,   \* the votes posted
  load,      \* the conversation read of a fresh page
  cache,     \* copilotkit: matchupCache of this thread
  polls,     \* copilotkit: polls of it, NoRound one not yet answered
  begun,     \* history: rounds this browser was told of
  lost,      \* history: those whose token was cleared with another thread's
  prompts, reloads, faults

told == <<begun, lost>>
page == <<thread, matchups, saved, told>>
wire == <<prompt, ballots, load, cache, polls>>
bounds == <<prompts, reloads, faults>>
hostVars == <<host, page, wire, bounds>>
vars == <<rounds, hostVars>>

Init ==
  /\ rounds = <<>>
  /\ host \in {"assistant-ui", "copilotkit"}
  /\ thread = NewThread
  /\ matchups = [m \in Rounds |-> Unknown]
  /\ saved = NothingSaved
  /\ prompt = NoPrompt
  /\ ballots = [b \in 1..MaxVotes |-> NoBallot]
  /\ load = NoLoad
  /\ cache = NoRound
  /\ polls = {}
  /\ begun = {} /\ lost = {}
  /\ prompts = 0 /\ reloads = 0 /\ faults = 0

Fault == faults < MaxFaults /\ faults' = faults + 1

-----------------------------------------------------------------------------
(* The store                                                               *)

\* setArenaEnabled: switching off drops the handle, also from the storage.
SetArenaEnabled(on) ==
  /\ thread.on # on
  /\ thread' = [thread EXCEPT !.on = on, !.conv = IF on THEN @ ELSE NoConv]
  /\ saved' = IF on THEN saved ELSE [saved EXCEPT !.conv = NoConv]
  /\ UNCHANGED <<rounds, host, matchups, told, wire, bounds>>

\* resetThread, resetConversation: "Start fresh", offered while a handle is held.
Reset ==
  /\ thread.conv # NoConv
  /\ thread' = [thread EXCEPT !.conv = NoConv, !.shown = {}]
  /\ saved' = NothingSaved
  /\ begun' = {} /\ lost' = {}
  /\ UNCHANGED <<rounds, host, matchups, wire, bounds>>

\* persistConversationId, persistMatchupToken: what the browser keeps.
Persist(conv, tokens) == saved' = [conv |-> conv, tokens |-> tokens]

(* beginMatchup: the round's metadata, token included, enters the thread   *)
(* and the storage, and its conversation becomes the handle at once.       *)
Begin(m, streaming) ==
  /\ Persist(rounds[m].conv, saved.tokens \cup {m})
  /\ thread' = [thread EXCEPT !.conv = rounds[m].conv, !.shown = @ \cup {m}]
  /\ matchups' = [matchups EXCEPT ![m] =
       [Unknown EXCEPT !.known = TRUE, !.token = TRUE, !.streaming = streaming]]
  /\ begun' = begun \cup {m} /\ lost' = lost \ {m}

AssistantBegin(m) == Begin(m, FALSE)

\* copilotkit leaves a voted round alone: it may be told of it again.
CopilotBegin_Always(m, streaming) == Begin(m, streaming)

CopilotBegin(m, streaming) ==
  \/ /\ matchups[m].vote = NoVote
     /\ Begin(m, streaming)
  \/ /\ matchups[m].vote # NoVote
     /\ matchups' = [matchups EXCEPT ![m].streaming = streaming]
     /\ UNCHANGED <<thread, saved, told>>

\* recordVote: the verdict takes the place of the spent token ...
Verdict(m, vote) ==
  matchups' = [matchups EXCEPT ![m] =
    [@ EXCEPT !.token = FALSE, !.vote = vote, !.voting = FALSE]]

\* ... and the handle is set or dropped as the server said.
RecordVote(m, vote, continuable) ==
  /\ Verdict(m, vote)
  /\ LET conv == IF continuable THEN rounds[m].conv ELSE NoConv IN
     /\ thread' = [thread EXCEPT !.conv = conv]
     /\ Persist(conv, saved.tokens \ {m})

\* failVote: the bar is live again.
FailVote(m) ==
  /\ matchups' = [matchups EXCEPT ![m].voting = FALSE]
  /\ UNCHANGED <<thread, saved>>

-----------------------------------------------------------------------------
(* A run                                                                   *)

\* requestInit: the handle goes along only while the arena is on.
Send ==
  /\ prompt.at = "idle"
  /\ prompts < MaxPrompts
  /\ prompts' = prompts + 1
  /\ prompt' = [NoPrompt EXCEPT !.at = "sent", !.on = thread.on,
                  !.conv = IF thread.on THEN thread.conv ELSE NoConv]
  /\ UNCHANGED <<rounds, host, page, ballots, load, cache, polls, reloads, faults>>

(* The server.  With the arena off it answers with a single model, unless  *)
(* it triggers on every request; such a round has no row and no token.     *)
(* In copilotkit the agent's fetch then fills the cache.                   *)
Answered ==
  /\ prompt.at = "sent"
  /\ \/ /\ Refuses(Session, prompt.conv)
        /\ prompt' = [prompt EXCEPT !.at = "failed"]
        /\ UNCHANGED <<rounds, cache>>
     \/ /\ ~prompt.on
        /\ prompt' = [prompt EXCEPT !.at = "streaming"]
        /\ cache' = NoRound
        /\ UNCHANGED rounds
     \/ /\ ~Refuses(Session, prompt.conv)
        /\ rounds' = Opened(Session, prompt.conv)
        /\ prompt' = [prompt EXCEPT !.at = "announced", !.round = Len(rounds) + 1]
        /\ cache' = IF host = "copilotkit" THEN Len(rounds) + 1 ELSE cache
  /\ UNCHANGED <<host, page, ballots, load, polls, bounds>>

\* The round is stored but its answer never comes.
AnswerLost ==
  /\ prompt.at = "announced"
  /\ Fault
  /\ prompt' = [prompt EXCEPT !.at = "failed"]
  /\ UNCHANGED <<rounds, host, page, ballots, load, cache, polls, prompts, reloads>>

\* assistant-ui: the x-arena-matchup header of the response.
HeaderArrives ==
  /\ host = "assistant-ui"
  /\ prompt.at = "announced"
  /\ AssistantBegin(prompt.round)
  /\ prompt' = [prompt EXCEPT !.at = "streaming"]
  /\ UNCHANGED <<rounds, host, ballots, load, cache, polls, bounds>>

\* copilotkit: the CUSTOM event, which also locks the vote bar.
CustomArrives ==
  /\ host = "copilotkit"
  /\ prompt.at = "announced"
  /\ CopilotBegin(prompt.round, TRUE)
  /\ prompt' = [prompt EXCEPT !.at = "streaming"]
  /\ UNCHANGED <<rounds, host, ballots, load, cache, polls, bounds>>

\* copilotkit: the runtime did not forward it.
CustomDropped ==
  /\ host = "copilotkit"
  /\ prompt.at = "announced"
  /\ prompt' = [prompt EXCEPT !.at = "streaming"]
  /\ UNCHANGED <<rounds, host, page, ballots, load, cache, polls, bounds>>

\* clearStreaming: every lock of the vote bar, not only this round's.
Unlocked == [m \in Rounds |-> [matchups[m] EXCEPT !.streaming = FALSE]]

\* onRunFinishedEvent; only copilotkit polls.
RunFinished ==
  /\ prompt.at = "streaming"
  /\ prompt' = NoPrompt
  /\ matchups' = Unlocked
  /\ polls' = IF host = "copilotkit" THEN polls \cup {NoRound} ELSE polls
  /\ UNCHANGED <<rounds, host, thread, saved, told, ballots, load, cache, bounds>>

\* onRunErrorEvent
RunFailed ==
  /\ prompt.at = "failed"
  /\ prompt' = NoPrompt
  /\ matchups' = Unlocked
  /\ UNCHANGED <<rounds, host, thread, saved, told, ballots, load, cache, polls, bounds>>

\* pollMatchup: the cache's entry; without one the poll gives up.
PollAnswered ==
  /\ NoRound \in polls
  /\ polls' = (polls \ {NoRound}) \cup (IF cache = NoRound THEN {} ELSE {cache})
  /\ UNCHANGED <<rounds, host, page, prompt, ballots, load, cache, bounds>>

PollReturns ==
  \E m \in polls \ {NoRound} :
    /\ CopilotBegin(m, matchups[m].streaming)
    /\ polls' = polls \ {m}
    /\ UNCHANGED <<rounds, host, prompt, ballots, load, cache, bounds>>

-----------------------------------------------------------------------------
(* A vote                                                                  *)

\* The vote bar of a round is live: it has a token, no verdict and no lock.
Votable(m) ==
  /\ matchups[m].token
  /\ matchups[m].vote = NoVote
  /\ ~matchups[m].voting
  /\ ~matchups[m].streaming
  /\ host = "assistant-ui" => ~(prompt.at = "streaming" /\ prompt.round = m)

Cast(m, vote) ==
  \E b \in DOMAIN ballots :
    /\ ballots[b].at = "none"
    /\ \A c \in 1..b - 1 : ballots[c].at # "none"
    /\ Votable(m)
    /\ matchups' = [matchups EXCEPT ![m].voting = TRUE]
    /\ ballots' = [ballots EXCEPT ![b] = [at |-> "sent", round |-> m, vote |-> vote]]
    /\ UNCHANGED <<rounds, host, thread, saved, told, prompt, load, cache, polls, bounds>>

VoteAnswered(b) ==
  /\ ballots[b].at = "sent"
  /\ IF VoteAccepted(ballots[b].round)
     THEN /\ rounds' = Voted(ballots[b].round, ballots[b].vote)
          /\ ballots' = [ballots EXCEPT ![b].at = "recorded"]
     ELSE /\ ballots' = [ballots EXCEPT ![b].at = "rejected"]
          /\ UNCHANGED rounds
  /\ UNCHANGED <<host, page, prompt, load, cache, polls, bounds>>

\* The reply of a recorded vote is lost: the page is told of a failure.
VoteReplyLost(b) ==
  /\ ballots[b].at = "recorded"
  /\ Fault
  /\ ballots' = [ballots EXCEPT ![b].at = "rejected"]
  /\ UNCHANGED <<rounds, host, page, prompt, load, cache, polls, prompts, reloads>>

VoteReturns(b) ==
  /\ LET m == ballots[b].round IN
     \/ /\ ballots[b].at = "recorded"
        /\ RecordVote(m, ballots[b].vote, VoteReply(m, ballots[b].vote).continuable)
     \/ ballots[b].at = "rejected" /\ FailVote(m)
  /\ ballots' = [ballots EXCEPT ![b].at = "done"]
  /\ UNCHANGED <<rounds, host, told, prompt, load, cache, polls, bounds>>

-----------------------------------------------------------------------------
(* A reload                                                                *)

\* The server has answered what was sent; replies still on their way are lost.
Reload ==
  /\ reloads < MaxReloads
  /\ reloads' = reloads + 1
  /\ prompt.at # "sent"
  /\ \A b \in DOMAIN ballots : ballots[b].at # "sent"
  /\ thread' = NewThread
  /\ matchups' = [m \in Rounds |-> Unknown]
  /\ prompt' = NoPrompt
  /\ ballots' = [b \in DOMAIN ballots |->
       IF ballots[b].at = "none" THEN NoBallot ELSE [ballots[b] EXCEPT !.at = "done"]]
  /\ polls' = {}
  /\ load' = IF saved.conv = NoConv THEN NoLoad
             ELSE [NoLoad EXCEPT !.at = "asked", !.conv = saved.conv]
  /\ UNCHANGED <<rounds, host, saved, told, cache, prompts, faults>>

\* parseConversation, parseTurn: the votes of the turns, and never a token.
Snapshot(conv) == [m \in TurnsOf(conv) |-> rounds[m].vote]

LoadAnswered ==
  /\ load.at = "asked"
  /\ load' = IF ConversationFound(load.conv, Session)
             THEN [load EXCEPT !.at = "answered", !.turns = Snapshot(load.conv)]
             ELSE [load EXCEPT !.at = "failed"]
  /\ UNCHANGED <<rounds, host, page, prompt, ballots, cache, polls, bounds>>

LoadFails ==
  /\ load.at = "asked"
  /\ Fault
  /\ load' = [load EXCEPT !.at = "failed"]
  /\ UNCHANGED <<rounds, host, page, prompt, ballots, cache, polls, prompts, reloads>>

\* The handle of a read thread: the reply's own `continuable`.
ResumeFrom_Always(turns, conv) == conv

ResumeFrom(turns, conv) ==
  LET last == CHOOSE m \in DOMAIN turns : \A n \in DOMAIN turns : n <= m
  IN IF IsContinuable(turns[last]) THEN conv ELSE NoConv

\* Tokens of the turns still open come from the storage.
Rebuilt_NoTokens(m, vote) == [Unknown EXCEPT !.known = TRUE, !.vote = vote]

Rebuilt(m, vote) ==
  [Unknown EXCEPT !.known = TRUE, !.vote = vote,
                  !.token = vote = NoVote /\ m \in saved.tokens]

(* hydrateConversation: assistant-ui forgets a thread that cannot be       *)
(* continued, copilotkit keeps it for the next reload.                     *)
Hydrate ==
  /\ load.at = "answered"
  /\ load' = NoLoad
  /\ LET conv == ResumeFrom(load.turns, load.conv) IN
     /\ thread' = [thread EXCEPT !.conv = conv, !.shown = DOMAIN load.turns]
     /\ saved' = [saved EXCEPT !.conv = IF host = "assistant-ui" THEN conv ELSE load.conv]
  /\ matchups' = [m \in Rounds |->
       IF m \in DOMAIN load.turns THEN Rebuilt(m, load.turns[m]) ELSE matchups[m]]
  /\ UNCHANGED <<rounds, host, told, prompt, ballots, cache, polls, bounds>>

\* Any other answer clears the storage, whatever came into it since.
LoadGivesUp ==
  /\ load.at = "failed"
  /\ load' = NoLoad
  /\ saved' = NothingSaved
  /\ lost' = lost \cup saved.tokens
  /\ UNCHANGED <<rounds, host, thread, matchups, begun, prompt, ballots, cache, polls, bounds>>

-----------------------------------------------------------------------------
Next ==
  \/ \E on \in BOOLEAN : SetArenaEnabled(on)
  \/ Reset
  \/ Send
  \/ Answered
  \/ AnswerLost
  \/ HeaderArrives
  \/ CustomArrives
  \/ CustomDropped
  \/ RunFinished
  \/ RunFailed
  \/ PollAnswered
  \/ PollReturns
  \/ \E m \in Rounds, vote \in {"left", "tie"} : Cast(m, vote)
  \/ \E b \in DOMAIN ballots : VoteAnswered(b) \/ VoteReplyLost(b) \/ VoteReturns(b)
  \/ Reload
  \/ LoadAnswered
  \/ LoadFails
  \/ Hydrate
  \/ LoadGivesUp

Spec == Init /\ [][Next]_vars

-----------------------------------------------------------------------------
(* Properties                                                              *)

(* A verdict on screen stays there until the page is reloaded: no poll,    *)
(* repeated metadata, late reply or rebuilt thread takes the reveal away   *)
(* or changes the vote (copilotkit/lib/arena/store.ts:117-121).            *)
VerdictStays ==
  [][\A m \in Rounds :
       matchups[m].vote # NoVote /\ reloads' = reloads => matchups'[m].vote = matchups[m].vote]_vars

(* A verdict on screen is the vote the server has, whatever replies were   *)
(* lost and however often the bar was unlocked for a second vote.          *)
ShownVoteIsRecorded ==
  \A m \in Rounds : matchups[m].vote # NoVote => rounds[m].vote = matchups[m].vote

(* An open round of the thread on screen that this browser was told of can *)
(* be voted on, also after reloads, toggles and failed votes               *)
(* (persistence.ts:1-6); only "Start fresh" and the failed read of an      *)
(* older thread give it up.                                                *)
OpenRoundVotable ==
  \A m \in (thread.shown \cap begun) \ lost : rounds[m].vote = NoVote => matchups[m].token

(* What persistence.ts:1-6 promises makes no exception for the failed read *)
(* of an older thread, which is late when the user has sent a prompt.      *)
OpenRoundSurvives ==
  \A m \in thread.shown \cap begun : rounds[m].vote = NoVote => matchups[m].token

(* What a rebuilt thread is continued from is what the server accepts: a   *)
(* reload never leaves a chat whose every prompt is refused.               *)
ReloadContinues ==
  [][load.at = "answered" /\ load'.at # "answered" /\ reloads' = reloads =>
       ~Refuses(Session, thread'.conv)]_vars
====
