---- MODULE VercelHost ----
(***************************************************************************)
(* The Vercel AI chatbot host (src/integrations/vercel-ai-chatbot): one    *)
(* chat of one user.  Messages, and the reveal of a voted round with them, *)
(* live in the host's own database; the page keeps the continuation and    *)
(* the vote states of ArenaProvider, and every render of a matchup feeds   *)
(* what its message says back into them (hydrate).                         *)
(***************************************************************************)
EXTENDS ArenaService

CONSTANTS
  MaxPrompts,  \* bound: prompts sent, and so rounds
  MaxReloads,  \* bound: reloads of the page
  MaxFaults    \* bound: writes and replies that fail

Rounds == 1..MaxPrompts
User == "user"

Idle == [status |-> "idle", vote |-> NoVote]
NoPrompt == [at |-> "idle", on |-> TRUE, conv |-> NoConv, round |-> NoRound]
NotStored == "not stored"

VARIABLES
  enabled,       \* the toggle, kept in localStorage
  continuation,  \* of this chat
  voteStates,    \* by round: idle, pending, recorded or error
  shown,         \* the rounds on screen, each with the reveal of its message
  stored,        \* the host's database: NotStored, NoVote or the reveal's vote
  prompt,        \* the run in progress
  ballots,       \* by round: how far its vote is
  lookups,       \* GET /matchups in flight: [round, vote], vote "asked" at first
  prompts, reloads, faults

page == <<enabled, continuation, voteStates, shown>>
bounds == <<prompts, reloads, faults>>
hostVars == <<page, stored, prompt, ballots, lookups, bounds>>
vars == <<rounds, hostVars>>

Init ==
  /\ rounds = <<>>
  /\ enabled = TRUE
  /\ continuation = NoConv
  /\ voteStates = [m \in Rounds |-> Idle]
  /\ shown = <<>>
  /\ stored = [m \in Rounds |-> NotStored]
  /\ prompt = NoPrompt
  /\ ballots = [m \in Rounds |-> [at |-> "none", vote |-> NoVote]]
  /\ lookups = {}
  /\ prompts = 0 /\ reloads = 0 /\ faults = 0

Fault == faults < MaxFaults /\ faults' = faults + 1

-----------------------------------------------------------------------------
(* A run                                                                   *)

SetEnabled(on) ==
  /\ enabled # on
  /\ enabled' = on
  /\ UNCHANGED <<rounds, continuation, voteStates, shown, stored, prompt, ballots, lookups, bounds>>

\* prepareRequest: the continuation goes along whatever the toggle says.
Send ==
  /\ prompt.at = "idle"
  /\ prompts < MaxPrompts
  /\ prompts' = prompts + 1
  /\ prompt' = [NoPrompt EXCEPT !.at = "sent", !.on = enabled, !.conv = continuation]
  /\ UNCHANGED <<rounds, page, stored, ballots, lookups, reloads, faults>>

\* The chat route passes it on; a single round looks at no conversation.
Answered ==
  /\ prompt.at = "sent"
  /\ \/ /\ prompt.on
        /\ Refuses(User, prompt.conv)
        /\ prompt' = [prompt EXCEPT !.at = "failed"]
        /\ UNCHANGED rounds
     \/ /\ prompt.on
        /\ ~Refuses(User, prompt.conv)
        /\ rounds' = Opened(User, prompt.conv)
        /\ prompt' = [prompt EXCEPT !.at = "answered", !.round = Len(rounds) + 1]
     \/ /\ ~prompt.on
        /\ prompt' = [prompt EXCEPT !.at = "answered"]
        /\ UNCHANGED rounds
  /\ UNCHANGED <<page, stored, ballots, lookups, bounds>>

\* ingestDataPart: a fresh round is not continuable until it is voted on.
MetaArrives ==
  /\ prompt.at = "answered"
  /\ prompt' = [prompt EXCEPT !.at = "streaming"]
  /\ continuation' = NoConv
  /\ shown' = IF prompt.round = NoRound THEN shown
              ELSE Append(shown, [round |-> prompt.round, reveal |-> NoVote])
  /\ UNCHANGED <<rounds, enabled, voteStates, stored, ballots, lookups, bounds>>

\* onComplete saves the message; if that fails the round is not in the chat.
RunFinished ==
  /\ prompt.at = "streaming"
  /\ prompt' = NoPrompt
  /\ \/ /\ stored' = IF prompt.round = NoRound THEN stored
                     ELSE [stored EXCEPT ![prompt.round] = NoVote]
        /\ UNCHANGED faults
     \/ /\ prompt.round # NoRound
        /\ Fault
        /\ UNCHANGED stored
  /\ UNCHANGED <<rounds, page, ballots, lookups, prompts, reloads>>

RunFailed ==
  /\ prompt.at = "failed"
  /\ prompt' = NoPrompt
  /\ UNCHANGED <<rounds, page, stored, ballots, lookups, bounds>>

-----------------------------------------------------------------------------
(* A vote: castVote and the vote route                                     *)

OnScreen == {shown[i].round : i \in DOMAIN shown}

Cast(m, vote) ==
  /\ m \in OnScreen
  /\ voteStates[m].status \notin {"pending", "recorded"}
  /\ ~(prompt.at = "streaming" /\ prompt.round = m)
  /\ voteStates' = [voteStates EXCEPT ![m] = [status |-> "pending", vote |-> vote]]
  /\ ballots' = [ballots EXCEPT ![m] = [at |-> "sent", vote |-> vote]]
  /\ UNCHANGED <<rounds, enabled, continuation, shown, stored, prompt, lookups, bounds>>

VoteAnswered(m) ==
  /\ ballots[m].at = "sent"
  /\ IF VoteAccepted(m)
     THEN rounds' = Voted(m, ballots[m].vote) /\ ballots' = [ballots EXCEPT ![m].at = "accepted"]
     ELSE ballots' = [ballots EXCEPT ![m].at = "rejected"] /\ UNCHANGED rounds
  /\ UNCHANGED <<page, stored, prompt, lookups, bounds>>

(* The reveal of an accepted vote is appended to the stored message, if    *)
(* there is one.                                                           *)
RevealStored_Unasked(m) ==
  /\ ballots[m].at \in {"accepted", "rejected"}
  /\ ballots' = [ballots EXCEPT ![m].at = "recorded"]
  /\ stored' = IF stored[m] = NotStored THEN stored
               ELSE [stored EXCEPT ![m] = ballots[m].vote]
  /\ UNCHANGED <<rounds, page, prompt, lookups, bounds>>

RevealStored(m) ==
  /\ ballots[m].at = "accepted"
  /\ ballots' = [ballots EXCEPT ![m].at = "recorded"]
  /\ stored' = IF stored[m] = NotStored THEN stored
               ELSE [stored EXCEPT ![m] = ballots[m].vote]
  /\ UNCHANGED <<rounds, page, prompt, lookups, bounds>>

\* The write or the reply fails after the arena recorded the vote.
VoteCutOff(m) ==
  /\ ballots[m].at \in {"accepted", "recorded"}
  /\ Fault
  /\ ballots' = [ballots EXCEPT ![m].at = "rejected"]
  /\ UNCHANGED <<rounds, page, stored, prompt, lookups, prompts, reloads>>

\* An indecisive vote leaves the continuation as it is.
VoteReturns(m) ==
  /\ ballots' = [ballots EXCEPT ![m].at = "none"]
  /\ \/ /\ ballots[m].at = "recorded"
        /\ voteStates' = [voteStates EXCEPT ![m] = [status |-> "recorded", vote |-> ballots[m].vote]]
        /\ continuation' = IF VoteReply(m, ballots[m].vote).continuable
                           THEN rounds[m].conv ELSE continuation
     \/ /\ ballots[m].at = "rejected"
        /\ voteStates' = [voteStates EXCEPT ![m].status = "error"]
        /\ UNCHANGED continuation
  /\ UNCHANGED <<rounds, enabled, shown, stored, prompt, lookups, bounds>>

-----------------------------------------------------------------------------
(* hydrate                                                                 *)

Asked(ms) == {[round |-> m, vote |-> "asked"] : m \in ms}

\* A message with a reveal: its verdict, and the continuation it allows.
Render(i) ==
  LET m == shown[i].round
      reveal == shown[i].reveal
  IN /\ IF reveal = NoVote
        THEN /\ lookups' = lookups \cup Asked({m})
             /\ UNCHANGED <<voteStates, continuation>>
        ELSE /\ voteStates' = IF voteStates[m].status # "idle" THEN voteStates
                              ELSE [voteStates EXCEPT ![m] = [status |-> "recorded", vote |-> reveal]]
             /\ continuation' = IF IsContinuable(reveal) THEN rounds[m].conv ELSE continuation
             /\ UNCHANGED lookups
     /\ UNCHANGED <<rounds, enabled, shown, stored, prompt, ballots, bounds>>

LookupAnswered ==
  /\ \E l \in Asked(Rounds) \cap lookups :
       lookups' = (lookups \ {l}) \cup {[l EXCEPT !.vote = MatchupReply(l.round).vote]}
  /\ UNCHANGED <<rounds, page, stored, prompt, ballots, bounds>>

LookupReturns ==
  /\ \E l \in lookups \ Asked(Rounds) :
       /\ lookups' = lookups \ {l}
       /\ IF l.vote = NoVote THEN UNCHANGED <<voteStates, continuation>>
          ELSE /\ voteStates' = IF voteStates[l.round].status = "recorded" THEN voteStates
                 ELSE [voteStates EXCEPT ![l.round] = [status |-> "recorded", vote |-> l.vote]]
               /\ continuation' = IF IsContinuable(l.vote) THEN rounds[l.round].conv ELSE continuation
  /\ UNCHANGED <<rounds, enabled, shown, stored, prompt, ballots, bounds>>

(* The chat as the database has it, each message rendered in order.  The   *)
(* server has answered what was sent; replies still on their way are lost. *)
Reload ==
  LET kept == {m \in Rounds : stored[m] # NotStored}
      decisive == {m \in kept : IsContinuable(stored[m])}
      last == CHOOSE m \in decisive : \A n \in decisive : n <= m
  IN /\ reloads < MaxReloads
     /\ reloads' = reloads + 1
     /\ prompt.at # "sent"
     /\ \A m \in Rounds : ballots[m].at \notin {"sent", "accepted"}
     /\ prompt' = NoPrompt
     /\ ballots' = [m \in Rounds |-> [at |-> "none", vote |-> NoVote]]
     /\ shown' = [i \in 1..Cardinality(kept) |->
          LET m == CHOOSE k \in kept : Cardinality({j \in kept : j <= k}) = i
          IN [round |-> m, reveal |-> stored[m]]]
     /\ voteStates' = [m \in Rounds |->
          IF m \in kept /\ stored[m] # NoVote THEN [status |-> "recorded", vote |-> stored[m]] ELSE Idle]
     /\ continuation' = IF decisive = {} THEN NoConv ELSE rounds[last].conv
     /\ lookups' = Asked({m \in kept : stored[m] = NoVote})
     /\ UNCHANGED <<rounds, enabled, stored, prompts, faults>>

-----------------------------------------------------------------------------
Next ==
  \/ \E on \in BOOLEAN : SetEnabled(on)
  \/ Send
  \/ Answered
  \/ MetaArrives
  \/ RunFinished
  \/ RunFailed
  \/ \E m \in Rounds, vote \in {"left", "tie"} : Cast(m, vote)
  \/ \E m \in Rounds :
       VoteAnswered(m) \/ RevealStored(m) \/ VoteCutOff(m) \/ VoteReturns(m)
  \/ \E i \in DOMAIN shown : Render(i)
  \/ LookupAnswered
  \/ LookupReturns
  \/ Reload

Spec == Init /\ [][Next]_vars

-----------------------------------------------------------------------------
(* Properties                                                              *)

(* A verdict on screen is the vote the arena has, also when the vote route *)
(* failed half-way, was retried, or the page was rebuilt from the host's   *)
(* database or by a lookup.                                                *)
VerdictIsRecorded ==
  \A m \in Rounds : voteStates[m].status = "recorded" => rounds[m].vote = voteStates[m].vote

(* A round voted without a winner says "your next message starts a fresh   *)
(* arena conversation" (arena-matchup.tsx:178): while the last round says  *)
(* so and nothing is in flight, the next message is not refused.           *)
FreshMessageAccepted ==
  LET last == shown[Len(shown)].round IN
    /\ shown # <<>>
    /\ voteStates[last].status = "recorded"
    /\ ~IsContinuable(voteStates[last].vote)
    /\ prompt.at = "idle"
    => ~Refuses(User, continuation)
====
