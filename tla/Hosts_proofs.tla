---- MODULE Hosts_proofs ----
(***************************************************************************)
(* What the chat hosts show, store and send, for any number of prompts,    *)
(* votes, reloads and lost replies.                                        *)
(***************************************************************************)
EXTENDS Hosts, FiniteSetTheorems, SequenceTheorems, WellFoundedInduction, TLAPS

(***************************************************************************)
(* The AG-UI hosts' inductive invariant.                                   *)
(***************************************************************************)
InFlight(b) == ballots[b].at \in {"sent", "recorded", "rejected"}
Votes == Ballots \cup {NoVote}

RoundsOK ==
  /\ host \in {"assistant-ui", "copilotkit"}
  /\ rounds \in Seq(StoredRounds({Session})) /\ Len(rounds) =< prompts
  /\ prompt.at = "sent" => Len(rounds) < prompts
  /\ prompts \in 0..MaxPrompts /\ reloads \in Nat /\ faults \in Nat
ThreadOK == thread \in [on : BOOLEAN, conv : 0..Len(rounds), shown : SUBSET DOMAIN rounds]
MatchupsOK == matchups \in [Rounds -> [known : BOOLEAN, token : BOOLEAN, vote : Votes,
                                       voting : BOOLEAN, streaming : BOOLEAN]]
SavedOK == saved \in [conv : 0..Len(rounds), tokens : SUBSET DOMAIN rounds]
PromptOK ==
  /\ prompt \in [at : {"idle", "sent", "announced", "streaming", "failed"}, on : BOOLEAN,
                 conv : 0..Len(rounds), round : 0..Len(rounds)]
  /\ prompt.at = "announced" => prompt.round # NoRound
BallotsOK == ballots \in [1..MaxVotes -> [at : {"none", "sent", "recorded", "rejected", "done"},
                                          round : 0..Len(rounds), vote : Votes]]
LoadOK ==
  /\ DOMAIN load = {"at", "conv", "turns"}
  /\ load.at \in {"none", "asked", "answered", "failed"} /\ load.conv \in 0..Len(rounds)
RelayOK ==
  /\ cache \in 0..Len(rounds) /\ polls \subseteq 0..Len(rounds)
  /\ begun \subseteq DOMAIN rounds

PageTypeOK ==
  RoundsOK /\ ThreadOK /\ MatchupsOK /\ SavedOK /\ PromptOK /\ BallotsOK /\ LoadOK /\ RelayOK

\* Every stored round is this browser's.
Served == \A i \in DOMAIN rounds : rounds[i].session = Session /\ rounds[i].conv \in 1..i

\* What the page shows of a round is what it was told, and a vote in flight is
\* on a round it knows.
Screen ==
  /\ \A m \in Rounds : /\ matchups[m].token \/ matchups[m].vote # NoVote => matchups[m].known
                       /\ matchups[m].known => m \in DOMAIN rounds
                       /\ matchups[m].vote # NoVote => rounds[m].vote = matchups[m].vote
  /\ \A b \in DOMAIN ballots : InFlight(b) =>
       /\ ballots[b].round # NoRound /\ matchups[ballots[b].round].known
       /\ ballots[b].vote # NoVote
       /\ ballots[b].at = "recorded" => rounds[ballots[b].round].vote = ballots[b].vote
  /\ host = "assistant-ui" =>
       /\ polls = {} /\ cache = NoRound
       /\ prompt.at = "announced" => ~matchups[prompt.round].known

\* While an older thread is being read, nothing on the page is of it, and the
\* server's copy stands still.
Foreign(m) == rounds[m].conv # load.conv

Apart ==
  /\ load.conv # NoConv /\ thread.conv # load.conv
  /\ TurnsOf(load.conv) # {}
  /\ prompt.at = "sent" => prompt.conv # load.conv
  /\ prompt.at = "announced" => Foreign(prompt.round)
  /\ \A m \in Rounds : matchups[m].known => Foreign(m)
  /\ \A m \in polls \ {NoRound} : Foreign(m)
  /\ prompt.at \in {"announced", "streaming"} \/ NoRound \in polls =>
       cache = NoRound \/ Foreign(cache)
  /\ load.at = "answered" => load.turns = Snapshot(load.conv)

Reading == load.at # "none" => Apart

\* The storage holds the token of every open round, unless it was cleared.
Storage ==
  /\ \A m \in begun \ lost : rounds[m].vote = NoVote => m \in saved.tokens
  /\ saved.conv # NoConv => TurnsOf(saved.conv) # {}

PageInv == PageTypeOK /\ Served /\ Screen /\ Reading /\ Storage /\ OpenRoundVotable

USE AgUiHostsAssumption DEF NoConv, NoRound, NoVote, Rounds

LEMMA RoundsAre ==
  ASSUME PageTypeOK
  PROVE  /\ DOMAIN rounds = 1..Len(rounds) /\ Len(rounds) \in 0..MaxPrompts
         /\ DOMAIN rounds \subseteq Rounds
         /\ \A i \in DOMAIN rounds : /\ rounds[i] \in StoredRounds({Session}) /\ rounds[i].vote \in Votes
                                     /\ rounds[i].conv \in Nat
<1>1. rounds \in Seq(StoredRounds({Session})) /\ Len(rounds) =< prompts /\ prompts \in 0..MaxPrompts
  BY DEF PageTypeOK, RoundsOK
<1>2. DOMAIN rounds = 1..Len(rounds) /\ Len(rounds) \in 0..MaxPrompts
  BY <1>1
<1>3. \A i \in DOMAIN rounds : rounds[i] \in StoredRounds({Session})
  BY <1>1
<1>4. \A s \in StoredRounds({Session}) : s.vote \in Votes /\ s.conv \in Nat
  BY DEF StoredRounds, Votes
<1>5. DOMAIN rounds \subseteq Rounds
  BY <1>2
<1>6. \A i \in DOMAIN rounds : rounds[i].vote \in Votes /\ rounds[i].conv \in Nat
  BY <1>3, <1>4
<1> QED BY <1>2, <1>3, <1>5, <1>6

LEMMA SetArenaEnabledKeeps ==
  ASSUME PageInv, NEW on \in BOOLEAN, SetArenaEnabled(on) PROVE PageInv'
<1> USE DEF page, wire, bounds, told, PageInv
<1>1. PageTypeOK'
  <2>1. ThreadOK'
    <3>1. thread' = [on |-> on, conv |-> IF on THEN thread.conv ELSE NoConv, shown |-> thread.shown]
      BY DEF SetArenaEnabled, PageTypeOK, ThreadOK
    <3>2. thread.conv \in 0..Len(rounds) /\ thread.shown \in SUBSET DOMAIN rounds
      BY DEF PageTypeOK, ThreadOK
    <3>3. NoConv \in 0..Len(rounds)
      BY RoundsAre
    <3>4. rounds' = rounds
      BY DEF SetArenaEnabled
    <3>5. thread' \in [on : BOOLEAN, conv : 0..Len(rounds), shown : SUBSET DOMAIN rounds]
      BY <3>1, <3>2, <3>3
    <3> QED BY <3>4, <3>5 DEF ThreadOK
  <2>2. SavedOK'
    BY RoundsAre DEF SetArenaEnabled, PageTypeOK, SavedOK
  <2> QED
    BY <2>1, <2>2 DEF SetArenaEnabled, PageTypeOK, RoundsOK, MatchupsOK, PromptOK, BallotsOK, LoadOK, RelayOK
<1>2. Served'
  BY RoundsAre DEF SetArenaEnabled, Served
<1>3. Screen'
  BY RoundsAre DEF SetArenaEnabled, PageTypeOK, MatchupsOK, BallotsOK, Screen, InFlight
<1>4. Reading'
  BY RoundsAre DEF SetArenaEnabled, Screen, Reading, Apart, Foreign, TurnsOf, Snapshot
<1>5. Storage'
  BY RoundsAre DEF SetArenaEnabled, Storage, TurnsOf
<1>6. OpenRoundVotable'
  BY RoundsAre DEF SetArenaEnabled, OpenRoundVotable, Storage
<1> QED BY <1>1, <1>2, <1>3, <1>4, <1>5, <1>6

LEMMA ResetKeeps ==
  ASSUME PageInv, Reset PROVE PageInv'
<1> USE DEF page, wire, bounds, told, PageInv
<1>1. PageTypeOK'
  <2>1. ThreadOK'
    <3>1. thread' = [on |-> thread.on, conv |-> NoConv, shown |-> {}]
      BY DEF Reset, PageTypeOK, ThreadOK
    <3> QED BY <3>1 DEF Reset, PageTypeOK, ThreadOK
  <2>2. SavedOK'
    BY RoundsAre DEF Reset, NothingSaved, PageTypeOK, SavedOK
  <2>3. RelayOK'
    BY RoundsAre DEF Reset, NothingSaved, PageTypeOK, RelayOK
  <2> QED
    BY <2>1, <2>2, <2>3 DEF Reset, PageTypeOK, RoundsOK, MatchupsOK, PromptOK, BallotsOK, LoadOK
<1>2. Served'
  BY RoundsAre DEF Reset, NothingSaved, Served
<1>3. Screen'
  BY RoundsAre DEF Reset, NothingSaved, PageTypeOK, MatchupsOK, BallotsOK, Screen, InFlight
<1>4. Reading'
  BY RoundsAre DEF Reset, NothingSaved, Screen, Reading, Apart, Foreign, TurnsOf, Snapshot
<1>5. Storage'
  BY RoundsAre DEF Reset, NothingSaved, Storage, TurnsOf
<1>6. OpenRoundVotable'
  BY RoundsAre DEF Reset, NothingSaved, OpenRoundVotable, Storage
<1> QED BY <1>1, <1>2, <1>3, <1>4, <1>5, <1>6

LEMMA SendKeeps ==
  ASSUME PageInv, Send PROVE PageInv'
<1> USE DEF page, wire, bounds, told, PageInv
<1>1. PageTypeOK'
  <2>1. RoundsOK'
    BY RoundsAre DEF Send, NoPrompt, PageTypeOK, RoundsOK, PromptOK
  <2>2. PromptOK'
    <3>1. prompt' = [at |-> "sent", on |-> thread.on,
                     conv |-> IF thread.on THEN thread.conv ELSE NoConv, round |-> NoRound]
      BY DEF Send, NoPrompt
    <3>2. thread.on \in BOOLEAN /\ thread.conv \in 0..Len(rounds) /\ 0 \in 0..Len(rounds)
      BY RoundsAre DEF PageTypeOK, ThreadOK
    <3>3. rounds' = rounds
      BY DEF Send
    <3> QED BY <3>1, <3>2, <3>3 DEF PromptOK
  <2> QED
    BY <2>1, <2>2 DEF Send, PageTypeOK, ThreadOK, MatchupsOK, SavedOK, BallotsOK, LoadOK, RelayOK
<1>2. Served'
  BY RoundsAre DEF Send, NoPrompt, Served
<1>3. Screen'
  BY RoundsAre DEF Send, NoPrompt, PageTypeOK, MatchupsOK, BallotsOK, Screen, InFlight
<1>4. Reading'
  BY RoundsAre DEF Send, NoPrompt, Screen, Reading, Apart, Foreign, TurnsOf, Snapshot
<1>5. Storage'
  BY RoundsAre DEF Send, NoPrompt, Storage, TurnsOf
<1>6. OpenRoundVotable'
  BY RoundsAre DEF Send, NoPrompt, OpenRoundVotable, Storage
<1> QED BY <1>1, <1>2, <1>3, <1>4, <1>5, <1>6

LEMMA AnswerLostKeeps ==
  ASSUME PageInv, AnswerLost PROVE PageInv'
<1> USE DEF page, wire, bounds, told, PageInv
<1>1. PageTypeOK'
  <2>1. RoundsOK'
    BY RoundsAre DEF AnswerLost, Fault, PageTypeOK, RoundsOK, PromptOK
  <2>2. PromptOK'
    BY RoundsAre DEF AnswerLost, Fault, PageTypeOK, PromptOK
  <2> QED
    BY <2>1, <2>2 DEF AnswerLost, PageTypeOK, ThreadOK, MatchupsOK, SavedOK, BallotsOK, LoadOK, RelayOK
<1>2. Served'
  BY RoundsAre DEF AnswerLost, Fault, Served
<1>3. Screen'
  BY RoundsAre DEF AnswerLost, Fault, PageTypeOK, MatchupsOK, BallotsOK, Screen, InFlight
<1>4. Reading'
  BY RoundsAre DEF AnswerLost, Fault, Screen, Reading, Apart, Foreign, TurnsOf, Snapshot
<1>5. Storage'
  BY RoundsAre DEF AnswerLost, Fault, Storage, TurnsOf
<1>6. OpenRoundVotable'
  BY RoundsAre DEF AnswerLost, Fault, OpenRoundVotable, Storage
<1> QED BY <1>1, <1>2, <1>3, <1>4, <1>5, <1>6

LEMMA CustomDroppedKeeps ==
  ASSUME PageInv, CustomDropped PROVE PageInv'
<1> USE DEF page, wire, bounds, told, PageInv
<1>1. PageTypeOK'
  <2>1. RoundsOK'
    BY RoundsAre DEF CustomDropped, PageTypeOK, RoundsOK, PromptOK
  <2>2. PromptOK'
    BY RoundsAre DEF CustomDropped, PageTypeOK, PromptOK
  <2> QED
    BY <2>1, <2>2 DEF CustomDropped, PageTypeOK, ThreadOK, MatchupsOK, SavedOK, BallotsOK, LoadOK, RelayOK
<1>2. Served'
  BY RoundsAre DEF CustomDropped, Served
<1>3. Screen'
  BY RoundsAre DEF CustomDropped, PageTypeOK, MatchupsOK, BallotsOK, Screen, InFlight
<1>4. Reading'
  BY RoundsAre DEF CustomDropped, Screen, Reading, Apart, Foreign, TurnsOf, Snapshot
<1>5. Storage'
  BY RoundsAre DEF CustomDropped, Storage, TurnsOf
<1>6. OpenRoundVotable'
  BY RoundsAre DEF CustomDropped, OpenRoundVotable, Storage
<1> QED BY <1>1, <1>2, <1>3, <1>4, <1>5, <1>6

LEMMA RunFinishedKeeps ==
  ASSUME PageInv, RunFinished PROVE PageInv'
<1> USE DEF page, wire, bounds, told, PageInv
<1>1. PageTypeOK'
  <2>1. RoundsOK'
    BY RoundsAre DEF RunFinished, NoPrompt, Unlocked, PageTypeOK, RoundsOK, PromptOK
  <2>2. PromptOK'
    BY RoundsAre DEF RunFinished, NoPrompt, Unlocked, PageTypeOK, PromptOK
  <2>3. MatchupsOK'
    BY RoundsAre DEF RunFinished, NoPrompt, Unlocked, PageTypeOK, MatchupsOK, Votes, Ballots, Decisive
  <2>4. RelayOK'
    BY RoundsAre DEF RunFinished, NoPrompt, Unlocked, PageTypeOK, RelayOK
  <2> QED
    BY <2>1, <2>2, <2>3, <2>4 DEF RunFinished, PageTypeOK, ThreadOK, SavedOK, BallotsOK, LoadOK
<1>m. \A m \in Rounds : /\ matchups'[m].known = matchups[m].known
                        /\ matchups'[m].token = matchups[m].token
                        /\ matchups'[m].vote = matchups[m].vote
  BY DEF RunFinished, Unlocked, PageTypeOK, MatchupsOK
<1>2. Served'
  BY RoundsAre, <1>m DEF RunFinished, NoPrompt, Served
<1>3. Screen'
  BY RoundsAre, <1>m DEF RunFinished, NoPrompt, PageTypeOK, MatchupsOK, BallotsOK, Screen, InFlight
<1>4. Reading'
  BY RoundsAre, <1>m DEF RunFinished, NoPrompt, Screen, Reading, Apart, Foreign, TurnsOf, Snapshot
<1>5. Storage'
  BY RoundsAre, <1>m DEF RunFinished, NoPrompt, Storage, TurnsOf
<1>6. OpenRoundVotable'
  BY RoundsAre, <1>m DEF RunFinished, PageTypeOK, ThreadOK, OpenRoundVotable
<1> QED BY <1>1, <1>2, <1>3, <1>4, <1>5, <1>6

LEMMA RunFailedKeeps ==
  ASSUME PageInv, RunFailed PROVE PageInv'
<1> USE DEF page, wire, bounds, told, PageInv
<1>1. PageTypeOK'
  <2>1. RoundsOK'
    BY RoundsAre DEF RunFailed, NoPrompt, Unlocked, PageTypeOK, RoundsOK, PromptOK
  <2>2. PromptOK'
    BY RoundsAre DEF RunFailed, NoPrompt, Unlocked, PageTypeOK, PromptOK
  <2>3. MatchupsOK'
    BY RoundsAre DEF RunFailed, NoPrompt, Unlocked, PageTypeOK, MatchupsOK, Votes, Ballots, Decisive
  <2> QED
    BY <2>1, <2>2, <2>3 DEF RunFailed, PageTypeOK, ThreadOK, SavedOK, BallotsOK, LoadOK, RelayOK
<1>m. \A m \in Rounds : /\ matchups'[m].known = matchups[m].known
                        /\ matchups'[m].token = matchups[m].token
                        /\ matchups'[m].vote = matchups[m].vote
  BY DEF RunFailed, Unlocked, PageTypeOK, MatchupsOK
<1>2. Served'
  BY RoundsAre, <1>m DEF RunFailed, NoPrompt, Served
<1>3. Screen'
  <2>1. UNCHANGED <<rounds, host, ballots, polls, cache>> /\ prompt'.at = "idle"
    BY DEF RunFailed, NoPrompt
  <2>2. \A b \in DOMAIN ballots : InFlight(b) => ballots[b].round \in Rounds
    BY RoundsAre DEF PageTypeOK, BallotsOK, Screen
  <2>3. ASSUME NEW b \in DOMAIN ballots', InFlight(b)'
        PROVE  /\ ballots'[b].round # NoRound /\ matchups'[ballots'[b].round].known
               /\ ballots'[b].vote # NoVote
               /\ ballots'[b].at = "recorded" => rounds'[ballots'[b].round].vote = ballots'[b].vote
    BY <1>m, <2>1, <2>2, <2>3 DEF Screen, InFlight
  <2>4. \A m \in Rounds : /\ matchups'[m].token \/ matchups'[m].vote # NoVote => matchups'[m].known
                          /\ matchups'[m].known => m \in DOMAIN rounds'
                          /\ matchups'[m].vote # NoVote => rounds'[m].vote = matchups'[m].vote
    BY <1>m, <2>1 DEF Screen
  <2> QED BY <2>1, <2>3, <2>4 DEF Screen
<1>4. Reading'
  BY RoundsAre, <1>m DEF RunFailed, NoPrompt, Screen, Reading, Apart, Foreign, TurnsOf, Snapshot
<1>5. Storage'
  BY RoundsAre, <1>m DEF RunFailed, NoPrompt, Storage, TurnsOf
<1>6. OpenRoundVotable'
  BY RoundsAre, <1>m DEF RunFailed, PageTypeOK, ThreadOK, OpenRoundVotable
<1> QED BY <1>1, <1>2, <1>3, <1>4, <1>5, <1>6

LEMMA PollAnsweredKeeps ==
  ASSUME PageInv, PollAnswered PROVE PageInv'
<1> USE DEF page, wire, bounds, told, PageInv
<1>1. PageTypeOK'
  <2>1. RelayOK'
    BY RoundsAre DEF PollAnswered, PageTypeOK, RelayOK
  <2> QED
    BY <2>1 DEF PollAnswered, PageTypeOK, RoundsOK, ThreadOK, MatchupsOK, SavedOK, PromptOK, BallotsOK, LoadOK
<1>2. Served'
  BY RoundsAre DEF PollAnswered, Served
<1>3. Screen'
  BY RoundsAre DEF PollAnswered, PageTypeOK, MatchupsOK, BallotsOK, Screen, InFlight
<1>4. Reading'
  BY RoundsAre DEF PollAnswered, Screen, Reading, Apart, Foreign, TurnsOf, Snapshot
<1>5. Storage'
  BY RoundsAre DEF PollAnswered, Storage, TurnsOf
<1>6. OpenRoundVotable'
  BY RoundsAre DEF PollAnswered, OpenRoundVotable, Storage
<1> QED BY <1>1, <1>2, <1>3, <1>4, <1>5, <1>6

LEMMA CastKeeps ==
  ASSUME PageInv, NEW m \in Rounds, NEW vote \in {"left", "tie"}, Cast(m, vote) PROVE PageInv'
<1> USE DEF page, wire, bounds, told, PageInv
<1>1. PageTypeOK'
  <2>1. MatchupsOK'
    <3>1. matchups' = [matchups EXCEPT ![m].voting = TRUE]
      BY DEF Cast
    <3> QED BY <3>1 DEF PageTypeOK, MatchupsOK
  <2>2. BallotsOK'
    <3>1. PICK b \in DOMAIN ballots :
            ballots' = [ballots EXCEPT ![b] = [at |-> "sent", round |-> m, vote |-> vote]]
      BY DEF Cast
    <3>2. m \in 0..Len(rounds) /\ vote \in Votes /\ rounds' = rounds
      BY RoundsAre DEF Cast, Votable, Votes, Ballots, Decisive, Screen
    <3> QED BY <3>1, <3>2 DEF PageTypeOK, BallotsOK
  <2> QED
    BY <2>1, <2>2 DEF Cast, PageTypeOK, RoundsOK, ThreadOK, SavedOK, PromptOK, LoadOK, RelayOK
<1>2. Served'
  BY RoundsAre DEF Cast, Votable, Served
<1>3. Screen'
  BY RoundsAre DEF Cast, Votable, PageTypeOK, MatchupsOK, BallotsOK, Screen, InFlight
<1>4. Reading'
  BY RoundsAre DEF Cast, Votable, Screen, Reading, Apart, Foreign, TurnsOf, Snapshot
<1>5. Storage'
  BY RoundsAre DEF Cast, Votable, Storage, TurnsOf
<1>6. OpenRoundVotable'
  BY RoundsAre DEF Cast, Votable, OpenRoundVotable, Storage
<1> QED BY <1>1, <1>2, <1>3, <1>4, <1>5, <1>6

LEMMA VoteReplyLostKeeps ==
  ASSUME PageInv, NEW b \in DOMAIN ballots, VoteReplyLost(b) PROVE PageInv'
<1> USE DEF page, wire, bounds, told, PageInv
<1>1. PageTypeOK'
  <2>1. RoundsOK'
    BY RoundsAre DEF VoteReplyLost, Fault, PageTypeOK, RoundsOK, PromptOK
  <2>2. BallotsOK'
    BY RoundsAre DEF VoteReplyLost, Fault, PageTypeOK, BallotsOK, Votes, Ballots, Decisive
  <2> QED
    BY <2>1, <2>2 DEF VoteReplyLost, PageTypeOK, ThreadOK, MatchupsOK, SavedOK, PromptOK, LoadOK, RelayOK
<1>2. Served'
  BY RoundsAre DEF VoteReplyLost, Fault, Served
<1>3. Screen'
  BY RoundsAre DEF VoteReplyLost, Fault, PageTypeOK, MatchupsOK, BallotsOK, Screen, InFlight
<1>4. Reading'
  BY RoundsAre DEF VoteReplyLost, Fault, Screen, Reading, Apart, Foreign, TurnsOf, Snapshot
<1>5. Storage'
  BY RoundsAre DEF VoteReplyLost, Fault, Storage, TurnsOf
<1>6. OpenRoundVotable'
  BY RoundsAre DEF VoteReplyLost, Fault, OpenRoundVotable, Storage
<1> QED BY <1>1, <1>2, <1>3, <1>4, <1>5, <1>6

LEMMA LoadFailsKeeps ==
  ASSUME PageInv, LoadFails PROVE PageInv'
<1> USE DEF page, wire, bounds, told, PageInv
<1>1. PageTypeOK'
  <2>1. RoundsOK'
    BY RoundsAre DEF LoadFails, Fault, PageTypeOK, RoundsOK, PromptOK
  <2>2. LoadOK'
    BY RoundsAre DEF LoadFails, Fault, PageTypeOK, LoadOK
  <2> QED
    BY <2>1, <2>2 DEF LoadFails, PageTypeOK, ThreadOK, MatchupsOK, SavedOK, PromptOK, BallotsOK, RelayOK
<1>2. Served'
  BY RoundsAre DEF LoadFails, Fault, Served
<1>3. Screen'
  BY RoundsAre DEF LoadFails, Fault, PageTypeOK, MatchupsOK, BallotsOK, Screen, InFlight
<1>4. Reading'
  BY RoundsAre DEF LoadFails, Fault, Screen, Reading, Apart, Foreign, TurnsOf, Snapshot
<1>5. Storage'
  BY RoundsAre DEF LoadFails, Fault, Storage, TurnsOf
<1>6. OpenRoundVotable'
  BY RoundsAre DEF LoadFails, Fault, OpenRoundVotable, Storage
<1> QED BY <1>1, <1>2, <1>3, <1>4, <1>5, <1>6

LEMMA LoadGivesUpKeeps ==
  ASSUME PageInv, LoadGivesUp PROVE PageInv'
<1> USE DEF page, wire, bounds, told, PageInv
<1>1. PageTypeOK'
  <2>1. SavedOK'
    BY RoundsAre DEF LoadGivesUp, NoLoad, NothingSaved, PageTypeOK, SavedOK
  <2>2. LoadOK'
    BY RoundsAre DEF LoadGivesUp, NoLoad, NothingSaved, PageTypeOK, LoadOK
  <2>3. RelayOK'
    BY RoundsAre DEF LoadGivesUp, NoLoad, NothingSaved, PageTypeOK, RelayOK
  <2> QED
    BY <2>1, <2>2, <2>3 DEF LoadGivesUp, PageTypeOK, RoundsOK, ThreadOK, MatchupsOK, PromptOK, BallotsOK
<1>2. Served'
  BY RoundsAre DEF LoadGivesUp, NoLoad, NothingSaved, Served
<1>3. Screen'
  BY RoundsAre DEF LoadGivesUp, NoLoad, NothingSaved, PageTypeOK, MatchupsOK, BallotsOK, Screen, InFlight
<1>4. Reading'
  BY RoundsAre DEF LoadGivesUp, NoLoad, NothingSaved, Screen, Reading, Apart, Foreign, TurnsOf, Snapshot
<1>5. Storage'
  BY RoundsAre DEF LoadGivesUp, NoLoad, NothingSaved, Storage, TurnsOf
<1>6. OpenRoundVotable'
  BY RoundsAre DEF LoadGivesUp, NoLoad, NothingSaved, OpenRoundVotable, Storage
<1> QED BY <1>1, <1>2, <1>3, <1>4, <1>5, <1>6

\* A new round: it is numbered after all others and belongs to another thread
\* than the one being read.
LEMMA OpenedKeeps ==
  ASSUME PageInv, Answered, rounds' = Opened(Session, prompt.conv),
         prompt' = [prompt EXCEPT !.at = "announced", !.round = Len(rounds) + 1],
         cache' = IF host = "copilotkit" THEN Len(rounds) + 1 ELSE cache
  PROVE  PageInv'
<1>0. PICK n \in Nat : n = Len(rounds)
  BY RoundsAre DEF PageInv
<1> DEFINE c == IF prompt.conv = NoConv THEN n + 1 ELSE prompt.conv
           r == [conv |-> c, session |-> Session, vote |-> NoVote]
<1> USE DEF PageInv
<1>1. /\ n \in Nat /\ n < prompts /\ prompts \in 0..MaxPrompts
      /\ prompt.conv \in 0..n /\ prompt.at = "sent"
  BY <1>0, RoundsAre DEF Answered, PageTypeOK, RoundsOK, PromptOK
<1>2. r \in StoredRounds({Session}) /\ c \in 1..(n + 1)
  <2>1. c \in 1..(n + 1)
    BY <1>1
  <2> QED BY <1>0, <2>1 DEF StoredRounds
<1>3. rounds \in Seq(StoredRounds({Session})) /\ rounds' = Append(rounds, r)
  BY <1>0 DEF PageTypeOK, RoundsOK, Opened
<1>4. /\ rounds' \in Seq(StoredRounds({Session})) /\ Len(rounds') = n + 1
      /\ \A i \in 1..n : rounds'[i] = rounds[i]
      /\ rounds'[n + 1] = r
  BY <1>0, <1>2, <1>3, AppendProperties
<1>5. /\ DOMAIN rounds = 1..n /\ DOMAIN rounds' = 1..(n + 1)
      /\ DOMAIN rounds \subseteq DOMAIN rounds' /\ 0..n \subseteq 0..(n + 1)
      /\ DOMAIN rounds \subseteq Rounds /\ DOMAIN rounds' \subseteq Rounds
  BY <1>0, <1>1, <1>3, <1>4
<1>6. /\ UNCHANGED <<host, thread, matchups, saved, begun, lost, ballots, load, polls, prompts,
                     reloads, faults>>
      /\ prompt' = [prompt EXCEPT !.at = "announced", !.round = n + 1]
      /\ cache' = IF host = "copilotkit" THEN n + 1 ELSE cache
  BY <1>0 DEF Answered, page, told, bounds
<1>r. r.conv = c /\ r.session = Session /\ r.vote = NoVote
  OBVIOUS
<1> HIDE DEF c, r
<1>t. prompt'.at = "announced" /\ prompt'.round = n + 1 /\ prompt'.conv = prompt.conv
  BY <1>0, <1>6 DEF PageTypeOK, PromptOK
<1>7. PageTypeOK'
  <2>1. RoundsOK'
    BY <1>1, <1>4, <1>6, <1>t DEF PageTypeOK, RoundsOK
  <2>2. ThreadOK'
    BY <1>4, <1>5, <1>6, <1>0 DEF PageTypeOK, ThreadOK
  <2>3. SavedOK'
    BY <1>4, <1>5, <1>6, <1>0 DEF PageTypeOK, SavedOK
  <2>4. PromptOK'
    <3>1. n + 1 \in 0..(n + 1) /\ n + 1 # NoRound
      BY <1>1
    <3> QED BY <3>1, <1>4, <1>5, <1>6, <1>t, <1>0 DEF PageTypeOK, PromptOK
  <2>5. BallotsOK'
    BY <1>4, <1>5, <1>6, <1>0 DEF PageTypeOK, BallotsOK
  <2>6. LoadOK' /\ MatchupsOK'
    BY <1>4, <1>5, <1>6, <1>0 DEF PageTypeOK, LoadOK, MatchupsOK
  <2>7. RelayOK'
    BY <1>1, <1>4, <1>5, <1>6, <1>0 DEF PageTypeOK, RelayOK
  <2> QED BY <2>1, <2>2, <2>3, <2>4, <2>5, <2>6, <2>7 DEF PageTypeOK
<1>8. Served'
  <2>1. \A i \in 1..n : rounds'[i].session = Session /\ rounds'[i].conv \in 1..i
    BY <1>4, <1>5 DEF Served
  <2>2. rounds'[n + 1].session = Session /\ rounds'[n + 1].conv \in 1..(n + 1)
    BY <1>2, <1>4, <1>r
  <2> QED BY <1>1, <1>5, <2>1, <2>2 DEF Served
<1>9. Screen'
  <2>1. \A m \in Rounds : matchups[m].known => m \in 1..n /\ m # n + 1
    BY <1>1, <1>5 DEF Screen
  <2>2. \A m \in Rounds : /\ matchups'[m].token \/ matchups'[m].vote # NoVote => matchups'[m].known
                          /\ matchups'[m].known => m \in DOMAIN rounds'
                          /\ matchups'[m].vote # NoVote => rounds'[m].vote = matchups'[m].vote
    BY <2>1, <1>4, <1>5, <1>6 DEF Screen
  <2>3. \A b \in DOMAIN ballots : InFlight(b) => ballots[b].round \in 1..n
    BY <1>1, <1>5, <1>0 DEF Screen, PageTypeOK, BallotsOK
  <2>4. ASSUME NEW b \in DOMAIN ballots', InFlight(b)'
        PROVE  /\ ballots'[b].round # NoRound /\ matchups'[ballots'[b].round].known
               /\ ballots'[b].vote # NoVote
               /\ ballots'[b].at = "recorded" => rounds'[ballots'[b].round].vote = ballots'[b].vote
    BY <2>3, <2>4, <1>4, <1>6 DEF Screen, InFlight
  <2>5. n + 1 \in Rounds
    BY <1>1
  <2>6. ~matchups'[n + 1].known
    BY <2>1, <2>5, <1>6
  <2>7. host = "assistant-ui" => polls' = {} /\ cache' = NoRound
    BY <1>6 DEF Screen
  <2> QED BY <2>2, <2>4, <2>6, <2>7, <1>6, <1>t DEF Screen
<1>10. Reading'
  <2> SUFFICES ASSUME load'.at # "none" PROVE Apart'
    BY DEF Reading
  <2>1. load.at # "none" /\ load.conv \in 1..n /\ c # load.conv
    BY <1>1, <1>6, <1>0 DEF Reading, Apart, PageTypeOK, LoadOK, c
  <2>2. \A i \in 1..n : Foreign(i)' <=> Foreign(i)
    BY <1>4, <1>6 DEF Foreign
  <2>3. Foreign(n + 1)'
    BY <2>1, <1>4, <1>6, <1>r DEF Foreign
  <2>4. TurnsOf(load.conv)' = TurnsOf(load.conv)
    BY <2>1, <1>1, <1>4, <1>5, <1>6, <1>r DEF TurnsOf
  <2>5. Snapshot(load.conv)' = Snapshot(load.conv)
    BY <2>4, <1>4, <1>5, <1>6 DEF Snapshot, TurnsOf
  <2>6. \A m \in Rounds : matchups'[m].known => Foreign(m)'
    BY <2>1, <2>2, <1>5, <1>6 DEF Reading, Apart, Screen
  <2>7. \A m \in polls' \ {NoRound} : Foreign(m)'
    BY <2>1, <2>2, <1>1, <1>6, <1>0 DEF Reading, Apart, PageTypeOK, RelayOK
  <2>8. prompt'.at \in {"announced", "streaming"} \/ NoRound \in polls' =>
          cache' = NoRound \/ Foreign(cache)'
    <3>1. CASE host = "copilotkit"
      BY <3>1, <2>3, <1>6 DEF Foreign
    <3>2. CASE host = "assistant-ui"
      BY <3>2, <1>6 DEF Screen
    <3> QED BY <3>1, <3>2 DEF PageTypeOK, RoundsOK
  <2> QED BY <2>1, <2>3, <2>4, <2>5, <2>6, <2>7, <2>8, <1>6, <1>t DEF Reading, Apart, Foreign
<1>11. Storage'
  <2>1. \A i \in begun : rounds'[i] = rounds[i]
    BY <1>4, <1>5 DEF PageTypeOK, RelayOK
  <2>2. \A v : TurnsOf(v) \subseteq TurnsOf(v)'
    BY <1>4, <1>5 DEF TurnsOf
  <2> QED BY <2>1, <2>2, <1>6 DEF Storage
<1>12. OpenRoundVotable'
  BY <1>4, <1>5, <1>6 DEF OpenRoundVotable, PageTypeOK, ThreadOK
<1> QED BY <1>7, <1>8, <1>9, <1>10, <1>11, <1>12

LEMMA AnsweredKeeps ==
  ASSUME PageInv, Answered PROVE PageInv'
<1>1. CASE /\ rounds' = Opened(Session, prompt.conv)
           /\ prompt' = [prompt EXCEPT !.at = "announced", !.round = Len(rounds) + 1]
           /\ cache' = IF host = "copilotkit" THEN Len(rounds) + 1 ELSE cache
  BY <1>1, OpenedKeeps
<1>2. CASE UNCHANGED <<rounds, cache>> /\ prompt' = [prompt EXCEPT !.at = "failed"]
  <2>1. UNCHANGED <<host, page, ballots, load, polls, bounds>>
    BY DEF Answered
  <2> USE <1>2, <2>1 DEF PageInv, page, told, bounds
  <2>2. PageTypeOK'
    <3>1. RoundsOK' /\ PromptOK'
      BY DEF PageTypeOK, RoundsOK, PromptOK
    <3> QED BY <3>1 DEF PageTypeOK, ThreadOK, MatchupsOK, SavedOK, BallotsOK, LoadOK, RelayOK
  <2>3. prompt'.at = "failed"
    BY DEF PageTypeOK, PromptOK
  <2>4. Served' /\ Storage' /\ OpenRoundVotable'
    BY DEF Served, Storage, TurnsOf, OpenRoundVotable
  <2>5. Screen'
    BY <2>3 DEF Screen, InFlight
  <2>6. Reading'
    BY <2>3 DEF Reading, Apart, Foreign, TurnsOf, Snapshot
  <2> QED BY <2>2, <2>4, <2>5, <2>6
<1>3. CASE rounds' = rounds /\ cache' = NoRound /\ prompt' = [prompt EXCEPT !.at = "streaming"]
  <2>1. UNCHANGED <<host, page, ballots, load, polls, bounds>>
    BY DEF Answered
  <2> USE <1>3, <2>1 DEF PageInv, page, told, bounds
  <2>2. PageTypeOK'
    <3>1. RoundsOK' /\ PromptOK'
      BY DEF PageTypeOK, RoundsOK, PromptOK
    <3>2. RelayOK'
      BY RoundsAre DEF PageTypeOK, RelayOK
    <3> QED BY <3>1, <3>2 DEF PageTypeOK, ThreadOK, MatchupsOK, SavedOK, BallotsOK, LoadOK
  <2>3. prompt'.at = "streaming"
    BY DEF PageTypeOK, PromptOK
  <2>4. Served' /\ Storage' /\ OpenRoundVotable'
    BY DEF Served, Storage, TurnsOf, OpenRoundVotable
  <2>5. Screen'
    BY <2>3 DEF Screen, InFlight
  <2>6. Reading'
    BY <2>3 DEF Reading, Apart, Foreign, TurnsOf, Snapshot
  <2> QED BY <2>2, <2>4, <2>5, <2>6
<1> QED BY <1>1, <1>2, <1>3 DEF Answered

\* What a message about round m does to the page, by either host.
Relayed(m, s) ==
  \/ Begin(m, s) /\ matchups[m].vote = NoVote
  \/ /\ matchups' = [matchups EXCEPT ![m].streaming = s]
     /\ UNCHANGED <<thread, saved, told>>

\* The message was the announcement of the round in progress, or a poll's reply.
Delivered ==
  \/ /\ prompt.at = "announced" /\ prompt' = [prompt EXCEPT !.at = "streaming"]
     /\ polls' = polls
  \/ host = "copilotkit" /\ prompt' = prompt /\ polls' \subseteq polls

LEMMA RelayedKeeps ==
  ASSUME PageInv, NEW m \in DOMAIN rounds, NEW s \in BOOLEAN, Relayed(m, s), Delivered,
         load.at # "none" => Foreign(m), matchups[m].known \/ Begin(m, s),
         UNCHANGED <<rounds, host, ballots, load, cache, bounds>>
  PROVE  PageInv'
<1> USE DEF PageInv, told, bounds
<1>1. m \in Rounds /\ rounds[m].conv \in 1..Len(rounds)
  BY RoundsAre DEF Served
<1>2. /\ DOMAIN matchups' = Rounds
      /\ \A k \in Rounds \ {m} : matchups'[k] = matchups[k]
      /\ matchups'[m].known
      /\ Begin(m, s) => matchups'[m].token /\ matchups'[m].vote = NoVote
      /\ ~Begin(m, s) => matchups'[m].token = matchups[m].token /\ matchups'[m].vote = matchups[m].vote
  <2>1. matchups \in [Rounds -> [known : BOOLEAN, token : BOOLEAN, vote : Votes,
                                voting : BOOLEAN, streaming : BOOLEAN]]
    BY DEF PageTypeOK, MatchupsOK
  <2>2. CASE Begin(m, s)
    <3>1. matchups' = [matchups EXCEPT ![m] =
            [Unknown EXCEPT !.known = TRUE, !.token = TRUE, !.streaming = s]]
      BY <2>2 DEF Begin
    <3>2. matchups'[m] = [known |-> TRUE, token |-> TRUE, vote |-> NoVote, voting |-> FALSE, streaming |-> s]
      BY <1>1, <2>1, <3>1 DEF Unknown
    <3> QED BY <1>1, <2>1, <2>2, <3>1, <3>2
  <2>3. CASE ~Begin(m, s)
    <3>1. matchups' = [matchups EXCEPT ![m].streaming = s]
      BY <2>3 DEF Relayed
    <3> QED BY <1>1, <2>1, <2>3, <3>1
  <2> QED BY <2>2, <2>3
<1>3. /\ Begin(m, s) => /\ thread' = [thread EXCEPT !.conv = rounds[m].conv, !.shown = @ \cup {m}]
                        /\ saved' = [conv |-> rounds[m].conv, tokens |-> saved.tokens \cup {m}]
                        /\ begun' = begun \cup {m} /\ lost' = lost \ {m}
      /\ ~Begin(m, s) => UNCHANGED <<thread, saved, begun, lost>>
  BY DEF Relayed, Begin, Persist
<1>4. /\ prompt'.at = prompt.at \/ (prompt.at = "announced" /\ prompt'.at = "streaming")
      /\ prompt'.at = "announced" => prompt' = prompt /\ host = "copilotkit"
      /\ prompt'.at = "sent" => prompt' = prompt
      /\ polls' \subseteq polls
  <2>1. CASE prompt.at = "announced" /\ prompt' = [prompt EXCEPT !.at = "streaming"] /\ polls' = polls
    <3>1. prompt'.at = "streaming"
      BY <2>1 DEF PageTypeOK, PromptOK
    <3> QED BY <2>1, <3>1
  <2>2. CASE host = "copilotkit" /\ prompt' = prompt /\ polls' \subseteq polls
    <3>1. prompt'.at = prompt.at
      BY <2>2
    <3> QED BY <2>2, <3>1
  <2> QED BY <2>1, <2>2 DEF Delivered
<1>5. PageTypeOK'
  <2>1. RoundsOK' /\ PromptOK'
    BY <1>4 DEF Delivered, PageTypeOK, RoundsOK, PromptOK
  <2>2. ThreadOK'
    <3>1. CASE Begin(m, s)
      <4>1. thread' = [on |-> thread.on, conv |-> rounds[m].conv, shown |-> thread.shown \cup {m}]
        BY <1>3, <3>1 DEF PageTypeOK, ThreadOK
      <4>2. /\ rounds[m].conv \in 0..Len(rounds) /\ thread.on \in BOOLEAN
            /\ thread.shown \cup {m} \subseteq DOMAIN rounds
        BY <1>1, RoundsAre DEF PageTypeOK, ThreadOK
      <4> QED BY <4>1, <4>2 DEF ThreadOK
    <3>2. CASE ~Begin(m, s)
      BY <1>3, <3>2 DEF PageTypeOK, ThreadOK
    <3> QED BY <3>1, <3>2
  <2>3. SavedOK'
    BY <1>1, <1>3, RoundsAre DEF PageTypeOK, SavedOK
  <2>4. MatchupsOK'
    <3>1. [Unknown EXCEPT !.known = TRUE, !.token = TRUE, !.streaming = s]
            \in [known : BOOLEAN, token : BOOLEAN, vote : Votes, voting : BOOLEAN, streaming : BOOLEAN]
      BY DEF Unknown, Votes
    <3>2. CASE Begin(m, s)
      BY <1>1, <3>1, <3>2 DEF Begin, PageTypeOK, MatchupsOK
    <3>3. CASE matchups' = [matchups EXCEPT ![m].streaming = s]
      BY <1>1, <3>3 DEF PageTypeOK, MatchupsOK
    <3> QED BY <3>2, <3>3 DEF Relayed
  <2>5. RelayOK'
    BY <1>3, <1>4 DEF PageTypeOK, RelayOK
  <2> QED BY <2>1, <2>2, <2>3, <2>4, <2>5 DEF PageTypeOK, BallotsOK, LoadOK
<1>6. Served'
  BY DEF Served
<1>7. Screen'
  <2>1. \A k \in Rounds : /\ matchups'[k].token \/ matchups'[k].vote # NoVote => matchups'[k].known
                          /\ matchups'[k].known => k \in DOMAIN rounds'
                          /\ matchups'[k].vote # NoVote => rounds'[k].vote = matchups'[k].vote
    BY <1>1, <1>2 DEF Screen
  <2>2. \A b \in DOMAIN ballots : InFlight(b) => ballots[b].round \in Rounds
    BY RoundsAre DEF PageTypeOK, BallotsOK, Screen
  <2>3. ASSUME NEW b \in DOMAIN ballots', InFlight(b)'
        PROVE  /\ ballots'[b].round # NoRound /\ matchups'[ballots'[b].round].known
               /\ ballots'[b].vote # NoVote
               /\ ballots'[b].at = "recorded" => rounds'[ballots'[b].round].vote = ballots'[b].vote
    BY <1>2, <2>2, <2>3 DEF Screen, InFlight
  <2> QED BY <2>1, <2>3, <1>4 DEF Screen
<1>8. Reading'
  <2> SUFFICES ASSUME load'.at # "none" PROVE Apart'
    BY DEF Reading
  <2>1. load.at # "none" /\ Apart /\ Foreign(m)
    BY DEF Reading
  <2>2. thread'.conv # load'.conv
    BY <1>3, <2>1 DEF Apart, Foreign, PageTypeOK, ThreadOK
  <2>3. TurnsOf(load.conv)' = TurnsOf(load.conv) /\ Snapshot(load.conv)' = Snapshot(load.conv)
    BY DEF TurnsOf, Snapshot
  <2>4. \A k \in Rounds : matchups'[k].known => Foreign(k)'
    BY <1>2, <2>1 DEF Apart, Foreign
  <2>5. prompt'.at \in {"announced", "streaming"} \/ NoRound \in polls' =>
          cache' = NoRound \/ Foreign(cache)'
    BY <1>4, <2>1 DEF Apart, Foreign
  <2> QED BY <1>4, <2>1, <2>2, <2>3, <2>4, <2>5 DEF Apart, Foreign
<1>9. Storage'
  <2>1. CASE Begin(m, s)
    <3>1. m \in TurnsOf(rounds[m].conv)
      BY DEF TurnsOf
    <3>2. saved'.conv = rounds[m].conv /\ TurnsOf(rounds[m].conv)' = TurnsOf(rounds[m].conv)
      BY <1>3, <2>1 DEF TurnsOf
    <3>3. saved'.conv # NoConv => TurnsOf(saved.conv)' # {}
      BY <3>1, <3>2 DEF TurnsOf
    <3> QED BY <1>3, <2>1, <3>3 DEF Storage
  <2>2. CASE ~Begin(m, s)
    BY <1>3, <2>2 DEF Storage, TurnsOf
  <2> QED BY <2>1, <2>2
<1>10. OpenRoundVotable'
  <2>1. thread.shown \subseteq Rounds
    BY RoundsAre DEF PageTypeOK, ThreadOK
  <2>2. CASE Begin(m, s)
    <3>1. thread'.shown = thread.shown \cup {m}
      BY <1>3, <2>2 DEF PageTypeOK, ThreadOK
    <3> QED BY <1>2, <1>3, <2>1, <2>2, <3>1 DEF OpenRoundVotable
  <2>3. CASE ~Begin(m, s)
    BY <1>2, <1>3, <2>1, <2>3 DEF OpenRoundVotable
  <2> QED BY <2>2, <2>3
<1> QED BY <1>5, <1>6, <1>7, <1>8, <1>9, <1>10

LEMMA HeaderArrivesKeeps ==
  ASSUME PageInv, HeaderArrives PROVE PageInv'
<1>1. prompt.round \in DOMAIN rounds /\ prompt.round \in Rounds
  BY RoundsAre DEF HeaderArrives, PageInv, PageTypeOK, PromptOK
<1>2. matchups[prompt.round].vote = NoVote
  BY <1>1 DEF HeaderArrives, PageInv, Screen
<1>3. load.at # "none" => Foreign(prompt.round)
  BY DEF HeaderArrives, PageInv, Reading, Apart
<1>4. Relayed(prompt.round, FALSE) /\ Begin(prompt.round, FALSE) /\ Delivered
  BY <1>2 DEF HeaderArrives, AssistantBegin, Relayed, Delivered
<1>5. UNCHANGED <<rounds, host, ballots, load, cache, bounds>>
  BY DEF HeaderArrives
<1> QED BY <1>1, <1>3, <1>4, <1>5, RelayedKeeps

LEMMA CustomArrivesKeeps ==
  ASSUME PageInv, CustomArrives PROVE PageInv'
<1>1. prompt.round \in DOMAIN rounds /\ prompt.round \in Rounds
  BY RoundsAre DEF CustomArrives, PageInv, PageTypeOK, PromptOK
<1>2. load.at # "none" => Foreign(prompt.round)
  BY DEF CustomArrives, PageInv, Reading, Apart
<1>3. Relayed(prompt.round, TRUE) /\ Delivered
  BY DEF CustomArrives, CopilotBegin, Relayed, Delivered
<1>4. matchups[prompt.round].known \/ Begin(prompt.round, TRUE)
  BY <1>1 DEF CustomArrives, CopilotBegin, PageInv, Screen
<1>5. UNCHANGED <<rounds, host, ballots, load, cache, bounds>>
  BY DEF CustomArrives
<1> QED BY <1>1, <1>2, <1>3, <1>4, <1>5, RelayedKeeps

LEMMA PollReturnsKeeps ==
  ASSUME PageInv, PollReturns PROVE PageInv'
<1>1. PICK m \in polls \ {NoRound} :
        /\ CopilotBegin(m, matchups[m].streaming)
        /\ polls' = polls \ {m}
        /\ UNCHANGED <<rounds, host, prompt, ballots, load, cache, bounds>>
  BY DEF PollReturns
<1>2. m \in DOMAIN rounds /\ m \in Rounds /\ host = "copilotkit"
  BY <1>1, RoundsAre DEF PageInv, PageTypeOK, RelayOK, RoundsOK, Screen
<1>3. PICK s \in BOOLEAN : s = matchups[m].streaming
  BY <1>2 DEF PageInv, PageTypeOK, MatchupsOK
<1>4. Relayed(m, s) /\ Delivered
  BY <1>1, <1>2, <1>3 DEF CopilotBegin, Relayed, Delivered
<1>5. matchups[m].known \/ Begin(m, s)
  BY <1>1, <1>2, <1>3 DEF CopilotBegin, PageInv, Screen
<1>6. load.at # "none" => Foreign(m)
  BY <1>1 DEF PageInv, Reading, Apart
<1> QED BY <1>1, <1>2, <1>4, <1>5, <1>6, RelayedKeeps

LEMMA LoadAnsweredKeeps ==
  ASSUME PageInv, LoadAnswered PROVE PageInv'
<1> USE DEF page, told, bounds, PageInv
<1>1. /\ load.at = "asked" /\ load'.conv = load.conv
      /\ \/ load'.at = "answered" /\ load'.turns = Snapshot(load.conv)
         \/ load'.at = "failed"
      /\ DOMAIN load' = DOMAIN load
      /\ UNCHANGED <<rounds, host, page, prompt, ballots, cache, polls, bounds>>
  <2>1. DOMAIN load = {"at", "conv", "turns"}
    BY DEF PageTypeOK, LoadOK
  <2>2. CASE load' = [load EXCEPT !.at = "answered", !.turns = Snapshot(load.conv)]
    BY <2>1, <2>2 DEF LoadAnswered
  <2>3. CASE load' = [load EXCEPT !.at = "failed"]
    BY <2>1, <2>3 DEF LoadAnswered
  <2> QED BY <2>2, <2>3 DEF LoadAnswered
<1>2. PageTypeOK'
  <2>1. LoadOK'
    BY <1>1 DEF PageTypeOK, LoadOK
  <2> QED BY <1>1, <2>1 DEF PageTypeOK, RoundsOK, ThreadOK, MatchupsOK, SavedOK, PromptOK, BallotsOK, RelayOK
<1>3. Served' /\ Storage' /\ OpenRoundVotable' /\ Screen'
  BY <1>1 DEF Served, Storage, TurnsOf, OpenRoundVotable, Screen, InFlight
<1>4. Reading'
  <2>1. Apart
    BY <1>1 DEF Reading
  <2>2. Snapshot(load.conv)' = Snapshot(load.conv) /\ TurnsOf(load.conv)' = TurnsOf(load.conv)
    BY <1>1 DEF Snapshot, TurnsOf
  <2>3. load'.at = "answered" => load'.turns = Snapshot(load.conv)'
    BY <1>1, <2>2
  <2> QED BY <1>1, <2>1, <2>2, <2>3 DEF Reading, Apart, Foreign
<1> QED BY <1>2, <1>3, <1>4

LEMMA ReloadKeeps ==
  ASSUME PageInv, Reload PROVE PageInv'
<1> USE DEF told, bounds, PageInv
<1>1. /\ thread' = NewThread /\ prompt' = NoPrompt /\ polls' = {}
      /\ matchups' = [m \in Rounds |-> Unknown]
      /\ load'.conv = saved.conv /\ load'.at = IF saved.conv = NoConv THEN "none" ELSE "asked"
      /\ DOMAIN load' = {"at", "conv", "turns"}
      /\ reloads' = reloads + 1
      /\ UNCHANGED <<rounds, host, saved, told, cache, prompts, faults>>
  <2>1. load' = IF saved.conv = NoConv THEN NoLoad ELSE [NoLoad EXCEPT !.at = "asked", !.conv = saved.conv]
    BY DEF Reload
  <2>2. /\ load'.conv = saved.conv /\ load'.at = IF saved.conv = NoConv THEN "none" ELSE "asked"
        /\ DOMAIN load' = {"at", "conv", "turns"}
    BY <2>1 DEF NoLoad
  <2> QED BY <2>2 DEF Reload
<1>2. /\ DOMAIN ballots' = 1..MaxVotes
      /\ \A b \in 1..MaxVotes : ballots'[b].at \in {"none", "done"}
      /\ BallotsOK'
  <2>1. ballots' = [b \in 1..MaxVotes |->
          IF ballots[b].at = "none" THEN NoBallot ELSE [ballots[b] EXCEPT !.at = "done"]]
    BY DEF Reload, PageTypeOK, BallotsOK
  <2>2. 0 \in 0..Len(rounds) /\ NoVote \in Votes
    BY RoundsAre DEF Votes
  <2> QED BY <2>1, <2>2, <1>1 DEF NoBallot, PageTypeOK, BallotsOK
<1>3. PageTypeOK'
  <2>1. RoundsOK' /\ PromptOK' /\ ThreadOK'
    BY <1>1, RoundsAre DEF PageTypeOK, RoundsOK, PromptOK, NoPrompt, ThreadOK, NewThread
  <2>2. MatchupsOK'
    BY <1>1 DEF MatchupsOK, Unknown, Votes
  <2>3. LoadOK'
    BY <1>1, RoundsAre DEF PageTypeOK, SavedOK, LoadOK, NoLoad
  <2>4. RelayOK' /\ SavedOK'
    BY <1>1 DEF PageTypeOK, RelayOK, SavedOK
  <2> QED BY <1>2, <2>1, <2>2, <2>3, <2>4 DEF PageTypeOK
<1>4. Served' /\ Storage'
  BY <1>1 DEF Served, Storage, TurnsOf
<1>5. Screen'
  BY <1>1, <1>2 DEF Screen, InFlight, Unknown, NoPrompt
<1>6. Reading'
  <2> SUFFICES ASSUME load'.at # "none" PROVE Apart'
    BY DEF Reading
  <2>1. saved.conv # NoConv /\ load'.conv = saved.conv /\ load'.at = "asked"
    BY <1>1 DEF NoLoad
  <2>2. TurnsOf(load.conv)' # {}
    BY <1>1, <2>1 DEF Storage, TurnsOf
  <2> QED BY <1>1, <2>1, <2>2 DEF Apart, NewThread, NoPrompt, Unknown
<1>7. OpenRoundVotable'
  BY <1>1 DEF OpenRoundVotable, NewThread
<1> QED BY <1>3, <1>4, <1>5, <1>6, <1>7

LEMMA VoteAnsweredKeeps ==
  ASSUME PageInv, NEW b \in DOMAIN ballots, VoteAnswered(b) PROVE PageInv'
<1> USE DEF page, told, bounds, PageInv
<1>1. PICK m \in DOMAIN rounds, v \in Votes :
        m = ballots[b].round /\ v = ballots[b].vote /\ v # NoVote /\ matchups[m].known /\ m \in Rounds
  BY RoundsAre DEF VoteAnswered, InFlight, Screen, PageTypeOK, BallotsOK
<1>2. PICK at \in {"recorded", "rejected"} :
        /\ ballots' = [ballots EXCEPT ![b].at = at]
        /\ \/ at = "recorded" /\ rounds[m].vote = NoVote /\ rounds' = [rounds EXCEPT ![m].vote = v]
           \/ at = "rejected" /\ rounds' = rounds
  BY <1>1 DEF VoteAnswered, VoteAccepted, Voted
<1>3. UNCHANGED <<host, page, prompt, load, cache, polls, bounds>>
  BY DEF VoteAnswered
<1>4. rounds \in Seq(StoredRounds({Session})) /\ DOMAIN rounds = 1..Len(rounds)
  BY RoundsAre DEF PageTypeOK, RoundsOK
<1>5. /\ rounds' \in Seq(StoredRounds({Session})) /\ Len(rounds') = Len(rounds)
      /\ DOMAIN rounds' = DOMAIN rounds
      /\ \A i \in DOMAIN rounds : /\ rounds'[i].conv = rounds[i].conv
                                  /\ rounds'[i].session = rounds[i].session
                                  /\ rounds[i].vote # NoVote => rounds'[i].vote = rounds[i].vote
                                  /\ matchups[i].vote = NoVote \/ i # m => rounds'[i].vote \in {rounds[i].vote, v}
                                  /\ i # m => rounds'[i] = rounds[i]
      /\ at = "recorded" => rounds[m].vote = NoVote /\ rounds'[m].vote = v
  <2>1. \A i \in DOMAIN rounds : rounds[i] \in StoredRounds({Session})
    BY <1>4
  <2>2. CASE rounds' = rounds /\ at = "rejected"
    BY <2>2, <1>4
  <2>3. CASE at = "recorded" /\ rounds[m].vote = NoVote /\ rounds' = [rounds EXCEPT ![m].vote = v]
    <3>1. [rounds[m] EXCEPT !.vote = v] \in StoredRounds({Session})
      BY <2>1 DEF StoredRounds, Votes
    <3>2. rounds' = [rounds EXCEPT ![m] = [rounds[m] EXCEPT !.vote = v]]
      BY <2>3
    <3>3. rounds' \in Seq(StoredRounds({Session})) /\ Len(rounds') = Len(rounds)
      BY <1>4, <3>1, <3>2
    <3>4. /\ rounds'[m].conv = rounds[m].conv /\ rounds'[m].session = rounds[m].session
          /\ rounds'[m].vote = v
      BY <1>4, <2>1, <3>2 DEF StoredRounds
    <3>5. \A i \in DOMAIN rounds \ {m} : rounds'[i] = rounds[i]
      BY <3>2
    <3> QED BY <1>4, <2>3, <3>3, <3>4, <3>5
  <2> QED BY <1>2, <2>2, <2>3
<1>6. /\ DOMAIN ballots' = DOMAIN ballots
      /\ \A c \in DOMAIN ballots \ {b} : ballots'[c] = ballots[c]
      /\ ballots'[b].at = at /\ ballots'[b].round = m /\ ballots'[b].vote = v
      /\ BallotsOK'
  BY <1>1, <1>2, <1>5 DEF PageTypeOK, BallotsOK
<1>7. PageTypeOK'
  <2>1. RoundsOK'
    BY <1>3, <1>5 DEF PageTypeOK, RoundsOK
  <2> QED BY <1>3, <1>5, <1>6, <2>1 DEF PageTypeOK, ThreadOK, MatchupsOK, SavedOK, PromptOK, LoadOK, RelayOK
<1>8. Served'
  BY <1>5 DEF Served
<1>9. Screen'
  <2>1. \A k \in Rounds : /\ matchups'[k].token \/ matchups'[k].vote # NoVote => matchups'[k].known
                          /\ matchups'[k].known => k \in DOMAIN rounds'
                          /\ matchups'[k].vote # NoVote => rounds'[k].vote = matchups'[k].vote
    BY <1>3, <1>5 DEF Screen
  <2>2. ASSUME NEW c \in DOMAIN ballots, InFlight(c)'
        PROVE  /\ ballots'[c].round # NoRound /\ matchups'[ballots'[c].round].known
               /\ ballots'[c].vote # NoVote
               /\ ballots'[c].at = "recorded" => rounds'[ballots'[c].round].vote = ballots'[c].vote
    <3>1. CASE c = b
      BY <3>1, <1>1, <1>3, <1>5, <1>6, RoundsAre
    <3>2. CASE c # b
      <4>1. ballots'[c] = ballots[c] /\ InFlight(c) /\ ballots[c].round \in Rounds
        BY <2>2, <3>2, <1>6, RoundsAre DEF InFlight, Screen, PageTypeOK, BallotsOK
      <4>2. matchups[ballots[c].round].known /\ ballots[c].round \in DOMAIN rounds
        BY <4>1 DEF Screen
      <4> QED BY <4>1, <4>2, <1>3, <1>5 DEF Screen
    <3> QED BY <3>1, <3>2
  <2> QED BY <2>1, <2>2, <1>3, <1>6 DEF Screen
<1>10. Reading'
  <2> SUFFICES ASSUME load'.at # "none" PROVE Apart'
    BY DEF Reading
  <2>1. Apart /\ Foreign(m)
    BY <1>1, <1>3 DEF Reading, Apart
  <2>2. TurnsOf(load.conv)' = TurnsOf(load.conv)
    BY <1>3, <1>5 DEF TurnsOf
  <2>3. \A i \in TurnsOf(load.conv) : rounds'[i].vote = rounds[i].vote
    BY <2>1, <1>5 DEF TurnsOf, Foreign
  <2>4. Snapshot(load.conv)' = Snapshot(load.conv)
    BY <2>2, <2>3 DEF Snapshot
  <2>5. \A i \in DOMAIN rounds : Foreign(i)' <=> Foreign(i)
    BY <1>3, <1>5 DEF Foreign
  <2>6. /\ prompt.at = "announced" => prompt.round \in DOMAIN rounds
        /\ \A i \in polls \ {NoRound} : i \in DOMAIN rounds
        /\ cache # NoRound => cache \in DOMAIN rounds
        /\ \A i \in Rounds : matchups[i].known => i \in DOMAIN rounds
    BY RoundsAre DEF PageTypeOK, PromptOK, RelayOK, Screen
  <2>7. prompt'.at = "announced" => Foreign(prompt.round)'
    BY <2>1, <2>5, <2>6, <1>3 DEF Apart, Foreign
  <2>8. \A i \in polls' \ {NoRound} : Foreign(i)'
    BY <2>1, <2>5, <2>6, <1>3 DEF Apart
  <2>9. \A i \in Rounds : matchups'[i].known => Foreign(i)'
    BY <2>1, <2>5, <2>6, <1>3 DEF Apart
  <2>10. prompt'.at \in {"announced", "streaming"} \/ NoRound \in polls' =>
           cache' = NoRound \/ Foreign(cache)'
    BY <2>1, <2>5, <2>6, <1>3 DEF Apart, Foreign
  <2> QED BY <2>1, <2>2, <2>4, <2>7, <2>8, <2>9, <2>10, <1>3 DEF Apart
<1>11. Storage'
  <2>1. TurnsOf(saved.conv)' = TurnsOf(saved.conv)
    BY <1>3, <1>5 DEF TurnsOf
  <2>2. \A i \in begun : i \in DOMAIN rounds
    BY DEF PageTypeOK, RelayOK
  <2> QED BY <2>1, <2>2, <1>3, <1>5 DEF Storage
<1>12. OpenRoundVotable'
  BY <1>3, <1>5 DEF OpenRoundVotable, PageTypeOK, ThreadOK
<1> QED BY <1>7, <1>8, <1>9, <1>10, <1>11, <1>12

LEMMA VoteReturnsKeeps ==
  ASSUME PageInv, NEW b \in DOMAIN ballots, VoteReturns(b) PROVE PageInv'
<1> USE DEF told, bounds, PageInv
<1>1. PICK m \in DOMAIN rounds, v \in Votes :
        /\ m = ballots[b].round /\ v = ballots[b].vote /\ v # NoVote /\ matchups[m].known /\ m \in Rounds
        /\ ballots[b].at = "recorded" => rounds[m].vote = v
  BY RoundsAre DEF VoteReturns, InFlight, Screen, PageTypeOK, BallotsOK
<1>2. /\ ballots' = [ballots EXCEPT ![b].at = "done"]
      /\ UNCHANGED <<rounds, host, told, prompt, load, cache, polls, bounds>>
  BY DEF VoteReturns
<1>3. /\ DOMAIN ballots' = DOMAIN ballots
      /\ \A c \in DOMAIN ballots \ {b} : ballots'[c] = ballots[c]
      /\ ballots'[b].at = "done"
      /\ BallotsOK'
  BY <1>2 DEF PageTypeOK, BallotsOK
<1>4. rounds[m].conv \in 1..Len(rounds) /\ m \in TurnsOf(rounds[m].conv)
  BY RoundsAre DEF Served, TurnsOf
<1>5. \/ /\ rounds[m].vote = v
         /\ matchups' = [matchups EXCEPT ![m] =
              [matchups[m] EXCEPT !.token = FALSE, !.vote = v, !.voting = FALSE]]
         /\ \E conv \in {rounds[m].conv, NoConv} :
              /\ thread' = [thread EXCEPT !.conv = conv]
              /\ saved' = [conv |-> conv, tokens |-> saved.tokens \ {m}]
      \/ /\ matchups' = [matchups EXCEPT ![m].voting = FALSE]
         /\ UNCHANGED <<thread, saved>>
  <2>1. CASE /\ ballots[b].at = "recorded"
             /\ RecordVote(m, v, VoteReply(m, v).continuable)
    BY <1>1, <2>1 DEF RecordVote, Verdict, Persist
  <2>2. CASE ballots[b].at = "rejected" /\ FailVote(m)
    BY <2>2 DEF FailVote
  <2> QED BY <1>1, <2>1, <2>2 DEF VoteReturns
<1>6. /\ DOMAIN matchups' = Rounds
      /\ \A k \in Rounds : /\ matchups'[k].known = matchups[k].known
                           /\ \/ matchups'[k].token = matchups[k].token /\ matchups'[k].vote = matchups[k].vote
                              \/ k = m /\ rounds[m].vote = v /\ matchups'[k].token = FALSE /\ matchups'[k].vote = v
      /\ MatchupsOK'
  <2>1. matchups \in [Rounds -> [known : BOOLEAN, token : BOOLEAN, vote : Votes,
                                voting : BOOLEAN, streaming : BOOLEAN]]
    BY DEF PageTypeOK, MatchupsOK
  <2>2. CASE /\ rounds[m].vote = v
             /\ matchups' = [matchups EXCEPT ![m] =
                  [matchups[m] EXCEPT !.token = FALSE, !.vote = v, !.voting = FALSE]]
    <3> DEFINE Rec == [known : BOOLEAN, token : BOOLEAN, vote : Votes, voting : BOOLEAN, streaming : BOOLEAN]
    <3>1. PICK x \in Rec : x = [matchups[m] EXCEPT !.token = FALSE]
      BY <1>1, <2>1
    <3>2. PICK y \in Rec : y = [x EXCEPT !.vote = v]
      BY <1>1, <3>1
    <3>3. PICK z \in Rec : z = [y EXCEPT !.voting = FALSE]
      BY <3>2
    <3>4. matchups' = [matchups EXCEPT ![m] = z]
      BY <2>2, <3>1, <3>2, <3>3
    <3>5. z.known = matchups[m].known /\ z.token = FALSE /\ z.vote = v
      BY <1>1, <2>1, <3>1, <3>2, <3>3
    <3>6. DOMAIN matchups' = Rounds /\ matchups'[m] = z /\ \A k \in Rounds \ {m} : matchups'[k] = matchups[k]
      BY <1>1, <2>1, <3>4
    <3>7. \A k \in Rounds : /\ matchups'[k].known = matchups[k].known
                            /\ k # m => /\ matchups'[k].token = matchups[k].token
                                        /\ matchups'[k].vote = matchups[k].vote
      BY <3>5, <3>6
    <3>8. matchups' \in [Rounds -> Rec]
      BY <2>1, <3>3, <3>4
    <3>9. MatchupsOK'
      BY <3>8 DEF MatchupsOK
    <3> QED BY <2>2, <3>5, <3>6, <3>7, <3>9
  <2>3. CASE matchups' = [matchups EXCEPT ![m].voting = FALSE]
    <3>1. PICK z \in [known : BOOLEAN, token : BOOLEAN, vote : Votes,
                      voting : BOOLEAN, streaming : BOOLEAN] :
            z = [matchups[m] EXCEPT !.voting = FALSE]
      BY <1>1, <2>1
    <3>2. z.known = matchups[m].known /\ z.token = matchups[m].token /\ z.vote = matchups[m].vote
      BY <1>1, <2>1, <3>1
    <3>3. matchups' = [matchups EXCEPT ![m] = z]
      BY <2>3, <3>1
    <3> QED BY <1>1, <2>1, <3>2, <3>3 DEF MatchupsOK
  <2> QED BY <1>5, <2>2, <2>3
<1>7. /\ thread'.conv \in {thread.conv, rounds[m].conv, NoConv} /\ thread'.shown = thread.shown
      /\ ThreadOK'
  <2>1. thread \in [on : BOOLEAN, conv : 0..Len(rounds), shown : SUBSET DOMAIN rounds]
    BY DEF PageTypeOK, ThreadOK
  <2>2. CASE thread' = thread
    BY <2>1, <2>2, <1>2 DEF ThreadOK
  <2>3. ASSUME NEW conv \in {rounds[m].conv, NoConv}, thread' = [thread EXCEPT !.conv = conv]
        PROVE  /\ thread'.conv \in {thread.conv, rounds[m].conv, NoConv} /\ thread'.shown = thread.shown
               /\ ThreadOK'
    <3>1. conv \in 0..Len(rounds)
      BY <1>4
    <3> QED BY <2>1, <2>3, <3>1, <1>2 DEF ThreadOK
  <2> QED BY <1>5, <2>2, <2>3
<1>8. /\ saved'.conv \in {saved.conv, rounds[m].conv, NoConv}
      /\ saved'.tokens = saved.tokens \/ (rounds[m].vote = v /\ saved'.tokens = saved.tokens \ {m})
      /\ SavedOK'
  <2>1. CASE saved' = saved
    BY <2>1, <1>2 DEF PageTypeOK, SavedOK
  <2>2. ASSUME NEW conv \in {rounds[m].conv, NoConv}, rounds[m].vote = v,
               saved' = [conv |-> conv, tokens |-> saved.tokens \ {m}]
        PROVE  /\ saved'.conv \in {saved.conv, rounds[m].conv, NoConv}
               /\ saved'.tokens = saved.tokens \/ (rounds[m].vote = v /\ saved'.tokens = saved.tokens \ {m})
               /\ SavedOK'
    <3>1. conv \in 0..Len(rounds)
      BY <1>4
    <3> QED BY <2>2, <3>1, <1>2 DEF PageTypeOK, SavedOK
  <2> QED BY <1>5, <2>1, <2>2
<1>9. PageTypeOK'
  BY <1>2, <1>3, <1>6, <1>7, <1>8 DEF PageTypeOK, RoundsOK, PromptOK, LoadOK, RelayOK
<1>10. Served'
  BY <1>2 DEF Served
<1>11. Screen'
  <2>1. \A k \in Rounds : /\ matchups'[k].token \/ matchups'[k].vote # NoVote => matchups'[k].known
                          /\ matchups'[k].known => k \in DOMAIN rounds'
                          /\ matchups'[k].vote # NoVote => rounds'[k].vote = matchups'[k].vote
    BY <1>1, <1>2, <1>6 DEF Screen
  <2>2. \A c \in DOMAIN ballots : InFlight(c) => ballots[c].round \in Rounds
    BY RoundsAre DEF PageTypeOK, BallotsOK, Screen
  <2>3. ASSUME NEW c \in DOMAIN ballots, InFlight(c)'
        PROVE  /\ ballots'[c].round # NoRound /\ matchups'[ballots'[c].round].known
               /\ ballots'[c].vote # NoVote
               /\ ballots'[c].at = "recorded" => rounds'[ballots'[c].round].vote = ballots'[c].vote
    BY <1>2, <1>3, <1>6, <2>2, <2>3 DEF Screen, InFlight
  <2>4. host' = "assistant-ui" =>
          /\ polls' = {} /\ cache' = NoRound
          /\ prompt'.at = "announced" => ~matchups'[prompt'.round].known
    BY <1>2, <1>6, RoundsAre DEF Screen, PageTypeOK, PromptOK
  <2> QED BY <1>3, <2>1, <2>3, <2>4 DEF Screen
<1>12. Reading'
  <2> SUFFICES ASSUME load'.at # "none" PROVE Apart'
    BY DEF Reading
  <2>1. Apart /\ Foreign(m)
    BY <1>1, <1>2 DEF Reading, Apart
  <2>2. TurnsOf(load.conv)' = TurnsOf(load.conv) /\ Snapshot(load.conv)' = Snapshot(load.conv)
    BY <1>2 DEF TurnsOf, Snapshot
  <2>3. thread'.conv # load'.conv
    BY <1>2, <1>7, <2>1 DEF Apart, Foreign
  <2> QED BY <1>2, <1>6, <2>1, <2>2, <2>3 DEF Apart, Foreign
<1>13. Storage'
  <2>1. \A w : TurnsOf(w)' = TurnsOf(w)
    BY <1>2 DEF TurnsOf
  <2>2. saved'.conv # NoConv => TurnsOf(saved.conv)' # {}
    BY <1>2, <1>4, <1>8 DEF Storage, TurnsOf
  <2> QED BY <1>1, <1>2, <1>8, <2>2 DEF Storage
<1>14. OpenRoundVotable'
  <2>1. thread.shown \subseteq Rounds
    BY RoundsAre DEF PageTypeOK, ThreadOK
  <2> QED BY <1>1, <1>2, <1>6, <1>7, <2>1 DEF OpenRoundVotable
<1> QED BY <1>9, <1>10, <1>11, <1>12, <1>13, <1>14

\* The thread that was read is shown as the server has it, and the page knew
\* none of its rounds.
LEMMA Rebuilding ==
  ASSUME PageInv, Hydrate
  PROVE  /\ load.conv \in 1..Len(rounds) /\ TurnsOf(load.conv) # {} /\ Apart
         /\ DOMAIN load.turns = TurnsOf(load.conv) /\ TurnsOf(load.conv) \subseteq Rounds
         /\ ResumeFrom(load.turns, load.conv) \in {load.conv, NoConv}
         /\ \A k \in Rounds :
              IF k \in TurnsOf(load.conv)
              THEN /\ matchups'[k].known /\ matchups'[k].vote = rounds[k].vote /\ ~matchups[k].known
                   /\ matchups'[k].token <=> rounds[k].vote = NoVote /\ k \in saved.tokens
              ELSE matchups'[k] = matchups[k]
         /\ MatchupsOK'
<1> USE DEF PageInv
<1>1. Apart /\ load.conv \in 1..Len(rounds) /\ load.turns = Snapshot(load.conv)
  BY RoundsAre DEF Hydrate, Reading, Apart, PageTypeOK, LoadOK
<1>2. DOMAIN load.turns = TurnsOf(load.conv) /\ TurnsOf(load.conv) \subseteq Rounds
  BY <1>1, RoundsAre DEF Snapshot, TurnsOf
<1>3. \A k \in TurnsOf(load.conv) : load.turns[k] = rounds[k].vote /\ ~matchups[k].known /\ rounds[k].vote \in Votes
  BY <1>1, <1>2, RoundsAre DEF Snapshot, TurnsOf, Apart, Foreign
<1>4. matchups' = [k \in Rounds |->
        IF k \in TurnsOf(load.conv) THEN Rebuilt(k, load.turns[k]) ELSE matchups[k]]
  BY <1>2 DEF Hydrate
<1>5. ASSUME NEW k \in Rounds, NEW v \in Votes
      PROVE  /\ Rebuilt(k, v) \in [known : BOOLEAN, token : BOOLEAN, vote : Votes,
                                   voting : BOOLEAN, streaming : BOOLEAN]
             /\ Rebuilt(k, v).known /\ Rebuilt(k, v).vote = v
             /\ Rebuilt(k, v).token <=> v = NoVote /\ k \in saved.tokens
  <2> DEFINE Rec == [known : BOOLEAN, token : BOOLEAN, vote : Votes, voting : BOOLEAN, streaming : BOOLEAN]
  <2>0. PICK t \in BOOLEAN : t <=> v = NoVote /\ k \in saved.tokens
    OBVIOUS
  <2>1. PICK u \in Rec : u = Unknown
    BY DEF Unknown, Votes
  <2>2. PICK x \in Rec : x = [u EXCEPT !.known = TRUE]
    OBVIOUS
  <2>3. PICK y \in Rec : y = [x EXCEPT !.vote = v]
    OBVIOUS
  <2>6. PICK z \in Rec : z = [y EXCEPT !.token = t]
    OBVIOUS
  <2>7. z.known = TRUE /\ z.vote = v /\ z.token = t
    BY <2>2, <2>3, <2>6
  <2>4. t = (v = NoVote /\ k \in saved.tokens)
    BY <2>0
  <2>5. Rebuilt(k, v) = z
    BY <2>1, <2>2, <2>3, <2>4, <2>6 DEF Rebuilt
  <2> QED BY <2>0, <2>5, <2>7
<1>6. \A k \in Rounds :
        IF k \in TurnsOf(load.conv)
        THEN /\ matchups'[k].known /\ matchups'[k].vote = rounds[k].vote /\ ~matchups[k].known
             /\ matchups'[k].token <=> rounds[k].vote = NoVote /\ k \in saved.tokens
        ELSE matchups'[k] = matchups[k]
  BY <1>3, <1>4, <1>5
<1>7. MatchupsOK'
  BY <1>3, <1>4, <1>5 DEF PageTypeOK, MatchupsOK
<1>8. ResumeFrom(load.turns, load.conv) \in {load.conv, NoConv}
  BY DEF ResumeFrom
<1> QED BY <1>1, <1>2, <1>6, <1>7, <1>8 DEF Apart

LEMMA HydrateKeeps ==
  ASSUME PageInv, Hydrate PROVE PageInv'
<1> USE DEF told, bounds, PageInv
<1>1. PICK conv \in {load.conv, NoConv} :
        /\ thread' = [thread EXCEPT !.conv = conv, !.shown = DOMAIN load.turns]
        /\ saved' = [saved EXCEPT !.conv = IF host = "assistant-ui" THEN conv ELSE load.conv]
  BY Rebuilding DEF Hydrate
<1>2. load' = NoLoad /\ UNCHANGED <<rounds, host, told, prompt, ballots, cache, polls, bounds>>
  BY DEF Hydrate
<1>3. TurnsOf(load.conv) \subseteq DOMAIN rounds /\ load.conv \in 0..Len(rounds) /\ conv \in 0..Len(rounds)
  BY Rebuilding, RoundsAre DEF TurnsOf
<1>4. PageTypeOK'
  <2>1. ThreadOK'
    <3>1. thread' = [on |-> thread.on, conv |-> conv, shown |-> TurnsOf(load.conv)]
      BY <1>1, Rebuilding DEF PageTypeOK, ThreadOK
    <3>2. thread.on \in BOOLEAN /\ rounds' = rounds
      BY <1>2 DEF PageTypeOK, ThreadOK
    <3> QED BY <3>1, <3>2, <1>3 DEF ThreadOK
  <2>2. SavedOK'
    BY <1>1, <1>2, <1>3 DEF PageTypeOK, SavedOK
  <2>3. LoadOK'
    BY <1>2, RoundsAre DEF LoadOK, NoLoad
  <2> QED BY <1>2, <2>1, <2>2, <2>3, Rebuilding DEF PageTypeOK, RoundsOK, PromptOK, BallotsOK, RelayOK
<1>5. Served'
  BY <1>2 DEF Served
<1>6. Screen'
  <2>1. \A k \in Rounds : /\ matchups'[k].token \/ matchups'[k].vote # NoVote => matchups'[k].known
                          /\ matchups'[k].known => k \in DOMAIN rounds'
                          /\ matchups'[k].vote # NoVote => rounds'[k].vote = matchups'[k].vote
    BY <1>2, <1>3, Rebuilding DEF Screen
  <2>2. \A c \in DOMAIN ballots : InFlight(c) => ballots[c].round \in Rounds
    BY RoundsAre DEF PageTypeOK, BallotsOK, Screen
  <2>3. ASSUME NEW c \in DOMAIN ballots', InFlight(c)'
        PROVE  /\ ballots'[c].round # NoRound /\ matchups'[ballots'[c].round].known
               /\ ballots'[c].vote # NoVote
               /\ ballots'[c].at = "recorded" => rounds'[ballots'[c].round].vote = ballots'[c].vote
    BY <1>2, <2>2, <2>3, Rebuilding DEF Screen, InFlight
  <2>4. host' = "assistant-ui" => polls' = {} /\ cache' = NoRound
    BY <1>2 DEF Screen
  <2>5. host' = "assistant-ui" /\ prompt'.at = "announced" => ~matchups'[prompt'.round].known
    <3>1. prompt.at = "announced" => prompt.round \in Rounds /\ prompt.round \notin TurnsOf(load.conv)
      BY RoundsAre, Rebuilding DEF PageTypeOK, PromptOK, Apart, Foreign, TurnsOf
    <3> QED BY <3>1, <1>2, Rebuilding DEF Screen
  <2> QED BY <2>1, <2>3, <2>4, <2>5 DEF Screen
<1>7. Reading'
  BY <1>2 DEF Reading, NoLoad
<1>8. Storage'
  <2>1. saved'.tokens = saved.tokens /\ saved'.conv \in {conv, load.conv}
    BY <1>1 DEF PageTypeOK, SavedOK
  <2>2. \A w : TurnsOf(w)' = {i \in DOMAIN rounds : rounds[i].conv = w}
    BY <1>2 DEF TurnsOf
  <2>3. saved'.conv # NoConv => saved'.conv = load.conv
    BY <2>1
  <2>4. saved'.conv # NoConv => TurnsOf(saved.conv)' # {}
    BY <1>2, <2>3, Rebuilding DEF TurnsOf
  <2> QED BY <1>2, <2>1, <2>4 DEF Storage
<1>9. OpenRoundVotable'
  <2>1. thread'.shown = TurnsOf(load.conv)
    BY <1>1, Rebuilding DEF PageTypeOK, ThreadOK
  <2> QED BY <1>2, <2>1, Rebuilding DEF OpenRoundVotable, Storage
<1> QED BY <1>4, <1>5, <1>6, <1>7, <1>8, <1>9

LEMMA PageInit ==
  ASSUME Init PROVE PageInv
<1> USE DEF Init, PageInv
<1>1. rounds = <<>> /\ Len(rounds) = 0 /\ DOMAIN rounds = {} /\ rounds \in Seq(StoredRounds({Session}))
  OBVIOUS
<1>2. PageTypeOK
  <2>1. RoundsOK
    BY <1>1 DEF RoundsOK, NoPrompt
  <2>2. ThreadOK /\ SavedOK /\ LoadOK /\ RelayOK
    BY <1>1 DEF ThreadOK, NewThread, SavedOK, NothingSaved, LoadOK, NoLoad, RelayOK
  <2>3. MatchupsOK
    BY DEF MatchupsOK, Unknown, Votes
  <2>4. PromptOK
    BY <1>1 DEF PromptOK, NoPrompt
  <2>5. BallotsOK
    BY <1>1 DEF BallotsOK, NoBallot, Votes
  <2> QED BY <2>1, <2>2, <2>3, <2>4, <2>5 DEF PageTypeOK
<1>3. Served /\ Storage /\ OpenRoundVotable /\ Reading
  BY <1>1 DEF Served, Storage, NothingSaved, OpenRoundVotable, NewThread, Reading, NoLoad
<1>4. Screen
  BY DEF Screen, Unknown, InFlight, NoBallot, NoPrompt
<1> QED BY <1>2, <1>3, <1>4

LEMMA PageStep ==
  ASSUME PageInv, [Next]_vars PROVE PageInv'
<1>1. CASE Next
  BY <1>1, SetArenaEnabledKeeps, ResetKeeps, SendKeeps, AnsweredKeeps, AnswerLostKeeps,
     HeaderArrivesKeeps, CustomArrivesKeeps, CustomDroppedKeeps, RunFinishedKeeps, RunFailedKeeps,
     PollAnsweredKeeps, PollReturnsKeeps, CastKeeps, VoteAnsweredKeeps, VoteReplyLostKeeps,
     VoteReturnsKeeps, ReloadKeeps, LoadAnsweredKeeps, LoadFailsKeeps, HydrateKeeps, LoadGivesUpKeeps
     DEF Next
<1>2. CASE UNCHANGED vars
  <2> USE <1>2 DEF vars, hostVars, page, wire, bounds, told, PageInv
  <2>1. PageTypeOK'
    BY DEF PageTypeOK, RoundsOK, ThreadOK, MatchupsOK, SavedOK, PromptOK, BallotsOK, LoadOK, RelayOK
  <2>2. Served' /\ Storage' /\ OpenRoundVotable'
    BY DEF Served, Storage, TurnsOf, OpenRoundVotable
  <2>3. Screen'
    BY DEF Screen, InFlight
  <2>4. Reading'
    BY DEF Reading, Apart, Foreign, TurnsOf, Snapshot
  <2> QED BY <2>1, <2>2, <2>3, <2>4
<1> QED BY <1>1, <1>2

-----------------------------------------------------------------------------
(* Numbers                                                                 *)

LEMMA Least ==
  ASSUME NEW T, T \subseteq Nat, T # {} PROVE \E n \in T : \A m \in T : n =< m
<1> DEFINE R == OpToRel(<, Nat)
<1>1. \A x, y \in Nat : y < x => <<y, x>> \in R
  BY DEF OpToRel
<1>2. IsWellFoundedOn(R, Nat)
  BY NatLessThanWellFounded
<1> HIDE DEF R
<1>3. \E x \in T : \A y \in T : ~(<<y, x>> \in R)
  BY <1>2, WFMin
<1>4. \E x \in T : \A y \in T : ~(y < x)
  BY <1>1, <1>3
<1> QED BY <1>4

\* A bounded set of numbers has a greatest one: its least bound.
LEMMA Greatest ==
  ASSUME NEW n \in Nat, NEW T, T \subseteq 0..n, T # {} PROVE \E g \in T : \A m \in T : m =< g
<1> DEFINE B == {b \in Nat : \A m \in T : m =< b}
<1>1. B \subseteq Nat /\ n \in B
  OBVIOUS
<1>2. PICK b \in B : \A c \in B : b =< c
  BY <1>1, Least
<1>3. CASE b \in T
  BY <1>3
<1>4. CASE b \notin T
  <2>0. PICK t \in T : t =< b
    BY <1>2
  <2>1. b # 0
    BY <1>4, <2>0
  <2>2. b - 1 \in B
    BY <1>4, <2>1
  <2> QED BY <1>2, <2>2
<1> QED BY <1>3, <1>4

\* The elements of a bounded set can be counted through, from the least one up.
Upto(T, k) == {j \in T : j <= k}

LEMMA Ranks ==
  ASSUME NEW n \in Nat, NEW T, T \subseteq 0..n, NEW i \in 1..Cardinality(T)
  PROVE  \E k \in T : Cardinality(Upto(T, k)) = i
<1>0. IsFiniteSet(T) /\ Cardinality(T) \in Nat
  <2>1. IsFiniteSet(0..n)
    BY FS_Interval
  <2> QED BY <2>1, FS_Subset, FS_CardinalityType
<1>1. PICK upto : upto = [k \in T |-> {j \in T : j <= k}]
  OBVIOUS
<1>u. \A k \in T : upto[k] = Upto(T, k)
  BY <1>1 DEF Upto
<1>2. PICK count : count = [k \in T |-> Cardinality(upto[k])]
  OBVIOUS
<1>3. \A k \in T : IsFiniteSet(upto[k]) /\ count[k] = Cardinality(upto[k]) /\ count[k] \in Nat
  <2> TAKE k \in T
  <2>1. upto[k] \subseteq T
    BY <1>1
  <2> QED BY <1>0, <1>2, <2>1, FS_Subset, FS_CardinalityType
<1>4. T # {}
  BY <1>0, FS_EmptySet
<1>5. PICK g \in T : \A m \in T : m =< g
  BY <1>4, Greatest
<1>6. upto[g] = T
  BY <1>1, <1>5
<1> DEFINE S == {k \in T : count[k] >= i}
<1>n. T \subseteq Nat /\ i \in Nat
  BY <1>0
<1>7. g \in S /\ S \subseteq Nat
  <2>1. count[g] = Cardinality(T)
    BY <1>3, <1>6
  <2>2. count[g] >= i
    BY <1>0, <2>1
  <2> QED BY <1>n, <2>2
<1> HIDE DEF S
<1>8. PICK k \in S : \A m \in S : k =< m
  BY <1>7, Least
<1>k. k \in T /\ count[k] >= i
  BY DEF S
<1>9. CASE count[k] = i
  BY <1>3, <1>9, <1>k, <1>u
<1>10. CASE count[k] > i
  <2> DEFINE L == upto[k] \ {k}
  <2>1. k \in upto[k] /\ L \subseteq T
    BY <1>1, <1>n, <1>k
  <2>2. IsFiniteSet(L) /\ Cardinality(L) = count[k] - 1
    BY <1>3, <1>k, <2>1, FS_RemoveElement
  <2>3. L # {}
    BY <1>3, <1>10, <1>k, <1>n, <2>2, FS_EmptySet
  <2>4. PICK h \in L : \A m \in L : m =< h
    BY <2>1, <2>3, Greatest
  <2>5. h \in T /\ h < k
    BY <1>1, <1>n, <1>k, <2>4
  <2>6. upto[h] = L
    <3>1. upto[h] = {j \in T : j <= h} /\ upto[k] = {j \in T : j <= k}
      BY <1>1, <1>k, <2>5
    <3>2. \A j \in T : j <= h <=> j <= k /\ j # k
      BY <1>1, <1>n, <1>k, <2>4, <2>5
    <3> QED BY <3>1, <3>2
  <2>7. h \in S
    BY <1>3, <1>10, <1>k, <1>n, <2>2, <2>5, <2>6 DEF S
  <2> QED BY <1>8, <1>n, <1>k, <2>5, <2>7
<1> QED BY <1>3, <1>9, <1>10, <1>k, <1>n

-----------------------------------------------------------------------------
(* What the AG-UI hosts keep                                               *)

LEMMA ShownVotes ==
  ASSUME PageInv PROVE ShownVoteIsRecorded
BY DEF PageInv, Screen, ShownVoteIsRecorded

\* A verdict on screen is only touched by a reply that repeats it.
LEMMA VerdictKept ==
  ASSUME PageInv, Next, NEW m \in Rounds, matchups[m].vote # NoVote, reloads' = reloads
  PROVE  matchups'[m].vote = matchups[m].vote
<1> USE DEF PageInv
<1>0. matchups \in [Rounds -> [known : BOOLEAN, token : BOOLEAN, vote : Votes,
                              voting : BOOLEAN, streaming : BOOLEAN]]
  BY DEF PageTypeOK, MatchupsOK
<1>1. CASE HeaderArrives
  <2>1. prompt.round \in Rounds /\ prompt.round # m
    BY <1>1, RoundsAre DEF HeaderArrives, PageTypeOK, PromptOK, Screen
  <2> QED BY <1>0, <1>1, <2>1 DEF HeaderArrives, AssistantBegin, Begin
<1>2. CASE CustomArrives \/ PollReturns
  <2>1. PICK k, s : CopilotBegin(k, s)
    BY <1>2 DEF CustomArrives, PollReturns
  <2> QED BY <1>0, <2>1 DEF CopilotBegin, Begin
<1>3. CASE RunFinished \/ RunFailed
  BY <1>0, <1>3 DEF RunFinished, RunFailed, Unlocked
<1>4. ASSUME NEW k \in Rounds, NEW vote \in {"left", "tie"}, Cast(k, vote)
      PROVE  matchups'[m].vote = matchups[m].vote
  <2>1. matchups' = [matchups EXCEPT ![k].voting = TRUE]
    BY <1>4 DEF Cast
  <2> QED BY <1>0, <2>1
<1>5. ASSUME NEW b \in DOMAIN ballots, VoteReturns(b)
      PROVE  matchups'[m].vote = matchups[m].vote
  <2>1. CASE ballots[b].at = "recorded"
    <3>1. ballots[b].round = m => ballots[b].vote = matchups[m].vote
      BY <2>1 DEF Screen, InFlight
    <3>2. Verdict(ballots[b].round, ballots[b].vote)
      BY <1>5, <2>1 DEF VoteReturns, RecordVote
    <3>3. \A k : matchups'[m] = matchups[m] \/ ballots[b].round = m
      BY <1>0, <3>2 DEF Verdict
    <3>4. ballots[b].round = m => matchups'[m].vote = ballots[b].vote
      BY <1>0, <3>2 DEF Verdict
    <3> QED BY <3>1, <3>3, <3>4
  <2>2. CASE FailVote(ballots[b].round)
    BY <1>0, <2>2 DEF FailVote
  <2> QED BY <1>5, <2>1, <2>2 DEF VoteReturns
<1>6. CASE Hydrate
  <2>1. matchups[m].known
    BY DEF Screen
  <2> QED BY <1>6, <2>1, Rebuilding
<1>7. CASE Reload
  BY <1>7 DEF Reload, PageTypeOK, RoundsOK
<1>8. CASE \/ \E on \in BOOLEAN : SetArenaEnabled(on)
           \/ Reset \/ Send \/ Answered \/ AnswerLost \/ CustomDropped \/ PollAnswered
           \/ \E b \in DOMAIN ballots : VoteAnswered(b) \/ VoteReplyLost(b)
           \/ LoadAnswered \/ LoadFails \/ LoadGivesUp
  BY <1>8 DEF SetArenaEnabled, Reset, Send, Answered, AnswerLost, CustomDropped, PollAnswered,
     VoteAnswered, VoteReplyLost, LoadAnswered, LoadFails, LoadGivesUp, page
<1> QED BY <1>1, <1>2, <1>3, <1>4, <1>5, <1>6, <1>7, <1>8 DEF Next

\* The last turn the reply had is the last one the server has.
LEMMA RebuiltContinues ==
  ASSUME PageInv, Next, load.at = "answered", load'.at # "answered", reloads' = reloads
  PROVE  ~Refuses(Session, thread'.conv)
<1> USE DEF PageInv
<1>1. Hydrate
  <2>1. ~Reload
    BY DEF Reload, PageTypeOK, RoundsOK
  <2>2. load' # load
    OBVIOUS
  <2>3. ~LoadAnswered /\ ~LoadFails /\ ~LoadGivesUp
    BY DEF LoadAnswered, LoadFails, LoadGivesUp
  <2>4. /\ \A on \in BOOLEAN : ~SetArenaEnabled(on)
        /\ ~Reset /\ ~Send /\ ~Answered /\ ~AnswerLost /\ ~RunFinished /\ ~RunFailed
    BY <2>2 DEF SetArenaEnabled, Reset, Send, Answered, AnswerLost, RunFinished, RunFailed, wire
  <2>5. ~HeaderArrives /\ ~CustomArrives /\ ~CustomDropped /\ ~PollAnswered /\ ~PollReturns
    BY <2>2 DEF HeaderArrives, CustomArrives, CustomDropped, PollAnswered, PollReturns
  <2>6. \A m, vote : ~Cast(m, vote)
    BY <2>2 DEF Cast
  <2>7. \A b : ~VoteAnswered(b) /\ ~VoteReplyLost(b) /\ ~VoteReturns(b)
    BY <2>2 DEF VoteAnswered, VoteReplyLost, VoteReturns
  <2> QED BY <2>1, <2>3, <2>4, <2>5, <2>6, <2>7 DEF Next
<1>2. thread'.conv = ResumeFrom(load.turns, load.conv)
  BY <1>1 DEF Hydrate, PageTypeOK, ThreadOK
<1>3. /\ DOMAIN load.turns = TurnsOf(load.conv) /\ TurnsOf(load.conv) # {}
      /\ TurnsOf(load.conv) \subseteq 0..Len(rounds)
      /\ load.turns = Snapshot(load.conv) /\ load.conv # NoConv
  BY <1>1, Rebuilding, RoundsAre DEF TurnsOf, Apart
<1>4. \E g \in TurnsOf(load.conv) : \A k \in TurnsOf(load.conv) : k =< g
  BY <1>3, Greatest, RoundsAre
<1>5. Latest(load.conv) \in TurnsOf(load.conv)
  BY <1>4 DEF Latest
<1>6. load.turns[Latest(load.conv)] = rounds[Latest(load.conv)].vote
  BY <1>3, <1>5 DEF Snapshot
<1>7. ResumeFrom(load.turns, load.conv)
        = IF IsContinuable(rounds[Latest(load.conv)].vote) THEN load.conv ELSE NoConv
  BY <1>3, <1>6 DEF ResumeFrom, Latest
<1>8. OwnedBy(load.conv, Session)
  BY DEF OwnedBy, TurnsOf, Served
<1> QED BY <1>2, <1>3, <1>7, <1>8 DEF Refuses

-----------------------------------------------------------------------------
(* The Vercel host                                                         *)

States == {"idle", "pending", "recorded", "error"}

ServedOK ==
  /\ rounds \in Seq(StoredRounds({V!User})) /\ Len(rounds) =< prompts
  /\ prompt.at = "sent" => Len(rounds) < prompts
  /\ prompts \in 0..MaxPrompts
ChatOK ==
  /\ enabled \in BOOLEAN /\ continuation \in Nat
  /\ voteStates \in [Rounds -> [status : States, vote : Votes]]
RunOK == prompt \in [at : {"idle", "sent", "answered", "streaming", "failed"}, on : BOOLEAN,
                     conv : Nat, round : 0..Len(rounds)]
ShownOK == shown \in Seq([round : DOMAIN rounds, reveal : Votes])
StoredOK == stored \in [Rounds -> Votes \cup {V!NotStored}]
VotesOK == ballots \in [Rounds -> [at : {"none", "sent", "accepted", "recorded", "rejected"}, vote : Votes]]
LookupsOK == lookups \subseteq [round : DOMAIN rounds, vote : Votes \cup {"asked"}]

ChatTypeOK == ServedOK /\ ChatOK /\ RunOK /\ ShownOK /\ StoredOK /\ VotesOK /\ LookupsOK

\* A verdict the host has in any form is the arena's.
True(m, vote) == m \in DOMAIN rounds /\ rounds[m].vote = vote

Copies ==
  /\ \A m \in Rounds : stored[m] # V!NotStored =>
       m \in DOMAIN rounds /\ (stored[m] # NoVote => True(m, stored[m]))
  /\ \A i \in DOMAIN shown : shown[i].reveal # NoVote => True(shown[i].round, shown[i].reveal)
  /\ \A m \in Rounds : voteStates[m].status = "recorded" =>
       voteStates[m].vote # NoVote /\ True(m, voteStates[m].vote)
  /\ \A m \in Rounds : ballots[m].at # "none" =>
       /\ ballots[m].vote # NoVote /\ m \in DOMAIN rounds
       /\ ballots[m].at \in {"accepted", "recorded"} => True(m, ballots[m].vote)
  /\ \A l \in lookups : l.vote \notin {"asked", NoVote} => True(l.round, l.vote)

ChatInv == ChatTypeOK /\ Copies

USE DEF V!NoConv, V!NoRound, V!NoVote, V!Rounds

LEMMA ChatRoundsAre ==
  ASSUME ChatTypeOK
  PROVE  /\ DOMAIN rounds = 1..Len(rounds) /\ Len(rounds) \in 0..MaxPrompts
         /\ DOMAIN rounds \subseteq Rounds
         /\ \A i \in DOMAIN rounds : /\ rounds[i] \in StoredRounds({V!User}) /\ rounds[i].vote \in Votes
                                     /\ rounds[i].conv \in Nat
<1>1. rounds \in Seq(StoredRounds({V!User})) /\ Len(rounds) =< prompts /\ prompts \in 0..MaxPrompts
  BY DEF ChatTypeOK, ServedOK
<1>2. DOMAIN rounds = 1..Len(rounds) /\ Len(rounds) \in 0..MaxPrompts
  BY <1>1
<1>3. \A i \in DOMAIN rounds : rounds[i] \in StoredRounds({V!User})
  BY <1>1
<1>4. \A s \in StoredRounds({V!User}) : s.vote \in Votes /\ s.conv \in Nat
  BY DEF StoredRounds, Votes
<1>5. DOMAIN rounds \subseteq Rounds
  BY <1>2
<1>6. \A i \in DOMAIN rounds : rounds[i].vote \in Votes /\ rounds[i].conv \in Nat
  BY <1>3, <1>4
<1> QED BY <1>2, <1>3, <1>5, <1>6

\* Rounds are only added, and votes only given: what is true stays so.
Growth ==
  /\ DOMAIN rounds \subseteq DOMAIN rounds' /\ Len(rounds) =< Len(rounds')
  /\ \A i \in DOMAIN rounds : rounds[i].vote # NoVote => rounds'[i].vote = rounds[i].vote

LEMMA TrueStays ==
  ASSUME Growth, NEW m, NEW v, True(m, v), v # NoVote
  PROVE  m \in DOMAIN rounds' /\ rounds'[m].vote = v
BY DEF Growth, True

LEMMA ChatInit ==
  ASSUME V!Init PROVE ChatInv
<1> USE DEF V!Init
<1>1. rounds = <<>> /\ Len(rounds) = 0 /\ DOMAIN rounds = {} /\ rounds \in Seq(StoredRounds({V!User}))
  OBVIOUS
<1>2. ServedOK /\ RunOK
  BY <1>1 DEF ServedOK, RunOK, V!NoPrompt
<1>3. ChatOK /\ VotesOK /\ StoredOK
  BY DEF ChatOK, VotesOK, StoredOK, V!Idle, States, Votes
<1>4. shown = <<>> /\ DOMAIN shown = {} /\ ShownOK /\ LookupsOK
  BY DEF ShownOK, LookupsOK
<1>5. Copies
  BY <1>4 DEF Copies, V!Idle
<1> QED BY <1>2, <1>3, <1>4, <1>5 DEF ChatInv, ChatTypeOK

LEMMA ChatAnsweredKeeps ==
  ASSUME ChatInv, V!Answered PROVE ChatInv'
<1> USE DEF ChatInv
<1>0. PICK n \in Nat : n = Len(rounds)
  <2>1. rounds \in Seq(StoredRounds({V!User}))
    BY DEF ChatTypeOK, ServedOK
  <2> QED BY <2>1
<1>1. UNCHANGED <<enabled, continuation, voteStates, shown, stored, ballots, lookups, prompts>>
  BY DEF V!Answered, V!page, V!bounds
<1>2. CASE /\ rounds' = V!Opened(V!User, prompt.conv)
           /\ prompt' = [prompt EXCEPT !.at = "answered", !.round = Len(rounds) + 1]
  <2> DEFINE c == IF prompt.conv = NoConv THEN n + 1 ELSE prompt.conv
             r == [conv |-> c, session |-> V!User, vote |-> NoVote]
  <2>1. /\ n < prompts /\ prompts \in 0..MaxPrompts /\ c \in Nat
        /\ rounds \in Seq(StoredRounds({V!User})) /\ rounds' = Append(rounds, r)
    BY <1>0, <1>2 DEF V!Answered, V!Opened, ChatTypeOK, ServedOK, RunOK
  <2>2. r \in StoredRounds({V!User})
    BY <2>1 DEF StoredRounds
  <2> HIDE DEF r, c
  <2>3. /\ rounds' \in Seq(StoredRounds({V!User})) /\ Len(rounds') = n + 1
        /\ \A i \in 1..n : rounds'[i] = rounds[i]
    BY <1>0, <2>1, <2>2, AppendProperties
  <2>4. /\ DOMAIN rounds = 1..n /\ DOMAIN rounds' = 1..(n + 1)
        /\ DOMAIN rounds \subseteq DOMAIN rounds' /\ 0..n \subseteq 0..(n + 1)
    BY <1>0, <2>1, <2>3
  <2>5. prompt'.at = "answered" /\ RunOK'
    <3> DEFINE Runs(k) == [at : {"idle", "sent", "answered", "streaming", "failed"}, on : BOOLEAN,
                           conv : Nat, round : 0..k]
    <3>1. prompt \in Runs(n)
      BY <1>0 DEF ChatTypeOK, RunOK
    <3>2. PICK x \in Runs(n) : x = [prompt EXCEPT !.at = "answered"]
      BY <3>1
    <3>3. prompt' = [x EXCEPT !.round = n + 1]
      BY <1>0, <1>2, <3>2
    <3>4. n + 1 \in 0..(n + 1)
      OBVIOUS
    <3>5. prompt' \in Runs(n + 1) /\ prompt'.at = "answered"
      BY <3>1, <3>2, <3>3, <3>4, <2>4
    <3> QED BY <2>3, <3>5 DEF RunOK
  <2>6. ServedOK'
    BY <1>1, <2>1, <2>3, <2>5 DEF ServedOK
  <2>7. ChatOK' /\ StoredOK' /\ VotesOK'
    BY <1>1 DEF ChatTypeOK, ChatOK, StoredOK, VotesOK
  <2>8. ShownOK'
    <3>1. [round : DOMAIN rounds, reveal : Votes] \subseteq [round : DOMAIN rounds', reveal : Votes]
      BY <2>4
    <3>2. shown \in Seq([round : DOMAIN rounds, reveal : Votes])
      BY DEF ChatTypeOK, ShownOK
    <3>3. shown \in Seq([round : DOMAIN rounds', reveal : Votes])
      BY <3>1, <3>2, SeqMonotonic
    <3> QED BY <1>1, <3>3 DEF ShownOK
  <2>9. LookupsOK'
    BY <1>1, <2>4 DEF ChatTypeOK, LookupsOK
  <2>10. Growth
    BY <1>0, <2>1, <2>3, <2>4 DEF Growth
  <2>11. Copies'
    BY <1>1, <2>3, <2>4 DEF Copies, True
  <2> QED BY <2>5, <2>6, <2>7, <2>8, <2>9, <2>11 DEF ChatTypeOK
<1>3. CASE rounds' = rounds /\ \E at \in {"failed", "answered"} : prompt' = [prompt EXCEPT !.at = at]
  <2>1. PICK at \in {"failed", "answered"} : prompt' = [prompt EXCEPT !.at = at]
    BY <1>3
  <2>2. RunOK' /\ prompt'.at = at
    BY <1>3, <2>1 DEF ChatTypeOK, RunOK
  <2> QED BY <1>1, <1>3, <2>2 DEF ChatTypeOK, ServedOK, ChatOK, ShownOK, StoredOK, VotesOK, LookupsOK, Copies, True
<1> QED BY <1>2, <1>3 DEF V!Answered

LEMMA ChatVoteAnsweredKeeps ==
  ASSUME ChatInv, NEW m \in Rounds, V!VoteAnswered(m) PROVE ChatInv'
<1> USE DEF ChatInv, V!page, V!bounds
<1>1. UNCHANGED <<enabled, continuation, voteStates, shown, stored, prompt, lookups, prompts>>
  BY DEF V!VoteAnswered
<1>2. m \in DOMAIN rounds /\ ballots[m].vote # NoVote /\ ballots[m].vote \in Votes
  BY DEF V!VoteAnswered, Copies, ChatTypeOK, VotesOK
<1>3. PICK at \in {"accepted", "rejected"} :
        /\ ballots' = [ballots EXCEPT ![m].at = at]
        /\ \/ at = "accepted" /\ rounds[m].vote = NoVote /\ rounds' = [rounds EXCEPT ![m].vote = ballots[m].vote]
           \/ at = "rejected" /\ rounds' = rounds
  BY <1>2 DEF V!VoteAnswered, V!VoteAccepted, V!Voted
<1>4. rounds \in Seq(StoredRounds({V!User})) /\ \A i \in DOMAIN rounds : rounds[i] \in StoredRounds({V!User})
  BY ChatRoundsAre DEF ChatTypeOK, ServedOK
<1>5. /\ rounds' \in Seq(StoredRounds({V!User})) /\ Len(rounds') = Len(rounds)
      /\ DOMAIN rounds' = DOMAIN rounds
      /\ \A i \in DOMAIN rounds : rounds[i].vote # NoVote => rounds'[i].vote = rounds[i].vote
      /\ at = "accepted" => rounds'[m].vote = ballots[m].vote
  <2>1. CASE at = "rejected" /\ rounds' = rounds
    BY <1>4, <2>1
  <2>2. CASE /\ at = "accepted" /\ rounds[m].vote = NoVote
             /\ rounds' = [rounds EXCEPT ![m].vote = ballots[m].vote]
    <3>1. PICK r \in StoredRounds({V!User}) : r = [rounds[m] EXCEPT !.vote = ballots[m].vote]
      BY <1>2, <1>4 DEF StoredRounds, Votes
    <3>3. r.vote = ballots[m].vote
      BY <1>2, <1>4, <3>1 DEF StoredRounds
    <3>2. rounds' = [rounds EXCEPT ![m] = r]
      BY <2>2, <3>1
    <3>4. rounds' \in Seq(StoredRounds({V!User})) /\ Len(rounds') = Len(rounds) /\ DOMAIN rounds' = DOMAIN rounds
      BY <1>2, <1>4, <3>2
    <3>5. rounds'[m] = r /\ \A i \in DOMAIN rounds \ {m} : rounds'[i] = rounds[i]
      BY <1>2, <3>2
    <3> QED BY <2>2, <3>3, <3>4, <3>5
  <2> QED BY <1>3, <2>1, <2>2
<1>6. /\ VotesOK' /\ ballots'[m].at = at /\ ballots'[m].vote = ballots[m].vote
      /\ \A k \in Rounds \ {m} : ballots'[k] = ballots[k]
  BY <1>3 DEF ChatTypeOK, VotesOK
<1>7. ChatTypeOK'
  BY <1>1, <1>5, <1>6 DEF ChatTypeOK, ServedOK, ChatOK, RunOK, ShownOK, StoredOK, LookupsOK
<1>8. \A k \in Rounds : ballots'[k].at # "none" =>
        /\ ballots'[k].vote # NoVote /\ k \in DOMAIN rounds'
        /\ ballots'[k].at \in {"accepted", "recorded"} =>
             rounds'[k].vote = ballots'[k].vote
  <2> TAKE k \in Rounds
  <2>1. CASE k = m
    BY <2>1, <1>2, <1>5, <1>6
  <2>2. CASE k # m
    BY <2>2, <1>5, <1>6 DEF Copies, True
  <2> QED BY <2>1, <2>2
<1>9. \A l \in lookups' : l.vote \notin {"asked", NoVote} => True(l.round, l.vote)'
  BY <1>1, <1>5 DEF Copies, True
<1>10. Copies'
  <2>1. \A k, v : v # NoVote /\ True(k, v) => k \in DOMAIN rounds' /\ rounds'[k].vote = v
    BY <1>5 DEF True
  <2>2. \A k \in Rounds : stored'[k] # V!NotStored =>
          k \in DOMAIN rounds' /\ (stored'[k] # NoVote => rounds'[k].vote = stored'[k])
    BY <1>1, <1>5, <2>1 DEF Copies
  <2>3. \A i \in DOMAIN shown' : shown'[i].reveal # NoVote =>
          shown'[i].round \in DOMAIN rounds' /\ rounds'[shown'[i].round].vote = shown'[i].reveal
    BY <1>1, <2>1 DEF Copies
  <2>4. \A k \in Rounds : voteStates'[k].status = "recorded" =>
          /\ voteStates'[k].vote # NoVote
          /\ k \in DOMAIN rounds' /\ rounds'[k].vote = voteStates'[k].vote
    BY <1>1, <2>1 DEF Copies
  <2> QED BY <1>8, <1>9, <2>2, <2>3, <2>4 DEF Copies, True
<1> QED BY <1>7, <1>10

\* The actions that leave the arena's rounds alone.
LEMMA ChatSendKeeps ==
  ASSUME ChatInv, V!Send PROVE ChatInv'
<1> USE DEF ChatInv, V!Send, V!page
<1>1. RunOK'
  <2>1. PICK x \in [at : {"idle", "sent", "answered", "streaming", "failed"}, on : BOOLEAN,
                    conv : Nat, round : 0..Len(rounds)] : x = [V!NoPrompt EXCEPT !.at = "sent"]
    <3>1. V!NoPrompt \in [at : {"idle", "sent", "answered", "streaming", "failed"}, on : BOOLEAN,
                          conv : Nat, round : 0..Len(rounds)]
      BY ChatRoundsAre DEF V!NoPrompt
    <3> QED BY <3>1
  <2>2. PICK y \in [at : {"idle", "sent", "answered", "streaming", "failed"}, on : BOOLEAN,
                    conv : Nat, round : 0..Len(rounds)] : y = [x EXCEPT !.on = enabled]
    BY DEF ChatTypeOK, ChatOK
  <2>3. prompt' = [y EXCEPT !.conv = continuation]
    BY <2>1, <2>2
  <2> QED BY <2>3 DEF RunOK, ChatTypeOK, ChatOK
<1>2. ServedOK'
  BY DEF ChatTypeOK, ServedOK
<1> QED BY <1>1, <1>2 DEF ChatTypeOK, ChatOK, ShownOK, StoredOK, VotesOK, LookupsOK, Copies, True

LEMMA ChatSetEnabledKeeps ==
  ASSUME ChatInv, NEW on \in BOOLEAN, V!SetEnabled(on) PROVE ChatInv'
BY DEF ChatInv, V!SetEnabled, V!bounds, ChatTypeOK, ServedOK, ChatOK, RunOK, ShownOK, StoredOK,
   VotesOK, LookupsOK, Copies, True

LEMMA ChatMetaArrivesKeeps ==
  ASSUME ChatInv, V!MetaArrives PROVE ChatInv'
<1> USE DEF ChatInv, V!MetaArrives, V!bounds
<1>1. RunOK' /\ prompt'.at = "streaming"
  BY DEF ChatTypeOK, RunOK
<1>2. ServedOK' /\ ChatOK'
  BY <1>1 DEF ChatTypeOK, ServedOK, ChatOK
<1> DEFINE g == [round |-> prompt.round, reveal |-> NoVote]
<1>3. /\ ShownOK'
      /\ \A i \in DOMAIN shown' : (i \in DOMAIN shown /\ shown'[i] = shown[i]) \/ shown'[i] = g
  <2>1. CASE prompt.round = NoRound
    BY <2>1 DEF ChatTypeOK, ShownOK
  <2>2. CASE prompt.round # NoRound
    <3>1. g \in [round : DOMAIN rounds, reveal : Votes]
      BY <2>2, ChatRoundsAre DEF ChatTypeOK, RunOK, Votes
    <3>2. shown' = Append(shown, g) /\ shown \in Seq([round : DOMAIN rounds, reveal : Votes])
      BY <2>2 DEF ChatTypeOK, ShownOK
    <3> HIDE DEF g
    <3>3. /\ shown' \in Seq([round : DOMAIN rounds, reveal : Votes])
          /\ \A i \in DOMAIN shown' : (i \in DOMAIN shown /\ shown'[i] = shown[i]) \/ shown'[i] = g
      <4>1. /\ shown' \in Seq([round : DOMAIN rounds, reveal : Votes])
            /\ Len(shown') = Len(shown) + 1 /\ Len(shown) \in Nat
            /\ \A i \in 1..Len(shown) : shown'[i] = shown[i]
            /\ shown'[Len(shown) + 1] = g
        <5> DEFINE G == [round : DOMAIN rounds, reveal : Votes]
        <5> HIDE DEF G
        <5>1. shown \in Seq(G) /\ g \in G /\ shown' = Append(shown, g)
          BY <3>1, <3>2 DEF G
        <5>2. shown' \in Seq(G) /\ Len(shown') = Len(shown) + 1 /\ Len(shown) \in Nat
          BY <5>1, AppendProperties, LenProperties
        <5>3. (\A i \in 1..Len(shown) : shown'[i] = shown[i]) /\ shown'[Len(shown) + 1] = g
          BY <5>1, AppendProperties, LenProperties
        <5> QED BY <5>2, <5>3 DEF G
      <4>2. DOMAIN shown = 1..Len(shown) /\ DOMAIN shown' = 1..(Len(shown) + 1)
        BY <3>2, <4>1
      <4> QED BY <4>1, <4>2
    <3> QED BY <3>3 DEF ShownOK
  <2> QED BY <2>1, <2>2
<1>4. ChatTypeOK'
  BY <1>1, <1>2, <1>3 DEF ChatTypeOK, StoredOK, VotesOK, LookupsOK
<1>5. g.reveal = NoVote
  OBVIOUS
<1> HIDE DEF g
<1>6. Copies'
  <2>1. \A i \in DOMAIN shown' : shown'[i].reveal # NoVote => True(shown[i].round, shown[i].reveal)'
    BY <1>3, <1>5 DEF Copies, True
  <2> QED BY <2>1 DEF Copies, True
<1> QED BY <1>4, <1>6

LEMMA ChatRunFinishedKeeps ==
  ASSUME ChatInv, V!RunFinished PROVE ChatInv'
<1> USE DEF ChatInv, V!RunFinished, V!page
<1>1. RunOK' /\ prompt'.at = "idle"
  BY ChatRoundsAre DEF ChatTypeOK, RunOK, V!NoPrompt
<1>2. /\ StoredOK'
      /\ \A k \in Rounds : stored'[k] = stored[k] \/ (k \in DOMAIN rounds /\ stored'[k] = NoVote)
  <2>1. CASE stored' = stored
    BY <2>1 DEF ChatTypeOK, StoredOK
  <2>2. CASE prompt.round # NoRound /\ stored' = [stored EXCEPT ![prompt.round] = NoVote]
    <3>1. prompt.round \in DOMAIN rounds /\ prompt.round \in Rounds
      BY <2>2, ChatRoundsAre DEF ChatTypeOK, RunOK
    <3> QED BY <2>2, <3>1 DEF ChatTypeOK, StoredOK, Votes
  <2> QED BY <2>1, <2>2
<1>3. ChatTypeOK'
  BY <1>1, <1>2 DEF ChatTypeOK, ServedOK, ChatOK, ShownOK, VotesOK, LookupsOK
<1>4. Copies'
  BY <1>2 DEF Copies, True
<1> QED BY <1>3, <1>4

LEMMA ChatRunFailedKeeps ==
  ASSUME ChatInv, V!RunFailed PROVE ChatInv'
<1> USE DEF ChatInv, V!RunFailed, V!page, V!bounds
<1>1. RunOK' /\ prompt'.at = "idle"
  BY ChatRoundsAre DEF ChatTypeOK, RunOK, V!NoPrompt
<1> QED BY <1>1 DEF ChatTypeOK, ServedOK, ChatOK, ShownOK, StoredOK, VotesOK, LookupsOK, Copies, True

LEMMA ShownAre ==
  ASSUME ChatTypeOK, NEW i \in DOMAIN shown
  PROVE  shown[i].round \in DOMAIN rounds /\ shown[i].reveal \in Votes
<1> DEFINE G == [round : DOMAIN rounds, reveal : Votes]
<1>1. \A x \in G : x.round \in DOMAIN rounds /\ x.reveal \in Votes
  OBVIOUS
<1>2. shown \in Seq(G)
  BY DEF ChatTypeOK, ShownOK
<1> HIDE DEF G
<1>3. i \in 1..Len(shown)
  BY <1>2, LenProperties
<1>4. shown[i] \in G
  BY <1>2, <1>3, ElementOfSeq
<1> QED BY <1>1, <1>4

LEMMA ChatCastKeeps ==
  ASSUME ChatInv, NEW m \in Rounds, NEW vote \in {"left", "tie"}, V!Cast(m, vote) PROVE ChatInv'
<1> USE DEF ChatInv, V!Cast, V!bounds
<1>1. m \in DOMAIN rounds /\ vote \in Votes /\ vote # NoVote
  <2>1. PICK i \in DOMAIN shown : m = shown[i].round
    BY DEF V!OnScreen
  <2> QED BY <2>1, ShownAre DEF Votes, Ballots, Decisive
<1>2. /\ ChatOK'
      /\ \A k \in Rounds \ {m} : voteStates'[k] = voteStates[k]
      /\ voteStates'[m].status = "pending"
  BY <1>1 DEF ChatTypeOK, ChatOK, States
<1>3. /\ VotesOK'
      /\ \A k \in Rounds \ {m} : ballots'[k] = ballots[k]
      /\ ballots'[m].at = "sent" /\ ballots'[m].vote = vote
  BY <1>1 DEF ChatTypeOK, VotesOK
<1>4. ChatTypeOK'
  BY <1>2, <1>3 DEF ChatTypeOK, ServedOK, RunOK, ShownOK, StoredOK, LookupsOK
<1>5. \A k \in Rounds : voteStates'[k].status = "recorded" =>
        voteStates'[k].vote # NoVote /\ True(k, voteStates[k].vote)'
  BY <1>2 DEF Copies, True
<1>6. \A k \in Rounds : ballots'[k].at # "none" =>
        /\ ballots'[k].vote # NoVote /\ k \in DOMAIN rounds'
        /\ ballots'[k].at \in {"accepted", "recorded"} => True(k, ballots[k].vote)'
  BY <1>1, <1>3 DEF Copies, True
<1>7. Copies'
  BY <1>5, <1>6 DEF Copies, True
<1> QED BY <1>4, <1>7

\* A step of one round's vote that leaves the rounds and the screen alone.
LEMMA ChatBallotKeeps ==
  ASSUME ChatInv, NEW m \in Rounds, NEW at \in {"recorded", "rejected"},
         ballots[m].at \in {"accepted", "recorded"}, ballots' = [ballots EXCEPT ![m].at = at],
         \/ stored' = stored
         \/ stored[m] # V!NotStored /\ stored' = [stored EXCEPT ![m] = ballots[m].vote],
         UNCHANGED <<rounds, enabled, continuation, voteStates, shown, prompt, lookups, prompts>>
  PROVE  ChatInv'
<1> USE DEF ChatInv
<1>1. m \in DOMAIN rounds /\ ballots[m].vote \in Votes \ {NoVote} /\ True(m, ballots[m].vote)
  BY DEF ChatTypeOK, VotesOK, Copies
<1>2. /\ VotesOK'
      /\ \A k \in Rounds \ {m} : ballots'[k] = ballots[k]
      /\ ballots'[m].at = at /\ ballots'[m].vote = ballots[m].vote
  BY DEF ChatTypeOK, VotesOK
<1>3. /\ StoredOK'
      /\ \A k \in Rounds : \/ stored'[k] = stored[k]
                           \/ k = m /\ stored'[k] = ballots[m].vote
  <2>1. CASE stored' = stored
    BY <2>1 DEF ChatTypeOK, StoredOK
  <2>2. CASE stored' = [stored EXCEPT ![m] = ballots[m].vote]
    BY <1>1, <2>2 DEF ChatTypeOK, StoredOK
  <2> QED BY <2>1, <2>2
<1>4. ChatTypeOK'
  BY <1>2, <1>3 DEF ChatTypeOK, ServedOK, ChatOK, RunOK, ShownOK, LookupsOK
<1>5. \A k \in Rounds : stored'[k] # V!NotStored =>
        k \in DOMAIN rounds' /\ (stored'[k] # NoVote => True(k, stored[k])')
  BY <1>1, <1>3 DEF Copies, True
<1>6. \A k \in Rounds : ballots'[k].at # "none" =>
        /\ ballots'[k].vote # NoVote /\ k \in DOMAIN rounds'
        /\ ballots'[k].at \in {"accepted", "recorded"} => True(k, ballots[k].vote)'
  BY <1>1, <1>2 DEF Copies, True
<1>7. Copies'
  BY <1>5, <1>6 DEF Copies, True
<1> QED BY <1>4, <1>7

LEMMA ChatRevealStoredKeeps ==
  ASSUME ChatInv, NEW m \in Rounds, V!RevealStored(m) PROVE ChatInv'
BY ChatBallotKeeps DEF V!RevealStored, V!page, V!bounds

LEMMA ChatVoteCutOffKeeps ==
  ASSUME ChatInv, NEW m \in Rounds, V!VoteCutOff(m) PROVE ChatInv'
BY ChatBallotKeeps DEF V!VoteCutOff, V!page

\* What the page learns of a round's verdict, and the continuation with it.
Learns(m, vote) ==
  /\ \/ voteStates' = voteStates
     \/ voteStates' = [voteStates EXCEPT ![m] = [status |-> "recorded", vote |-> vote]]
     \/ voteStates' = [voteStates EXCEPT ![m].status = "error"]
  /\ continuation' = continuation \/ continuation' = rounds[m].conv

LEMMA LearnsTrue ==
  ASSUME ChatInv, NEW m \in Rounds, NEW vote, Learns(m, vote), vote # NoVote, vote \in Votes,
         m \in DOMAIN rounds, True(m, vote) \/ UNCHANGED voteStates \/ voteStates'[m].status = "error",
         UNCHANGED <<rounds, enabled>>
  PROVE  /\ ChatOK'
         /\ \A k \in Rounds : voteStates'[k].status = "recorded" =>
              voteStates'[k].vote # NoVote /\ True(k, voteStates[k].vote)'
<1> USE DEF ChatInv
<1>1. continuation' \in Nat /\ enabled' \in BOOLEAN
  BY ChatRoundsAre DEF Learns, ChatTypeOK, ChatOK
<1>2. CASE voteStates' = voteStates
  BY <1>1, <1>2 DEF ChatTypeOK, ChatOK, Copies, True
<1>3. CASE /\ voteStates' = [voteStates EXCEPT ![m] = [status |-> "recorded", vote |-> vote]]
           /\ True(m, vote)
  <2>1. ChatOK'
    BY <1>1, <1>3 DEF ChatTypeOK, ChatOK, States
  <2>2. voteStates'[m].vote = vote /\ \A k \in Rounds \ {m} : voteStates'[k] = voteStates[k]
    BY <1>3 DEF ChatTypeOK, ChatOK
  <2> QED BY <1>3, <2>1, <2>2 DEF Copies, True
<1>4. CASE voteStates' = [voteStates EXCEPT ![m].status = "error"]
  <2>1. ChatOK'
    BY <1>1, <1>4 DEF ChatTypeOK, ChatOK, States
  <2>2. voteStates'[m].status = "error" /\ \A k \in Rounds \ {m} : voteStates'[k] = voteStates[k]
    BY <1>4 DEF ChatTypeOK, ChatOK
  <2> QED BY <2>1, <2>2 DEF Copies, True
<1>5. voteStates' = [voteStates EXCEPT ![m] = [status |-> "recorded", vote |-> vote]] =>
        voteStates'[m].status = "recorded"
  BY DEF ChatTypeOK, ChatOK
<1> QED BY <1>2, <1>3, <1>4, <1>5 DEF Learns

LEMMA ChatVoteReturnsKeeps ==
  ASSUME ChatInv, NEW m \in Rounds, V!VoteReturns(m) PROVE ChatInv'
<1> USE DEF ChatInv, V!bounds
<1>1. /\ ballots[m].at \in {"recorded", "rejected"} /\ ballots' = [ballots EXCEPT ![m].at = "none"]
      /\ UNCHANGED <<rounds, enabled, shown, stored, prompt, lookups, prompts>>
  BY DEF V!VoteReturns
<1>2. /\ m \in DOMAIN rounds /\ ballots[m].vote # NoVote /\ ballots[m].vote \in Votes
      /\ ballots[m].at = "recorded" => True(m, ballots[m].vote)
  BY <1>1 DEF ChatTypeOK, VotesOK, Copies
<1>3. Learns(m, ballots[m].vote)
  BY DEF V!VoteReturns, Learns
<1>4. True(m, ballots[m].vote) \/ UNCHANGED voteStates \/ voteStates'[m].status = "error"
  BY <1>2 DEF V!VoteReturns, ChatTypeOK, ChatOK
<1>5. /\ ChatOK'
      /\ \A k \in Rounds : voteStates'[k].status = "recorded" =>
           voteStates'[k].vote # NoVote /\ True(k, voteStates[k].vote)'
  BY <1>1, <1>2, <1>3, <1>4, LearnsTrue
<1>6. /\ VotesOK' /\ ballots'[m].at = "none"
      /\ \A k \in Rounds \ {m} : ballots'[k] = ballots[k]
  BY <1>1 DEF ChatTypeOK, VotesOK
<1>7. ChatTypeOK'
  BY <1>1, <1>5, <1>6 DEF ChatTypeOK, ServedOK, RunOK, ShownOK, StoredOK, LookupsOK
<1>8. Copies'
  BY <1>1, <1>5, <1>6 DEF Copies, True
<1> QED BY <1>7, <1>8

LEMMA ChatRenderKeeps ==
  ASSUME ChatInv, NEW i \in DOMAIN shown, V!Render(i) PROVE ChatInv'
<1> USE DEF ChatInv, V!bounds
<1>1. PICK m \in DOMAIN rounds, reveal \in Votes :
        m = shown[i].round /\ reveal = shown[i].reveal /\ m \in Rounds
  BY ShownAre, ChatRoundsAre
<1>2. UNCHANGED <<rounds, enabled, shown, stored, prompt, ballots, prompts>>
  BY DEF V!Render
<1>3. CASE reveal = NoVote
  <2>1. lookups' = lookups \cup {[round |-> m, vote |-> "asked"]} /\ UNCHANGED <<voteStates, continuation>>
    BY <1>1, <1>3 DEF V!Render, V!Asked
  <2>2. LookupsOK'
    BY <1>2, <2>1 DEF ChatTypeOK, LookupsOK
  <2>3. \A l \in lookups' : l.vote \notin {"asked", NoVote} => True(l.round, l.vote)'
    BY <1>2, <2>1 DEF Copies, True
  <2>4. ChatTypeOK'
    BY <1>2, <2>1, <2>2 DEF ChatTypeOK, ServedOK, ChatOK, RunOK, ShownOK, StoredOK, VotesOK
  <2> QED BY <1>2, <2>1, <2>3, <2>4 DEF Copies, True
<1>4. CASE reveal # NoVote
  <2>1. lookups' = lookups /\ Learns(m, reveal)
    BY <1>1, <1>4 DEF V!Render, Learns
  <2>2. True(m, reveal)
    BY <1>1, <1>4 DEF Copies
  <2>3. /\ ChatOK'
        /\ \A k \in Rounds : voteStates'[k].status = "recorded" =>
             voteStates'[k].vote # NoVote /\ True(k, voteStates[k].vote)'
    BY <1>1, <1>2, <1>4, <2>1, <2>2, LearnsTrue
  <2>4. ChatTypeOK'
    BY <1>2, <2>1, <2>3 DEF ChatTypeOK, ServedOK, RunOK, ShownOK, StoredOK, VotesOK, LookupsOK
  <2> QED BY <1>2, <2>1, <2>3, <2>4 DEF Copies, True
<1> QED BY <1>3, <1>4

LEMMA ChatLookupAnsweredKeeps ==
  ASSUME ChatInv, V!LookupAnswered PROVE ChatInv'
<1> USE DEF ChatInv, V!page, V!bounds
<1>1. PICK l \in lookups : lookups' = (lookups \ {l}) \cup {[l EXCEPT !.vote = V!MatchupReply(l.round).vote]}
  BY DEF V!LookupAnswered
<1>2. UNCHANGED <<rounds, enabled, continuation, voteStates, shown, stored, prompt, ballots, prompts>>
  BY DEF V!LookupAnswered
<1>3. l.round \in DOMAIN rounds /\ rounds[l.round].vote \in Votes
  BY ChatRoundsAre DEF ChatTypeOK, LookupsOK
<1>4. V!MatchupReply(l.round).vote = rounds[l.round].vote
  BY DEF V!MatchupReply, V!GetMatchup
<1>5. PICK g \in [round : DOMAIN rounds, vote : Votes \cup {"asked"}] :
        g = [l EXCEPT !.vote = rounds[l.round].vote]
  BY <1>3 DEF ChatTypeOK, LookupsOK
<1>6. g.round = l.round /\ g.vote = rounds[l.round].vote
  BY <1>3, <1>5 DEF ChatTypeOK, LookupsOK
<1>7. lookups' = (lookups \ {l}) \cup {g}
  BY <1>1, <1>4, <1>5
<1>8. LookupsOK'
  BY <1>2, <1>7 DEF ChatTypeOK, LookupsOK
<1>9. \A k \in lookups' : k.vote \notin {"asked", NoVote} => True(k.round, k.vote)'
  BY <1>2, <1>3, <1>6, <1>7 DEF Copies, True
<1>10. ChatTypeOK'
  BY <1>2, <1>8 DEF ChatTypeOK, ServedOK, ChatOK, RunOK, ShownOK, StoredOK, VotesOK
<1> QED BY <1>2, <1>9, <1>10 DEF Copies, True

LEMMA ChatLookupReturnsKeeps ==
  ASSUME ChatInv, V!LookupReturns PROVE ChatInv'
<1> USE DEF ChatInv, V!bounds
<1>1. PICK l \in lookups \ V!Asked(Rounds) :
        /\ lookups' = lookups \ {l}
        /\ IF l.vote = NoVote THEN UNCHANGED <<voteStates, continuation>>
           ELSE /\ voteStates' = IF voteStates[l.round].status = "recorded" THEN voteStates
                  ELSE [voteStates EXCEPT ![l.round] = [status |-> "recorded", vote |-> l.vote]]
                /\ continuation' = IF V!IsContinuable(l.vote) THEN rounds[l.round].conv ELSE continuation
  BY DEF V!LookupReturns
<1>2. UNCHANGED <<rounds, enabled, shown, stored, prompt, ballots, prompts>>
  BY DEF V!LookupReturns
<1>3. l \in [round : DOMAIN rounds, vote : Votes \cup {"asked"}]
  BY DEF ChatTypeOK, LookupsOK
<1>4. l.round \in DOMAIN rounds /\ l.round \in Rounds /\ l.vote \in Votes /\ l.vote # "asked"
  <2>1. l.round \in Rounds
    BY <1>3, ChatRoundsAre
  <2>2. l.vote # "asked"
    <3>1. l = [round |-> l.round, vote |-> l.vote]
      BY <1>3
    <3>2. l \notin {[round |-> k, vote |-> "asked"] : k \in Rounds}
      BY DEF V!Asked
    <3> QED BY <2>1, <3>1, <3>2
  <2> QED BY <1>3, <2>1, <2>2
<1>5. LookupsOK' /\ \A k \in lookups' : k.vote \notin {"asked", NoVote} => True(k.round, k.vote)'
  BY <1>1, <1>2 DEF ChatTypeOK, LookupsOK, Copies, True
<1>6. /\ ChatOK'
      /\ \A k \in Rounds : voteStates'[k].status = "recorded" =>
           voteStates'[k].vote # NoVote /\ True(k, voteStates[k].vote)'
  <2>1. CASE l.vote = NoVote
    BY <1>1, <1>2, <2>1 DEF ChatTypeOK, ChatOK, Copies, True
  <2>2. CASE l.vote # NoVote
    <3>1. Learns(l.round, l.vote)
      BY <1>1, <2>2 DEF Learns
    <3>2. True(l.round, l.vote)
      BY <1>1, <1>4, <2>2 DEF Copies
    <3> QED BY <1>2, <1>4, <2>2, <3>1, <3>2, LearnsTrue
  <2> QED BY <2>1, <2>2
<1>7. ChatTypeOK'
  BY <1>2, <1>5, <1>6 DEF ChatTypeOK, ServedOK, RunOK, ShownOK, StoredOK, VotesOK
<1> QED BY <1>2, <1>5, <1>6, <1>7 DEF Copies, True

\* The instance has a FiniteSets of its own.
LEMMA SameCardinality == \A S : V!Cardinality(S) = Cardinality(S)
BY DEF V!Cardinality, Cardinality, V!IsFiniteSet, IsFiniteSet

LEMMA ChatReloadKeeps ==
  ASSUME ChatInv, V!Reload PROVE ChatInv'
<1> USE DEF ChatInv
<1> DEFINE kept == {m \in Rounds : stored[m] # V!NotStored}
           decisive == {m \in kept : V!IsContinuable(stored[m])}
           last == CHOOSE m \in decisive : \A n \in decisive : n <= m
           nth(i) == CHOOSE k \in kept : V!Cardinality({j \in kept : j <= k}) = i
<1>1. /\ prompt' = V!NoPrompt
      /\ ballots' = [m \in Rounds |-> [at |-> "none", vote |-> NoVote]]
      /\ shown' = [i \in 1..V!Cardinality(kept) |-> [round |-> nth(i), reveal |-> stored[nth(i)]]]
      /\ voteStates' = [m \in Rounds |->
           IF m \in kept /\ stored[m] # NoVote THEN [status |-> "recorded", vote |-> stored[m]] ELSE V!Idle]
      /\ continuation' = IF decisive = {} THEN NoConv ELSE rounds[last].conv
      /\ lookups' = V!Asked({m \in kept : stored[m] = NoVote})
      /\ UNCHANGED <<rounds, enabled, stored, prompts>>
  <2>1. shown' = [i \in 1..V!Cardinality(kept) |-> [round |-> nth(i), reveal |-> stored[nth(i)]]]
    BY DEF V!Reload
  <2>2. continuation' = IF decisive = {} THEN NoConv ELSE rounds[last].conv
    BY DEF V!Reload
  <2>3. voteStates' = [m \in Rounds |->
          IF m \in kept /\ stored[m] # NoVote THEN [status |-> "recorded", vote |-> stored[m]] ELSE V!Idle]
    BY DEF V!Reload
  <2>4. lookups' = V!Asked({m \in kept : stored[m] = NoVote})
    BY DEF V!Reload
  <2> QED BY <2>1, <2>2, <2>3, <2>4 DEF V!Reload
<1>2. /\ kept \subseteq DOMAIN rounds /\ kept \subseteq Rounds /\ kept \subseteq 0..MaxPrompts
      /\ \A m \in kept : stored[m] \in Votes /\ (stored[m] # NoVote => True(m, stored[m]))
  BY DEF ChatTypeOK, StoredOK, Copies
<1>3. V!Cardinality(kept) = Cardinality(kept) /\ Cardinality(kept) \in Nat
  <2>1. IsFiniteSet(0..MaxPrompts)
    BY FS_Interval
  <2> QED BY <1>2, <2>1, FS_Subset, FS_CardinalityType, SameCardinality
<1>4. \A i \in 1..V!Cardinality(kept) : nth(i) \in kept
  <2> TAKE i \in 1..V!Cardinality(kept)
  <2> HIDE DEF kept
  <2>1. \E k \in kept : Cardinality(Upto(kept, k)) = i
    <3>1. i \in 1..Cardinality(kept) /\ kept \subseteq 0..MaxPrompts /\ MaxPrompts \in Nat
      BY <1>2, <1>3
    <3> QED BY <3>1, Ranks
  <2>2. \E k \in kept : V!Cardinality({j \in kept : j <= k}) = i
    BY <2>1, SameCardinality DEF Upto
  <2> QED BY <2>2
<1>5. decisive # {} => last \in decisive
  <2> SUFFICES ASSUME decisive # {} PROVE last \in decisive
    OBVIOUS
  <2>1. decisive \subseteq 0..MaxPrompts
    BY <1>2
  <2> HIDE DEF decisive
  <2>2. \E g \in decisive : \A n \in decisive : n =< g
    BY <2>1, Greatest
  <2> QED BY <2>2
<1> HIDE DEF nth, last
<1>6. RunOK' /\ VotesOK' /\ StoredOK' /\ ServedOK'
  BY <1>1, ChatRoundsAre DEF ChatTypeOK, RunOK, V!NoPrompt, VotesOK, Votes, StoredOK, ServedOK
<1>7. continuation' \in Nat
  BY <1>1, <1>2, <1>5, ChatRoundsAre
<1>8. ChatOK'
  BY <1>1, <1>2, <1>7 DEF ChatTypeOK, ChatOK, States, Votes, V!Idle
<1>9. /\ DOMAIN shown' = 1..V!Cardinality(kept)
      /\ \A i \in 1..V!Cardinality(kept) :
           shown'[i].round = nth(i) /\ shown'[i].reveal = stored[nth(i)]
  BY <1>1
<1>10. ShownOK'
  <2>1. \A i \in 1..V!Cardinality(kept) :
          [round |-> nth(i), reveal |-> stored[nth(i)]] \in [round : DOMAIN rounds, reveal : Votes]
    BY <1>2, <1>4
  <2>2. shown' \in [1..V!Cardinality(kept) -> [round : DOMAIN rounds, reveal : Votes]]
    BY <1>1, <2>1
  <2>3. shown' \in Seq([round : DOMAIN rounds, reveal : Votes])
    <3> DEFINE G == [round : DOMAIN rounds, reveal : Votes]
    <3> HIDE DEF G
    <3>1. PICK n \in Nat : n = V!Cardinality(kept)
      BY <1>3
    <3>2. shown' \in [1..n -> G]
      BY <2>2, <3>1 DEF G
    <3>3. shown' \in Seq(G)
      BY <3>1, <3>2, SeqDef
    <3> QED BY <3>3 DEF G
  <2> QED BY <1>1, <2>3 DEF ShownOK
<1>11. LookupsOK' /\ \A l \in lookups' : l.vote = "asked"
  BY <1>1, <1>2 DEF LookupsOK, V!Asked
<1>12. ChatTypeOK'
  BY <1>6, <1>8, <1>10, <1>11 DEF ChatTypeOK
<1>13. \A i \in DOMAIN shown' : shown'[i].reveal # NoVote => True(shown[i].round, shown[i].reveal)'
  BY <1>1, <1>2, <1>4, <1>9 DEF True
<1>14. \A m \in Rounds : voteStates'[m].status = "recorded" =>
         voteStates'[m].vote # NoVote /\ True(m, voteStates[m].vote)'
  BY <1>1, <1>2 DEF V!Idle, True
<1>15. Copies'
  BY <1>1, <1>11, <1>13, <1>14 DEF Copies, True
<1> QED BY <1>12, <1>15

LEMMA ChatStep ==
  ASSUME ChatInv, V!Next PROVE ChatInv'
BY ChatSetEnabledKeeps, ChatSendKeeps, ChatAnsweredKeeps, ChatMetaArrivesKeeps, ChatRunFinishedKeeps,
   ChatRunFailedKeeps, ChatCastKeeps, ChatVoteAnsweredKeeps, ChatRevealStoredKeeps, ChatVoteCutOffKeeps,
   ChatVoteReturnsKeeps, ChatRenderKeeps, ChatLookupAnsweredKeeps, ChatLookupReturnsKeeps, ChatReloadKeeps
   DEF V!Next

-----------------------------------------------------------------------------
(* All three hosts                                                         *)

\* While the Vercel host runs, nothing of the AG-UI hosts is there.
NoPage ==
  /\ thread = NewThread /\ load = NoLoad
  /\ matchups = [m \in Rounds |-> Unknown]

HostsInv ==
  /\ host # "vercel" => PageInv
  /\ host = "vercel" => ChatInv /\ NoPage

LEMMA HostsInvInit ==
  ASSUME HostsInit PROVE HostsInv
<1>1. CASE Init
  <2>1. host # "vercel"
    BY <1>1 DEF Init
  <2> QED BY <1>1, <2>1, PageInit DEF HostsInv
<1>2. CASE host = "vercel" /\ V!Init /\ NoPage
  BY <1>2, ChatInit DEF HostsInv
<1> QED BY <1>1, <1>2 DEF HostsInit, NoPage

LEMMA HostsInvStep ==
  ASSUME HostsInv, [HostsNext]_allVars PROVE HostsInv'
<1>1. CASE host # "vercel" /\ [Next]_vars
  <2>1. PageInv'
    BY <1>1, PageStep DEF HostsInv
  <2>2. host' # "vercel"
    BY <2>1 DEF PageInv, PageTypeOK, RoundsOK
  <2> QED BY <2>1, <2>2 DEF HostsInv
<1>2. CASE host = "vercel" /\ V!Next /\ UNCHANGED <<host, agUiOnly>>
  BY <1>2, ChatStep DEF HostsInv, NoPage, agUiOnly
<1>3. CASE UNCHANGED allVars
  <2>1. UNCHANGED vars /\ UNCHANGED <<host, thread, load, matchups>>
    <3>1. UNCHANGED vars
      BY <1>3 DEF allVars
    <3> QED BY <3>1 DEF vars, hostVars, page, wire
  <2>2. CASE host # "vercel"
    BY <1>1, <2>1, <2>2
  <2>3. CASE host = "vercel"
    <3>1. UNCHANGED <<rounds, enabled, continuation, voteStates, shown, stored, prompt, ballots, lookups, prompts>>
      BY <1>3 DEF allVars, vars, vercelOnly, hostVars, wire, bounds
    <3>2. ChatTypeOK'
      BY <2>3, <3>1 DEF HostsInv, ChatInv, ChatTypeOK, ServedOK, ChatOK, RunOK, ShownOK, StoredOK, VotesOK, LookupsOK
    <3>3. Copies'
      BY <2>3, <3>1 DEF HostsInv, ChatInv, Copies, True
    <3> QED BY <2>1, <2>3, <3>2, <3>3 DEF HostsInv, ChatInv, NoPage
  <2> QED BY <2>2, <2>3
<1> QED BY <1>1, <1>2, <1>3 DEF HostsNext

\* The invariants of the two kinds of host, in every reachable state.
THEOREM HostsInductive == HostsSpec => []HostsInv
<1> QED BY HostsInvInit, HostsInvStep, PTL DEF HostsSpec

(* Every host shows as a verdict the vote that the arena has: the Vercel   *)
(* host's database, its lookups and its half-done votes only ever repeat   *)
(* it (the vote route, hydrate), and so do an AG-UI page's replies and     *)
(* rebuilt threads (recordVote, hydrateConversation).                      *)
THEOREM VerdictsTrue == HostsSpec => []VerdictIsRecorded
<1>1. HostsInv => VerdictIsRecorded
  BY ShownVotes DEF HostsInv, VerdictIsRecorded, ChatInv, Copies, True, V!VerdictIsRecorded
<1> QED BY <1>1, HostsInductive, PTL

(* The vote of an open round is not lost with a reload: the page has the   *)
(* token of every open round it shows, or the storage has it for the       *)
(* thread being read, unless the browser cleared it (persistence.ts).      *)
THEOREM OpenRoundsVotable == HostsSpec => []OpenRoundVotable
<1>1. HostsInv => OpenRoundVotable
  BY DEF HostsInv, PageInv, NoPage, NewThread, OpenRoundVotable
<1> QED BY <1>1, HostsInductive, PTL

(* The reveal of a round stays on screen through polls, repeated metadata, *)
(* late replies and rebuilt threads (the stores' beginMatchup, recordVote  *)
(* and hydrateConversation).                                               *)
THEOREM VerdictsStay == HostsSpec => VerdictStays
<1>1. HostsInv /\ [HostsNext]_allVars =>
        [\A m \in Rounds :
           matchups[m].vote # NoVote /\ reloads' = reloads => matchups'[m].vote = matchups[m].vote]_vars
  <2> SUFFICES ASSUME HostsInv, [HostsNext]_allVars, vars' # vars, NEW m \in Rounds,
                      matchups[m].vote # NoVote, reloads' = reloads
               PROVE  matchups'[m].vote = matchups[m].vote
    OBVIOUS
  <2>1. HostsNext
    BY DEF allVars
  <2>2. CASE host # "vercel"
    BY <2>1, <2>2, VerdictKept DEF HostsNext, HostsInv
  <2>3. CASE host = "vercel"
    BY <2>1, <2>3 DEF HostsNext, agUiOnly
  <2> QED BY <2>2, <2>3
<1> QED BY <1>1, HostsInductive, PTL DEF HostsSpec, VerdictStays

(* A thread rebuilt from a read is continued only from a handle that the   *)
(* server accepts (parseConversation, hydrateConversation).                *)
THEOREM ReloadsContinue == HostsSpec => ReloadContinues
<1>1. HostsInv /\ [HostsNext]_allVars =>
        [load.at = "answered" /\ load'.at # "answered" /\ reloads' = reloads =>
           ~Refuses(Session, thread'.conv)]_vars
  <2> SUFFICES ASSUME HostsInv, [HostsNext]_allVars, vars' # vars,
                      load.at = "answered", load'.at # "answered", reloads' = reloads
               PROVE  ~Refuses(Session, thread'.conv)
    OBVIOUS
  <2>1. HostsNext /\ host # "vercel"
    BY DEF allVars, HostsInv, NoPage, NoLoad
  <2> QED BY <2>1, RebuiltContinues DEF HostsNext, HostsInv
<1> QED BY <1>1, HostsInductive, PTL DEF HostsSpec, ReloadContinues
=============================================================================
