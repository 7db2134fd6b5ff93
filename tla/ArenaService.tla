---- MODULE ArenaService ----
(***************************************************************************)
(* The arena server as its HTTP clients see it: the rounds it has stored   *)
(* and the replies of the four routes an integration calls.  Conversation  *)
(* models how the server gets there; here every call takes effect at once. *)
(* What a client can rely on about answers not yet saved is left out: a    *)
(* decisive vote makes a conversation continuable (outcome.ts).            *)
(*                                                                         *)
(* A stored round is [conv, session, vote]; rounds are numbered in the     *)
(* order they were created and a conversation is named by its first round. *)
(* A `single` round stores nothing and has no number.                      *)
(***************************************************************************)
EXTENDS Naturals, Sequences, FiniteSets

NoConv == 0
NoRound == 0
NoVote == "none"
Decisive == {"left", "right"}
Ballots == Decisive \cup {"tie"}

VARIABLE rounds

StoredRounds(sessions) == [conv : Nat, session : sessions, vote : Ballots \cup {NoVote}]

IsContinuable(vote) == vote \in Decisive

TurnsOf(conv) == {i \in DOMAIN rounds : rounds[i].conv = conv}
Latest(conv) == CHOOSE i \in TurnsOf(conv) : \A j \in TurnsOf(conv) : j <= i
OwnedBy(conv, session) == \A i \in TurnsOf(conv) : rounds[i].session = session

\* POST /api/arena/chat: which continuation is refused (404, 403 or 409).
Refuses(session, conv) ==
  /\ conv # NoConv
  /\ \/ TurnsOf(conv) = {}
     \/ ~OwnedBy(conv, session)
     \/ ~IsContinuable(rounds[Latest(conv)].vote)

\* An accepted one: the number of the new round is Len(rounds) + 1.
Opened(session, conv) ==
  Append(rounds, [conv |-> IF conv = NoConv THEN Len(rounds) + 1 ELSE conv,
                  session |-> session, vote |-> NoVote])

\* POST /api/arena/vote: the token is the round's own, and nobody voted yet.
VoteAccepted(i) == i \in DOMAIN rounds /\ rounds[i].vote = NoVote
Voted(i, vote) == [rounds EXCEPT ![i].vote = vote]

\* Its reply, which speaks of this vote and not of the conversation.
VoteReply(i, vote) ==
  [vote |-> vote, conv |-> rounds[i].conv, continuable |-> IsContinuable(vote)]

\* GET /api/arena/conversations/:id; a missing or foreign one is 404 or 403.
ConversationFound(conv, session) == TurnsOf(conv) # {} /\ OwnedBy(conv, session)
ConversationContinuable(conv) == IsContinuable(rounds[Latest(conv)].vote)

\* getMatchup: the stored round joined with its vote, found by its id alone.
GetMatchup(i) == [conv |-> rounds[i].conv, vote |-> rounds[i].vote]

\* GET /api/arena/matchups/:id: the round's own vote decides continuable.
MatchupReply(i) ==
  LET view == GetMatchup(i)
  IN [vote |-> view.vote, conv |-> view.conv, continuable |-> IsContinuable(view.vote)]
====
