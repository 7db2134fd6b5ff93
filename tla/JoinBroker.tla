----------------------------- MODULE JoinBroker -----------------------------
(***************************************************************************)
(* The rendezvous of two sibling chat requests on one matchup: the broker  *)
(* (claims, window timer, publish deadline, sweep) and the two halves of   *)
(* the chat handler that use it.  A claim, a timer callback and the code   *)
(* between two awaits each run to completion, so each is one step.         *)
(*                                                                         *)
(* A PendingJoin and its promises outlive their place in the map, so they  *)
(* are kept under the request that created them, its leader.  Time is      *)
(* counted down per timer and up per settled entry, one unit a Tick; other *)
(* requests may come between a timer's being due and its callback.  The    *)
(* pending map and its timers are memory: a restart loses them with every  *)
(* request, and is left out.                                               *)
(***************************************************************************)
EXTENDS Integers, FiniteSets

CONSTANTS Requests,         \* POST /api/arena/chat calls that carry a joinKey
          Scopes,           \* session, conversation, prompt and joinKey
          Continuing,       \* the scopes that name a conversation
          WindowMs,         \* ARENA_JOIN_WINDOW_MS, above 0: joining is enabled
          GraceExtraMs,     \* the 5 s a settled scope is kept beyond the window
          PublishDeadlineMs,
          MaxPending,       \* ARENA_JOIN_MAX_PENDING
          None

ASSUME RequestsFinite == IsFiniteSet(Requests)
ASSUME ScopesFinite == IsFiniteSet(Scopes) /\ Continuing \subseteq Scopes
ASSUME Durations == {WindowMs, GraceExtraMs, PublishDeadlineMs, MaxPending}
                      \subseteq Nat \ {0}
ASSUME NoneIsNoValue == None \notin Requests \cup Scopes

VARIABLES pending,  \* scope -> the leader of the entry the map holds, or None
          join,     \* leader -> its PendingJoin
          scope,    \* request -> the scope it claimed
          leader,   \* request -> the leader it claimed slot B of
          pc,       \* request -> where its handler is
          reply     \* request -> how it was answered

vars == <<pending, join, scope, leader, pc, reply>>

Off      == -1                                \* a timer that is not armed
Grace    == WindowMs + GraceExtraMs
Deadline == WindowMs + PublishDeadlineMs

NoJoin  == [state |-> "none", age |-> 0, window |-> Off, deadline |-> Off,
            sibling |-> "pending", accept |-> "pending"]
NewJoin == [state |-> "open", age |-> 0, window |-> WindowMs, deadline |-> Deadline,
            sibling |-> "pending", accept |-> "pending"]

\* "refused" is a 403, 404 or 409 of the conversation, "error" a 500 and
\* "timeout" the broker's 504.
Failures == {"refused", "error", "timeout"}
Replies  == Failures \cup {"none", "stream", "exhausted", "expired", "unavailable"}
Places   == {"idle", "sibling", "read", "pick", "create", "accept", "done"}

Init == /\ pending = [s \in Scopes |-> None]
        /\ join = [r \in Requests |-> NoJoin]
        /\ scope = [r \in Requests |-> None]
        /\ leader = [r \in Requests |-> None]
        /\ pc = [r \in Requests |-> "idle"]
        /\ reply = [r \in Requests |-> "none"]

\* A promise keeps the value it settled with first.
Settle(promise, value) == IF promise = "pending" THEN value ELSE promise

(***************************************************************************)
(* claim.                                                                  *)
(***************************************************************************)
\* sweep: the entries that stay in the map.
Unpaired(s) == pending[s] # None /\ join[pending[s]].state = "open"

Stays_NoGrace(s) == Unpaired(s)
Stays(s) == /\ pending[s] # None
            /\ Unpaired(s) \/ join[pending[s]].age < Grace

Tracked == {s \in Scopes : Stays(s)}
Swept   == [s \in Scopes |-> IF s \in Tracked THEN pending[s] ELSE None]

\* Whether the cap leaves room for one more scope.
HasRoom_OneMore == Cardinality(Tracked) =< MaxPending
HasRoom == Cardinality(Tracked) < MaxPending

Lead(r, s) ==
  /\ pc[r] = "idle"
  /\ s \notin Tracked /\ HasRoom
  /\ pending' = [Swept EXCEPT ![s] = r]
  /\ join' = [join EXCEPT ![r] = NewJoin]
  /\ scope' = [scope EXCEPT ![r] = s]
  /\ pc' = [pc EXCEPT ![r] = "sibling"]
  /\ UNCHANGED <<leader, reply>>

\* pair() cancels the window, which would otherwise cancel the deadline.
Paired_StillOpen(e) == [e EXCEPT !.window = Off, !.sibling = Settle(@, "paired")]
Paired(e) == [e EXCEPT !.state = "paired", !.age = 0, !.window = Off,
                       !.sibling = Settle(@, "paired")]

\* An open entry has slot B free: its claimed set reaches two as it is paired.
Follow(r, s) ==
  /\ pc[r] = "idle"
  /\ Unpaired(s)
  /\ pending' = Swept
  /\ join' = [join EXCEPT ![pending[s]] = Paired(@)]
  /\ scope' = [scope EXCEPT ![r] = s]
  /\ leader' = [leader EXCEPT ![r] = pending[s]]
  /\ pc' = [pc EXCEPT ![r] = "accept"]
  /\ UNCHANGED reply

TurnAway(r, s) ==
  /\ pc[r] = "idle"
  /\ \/ s \in Tracked /\ join[pending[s]].state = "expired"
        /\ reply' = [reply EXCEPT ![r] = "expired"]
     \/ s \in Tracked /\ join[pending[s]].state = "paired"
        /\ reply' = [reply EXCEPT ![r] = "exhausted"]
     \/ s \notin Tracked /\ ~HasRoom
        /\ reply' = [reply EXCEPT ![r] = "unavailable"]
  /\ pending' = Swept
  /\ scope' = [scope EXCEPT ![r] = s]
  /\ pc' = [pc EXCEPT ![r] = "done"]
  /\ UNCHANGED <<join, leader>>

(***************************************************************************)
(* Timers.                                                                 *)
(***************************************************************************)
Elapse(timer) == IF timer > 0 THEN timer - 1 ELSE timer

Resumable(r) == \/ pc[r] = "sibling" /\ join[r].sibling # "pending"
                \/ pc[r] = "accept" /\ join[leader[r]].accept # "pending"

\* Due timers and the reactions of settled promises do not wait a whole unit.
Tick ==
  /\ \A r \in Requests : 0 \notin {join[r].window, join[r].deadline} /\ ~Resumable(r)
  /\ join' = [r \in Requests |->
       [join[r] EXCEPT !.window = Elapse(@), !.deadline = Elapse(@),
                       !.age = IF @ < Grace THEN @ + 1 ELSE @]]
  /\ UNCHANGED <<pending, scope, leader, pc, reply>>

\* The window timer of l: whatever entry the map holds for its key expires if
\* it is open, and l is released.
Expire(e) == IF e.state = "open" THEN [e EXCEPT !.state = "expired", !.age = 0] ELSE e
Release_NoReply(e) == [e EXCEPT !.window = Off, !.deadline = Off]
Release(e) == [e EXCEPT !.window = Off, !.deadline = Off, !.sibling = Settle(@, "alone")]

WindowCloses(l) ==
  /\ join[l].window = 0
  /\ LET held == [q \in Requests |->
                    IF q = pending[scope[l]] THEN Expire(join[q]) ELSE join[q]]
     IN  join' = [held EXCEPT ![l] = Release(@)]
  /\ UNCHANGED <<pending, scope, leader, pc, reply>>

\* The deadline of l; its window, due earlier, is over.
DeadlinePasses(l) ==
  /\ join[l].deadline = 0 /\ join[l].window = Off
  /\ join' = [join EXCEPT ![l].deadline = Off, ![l].accept = Settle(@, "timeout")]
  /\ UNCHANGED <<pending, scope, leader, pc, reply>>

(***************************************************************************)
(* The leader's half of the handler.                                       *)
(***************************************************************************)
Goto(r, place) == /\ pc' = [pc EXCEPT ![r] = place]
                  /\ UNCHANGED <<pending, join, scope, leader, reply>>

Answer(r, how) == /\ pc' = [pc EXCEPT ![r] = "done"]
                  /\ reply' = [reply EXCEPT ![r] = how]
                  /\ UNCHANGED <<pending, scope, leader>>

\* session.fail and session.publish
Hand(r, value) ==
  join' = [join EXCEPT ![r].deadline = Off, ![r].accept = Settle(@, value)]

\* A failure told to the sibling as well.
Reject_AsError(r, how) == Answer(r, how) /\ Hand(r, "error")
Reject(r, how) == Answer(r, how) /\ Hand(r, how)

SiblingKnown(r) ==
  /\ pc[r] = "sibling" /\ Resumable(r)
  /\ Goto(r, IF scope[r] \in Continuing THEN "read" ELSE "pick")

\* getConversationContext: what it refuses is forwarded, what it throws is not.
ReadContext(r) ==
  /\ pc[r] = "read"
  /\ \/ Goto(r, "pick")
     \/ Reject(r, "refused")
     \/ Answer(r, "error") /\ UNCHANGED join

Pick(r) ==
  /\ pc[r] = "pick"
  /\ Goto(r, "create") \/ Reject(r, "error")

\* createMatchup, and when it succeeds the round: shared if it has a sibling.
CreateMatchup(r) ==
  /\ pc[r] = "create"
  /\ \/ Reject(r, "refused")
     \/ Reject(r, "error")
     \/ /\ Answer(r, "stream")
        /\ IF join[r].sibling = "paired" THEN Hand(r, "stream") ELSE UNCHANGED join

(***************************************************************************)
(* The follower's half.                                                    *)
(***************************************************************************)
Accept(r) ==
  /\ pc[r] = "accept" /\ Resumable(r)
  /\ Answer(r, join[leader[r]].accept)
  /\ UNCHANGED join

Claim(r, s)   == Lead(r, s) \/ Follow(r, s) \/ TurnAway(r, s)
LeaderWork(r) == ReadContext(r) \/ Pick(r) \/ CreateMatchup(r)

Next == \/ Tick
        \/ \E r \in Requests :
             \/ \E s \in Scopes : Claim(r, s)
             \/ WindowCloses(r) \/ DeadlinePasses(r)
             \/ SiblingKnown(r) \/ LeaderWork(r) \/ Accept(r)

\* Time passes, due timers fire and settled promises resume their handlers.
\* No fairness for the database and the matchmaker the leader waits on.
Fairness == /\ WF_vars(Tick)
            /\ \A r \in Requests :
                 /\ WF_vars(WindowCloses(r)) /\ WF_vars(DeadlinePasses(r))
                 /\ WF_vars(SiblingKnown(r)) /\ WF_vars(Accept(r))

Spec == Init /\ [][Next]_vars /\ Fairness

(***************************************************************************)
(* Properties.                                                             *)
(***************************************************************************)
Leaders      == {r \in Requests : join[r].state # "none"}
Followers(l) == {r \in Requests : leader[r] = l}
Timer(max)   == {Off} \cup 0..max

\* Every variable keeps the shape of the broker's fields or the handler's locals.
TypeOK ==
  /\ pending \in [Scopes -> Requests \cup {None}]
  /\ join \in [Requests -> [state : {"none", "open", "paired", "expired"},
                            age : 0..Grace,
                            window : Timer(WindowMs), deadline : Timer(Deadline),
                            sibling : {"pending", "paired", "alone"},
                            accept : {"pending", "stream"} \cup Failures]]
  /\ scope \in [Requests -> Scopes \cup {None}]
  /\ leader \in [Requests -> Requests \cup {None}]
  /\ pc \in [Requests -> Places]
  /\ reply \in [Requests -> Replies]

\* The slots a streaming request announced.
Shown(r) ==
  {slot \in {"A", "B"} :
     /\ reply[r] = "stream"
     /\ slot = "A" => leader[r] = None
     /\ slot = "B" => leader[r] # None \/ join[r].sibling # "paired"}

\* One round shows each slot on one connection: a leader that shows A alone
\* has one sibling, which shows B, is about to, or was told 504 because the
\* deadline beat the leader's publish; no one else is given a slot of it.
SlotsShownOnce ==
  \A l \in Leaders :
    /\ Cardinality(Followers(l)) =< 1
    /\ Shown(l) = {"A"} =>
         \E f \in Followers(l) : pc[f] = "accept" \/ reply[f] \in {"stream", "timeout"}
    /\ \A f \in Followers(l) : Shown(f) # {} => Shown(l) = {"A"}

\* While a scope's entry is open or in its grace period no other request leads
\* that scope: a late sibling is refused, it never opens a second matchup.
OneRoundPerScope ==
  \A l, k \in Leaders :
    (l # k /\ scope[l] = scope[k]) =>
      \E r \in {l, k} : join[r].state # "open" /\ join[r].age >= Grace

\* A follower is told the leader's own failure, or 504.
FollowerMirrorsLeader ==
  \A l \in Leaders : \A f \in Followers(l) :
    reply[f] \in {"none", "timeout"} \/ reply[f] = reply[l]

\* Someone can still wake every waiting request: a leader whose sibling is not
\* known has its window armed and its entry in the map for the sibling to find,
\* and a follower whose leader has not spoken has the leader's deadline armed.
WaiterIsWatched ==
  /\ \A l \in Leaders : (pc[l] = "sibling" /\ join[l].sibling = "pending") =>
       join[l].window # Off /\ pending[scope[l]] = l
  /\ \A f \in Requests : (pc[f] = "accept" /\ join[leader[f]].accept = "pending") =>
       join[leader[f]].deadline # Off

\* However many requests the clients send, at most MaxPending of them hold an
\* open rendezvous or wait in one.
RendezvousBounded ==
  Cardinality({r \in Requests : pc[r] = "sibling" /\ join[r].sibling = "pending"})
    =< MaxPending

\* The window ends the leader's wait, sibling or not.
LeaderReleased == \A r \in Requests : pc[r] = "sibling" ~> pc[r] # "sibling"

\* A follower is answered even when its leader hangs in the database.
FollowerAnswered == \A r \in Requests : pc[r] = "accept" ~> pc[r] = "done"

\* So no request waits for ever in the rendezvous, whatever the other half does.
EveryoneAnswered == LeaderReleased /\ FollowerAnswered

\* A failure of the leader is forwarded: its sibling is told the same, unless
\* the deadline had already told it 504.
FailureForwarded ==
  \A l \in Leaders :
    (reply[l] \in Failures /\ Followers(l) # {}) => join[l].accept \in {reply[l], "timeout"}
=============================================================================
