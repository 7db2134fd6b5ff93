---------------------------- MODULE Bridge_proofs ----------------------------
(***************************************************************************)
(* The Open WebUI bridge, for any number of chats, completions and columns *)
(* and any number of faults, restarts and expiries.                        *)
(*                                                                         *)
(* The argument has three parts: what the arena has stored only grows      *)
(* (RoundsInv, Grows); whatever the bridge holds of it, in memory, on disk *)
(* or in a handler, belongs to the chat that holds it and is what the      *)
(* arena recorded (HeldInv); and the requests of one shared start stay     *)
(* together while no two starts share a round (SharedInv).                 *)
(***************************************************************************)
EXTENDS Bridge, FiniteSetTheorems, SequenceTheorems, TLAPS

MaybeVote == Ballots \cup {NoVote}
RoundRecord == [conv : Nat, session : Keys, vote : MaybeVote]

\* A conversation has the session of its first round, and its number.
RoundsInv ==
  /\ rounds \in Seq(RoundRecord)
  /\ \A i \in DOMAIN rounds : rounds[i].conv \in 1..Len(rounds)
  /\ \A i, j \in DOMAIN rounds :
       rounds[i].conv = rounds[j].conv => rounds[i].session = rounds[j].session

\* A round, and a conversation, of the session k among the rounds stored.
Own(stored, i, k) == i \in DOMAIN stored /\ stored[i].session = k
Mine(stored, conv, k) ==
  conv # NoConv => \E i \in DOMAIN stored : stored[i].conv = conv /\ stored[i].session = k

Matchup == [round : Nat, votable : BOOLEAN, recorded : MaybeVote]
Phases == {"none", "open", "lookup", "stale", "post", "accepted", "refused", "served", "failed"}
StartRecord == [claimed : SUBSET Requests, mode : Modes, phase : Phases, conv : Nat,
                round : Nat, error : {"none", "transport", "refusal"}]
SendRecord == [phase : {"sent", "recorded", "rejected"}, vote : Ballots, continuable : BOOLEAN]
Told == Ballots \cup {"nothing", "served", "failed", "rejected", "dropped"}
RequestRecord == [at : {"new", "parked", "voting", "end"}, entry : Requests \cup {"none"},
                  round : Nat, told : Told, paired : BOOLEAN]

ChatsType == chats \in [Keys -> [matchup : Matchup, continueFrom : Nat]]
DiskType == disk \in [Keys -> Nat]
StartsType == starts \in [Requests -> StartRecord]
SendsType == sends \in [DOMAIN sends -> SendRecord]
ReqType == req \in [Requests -> RequestRecord]
TypeOK == ChatsType /\ DiskType /\ StartsType /\ SendsType /\ ReqType

\* What memory and disk hold for the chat k.
ChatHeld(stored, chat, saved, k) ==
  /\ Mine(stored, chat.continueFrom, k)
  /\ Mine(stored, saved, k)
  /\ chat.matchup.round # NoRound => Own(stored, chat.matchup.round, k)
  /\ chat.matchup.votable => chat.matchup.round # NoRound
  /\ chat.matchup.recorded # NoVote =>
       /\ chat.matchup.round # NoRound
       /\ stored[chat.matchup.round].vote = chat.matchup.recorded

ChatsHeld == \A k \in Keys : ChatHeld(rounds, chats[k], disk[k], k)

\* What a start of a round holds for the chat k.
StartHeld(stored, s, k) ==
  /\ Mine(stored, s.conv, k)
  /\ s.round # NoRound => Own(stored, s.round, k)
  /\ s.phase = "refused" => s.conv # NoConv
  /\ s.phase \in {"accepted", "served"} /\ s.mode # "single" => s.round # NoRound
  /\ s.phase \notin {"accepted", "served"} => s.round = NoRound
  /\ s.error # "refusal"

StartsHeld == \A e \in Requests : StartHeld(rounds, starts[e], Key[e])

SendsHeld ==
  /\ DOMAIN sends \subseteq DOMAIN rounds
  /\ \A i \in DOMAIN sends : sends[i].phase = "recorded" => rounds[i].vote = sends[i].vote

\* What the handler of the request r holds while the calls of inFlight are shared.
RequestHeld(stored, inFlight, q, r) ==
  /\ q.at = "parked" => q.entry \in Requests /\ Key[q.entry] = Key[r] /\ Kind[r] # "vote"
  /\ q.at = "voting" => q.round \in inFlight /\ Own(stored, q.round, Key[r])
  /\ Kind[r] = "vote" /\ q.told \in Ballots =>
       q.round \in DOMAIN stored /\ stored[q.round].vote = q.told

RequestsHeld == \A r \in Requests : RequestHeld(rounds, DOMAIN sends, req[r], r)

HeldInv == TypeOK /\ ChatsHeld /\ StartsHeld /\ SendsHeld /\ RequestsHeld

\* Who was shown the round of a start.
Served(r) == req[r].told = "served"
BothColumns(claimed) == Cardinality(Columns(claimed)) >= 2

\* A start stands for the requests it claimed, its own among them.
Claims ==
  \A e \in Requests :
    /\ starts[e].phase # "none" => req[e].at # "new"
    /\ starts[e].phase # "none" => \A q \in starts[e].claimed :
         req[q].at # "new" /\ req[q].entry = e /\ Kind[q] = Kind[e]
    /\ starts[e].phase = "open" => Kind[e] = "slot"
    /\ Kind[e] = "slot" => starts[e].mode = "duel"
    /\ \A r \in Requests : req[r].at = "parked" /\ req[r].entry = e =>
         starts[e].phase # "none" /\ r \in starts[e].claimed

\* Starts, and the requests they served, do not share rounds.
Apart ==
  /\ \A e, f \in Requests :
       starts[e].round = starts[f].round => e = f \/ starts[e].round = NoRound
  /\ \A e, r \in Requests : Served(r) /\ starts[e].round = req[r].round =>
       req[r].entry = e \/ starts[e].round = NoRound
  /\ \A r, s \in Requests : Served(r) /\ Served(s) /\ req[r].round = req[s].round =>
       req[r].entry = req[s].entry \/ req[r].round = NoRound

\* A served request, and the start that served it while the bridge remembers it.
ServedBy(r, e) ==
  /\ e \in Requests /\ req[e].at # "new" /\ req[r].at = "end" /\ Kind[e] = Kind[r]
  /\ req[r].round # NoRound => req[r].round \in DOMAIN rounds
  /\ Kind[r] = "slot" => req[r].round # NoRound
  /\ starts[e].phase # "none" =>
       /\ starts[e].phase = "served" /\ r \in starts[e].claimed
       /\ req[r].round = starts[e].round
       /\ req[r].paired <=> Kind[r] = "slot" /\ BothColumns(starts[e].claimed)
  /\ req[r].paired => \E s \in Requests :
       req[s].at # "new" /\ req[s].entry = e /\ Column[s] # Column[r]

\* Two requests served by one start were told the same.
Agree(r, s) ==
  /\ req[s].round = req[r].round
  /\ req[s].paired <=> req[r].paired
  /\ Kind[r] = "slot" /\ ~req[r].paired => Column[s] = Column[r]

Together ==
  /\ \A r \in Requests : Served(r) => ServedBy(r, req[r].entry)
  /\ \A r, s \in Requests :
       Served(r) /\ Served(s) /\ req[r].entry = req[s].entry => Agree(r, s)

SharedInv == Claims /\ Apart /\ Together
IndInv == RoundsInv /\ HeldInv /\ SharedInv
(***************************************************************************)
(* What the arena has stored.                                              *)
(***************************************************************************)
\* The arena opens a round of a conversation it does not refuse, or records a vote.
ArenaStep ==
  \/ UNCHANGED rounds
  \/ \E k \in Keys, conv \in Nat : ~Refuses(k, conv) /\ rounds' = Opened(k, conv)
  \/ \E i \in DOMAIN rounds, v \in Ballots : VoteAccepted(i) /\ rounds' = Voted(i, v)

\* Rounds are never taken back, and a recorded vote stays.
Grows ==
  /\ DOMAIN rounds \subseteq DOMAIN rounds'
  /\ \A i \in DOMAIN rounds :
       /\ rounds'[i].conv = rounds[i].conv /\ rounds'[i].session = rounds[i].session
       /\ rounds[i].vote # NoVote => rounds'[i].vote = rounds[i].vote

LEMMA KeyOf == \A r \in Requests : Key[r] \in Keys
BY DEF Keys

LEMMA RoundsStep == ASSUME RoundsInv, ArenaStep PROVE RoundsInv' /\ Grows
<1>1. CASE UNCHANGED rounds
  BY <1>1 DEF RoundsInv, Grows
<1>2. CASE \E k \in Keys, conv \in Nat : ~Refuses(k, conv) /\ rounds' = Opened(k, conv)
  <2>1. PICK k \in Keys, conv \in Nat : ~Refuses(k, conv) /\ rounds' = Opened(k, conv)
    BY <1>2
  <2> DEFINE n == Len(rounds) + 1
             new == [conv |-> IF conv = NoConv THEN n ELSE conv, session |-> k, vote |-> NoVote]
  <2>2. rounds' = Append(rounds, new) /\ rounds \in Seq(RoundRecord)
    BY <2>1 DEF Opened, RoundsInv
  <2>3. new \in RoundRecord /\ Len(rounds) \in Nat
    BY <2>2 DEF RoundRecord, MaybeVote
  <2>4. rounds' \in Seq(RoundRecord) /\ Len(rounds') = n /\ rounds'[n] = new
        /\ \A i \in 1..Len(rounds) : rounds'[i] = rounds[i]
    BY <2>2, <2>3
  <2>5. DOMAIN rounds = 1..Len(rounds) /\ DOMAIN rounds' = 1..n
    BY <2>2, <2>4
  <2>6. conv # NoConv => \E i \in DOMAIN rounds : rounds[i].conv = conv
    BY <2>1 DEF Refuses, TurnsOf
  <2>7. \A i \in DOMAIN rounds : rounds[i].conv = new.conv => rounds[i].session = k
    BY <2>1, <2>3, <2>5 DEF Refuses, OwnedBy, TurnsOf, RoundsInv
  <2>8. new.conv \in 1..n
    BY <2>3, <2>6 DEF RoundsInv
  <2>9. \A i \in DOMAIN rounds' : rounds'[i].conv \in 1..n
    <3> TAKE i \in DOMAIN rounds'
    <3>1. CASE i = n
      BY <2>4, <2>8, <3>1
    <3>2. CASE i # n
      <4>1. i \in 1..Len(rounds) /\ rounds'[i] = rounds[i]
        BY <2>3, <2>4, <2>5, <3>2
      <4>2. rounds[i].conv \in 1..Len(rounds)
        BY <2>5, <4>1 DEF RoundsInv
      <4> QED BY <2>3, <4>1, <4>2
    <3> QED BY <3>1, <3>2
  <2>10. \A i, j \in DOMAIN rounds' :
           rounds'[i].conv = rounds'[j].conv => rounds'[i].session = rounds'[j].session
    <3>1. \A i \in DOMAIN rounds' : i = n \/ (i \in DOMAIN rounds /\ rounds'[i] = rounds[i])
      BY <2>3, <2>4, <2>5
    <3>2. rounds'[n].conv = new.conv /\ rounds'[n].session = k
      BY <2>4
    <3> QED BY <2>7, <3>1, <3>2 DEF RoundsInv
  <2>11. Grows
    BY <2>3, <2>4, <2>5 DEF Grows
  <2> QED BY <2>4, <2>9, <2>10, <2>11 DEF RoundsInv
<1>3. CASE \E i \in DOMAIN rounds, v \in Ballots : VoteAccepted(i) /\ rounds' = Voted(i, v)
  <2>1. PICK i \in DOMAIN rounds, v \in Ballots :
          rounds[i].vote = NoVote /\ rounds' = [rounds EXCEPT ![i].vote = v]
    BY <1>3 DEF VoteAccepted, Voted
  <2>2. rounds' \in Seq(RoundRecord) /\ Len(rounds') = Len(rounds) /\ DOMAIN rounds' = DOMAIN rounds
    <3> DEFINE new == [rounds[i] EXCEPT !.vote = v]
    <3>1. rounds \in Seq(RoundRecord) /\ i \in 1..Len(rounds) /\ rounds[i] \in RoundRecord
      BY DEF RoundsInv
    <3>2. new \in RoundRecord
      BY <3>1 DEF RoundRecord, MaybeVote
    <3>3. rounds' = [rounds EXCEPT ![i] = new]
      BY <2>1
    <3> HIDE DEF new
    <3> QED BY <3>1, <3>2, <3>3, ExceptSeq
  <2>3. \A j \in DOMAIN rounds : rounds'[j].conv = rounds[j].conv
          /\ rounds'[j].session = rounds[j].session /\ (j # i => rounds'[j].vote = rounds[j].vote)
    BY <2>1 DEF RoundsInv, RoundRecord
  <2> QED BY <2>1, <2>2, <2>3 DEF RoundsInv, Grows
<1> QED BY <1>1, <1>2, <1>3 DEF ArenaStep

(***************************************************************************)
(* The steps.                                                              *)
(***************************************************************************)
LEMMA Steps ==
  ASSUME [Next]_vars
  PROVE  \/ \E k \in Keys : Expire(k)
         \/ \E r \in Requests : Ask(r)
         \/ \E r \in Requests : Join(r)
         \/ \E e \in Requests : TimerFires(e)
         \/ \E e \in Requests : LookupAnswered(e)
         \/ \E e \in Requests : LookupStale(e)
         \/ \E e \in Requests : LookupFails(e)
         \/ \E e \in Requests : PostAnswered(e)
         \/ \E e \in Requests : PostFails(e)
         \/ \E e \in Requests : Accepted(e)
         \/ \E e \in Requests : Refused(e)
         \/ \E r \in Requests : Show(r)
         \/ \E r \in Requests : ShowError(r)
         \/ \E r \in Requests : Vote(r)
         \/ \E i \in DOMAIN sends : VoteAnswered(i)
         \/ \E i \in DOMAIN sends : VoteCallFails(i)
         \/ \E r \in Requests : VoteReturns(r)
         \/ \E i \in DOMAIN sends : Forget(i)
         \/ Restart
         \/ UNCHANGED vars
BY DEF Next, Proceed

\* What a request starts from.
LEMMA StartedTyped ==
  ASSUME ChatsType, NEW e \in Requests, NEW claimed \in SUBSET Requests, NEW mode \in Modes
  PROVE  Started(e, claimed, mode) \in StartRecord
<1>1. chats[Key[e]].continueFrom \in Nat
  BY KeyOf DEF ChatsType
<1> QED BY <1>1 DEF Started, NoStart, NoConv, NoRound, Modes, StartRecord, Phases

LEMMA RoundTyped ==
  ASSUME RoundsInv PROVE Len(rounds) \in Nat /\ \A i \in DOMAIN rounds : rounds[i].conv \in Nat
BY DEF RoundsInv, RoundRecord

\* Whoever is about to be answered holds a round of the arena, by its number.
LEMMA HeldRounds ==
  ASSUME RoundsInv, HeldInv, NEW r \in Requests
  PROVE  /\ req[r].at = "voting" => req[r].round \in DOMAIN sends /\ req[r].round \in DOMAIN rounds
         /\ req[r].at = "parked" => req[r].entry \in Requests
BY DEF HeldInv, RequestsHeld, RequestHeld, Own

LEMMA ChatsTyped == ASSUME RoundsInv, HeldInv, [Next]_vars PROVE ChatsType'
<1> USE KeyOf DEF HeldInv, TypeOK, ChatsType
<1>1. CASE \E k \in Keys : Expire(k)
  <2>1. PICK k \in Keys : Expire(k)
    BY <1>1
  <2> QED BY <2>1 DEF Expire, NewChat, NoMatchup, NoRound, NoConv, Matchup, MaybeVote
<1>2. CASE \E e \in Requests : LookupStale(e)
  <2>1. PICK e \in Requests : LookupStale(e)
    BY <1>2
  <2> QED BY <2>1 DEF LookupStale, Continue, NoConv
<1>3. CASE \E e \in Requests : Accepted(e)
  <2>1. PICK e \in Requests : Accepted(e)
    BY <1>3
  <2> QED BY <2>1 DEF Accepted, Continue, NoConv
<1>4. CASE \E e \in Requests : Refused(e)
  <2>1. PICK e \in Requests : Refused(e)
    BY <1>4
  <2> QED BY <2>1 DEF Refused, Continue, NoConv
<1>5. CASE \E r \in Requests : Show(r)
  <2>1. PICK r \in Requests : Show(r)
    BY <1>5
  <2>2. req[r].entry \in Requests
    BY <2>1, HeldRounds DEF Show
  <2>3. starts[req[r].entry].round \in Nat /\ (starts[req[r].entry].mode # "single") \in BOOLEAN
    BY <2>2 DEF StartsType, StartRecord
  <2> DEFINE s == starts[req[r].entry]
             m == [NoMatchup EXCEPT !.round = s.round, !.votable = s.mode # "single"]
  <2>4. m \in Matchup
    BY <2>3 DEF NoMatchup, NoRound, Matchup, MaybeVote
  <2>5. chats' = chats \/ chats' = [chats EXCEPT ![Key[r]].matchup = m]
    BY <2>1 DEF Show
  <2> HIDE DEF m
  <2> QED BY <2>4, <2>5
<1>6. CASE \E r \in Requests : VoteReturns(r)
  <2>1. PICK r \in Requests : VoteReturns(r)
    BY <1>6
  <2> DEFINE i == req[r].round
             conv == IF sends[i].continuable THEN rounds[i].conv ELSE NoConv
  <2>2. sends[i].vote \in MaybeVote /\ conv \in Nat /\ i \in Nat
    BY <2>1, HeldRounds, RoundTyped
       DEF VoteReturns, SendsType, SendRecord, MaybeVote, ReqType, RequestRecord, NoConv
  <2>3. \/ UNCHANGED chats
        \/ chats' = [chats EXCEPT ![Key[r]] =
             [matchup |-> [round |-> i, votable |-> TRUE, recorded |-> sends[i].vote],
              continueFrom |-> conv]]
    BY <2>1 DEF VoteReturns
  <2> DEFINE new == [matchup |-> [round |-> i, votable |-> TRUE, recorded |-> sends[i].vote],
                     continueFrom |-> conv]
  <2>4. new \in [matchup : Matchup, continueFrom : Nat]
    BY <2>2 DEF Matchup
  <2> HIDE DEF new
  <2> QED BY <2>3, <2>4 DEF new
<1>7. CASE Restart
  BY <1>7 DEF Restart, DiskType, NewChat, NoMatchup, NoRound, Matchup, MaybeVote
<1>8. CASE UNCHANGED chats
  BY <1>8
<1> QED BY Steps, <1>1, <1>2, <1>3, <1>4, <1>5, <1>6, <1>7, <1>8
     DEF vars, bridge, Ask, Join, TimerFires, LookupAnswered, LookupFails, PostAnswered, PostFails, ShowError, Vote, VoteAnswered, VoteCallFails, Forget

LEMMA DiskTyped == ASSUME RoundsInv, HeldInv, [Next]_vars PROVE DiskType'
<1> USE KeyOf DEF HeldInv, TypeOK, DiskType
<1>1. CASE \E k \in Keys : Expire(k)
  <2>1. PICK k \in Keys : Expire(k)
    BY <1>1
  <2> QED BY <2>1 DEF Expire, NoConv
<1>2. CASE \E e \in Requests : LookupStale(e)
  <2>1. PICK e \in Requests : LookupStale(e)
    BY <1>2
  <2> QED BY <2>1 DEF LookupStale, Continue, NoConv
<1>3. CASE \E e \in Requests : Accepted(e)
  <2>1. PICK e \in Requests : Accepted(e)
    BY <1>3
  <2> QED BY <2>1 DEF Accepted, Continue, NoConv
<1>4. CASE \E e \in Requests : Refused(e)
  <2>1. PICK e \in Requests : Refused(e)
    BY <1>4
  <2> QED BY <2>1 DEF Refused, Continue, NoConv
<1>5. CASE \E r \in Requests : VoteReturns(r)
  <2>1. PICK r \in Requests : VoteReturns(r)
    BY <1>5
  <2>2. rounds[req[r].round].conv \in Nat
    BY <2>1, HeldRounds, RoundTyped DEF VoteReturns
  <2> QED BY <2>1, <2>2 DEF VoteReturns, NoConv
<1>6. CASE UNCHANGED disk
  BY <1>6
<1> QED BY Steps, <1>1, <1>2, <1>3, <1>4, <1>5, <1>6, Zenon
     DEF vars, bridge, Ask, Join, TimerFires, LookupAnswered, LookupFails, PostAnswered, PostFails, Show, ShowError, Vote, VoteAnswered, VoteCallFails, Forget, Restart

\* A start moves on by a phase and one more field.
LEMMA StartMoves ==
  ASSUME NEW x \in StartRecord, NEW p \in Phases, NEW n \in Nat
  PROVE  /\ [x EXCEPT !.phase = p, !.conv = n] \in StartRecord
         /\ [x EXCEPT !.phase = p, !.round = n] \in StartRecord
         /\ [x EXCEPT !.phase = p, !.error = "transport"] \in StartRecord
<1>1. PICK y \in StartRecord : y = [x EXCEPT !.phase = p]
  BY Zenon DEF StartRecord
<1>2. /\ [y EXCEPT !.conv = n] \in StartRecord
      /\ [y EXCEPT !.round = n] \in StartRecord
      /\ [y EXCEPT !.error = "transport"] \in StartRecord
  BY DEF StartRecord
<1> QED BY <1>1, <1>2 DEF StartRecord

LEMMA StartsTyped == ASSUME RoundsInv, HeldInv, [Next]_vars PROVE StartsType'
<1> USE KeyOf DEF HeldInv, TypeOK, StartsType
<1>1. CASE \E r \in Requests : Ask(r)
  <2>1. PICK r \in Requests : Ask(r)
    BY <1>1
  <2> QED BY <2>1, StartedTyped DEF Ask
<1>2. CASE \E r \in Requests : Join(r)
  <2>1. PICK r \in Requests : Join(r)
    BY <1>2
  <2>2. [NoStart EXCEPT !.phase = "open", !.claimed = {r}] \in StartRecord
    BY DEF NoStart, NoConv, NoRound, StartRecord, Phases, Modes
  <2>3. \A e \in Requests : starts[e].claimed \cup {r} \in SUBSET Requests /\ "duel" \in Modes
    BY DEF StartRecord, Modes
  <2>4. \A e \in Requests : Started(e, starts[e].claimed \cup {r}, "duel") \in StartRecord
    BY <2>3, StartedTyped
  <2>5. \A e \in Requests : [starts[e] EXCEPT !.claimed = starts[e].claimed \cup {r}] \in StartRecord
    BY <2>3 DEF StartRecord
  <2> QED BY <2>1, <2>2, <2>4, <2>5 DEF Join, Siblings
<1>3. CASE \E e \in Requests : TimerFires(e)
  <2>1. PICK e \in Requests : TimerFires(e)
    BY <1>3
  <2>2. starts[e].claimed \in SUBSET Requests /\ "duel" \in Modes
    BY DEF StartRecord, Modes
  <2> QED BY <2>1, <2>2, StartedTyped DEF TimerFires
<1>4. CASE \E e \in Requests : LookupAnswered(e)
  <2>1. PICK e \in Requests : LookupAnswered(e)
    BY <1>4
  <2> QED BY <2>1 DEF LookupAnswered, StartRecord, Phases
<1>5. CASE \E e \in Requests : LookupStale(e)
  <2>1. PICK e \in Requests : LookupStale(e)
    BY <1>5
  <2>2. starts' = [starts EXCEPT ![e] = [starts[e] EXCEPT !.phase = "post", !.conv = 0]]
    BY <2>1, Zenon DEF LookupStale, NoConv
  <2>3. [starts[e] EXCEPT !.phase = "post", !.conv = 0] \in StartRecord
    BY StartMoves, Zenon DEF Phases
  <2> QED BY <2>2, <2>3
<1>6. CASE \E e \in Requests : LookupFails(e)
  <2>1. PICK e \in Requests : LookupFails(e)
    BY <1>6
  <2> QED BY <2>1 DEF LookupFails, StartRecord, Phases
<1>7. CASE \E e \in Requests : PostAnswered(e)
  <2>1. PICK e \in Requests : PostAnswered(e)
    BY <1>7
  <2> QED BY <2>1, RoundTyped DEF PostAnswered, StartRecord, Phases
<1>8. CASE \E e \in Requests : PostFails(e)
  <2>1. PICK e \in Requests : PostFails(e)
    BY <1>8
  <2>2. starts' = [starts EXCEPT ![e] = [starts[e] EXCEPT !.phase = "failed", !.error = "transport"]]
    BY <2>1 DEF PostFails
  <2>3. [starts[e] EXCEPT !.phase = "failed", !.error = "transport"] \in StartRecord
    BY StartMoves, Zenon DEF Phases
  <2> QED BY <2>2, <2>3
<1>9. CASE \E e \in Requests : Accepted(e)
  <2>1. PICK e \in Requests : Accepted(e)
    BY <1>9
  <2> QED BY <2>1 DEF Accepted, StartRecord, Phases
<1>10. CASE \E e \in Requests : Refused(e)
  <2>1. PICK e \in Requests : Refused(e)
    BY <1>10
  <2> QED BY <2>1 DEF Refused, StartRecord, Phases, NoConv
<1>11. CASE Restart
  BY <1>11 DEF Restart, NoStart, NoConv, NoRound, Modes, StartRecord, Phases
<1>12. CASE UNCHANGED starts
  BY <1>12
<1> QED BY Steps, <1>1, <1>2, <1>3, <1>4, <1>5, <1>6, <1>7, <1>8, <1>9, <1>10, <1>11, <1>12, Zenon
     DEF vars, bridge, Expire, Show, ShowError, Vote, VoteAnswered, VoteCallFails, VoteReturns, Forget

LEMMA SendsTyped == ASSUME RoundsInv, HeldInv, [Next]_vars PROVE SendsType'
<1> USE KeyOf DEF HeldInv, TypeOK, SendsType
<1>1. CASE \E r \in Requests : Vote(r)
  <2>1. PICK r \in Requests : Vote(r)
    BY <1>1
  <2>2. Choice[r] \in Ballots
    BY BridgeAssumption
  <2>3. UNCHANGED sends \/ \E i : sends' = InFlight(i, Choice[r])
    BY <2>1 DEF Vote
  <2>4. \A i : /\ DOMAIN InFlight(i, Choice[r]) = DOMAIN sends \cup {i}
               /\ \A j \in DOMAIN sends \cup {i} : InFlight(i, Choice[r])[j] \in SendRecord
    BY <2>2 DEF InFlight, SendRecord
  <2>5. \A i : InFlight(i, Choice[r]) \in [DOMAIN InFlight(i, Choice[r]) -> SendRecord]
    BY <2>4 DEF InFlight
  <2> QED BY <2>3, <2>5
<1>2. CASE \E i \in DOMAIN sends : VoteAnswered(i)
  <2>1. PICK i \in DOMAIN sends : VoteAnswered(i)
    BY <1>2
  <2> QED BY <2>1 DEF VoteAnswered, VoteReply, IsContinuable, SendRecord
<1>3. CASE \E i \in DOMAIN sends : VoteCallFails(i)
  <2>1. PICK i \in DOMAIN sends : VoteCallFails(i)
    BY <1>3
  <2> QED BY <2>1 DEF VoteCallFails, SendRecord
<1>4. CASE \E i \in DOMAIN sends : Forget(i)
  <2>1. PICK i \in DOMAIN sends : Forget(i)
    BY <1>4
  <2> QED BY <2>1 DEF Forget, SendRecord
<1>5. CASE Restart
  BY <1>5 DEF Restart, NoSends
<1>6. CASE UNCHANGED sends
  BY <1>6
<1> QED BY Steps, <1>1, <1>2, <1>3, <1>4, <1>5, <1>6, Zenon
     DEF vars, bridge, Expire, Ask, Join, TimerFires, LookupAnswered, LookupStale, LookupFails, PostAnswered, PostFails, Accepted, Refused, Show, ShowError, VoteReturns

\* A request waits at an entry, or ends with what it is told.
LEMMA RequestMoves ==
  ASSUME NEW x \in RequestRecord, NEW e \in Requests, NEW t \in Told
  PROVE  /\ [x EXCEPT !.at = "parked", !.entry = e] \in RequestRecord
         /\ [x EXCEPT !.at = "end", !.told = t] \in RequestRecord
<1>1. [x EXCEPT !.at = "parked", !.entry = e] \in RequestRecord
  BY DEF RequestRecord
<1>2. [x EXCEPT !.at = "end", !.told = t] \in RequestRecord
  BY DEF RequestRecord
<1> QED BY <1>1, <1>2

LEMMA ReqTyped == ASSUME RoundsInv, HeldInv, [Next]_vars PROVE ReqType'
<1> USE KeyOf DEF HeldInv, TypeOK, ReqType
<1>1. CASE \E r \in Requests : Ask(r)
  <2>1. PICK r \in Requests : Ask(r)
    BY <1>1
  <2>2. req' = [req EXCEPT ![r] = [req[r] EXCEPT !.at = "parked", !.entry = r]]
    BY <2>1 DEF Ask, Park
  <2>3. [req[r] EXCEPT !.at = "parked", !.entry = r] \in RequestRecord
    BY RequestMoves DEF Told
  <2> QED BY <2>2, <2>3
<1>2. CASE \E r \in Requests : Join(r)
  <2>1. PICK r \in Requests : Join(r)
    BY <1>2
  <2>2. PICK e \in Requests : req' = Park(r, e)
    BY <2>1 DEF Join, Siblings
  <2>3. req' = [req EXCEPT ![r] = [req[r] EXCEPT !.at = "parked", !.entry = e]]
    BY <2>2 DEF Park
  <2>4. [req[r] EXCEPT !.at = "parked", !.entry = e] \in RequestRecord
    BY RequestMoves DEF Told
  <2> QED BY <2>3, <2>4
<1>3. CASE \E r \in Requests : Show(r)
  <2>1. PICK r \in Requests : Show(r)
    BY <1>3
  <2>2. req[r].entry \in Requests
    BY <2>1, HeldRounds DEF Show
  <2>3. starts[req[r].entry].round \in Nat
    BY <2>2 DEF StartsType, StartRecord
  <2>4. (Kind[r] = "slot" /\ IsPaired(r)) \in BOOLEAN
    OBVIOUS
  <2> DEFINE new == [req[r] EXCEPT !.at = "end", !.told = "served",
                                   !.round = starts[req[r].entry].round,
                                   !.paired = Kind[r] = "slot" /\ IsPaired(r)]
  <2>5. new \in RequestRecord
    BY <2>3, <2>4 DEF RequestRecord, Told
  <2>6. req' = [req EXCEPT ![r] = new]
    BY <2>1 DEF Show
  <2> HIDE DEF new
  <2> QED BY <2>5, <2>6
<1>4. CASE \E r \in Requests : ShowError(r)
  <2>1. PICK r \in Requests : ShowError(r)
    BY <1>4
  <2>2. req' = [req EXCEPT ![r] = [req[r] EXCEPT !.at = "end", !.told = "failed"]]
    BY <2>1 DEF ShowError
  <2>3. [req[r] EXCEPT !.at = "end", !.told = "failed"] \in RequestRecord
    BY RequestMoves DEF Told
  <2> QED BY <2>2, <2>3
<1>5. CASE \E r \in Requests : Vote(r)
  <2>1. PICK r \in Requests : Vote(r)
    BY <1>5
  <2> QED BY <2>1 DEF Vote, RequestRecord, Told, ChatsType, Matchup, MaybeVote
<1>6. CASE \E r \in Requests : VoteReturns(r)
  <2>1. PICK r \in Requests : VoteReturns(r)
    BY <1>6
  <2> QED BY <2>1 DEF VoteReturns, Reported, RequestRecord, Told, SendsType, SendRecord
<1>7. CASE Restart
  <2>1. req' = [r \in Requests |->
                  IF req[r].at \in {"new", "end"} THEN req[r]
                  ELSE [req[r] EXCEPT !.at = "end", !.told = "dropped"]]
    BY <1>7 DEF Restart
  <2>2. ASSUME NEW r \in Requests PROVE [req[r] EXCEPT !.at = "end", !.told = "dropped"] \in RequestRecord
    BY RequestMoves DEF Told
  <2> QED BY <2>1, <2>2
<1>8. CASE UNCHANGED req
  BY <1>8
<1> QED BY Steps, <1>1, <1>2, <1>3, <1>4, <1>5, <1>6, <1>7, <1>8
     DEF vars, bridge, Expire, TimerFires, LookupAnswered, LookupStale, LookupFails, PostAnswered, PostFails, Accepted, Refused, VoteAnswered, VoteCallFails, Forget

(***************************************************************************)
(* What the bridge holds.                                                  *)
(***************************************************************************)
\* Whatever the bridge does, the arena only opens a round or records a vote.
LEMMA ArenaMoves == ASSUME RoundsInv, HeldInv, [Next]_vars PROVE RoundsInv' /\ Grows
<1> SUFFICES ArenaStep
  BY RoundsStep
<1> USE KeyOf DEF ArenaStep
<1>1. CASE \E e \in Requests : PostAnswered(e) \/ PostFails(e)
  <2>1. PICK e \in Requests : PostAnswered(e) \/ PostFails(e)
    BY <1>1
  <2>2. UNCHANGED rounds \/ (~Refuses(Key[e], starts[e].conv) /\ rounds' = Opened(Key[e], starts[e].conv))
    BY <2>1 DEF PostAnswered, PostFails
  <2>3. starts[e].conv \in Nat
    BY DEF HeldInv, TypeOK, StartsType, StartRecord
  <2> QED BY <2>2, <2>3
<1>2. CASE \E i \in DOMAIN sends : VoteAnswered(i) \/ VoteCallFails(i)
  <2>1. PICK i \in DOMAIN sends : VoteAnswered(i) \/ VoteCallFails(i)
    BY <1>2
  <2>2. UNCHANGED rounds \/ (VoteAccepted(i) /\ rounds' = Voted(i, sends[i].vote))
    BY <2>1 DEF VoteAnswered, VoteCallFails
  <2>3. sends[i].vote \in Ballots
    BY DEF HeldInv, TypeOK, SendsType, SendRecord
  <2>4. VoteAccepted(i) => i \in DOMAIN rounds
    BY DEF VoteAccepted
  <2> QED BY <2>2, <2>3, <2>4
<1>3. CASE UNCHANGED rounds
  BY <1>3
<1> QED BY Steps, <1>1, <1>2, <1>3, Zenon
     DEF vars, Expire, Ask, Join, TimerFires, LookupAnswered, LookupStale, LookupFails, Accepted, Refused, Show, ShowError, Vote, VoteReturns, Forget, Restart

LEMMA MineKept ==
  ASSUME Grows
  PROVE  /\ \A conv, k : Mine(rounds, conv, k) => Mine(rounds', conv, k)
         /\ \A i, k : Own(rounds, i, k) => Own(rounds', i, k)
BY DEF Grows, Mine, Own

\* What was held stays true of what the arena stores.
LEMMA ChatKept ==
  ASSUME Grows PROVE \A c, d, k : ChatHeld(rounds, c, d, k) => ChatHeld(rounds', c, d, k)
BY MineKept DEF Grows, ChatHeld, Own

LEMMA StartKept ==
  ASSUME Grows PROVE \A s, k : StartHeld(rounds, s, k) => StartHeld(rounds', s, k)
BY MineKept DEF StartHeld

LEMMA RequestKept ==
  ASSUME Grows
  PROVE  \A s, q, r : RequestHeld(rounds, s, q, r) => RequestHeld(rounds', s, q, r)
<1>1. \A v \in Ballots : v # NoVote
  BY DEF Ballots, Decisive, NoVote
<1> QED BY <1>1, MineKept DEF Grows, RequestHeld, Own

\* A round of the chat may be shown, and its conversation continued.
LEMMA OwnContinues ==
  ASSUME RoundsInv, NEW i, NEW k, Own(rounds, i, k)
  PROVE  Mine(rounds, rounds[i].conv, k) /\ Mine(rounds, NoConv, k)
BY DEF Own, Mine

LEMMA ChatsHeldStep == ASSUME RoundsInv, HeldInv, [Next]_vars PROVE ChatsHeld'
<1> SUFFICES ASSUME NEW k \in Keys PROVE ChatHeld(rounds', chats'[k], disk'[k], k)
  BY DEF ChatsHeld
<1> USE KeyOf DEF HeldInv
<1>0. Grows /\ chats \in [Keys -> [matchup : Matchup, continueFrom : Nat]] /\ disk \in [Keys -> Nat]
  BY ArenaMoves DEF TypeOK, ChatsType, DiskType
<1>k. ChatHeld(rounds, chats[k], disk[k], k) /\ ChatHeld(rounds', chats[k], disk[k], k)
  BY <1>0, ChatKept DEF ChatsHeld
<1>c. \A h \in Keys : Continue(h, NoConv) => ChatHeld(rounds', chats'[k], disk'[k], k)
  BY <1>0, <1>k DEF Continue, ChatHeld, Mine
<1>1. CASE \E h \in Keys : Expire(h)
  BY <1>0, <1>k, <1>1 DEF Expire, ChatHeld, Mine, NewChat, NoMatchup
<1>2. CASE \E e \in Requests : LookupStale(e)
  BY <1>2, <1>c DEF LookupStale
<1>3. CASE \E e \in Requests : Accepted(e)
  BY <1>3, <1>c, <1>k DEF Accepted
<1>4. CASE \E e \in Requests : Refused(e)
  BY <1>4, <1>c, <1>k DEF Refused
<1>5. CASE \E r \in Requests : Show(r)
  <2>1. PICK r \in Requests : Show(r)
    BY <1>5
  <2>2. req[r].entry \in Requests /\ Key[req[r].entry] = Key[r]
    BY <2>1 DEF Show, RequestsHeld, RequestHeld
  <2> DEFINE s == starts[req[r].entry]
             m == [NoMatchup EXCEPT !.round = s.round, !.votable = s.mode # "single"]
  <2>3. s.phase = "served" /\ StartHeld(rounds, s, Key[r])
    BY <2>1, <2>2 DEF Show, StartsHeld
  <2>4. /\ m.round # NoRound => Own(rounds, m.round, Key[r])
        /\ m.votable => m.round # NoRound
        /\ m.recorded = NoVote
    BY <2>3 DEF StartHeld, NoMatchup
  <2>5. chats' = chats \/ chats' = [chats EXCEPT ![Key[r]].matchup = m]
    BY <2>1 DEF Show
  <2>6. UNCHANGED <<rounds, disk>>
    BY <2>1 DEF Show
  <2> HIDE DEF m
  <2>7. CASE chats' = [chats EXCEPT ![Key[r]].matchup = m]
    <3>1. chats'[k].continueFrom = chats[k].continueFrom
          /\ chats'[k].matchup = IF k = Key[r] THEN m ELSE chats[k].matchup
      BY <2>7, <1>0
    <3> QED BY <1>k, <2>4, <2>6, <3>1 DEF ChatHeld
  <2> QED BY <1>k, <2>5, <2>6, <2>7
<1>6. CASE \E r \in Requests : VoteReturns(r)
  <2>1. PICK r \in Requests : VoteReturns(r)
    BY <1>6
  <2> DEFINE i == req[r].round
             conv == IF sends[i].continuable THEN rounds[i].conv ELSE NoConv
             new == [matchup |-> [round |-> i, votable |-> TRUE, recorded |-> sends[i].vote],
                     continueFrom |-> conv]
  <2>2. i \in DOMAIN sends /\ Own(rounds, i, Key[r])
    BY <2>1 DEF VoteReturns, RequestsHeld, RequestHeld
  <2>3. UNCHANGED rounds
    BY <2>1 DEF VoteReturns
  <2>4. CASE sends[i].phase = "recorded" /\ chats' = [chats EXCEPT ![Key[r]] = new]
             /\ disk' = [disk EXCEPT ![Key[r]] = conv]
    <3>1. Mine(rounds, conv, Key[r]) /\ rounds[i].vote = sends[i].vote /\ i # NoRound
      BY <2>2, <2>4, OwnContinues DEF SendsHeld, Own, NoRound, RoundsInv
    <3>2. ChatHeld(rounds, new, conv, Key[r])
      BY <2>2, <3>1 DEF ChatHeld
    <3> HIDE DEF new, conv
    <3> QED BY <1>0, <1>k, <2>3, <2>4, <3>2
  <2>5. CASE UNCHANGED <<chats, disk>>
    BY <2>5, <1>k
  <2> QED BY <2>1, <2>4, <2>5 DEF VoteReturns
<1>7. CASE Restart
  BY <1>0, <1>k, <1>7 DEF Restart, ChatHeld, Mine, NewChat, NoMatchup
<1>8. CASE UNCHANGED <<chats, disk>>
  BY <1>8, <1>k
<1> QED BY Steps, <1>1, <1>2, <1>3, <1>4, <1>5, <1>6, <1>7, <1>8, Zenon
     DEF vars, bridge, Ask, Join, TimerFires, LookupAnswered, LookupFails, PostAnswered, PostFails, ShowError, Vote, VoteAnswered, VoteCallFails, Forget

\* A start takes the continuation its chat holds.
LEMMA StartedHeld ==
  ASSUME HeldInv, Grows, NEW e \in Requests, NEW claimed, NEW mode
  PROVE  StartHeld(rounds', Started(e, claimed, mode), Key[e])
<1>1. ChatHeld(rounds', chats[Key[e]], disk[Key[e]], Key[e])
  BY KeyOf, ChatKept DEF HeldInv, ChatsHeld
<1>2. Mine(rounds', chats[Key[e]].continueFrom, Key[e]) /\ Mine(rounds', NoConv, Key[e])
  BY <1>1 DEF ChatHeld, Mine
<1> QED BY <1>2 DEF Started, NoStart, StartHeld

\* The round the arena opens is of the session that asked.
LEMMA OpenedOwn ==
  ASSUME RoundsInv, NEW k, NEW conv, rounds' = Opened(k, conv)
  PROVE  Own(rounds', Len(rounds) + 1, k) /\ Len(rounds) + 1 # NoRound
<1> DEFINE new == [conv |-> IF conv = NoConv THEN Len(rounds) + 1 ELSE conv,
                   session |-> k, vote |-> NoVote]
<1>1. rounds' = Append(rounds, new)
  BY DEF Opened
<1>2. new.session = k
  OBVIOUS
<1> HIDE DEF new
<1>3. rounds \in Seq(RoundRecord) /\ Len(rounds) \in Nat
  BY DEF RoundsInv
<1>4. Len(rounds') = Len(rounds) + 1 /\ rounds'[Len(rounds) + 1] = new
      /\ DOMAIN rounds' = 1..(Len(rounds) + 1)
  BY <1>1, <1>3
<1> QED BY <1>2, <1>3, <1>4 DEF Own, NoRound

\* A conversation the chat holds is one it may continue or one that is settled
\* otherwise: the arena's refusal is always recognised.
LEMMA RefusalRecognised ==
  ASSUME RoundsInv, NEW e \in Requests, StartHeld(rounds, starts[e], Key[e]),
         starts[e].phase = "refused"
  PROVE  IsContinuationRefusal(e)
BY DEF RoundsInv, StartHeld, Mine, IsContinuationRefusal, OwnedBy, TurnsOf

LEMMA StartsHeldStep == ASSUME RoundsInv, HeldInv, [Next]_vars PROVE StartsHeld'
<1> SUFFICES ASSUME NEW f \in Requests PROVE StartHeld(rounds', starts'[f], Key[f])
  BY DEF StartsHeld
<1>0. Grows /\ starts \in [Requests -> StartRecord]
  BY ArenaMoves DEF HeldInv, TypeOK, StartsType
<1>k. \A e \in Requests : StartHeld(rounds, starts[e], Key[e]) /\ StartHeld(rounds', starts[e], Key[e])
  BY <1>0, StartKept DEF HeldInv, StartsHeld
<1>u. ASSUME NEW e \in Requests, NEW new, starts' = [starts EXCEPT ![e] = new],
             StartHeld(rounds', new, Key[e])
      PROVE  StartHeld(rounds', starts'[f], Key[f])
  BY <1>0, <1>k, <1>u
<1>1. CASE \E r \in Requests : Ask(r)
  <2>1. PICK r \in Requests, mode \in Modes : starts' = [starts EXCEPT ![r] = Started(r, {r}, mode)]
    BY <1>1 DEF Ask
  <2>2. StartHeld(rounds', Started(r, {r}, mode), Key[r])
    BY <1>0, StartedHeld
  <2> QED BY <1>u, <2>1, <2>2
<1>2. CASE \E r \in Requests : Join(r)
  <2>1. PICK r \in Requests : Join(r)
    BY <1>2
  <2>2. StartHeld(rounds', [NoStart EXCEPT !.phase = "open", !.claimed = {r}], Key[r])
    BY DEF NoStart, StartHeld, Mine
  <2>3. \A e \in Requests : \A claimed : StartHeld(rounds', Started(e, claimed, "duel"), Key[e])
    BY <1>0, StartedHeld
  <2>4. \A e \in Requests : \A claimed : StartHeld(rounds', [starts[e] EXCEPT !.claimed = claimed], Key[e])
    BY <1>0, <1>k DEF StartHeld, StartRecord
  <2>5. \/ starts' = [starts EXCEPT ![r] = [NoStart EXCEPT !.phase = "open", !.claimed = {r}]]
        \/ \E e \in Requests : \E claimed : starts' = [starts EXCEPT ![e] = Started(e, claimed, "duel")]
        \/ \E e \in Requests : \E claimed : starts' = [starts EXCEPT ![e] = [starts[e] EXCEPT !.claimed = claimed]]
    BY <1>0, <2>1 DEF Join, Siblings
  <2> QED BY <1>u, <2>2, <2>3, <2>4, <2>5
<1>3. CASE \E e \in Requests : TimerFires(e)
  <2>1. PICK e \in Requests : TimerFires(e)
    BY <1>3
  <2>2. \E claimed : starts' = [starts EXCEPT ![e] = Started(e, claimed, "duel")]
    BY <2>1, <1>0 DEF TimerFires
  <2> QED BY <1>0, <1>u, <2>2, StartedHeld
<1>4. CASE \E e \in Requests : LookupAnswered(e)
  <2>1. PICK e \in Requests : LookupAnswered(e)
    BY <1>4
  <2> QED BY <1>0, <1>k, <2>1 DEF LookupAnswered, StartHeld, StartRecord
<1>5. CASE \E e \in Requests : LookupStale(e)
  <2>1. PICK e \in Requests : LookupStale(e)
    BY <1>5
  <2> QED BY <1>0, <1>k, <2>1 DEF LookupStale, StartHeld, StartRecord, Mine
<1>6. CASE \E e \in Requests : LookupFails(e)
  <2>1. PICK e \in Requests : LookupFails(e)
    BY <1>6
  <2> QED BY <1>0, <1>k, <2>1 DEF LookupFails, StartHeld, StartRecord
<1>7. CASE \E e \in Requests : PostAnswered(e)
  <2>1. PICK e \in Requests : PostAnswered(e)
    BY <1>7
  <2>2. CASE Refuses(Key[e], starts[e].conv)
    <3>1. starts' = [starts EXCEPT ![e].phase = "refused"] /\ starts[e].conv # NoConv
          /\ starts[e].phase = "post"
      BY <2>1, <2>2 DEF PostAnswered, Refuses
    <3> QED BY <1>0, <1>k, <3>1 DEF StartHeld, StartRecord
  <2>3. CASE ~Refuses(Key[e], starts[e].conv) /\ starts[e].mode = "single"
    <3>1. starts' = [starts EXCEPT ![e].phase = "accepted"] /\ starts[e].phase = "post"
      BY <2>1, <2>3 DEF PostAnswered
    <3> QED BY <1>0, <1>k, <2>3, <3>1 DEF StartHeld, StartRecord
  <2>4. CASE ~Refuses(Key[e], starts[e].conv) /\ starts[e].mode # "single"
    <3>1. starts' = [starts EXCEPT ![e].phase = "accepted", ![e].round = Len(rounds) + 1]
          /\ rounds' = Opened(Key[e], starts[e].conv)
      BY <2>1, <2>4 DEF PostAnswered
    <3>2. Own(rounds', Len(rounds) + 1, Key[e]) /\ Len(rounds) + 1 # NoRound
      BY <3>1, OpenedOwn
    <3> QED BY <1>0, <1>k, <3>1, <3>2 DEF StartHeld, StartRecord
  <2> QED BY <2>2, <2>3, <2>4
<1>8. CASE \E e \in Requests : PostFails(e)
  <2>1. PICK e \in Requests : PostFails(e)
    BY <1>8
  <2> QED BY <1>0, <1>k, <2>1 DEF PostFails, StartHeld, StartRecord
<1>9. CASE \E e \in Requests : Accepted(e)
  <2>1. PICK e \in Requests : Accepted(e)
    BY <1>9
  <2> QED BY <1>0, <1>k, <2>1 DEF Accepted, StartHeld, StartRecord
<1>10. CASE \E e \in Requests : Refused(e)
  <2>1. PICK e \in Requests : Refused(e)
    BY <1>10
  <2>2. IsContinuationRefusal(e)
    BY <1>k, <2>1, RefusalRecognised DEF Refused
  <2>3. starts' = [starts EXCEPT ![e].phase = "post", ![e].conv = NoConv] /\ starts[e].phase = "refused"
    BY <2>1, <2>2 DEF Refused
  <2> QED BY <1>0, <1>k, <2>3 DEF StartHeld, StartRecord, Mine
<1>11. CASE Restart
  BY <1>11 DEF Restart, NoStart, StartHeld, Mine
<1>12. CASE UNCHANGED starts
  BY <1>12, <1>k
<1> QED BY Steps, <1>1, <1>2, <1>3, <1>4, <1>5, <1>6, <1>7, <1>8, <1>9, <1>10, <1>11, <1>12, Zenon
     DEF vars, bridge, Expire, Show, ShowError, Vote, VoteAnswered, VoteCallFails, VoteReturns, Forget

LEMMA SendsHeldStep == ASSUME RoundsInv, HeldInv, [Next]_vars PROVE SendsHeld'
<1> USE DEF SendsHeld
<1>0. Grows /\ SendsHeld /\ sends \in [DOMAIN sends -> SendRecord]
  BY ArenaMoves DEF HeldInv, TypeOK, SendsType
<1>k. /\ DOMAIN sends \subseteq DOMAIN rounds'
      /\ \A i \in DOMAIN sends : sends[i].phase = "recorded" => rounds'[i].vote = sends[i].vote
  BY <1>0 DEF Grows, SendRecord, Ballots, Decisive, NoVote
<1>1. CASE \E r \in Requests : Vote(r)
  <2>1. PICK r \in Requests : Vote(r)
    BY <1>1
  <2> DEFINE i == chats[Key[r]].matchup.round
  <2>2. CASE chats[Key[r]].matchup.votable /\ sends' = InFlight(i, Choice[r])
    <3>1. i \in DOMAIN rounds
      BY <2>2, KeyOf DEF HeldInv, ChatsHeld, ChatHeld, Own
    <3>2. /\ DOMAIN sends' = DOMAIN sends \cup {i}
          /\ \A j \in DOMAIN sends : sends'[j] = sends[j]
          /\ i \notin DOMAIN sends => sends'[i].phase = "sent"
      BY <2>2 DEF InFlight
    <3> QED BY <1>0, <1>k, <3>1, <3>2 DEF Grows
  <2> QED BY <2>1, <2>2, <1>k DEF Vote
<1>2. CASE \E i \in DOMAIN sends : VoteAnswered(i)
  <2>1. PICK i \in DOMAIN sends : VoteAnswered(i)
    BY <1>2
  <2>2. CASE VoteAccepted(i)
    <3>1. rounds' = [rounds EXCEPT ![i].vote = sends[i].vote]
          /\ \E b : sends' = [sends EXCEPT ![i].phase = "recorded", ![i].continuable = b]
      BY <2>1, <2>2 DEF VoteAnswered, Voted
    <3>2. rounds'[i].vote = sends[i].vote
      BY <1>0, <3>1 DEF RoundsInv, RoundRecord
    <3>3. sends'[i].vote = sends[i].vote /\ DOMAIN sends' = DOMAIN sends
          /\ \A j \in DOMAIN sends : j # i => sends'[j] = sends[j]
      BY <1>0, <3>1 DEF SendRecord
    <3> QED BY <1>k, <3>2, <3>3
  <2>3. CASE ~VoteAccepted(i)
    BY <1>0, <1>k, <2>1, <2>3 DEF VoteAnswered, SendRecord
  <2> QED BY <2>2, <2>3
<1>3. CASE \E i \in DOMAIN sends : VoteCallFails(i)
  <2>1. PICK i \in DOMAIN sends : VoteCallFails(i)
    BY <1>3
  <2> QED BY <1>0, <1>k, <2>1 DEF VoteCallFails, SendRecord
<1>4. CASE \E i \in DOMAIN sends : Forget(i)
  <2>1. PICK i \in DOMAIN sends : Forget(i)
    BY <1>4
  <2> QED BY <1>0, <1>k, <2>1 DEF Forget
<1>5. CASE Restart
  BY <1>5 DEF Restart, NoSends
<1>6. CASE UNCHANGED sends
  BY <1>6, <1>k
<1> QED BY Steps, <1>1, <1>2, <1>3, <1>4, <1>5, <1>6, Zenon
     DEF vars, bridge, Expire, Ask, Join, TimerFires, LookupAnswered, LookupStale, LookupFails, PostAnswered, PostFails, Accepted, Refused, Show, ShowError, VoteReturns

LEMMA RequestsHeldStep == ASSUME RoundsInv, HeldInv, [Next]_vars PROVE RequestsHeld'
<1> SUFFICES ASSUME NEW q \in Requests PROVE RequestHeld(rounds', DOMAIN sends', req'[q], q)
  BY DEF RequestsHeld
<1>0. Grows /\ req \in [Requests -> RequestRecord] /\ sends \in [DOMAIN sends -> SendRecord]
  BY ArenaMoves DEF HeldInv, TypeOK, ReqType, SendsType
<1>k. \A r \in Requests : RequestHeld(rounds, DOMAIN sends, req[r], r)
                          /\ RequestHeld(rounds', DOMAIN sends, req[r], r)
  BY <1>0, RequestKept DEF HeldInv, RequestsHeld
<1>b. \A v \in Ballots : v \notin {NoVote, "nothing", "served", "failed", "rejected", "dropped"}
  BY DEF Ballots, Decisive, NoVote
<1>1. CASE \E r \in Requests : Ask(r)
  <2>1. PICK r \in Requests : Ask(r)
    BY <1>1
  <2> QED BY <1>0, <1>k, <2>1 DEF Ask, Park, RequestHeld, RequestRecord
<1>2. CASE \E r \in Requests : Join(r)
  <2>1. PICK r \in Requests : Join(r)
    BY <1>2
  <2>2. PICK e \in Requests : req' = Park(r, e) /\ Key[e] = Key[r] /\ Kind[r] = "slot" /\ UNCHANGED sends
    BY <2>1 DEF Join, Siblings
  <2> QED BY <1>0, <1>k, <2>2 DEF Park, RequestHeld, RequestRecord
<1>3. CASE \E r \in Requests : Show(r)
  <2>1. PICK r \in Requests : Show(r)
    BY <1>3
  <2> DEFINE new == [req[r] EXCEPT !.at = "end", !.told = "served",
                                   !.round = starts[req[r].entry].round,
                                   !.paired = Kind[r] = "slot" /\ IsPaired(r)]
  <2>2. new.at = "end" /\ new.told = "served"
    BY <1>0 DEF RequestRecord
  <2>3. req' = [req EXCEPT ![r] = new] /\ UNCHANGED sends
    BY <2>1 DEF Show
  <2> HIDE DEF new
  <2> QED BY <1>0, <1>b, <1>k, <2>2, <2>3 DEF RequestHeld
<1>4. CASE \E r \in Requests : ShowError(r)
  <2>1. PICK r \in Requests : ShowError(r)
    BY <1>4
  <2> QED BY <1>0, <1>b, <1>k, <2>1 DEF ShowError, RequestHeld, RequestRecord
<1>5. CASE \E r \in Requests : Vote(r)
  <2>1. PICK r \in Requests : Vote(r)
    BY <1>5
  <2> DEFINE m == chats[Key[r]].matchup
  <2>2. m.votable => Own(rounds, m.round, Key[r])
    BY KeyOf DEF HeldInv, ChatsHeld, ChatHeld
  <2>3. m.recorded # NoVote => m.round \in DOMAIN rounds /\ rounds[m.round].vote = m.recorded
    BY KeyOf DEF HeldInv, ChatsHeld, ChatHeld, Own
  <2>4. UNCHANGED rounds
    BY <2>1 DEF Vote
  <2>5. CASE req' = [req EXCEPT ![r].at = "end"] /\ UNCHANGED sends
    <3>1. req'[q] = req[q] \/ (q = r /\ req'[r].at = "end" /\ req'[r].told = req[r].told
                                      /\ req'[r].round = req[r].round)
      BY <1>0, <2>5 DEF RequestRecord
    <3> QED BY <1>k, <2>4, <2>5, <3>1 DEF RequestHeld
  <2>6. CASE m.recorded # NoVote /\ UNCHANGED sends
             /\ req' = [req EXCEPT ![r].at = "end", ![r].told = m.recorded, ![r].round = m.round]
    BY <1>0, <1>k, <2>3, <2>4, <2>6 DEF RequestHeld, RequestRecord
  <2>7. CASE m.votable /\ sends' = InFlight(m.round, Choice[r]) /\ req[r].at = "new"
             /\ req' = [req EXCEPT ![r].at = "voting", ![r].round = m.round]
    <3>1. DOMAIN sends' = DOMAIN sends \cup {m.round}
      BY <2>7 DEF InFlight
    <3> QED BY <1>0, <1>k, <2>2, <2>4, <2>7, <3>1 DEF RequestHeld, RequestRecord
  <2> QED BY <2>1, <2>5, <2>6, <2>7 DEF Vote
<1>6. CASE \E i \in DOMAIN sends : VoteAnswered(i) \/ VoteCallFails(i)
  <2>1. PICK i \in DOMAIN sends : VoteAnswered(i) \/ VoteCallFails(i)
    BY <1>6
  <2>2. DOMAIN sends' = DOMAIN sends /\ UNCHANGED req
    BY <1>0, <2>1 DEF VoteAnswered, VoteCallFails
  <2> QED BY <1>k, <2>2
<1>7. CASE \E r \in Requests : VoteReturns(r)
  <2>1. PICK r \in Requests : VoteReturns(r)
    BY <1>7
  <2>2. UNCHANGED <<rounds, sends>>
    BY <2>1 DEF VoteReturns
  <2>3. CASE sends[req[r].round].phase = "recorded"
             /\ req' = [req EXCEPT ![r].at = "end", ![r].told = Reported(r)]
    <3>1. req[r].round \in DOMAIN rounds /\ rounds[req[r].round].vote = Reported(r)
      BY <1>k, <2>1, <2>3 DEF VoteReturns, RequestHeld, HeldInv, SendsHeld, Reported
    <3> QED BY <1>0, <1>k, <2>2, <2>3, <3>1 DEF RequestHeld, RequestRecord
  <2>4. CASE req' = [req EXCEPT ![r].at = "end", ![r].told = "rejected"]
    BY <1>0, <1>b, <1>k, <2>2, <2>4 DEF RequestHeld, RequestRecord
  <2> QED BY <2>1, <2>3, <2>4 DEF VoteReturns
<1>8. CASE \E i \in DOMAIN sends : Forget(i)
  <2>1. PICK i \in DOMAIN sends : Forget(i)
    BY <1>8
  <2>2. DOMAIN sends' = DOMAIN sends \ {i} /\ UNCHANGED <<rounds, req>>
        /\ \A r \in Requests : ~(req[r].at = "voting" /\ req[r].round = i)
    BY <2>1 DEF Forget
  <2> QED BY <1>k, <2>2 DEF RequestHeld
<1>9. CASE Restart
  <2>1. req'[q] = IF req[q].at \in {"new", "end"} THEN req[q]
                  ELSE [req[q] EXCEPT !.at = "end", !.told = "dropped"]
    BY <1>9 DEF Restart
  <2>2. rounds' = rounds /\ DOMAIN sends' = {}
    BY <1>9 DEF Restart, NoSends
  <2>3. CASE req[q].at \in {"new", "end"}
    BY <1>k, <2>1, <2>2, <2>3 DEF RequestHeld
  <2>4. CASE req[q].at \notin {"new", "end"}
    <3>1. req'[q].at = "end" /\ req'[q].told = "dropped"
      BY <1>0, <2>1, <2>4 DEF RequestRecord
    <3> QED BY <1>b, <3>1 DEF RequestHeld
  <2> QED BY <2>3, <2>4
<1>10. CASE UNCHANGED <<req, sends>>
  BY <1>10, <1>k
<1> QED BY Steps, <1>1, <1>2, <1>3, <1>4, <1>5, <1>6, <1>7, <1>8, <1>9, <1>10
     DEF vars, bridge, Expire, TimerFires, LookupAnswered, LookupStale, LookupFails, PostAnswered, PostFails, Accepted, Refused

(***************************************************************************)
(* Who shares a round.                                                     *)
(***************************************************************************)
\* r joins the start e, its own or one still open.
Takes(r, e) ==
  /\ req[r].at = "new" /\ Kind[r] = Kind[e]
  /\ req' = Park(r, e)
  /\ \E new \in StartRecord :
       /\ starts' = [starts EXCEPT ![e] = new]
       /\ new.round = NoRound
       /\ new.phase \in {"open", "lookup", "post"}
       /\ new.phase = "open" => Kind[e] = "slot"
       /\ Kind[e] = "slot" => new.mode = "duel"
       /\ \/ e = r /\ new.claimed = {r}
          \/ starts[e].phase = "open" /\ new.claimed = starts[e].claimed \cup {r}
  /\ UNCHANGED rounds

\* The start e goes on, with the round it has or one nobody has seen.
Moves(e) ==
  /\ starts[e].phase \notin {"none", "served"}
  /\ UNCHANGED req
  /\ \E new :
       /\ starts' = [starts EXCEPT ![e] = new]
       /\ new.claimed = starts[e].claimed /\ new.mode = starts[e].mode
       /\ new.phase \notin {"none", "open"}
       /\ new.round = starts[e].round \/ new.round \notin DOMAIN rounds

\* The handler of r goes on, or ends, without being served.
Goes(r) ==
  /\ UNCHANGED starts
  /\ req[r].told # "served"
  /\ \A q \in Requests \ {r} : req'[q] = req[q]
  /\ req'[r].entry = req[r].entry /\ req'[r].told # "served"
  /\ req'[r].at \notin {"new", "parked"}

\* The handler of r shows the round of the start e.
Shows(r, e) ==
  /\ UNCHANGED <<rounds, starts>>
  /\ req[r].at = "parked" /\ req[r].entry = e /\ starts[e].phase = "served"
  /\ \A q \in Requests \ {r} : req'[q] = req[q]
  /\ req'[r].at = "end" /\ req'[r].entry = e /\ req'[r].told = "served"
  /\ req'[r].round = starts[e].round
  /\ req'[r].paired <=> Kind[r] = "slot" /\ BothColumns(starts[e].claimed)

\* A restart as the requests see it.
Drops ==
  /\ \A e \in Requests : starts'[e].phase = "none" /\ starts'[e].round = NoRound
                         /\ starts'[e].mode = "duel"
  /\ \A r \in Requests : \/ req'[r] = req[r] /\ req[r].at \in {"new", "end"}
                         \/ /\ req[r].at \in {"parked", "voting"} /\ req'[r].at = "end"
                            /\ req'[r].entry = req[r].entry /\ req'[r].told = "dropped"

LEMMA TakesStep ==
  ASSUME HeldInv, Claims, NEW r \in Requests, Ask(r) \/ Join(r)
  PROVE  \E e \in Requests : Takes(r, e)
<1>0. starts \in [Requests -> StartRecord]
  BY DEF HeldInv, TypeOK, StartsType
<1>1. \A e \in Requests : \A claimed \in SUBSET Requests, mode \in Modes :
        LET new == Started(e, claimed, mode) IN
        /\ new \in StartRecord /\ new.claimed = claimed /\ new.mode = mode
        /\ new.round = NoRound /\ new.phase \in {"lookup", "post"}
  <2> TAKE e \in Requests
  <2> TAKE claimed \in SUBSET Requests, mode \in Modes
  <2>1. Started(e, claimed, mode) \in StartRecord
    BY StartedTyped DEF HeldInv, TypeOK
  <2> QED BY <2>1 DEF Started, NoStart
<1>2. CASE Ask(r)
  <2>1. PICK mode \in Modes : starts' = [starts EXCEPT ![r] = Started(r, {r}, mode)]
    BY <1>2 DEF Ask
  <2>2. Kind[r] # "slot" /\ req[r].at = "new" /\ req' = Park(r, r) /\ UNCHANGED rounds
    BY <1>2 DEF Ask
  <2> DEFINE new == Started(r, {r}, mode)
  <2>3. /\ new \in StartRecord /\ new.claimed = {r}
        /\ new.round = NoRound /\ new.phase \in {"lookup", "post"}
    BY <1>1
  <2> HIDE DEF new
  <2> QED BY <2>1, <2>2, <2>3 DEF Takes, new
<1>3. CASE Join(r)
  <2>0. Kind[r] = "slot" /\ req[r].at = "new" /\ UNCHANGED rounds
    BY <1>3 DEF Join
  <2>1. CASE req' = Park(r, r) /\ starts' = [starts EXCEPT ![r] =
               [NoStart EXCEPT !.phase = "open", !.claimed = {r}]]
    <3> DEFINE new == [NoStart EXCEPT !.phase = "open", !.claimed = {r}]
    <3>1. new \in StartRecord
      BY DEF NoStart, NoConv, NoRound, Modes, Phases, StartRecord
    <3>2. new.round = NoRound /\ new.phase = "open" /\ new.mode = "duel" /\ new.claimed = {r}
      BY DEF NoStart
    <3> HIDE DEF new
    <3> QED BY <2>0, <2>1, <3>1, <3>2 DEF Takes, new
  <2>2. ASSUME NEW e \in Siblings(r), req' = Park(r, e),
               starts' = [starts EXCEPT ![e] = Started(e, starts[e].claimed \cup {r}, "duel")]
        PROVE  Takes(r, e)
    <3>1. e \in Requests /\ starts[e].phase = "open" /\ Kind[e] = "slot"
      BY <2>2 DEF Siblings, Claims
    <3>2. starts[e].claimed \cup {r} \in SUBSET Requests /\ "duel" \in Modes
      BY <1>0, <3>1 DEF StartRecord, Modes
    <3> DEFINE new == Started(e, starts[e].claimed \cup {r}, "duel")
    <3>3. /\ new \in StartRecord /\ new.claimed = starts[e].claimed \cup {r} /\ new.mode = "duel"
          /\ new.round = NoRound /\ new.phase \in {"lookup", "post"}
      BY <1>1, <3>1, <3>2
    <3> HIDE DEF new
    <3> QED BY <2>0, <2>2, <3>1, <3>3 DEF Takes, new
  <2>3. ASSUME NEW e \in Siblings(r), req' = Park(r, e),
               starts' = [starts EXCEPT ![e] = [starts[e] EXCEPT !.claimed = starts[e].claimed \cup {r}]]
        PROVE  Takes(r, e)
    <3>1. e \in Requests /\ starts[e].phase = "open" /\ Kind[e] = "slot" /\ starts[e].mode = "duel"
      BY <2>3 DEF Siblings, Claims
    <3>2. starts[e].round = NoRound
      BY <3>1 DEF HeldInv, StartsHeld, StartHeld
    <3> DEFINE new == [starts[e] EXCEPT !.claimed = starts[e].claimed \cup {r}]
    <3>3. new \in StartRecord /\ new.claimed = starts[e].claimed \cup {r}
          /\ new.round = NoRound /\ new.phase = "open" /\ new.mode = "duel"
      BY <1>0, <3>1, <3>2 DEF StartRecord
    <3> HIDE DEF new
    <3> QED BY <2>0, <2>3, <3>1, <3>3 DEF Takes, new
  <2>4. \A e \in Siblings(r) : e \in Requests
    BY DEF Siblings
  <2>5. \/ req' = Park(r, r) /\ starts' = [starts EXCEPT ![r] =
               [NoStart EXCEPT !.phase = "open", !.claimed = {r}]]
        \/ \E e \in Siblings(r) : req' = Park(r, e) /\ starts' = [starts EXCEPT ![e] =
             Started(e, starts[e].claimed \cup {r}, "duel")]
        \/ \E e \in Siblings(r) : req' = Park(r, e) /\ starts' = [starts EXCEPT ![e] =
             [starts[e] EXCEPT !.claimed = starts[e].claimed \cup {r}]]
    BY <1>0, <1>3, <2>4 DEF Join
  <2>6. CASE req' = Park(r, r) /\ starts' = [starts EXCEPT ![r] =
               [NoStart EXCEPT !.phase = "open", !.claimed = {r}]]
    BY <2>1, <2>6
  <2> QED BY <2>2, <2>3, <2>4, <2>5, <2>6, <2>1
<1> QED BY <1>2, <1>3

LEMMA MovesStep ==
  ASSUME RoundsInv, HeldInv, NEW e \in Requests,
         \/ TimerFires(e) \/ LookupAnswered(e) \/ LookupStale(e) \/ LookupFails(e)
         \/ PostAnswered(e) \/ PostFails(e) \/ Accepted(e) \/ Refused(e),
         Claims
  PROVE  Moves(e)
<1> USE DEF Moves
<1>0. starts \in [Requests -> StartRecord] /\ StartHeld(rounds, starts[e], Key[e])
  BY DEF HeldInv, TypeOK, StartsType, StartsHeld
<1>1. CASE TimerFires(e)
  <2> DEFINE new == Started(e, starts[e].claimed, "duel")
  <2>1. starts[e].phase = "open" /\ starts' = [starts EXCEPT ![e] = new] /\ UNCHANGED req
    BY <1>0, <1>1 DEF TimerFires
  <2>2. starts[e].mode = "duel" /\ starts[e].round = NoRound
    BY <1>0, <2>1 DEF Claims, StartHeld
  <2>4. new.claimed = starts[e].claimed /\ new.mode = "duel" /\ new.round = NoRound
        /\ new.phase \in {"lookup", "post"}
    BY DEF Started, NoStart
  <2> HIDE DEF new
  <2> QED BY <2>1, <2>2, <2>4
<1>2. ASSUME NEW new, starts' = [starts EXCEPT ![e] = new], UNCHANGED req,
             new.claimed = starts[e].claimed, new.mode = starts[e].mode,
             starts[e].phase \notin {"none", "served"}, new.phase \notin {"none", "open"},
             new.round = starts[e].round \/ new.round = Len(rounds) + 1
      PROVE  Moves(e)
  <2>1. Len(rounds) + 1 \notin DOMAIN rounds
    BY DEF RoundsInv
  <2> QED BY <1>2, <2>1
<1>3. ASSUME NEW phase \in {"post", "stale", "accepted", "refused", "served"}, UNCHANGED req,
             starts' = [starts EXCEPT ![e].phase = phase], starts[e].phase \notin {"none", "served"}
      PROVE  Moves(e)
  <2> DEFINE new == [starts[e] EXCEPT !.phase = phase]
  <2>1. new.claimed = starts[e].claimed /\ new.mode = starts[e].mode
        /\ new.round = starts[e].round /\ new.phase = phase
    BY <1>0 DEF StartRecord
  <2>2. starts' = [starts EXCEPT ![e] = new]
    BY <1>0, <1>3
  <2> HIDE DEF new
  <2> QED BY <1>2, <1>3, <2>1, <2>2
<1>4. CASE LookupAnswered(e) \/ LookupFails(e) \/ Accepted(e)
  BY <1>3, <1>4 DEF LookupAnswered, LookupFails, Accepted
<1>5. CASE /\ starts' = [starts EXCEPT ![e].phase = "post", ![e].conv = NoConv]
           /\ UNCHANGED req /\ starts[e].phase \in {"stale", "refused"}
  <2> DEFINE new == [starts[e] EXCEPT !.phase = "post", !.conv = NoConv]
  <2>1. new.claimed = starts[e].claimed /\ new.mode = starts[e].mode
        /\ new.round = starts[e].round /\ new.phase = "post"
    BY <1>0 DEF StartRecord
  <2>2. starts' = [starts EXCEPT ![e] = new]
    BY <1>0, <1>5
  <2> HIDE DEF new
  <2> QED BY <1>2, <1>5, <2>1, <2>2
<1>6. ASSUME NEW error \in {"refusal", "transport"}, UNCHANGED req,
             starts' = [starts EXCEPT ![e].phase = "failed", ![e].error = error],
             starts[e].phase \in {"refused", "post"}
      PROVE  Moves(e)
  <2> DEFINE new == [starts[e] EXCEPT !.phase = "failed", !.error = error]
  <2>1. new.claimed = starts[e].claimed /\ new.mode = starts[e].mode
        /\ new.round = starts[e].round /\ new.phase = "failed"
    BY <1>0 DEF StartRecord
  <2>2. starts' = [starts EXCEPT ![e] = new]
    BY <1>0, <1>6
  <2> HIDE DEF new
  <2> QED BY <1>2, <1>6, <2>1, <2>2
<1>7. CASE LookupStale(e)
  BY <1>5, <1>7 DEF LookupStale
<1>8. CASE Refused(e)
  BY <1>5, <1>6, <1>8 DEF Refused
<1>9. CASE PostFails(e)
  BY <1>6, <1>9 DEF PostFails
<1>10. CASE PostAnswered(e)
  <2>1. CASE \E phase \in {"accepted", "refused"} : starts' = [starts EXCEPT ![e].phase = phase]
    BY <1>3, <1>10, <2>1 DEF PostAnswered
  <2>2. CASE starts' = [starts EXCEPT ![e].phase = "accepted", ![e].round = Len(rounds) + 1]
    <3> DEFINE new == [starts[e] EXCEPT !.phase = "accepted", !.round = Len(rounds) + 1]
    <3>1. new.claimed = starts[e].claimed /\ new.mode = starts[e].mode
          /\ new.round = Len(rounds) + 1 /\ new.phase = "accepted"
      BY <1>0 DEF StartRecord
    <3>2. starts' = [starts EXCEPT ![e] = new]
      BY <1>0, <2>2
    <3>3. UNCHANGED req /\ starts[e].phase = "post"
      BY <1>10 DEF PostAnswered
    <3> HIDE DEF new
    <3> QED BY <1>2, <3>1, <3>2, <3>3
  <2> QED BY <1>10, <2>1, <2>2 DEF PostAnswered
<1> QED BY <1>1, <1>4, <1>7, <1>8, <1>9, <1>10

LEMMA GoesStep ==
  ASSUME RoundsInv, HeldInv, Together, NEW r \in Requests,
         Vote(r) \/ VoteReturns(r) \/ ShowError(r)
  PROVE  Goes(r)
<1> USE DEF Goes
<1>0. req \in [Requests -> RequestRecord]
  BY DEF HeldInv, TypeOK, ReqType
<1>b. "served" \notin Ballots
  BY DEF Ballots, Decisive
<1>1. req[r].told # "served" /\ UNCHANGED starts
  BY Zenon DEF Vote, VoteReturns, ShowError, Together, Served, ServedBy
<1>2. CASE ShowError(r)
  BY <1>0, <1>1, <1>2 DEF ShowError, RequestRecord
<1>3. CASE Vote(r)
  <2>1. chats[Key[r]].matchup.recorded # NoVote => chats[Key[r]].matchup.recorded \in Ballots
    BY KeyOf DEF HeldInv, TypeOK, ChatsType, Matchup, MaybeVote
  <2> QED BY <1>0, <1>1, <1>b, <1>3, <2>1 DEF Vote, RequestRecord
<1>4. CASE VoteReturns(r)
  <2>1. Reported(r) \in Ballots
    BY <1>4, HeldRounds DEF VoteReturns, Reported, HeldInv, TypeOK, SendsType, SendRecord
  <2> QED BY <1>0, <1>1, <1>b, <1>4, <2>1 DEF VoteReturns, RequestRecord
<1> QED BY <1>2, <1>3, <1>4

LEMMA ShowsStep ==
  ASSUME HeldInv, RoundsInv, NEW r \in Requests, Show(r)
  PROVE  req[r].entry \in Requests /\ Shows(r, req[r].entry)
<1>0. req \in [Requests -> RequestRecord]
  BY DEF HeldInv, TypeOK, ReqType
<1>1. req[r].entry \in Requests
  BY HeldRounds DEF Show
<1> DEFINE new == [req[r] EXCEPT !.at = "end", !.told = "served",
                                 !.round = starts[req[r].entry].round,
                                 !.paired = Kind[r] = "slot" /\ IsPaired(r)]
<1>2. req' = [req EXCEPT ![r] = new] /\ UNCHANGED <<rounds, starts>>
      /\ req[r].at = "parked" /\ starts[req[r].entry].phase = "served"
  BY DEF Show
<1>3. new.at = "end" /\ new.told = "served" /\ new.entry = req[r].entry
      /\ new.round = starts[req[r].entry].round
  BY <1>0 DEF RequestRecord
<1>4. new.paired <=> Kind[r] = "slot" /\ BothColumns(starts[req[r].entry].claimed)
  BY <1>0 DEF RequestRecord, IsPaired, BothColumns
<1> HIDE DEF new
<1> QED BY <1>0, <1>1, <1>2, <1>3, <1>4 DEF Shows

LEMMA DropsStep == ASSUME HeldInv, Restart PROVE Drops
<1>0. req \in [Requests -> RequestRecord]
  BY DEF HeldInv, TypeOK, ReqType
<1> QED BY <1>0 DEF Restart, Drops, NoStart, RequestRecord

\* Every step, as far as starts and requests are concerned.
SharedStep ==
  \/ \E r, e \in Requests : Takes(r, e) \/ Shows(r, e)
  \/ \E e \in Requests : Moves(e)
  \/ \E r \in Requests : Goes(r)
  \/ Drops
  \/ UNCHANGED <<starts, req>>

LEMMA SharedMoves ==
  ASSUME RoundsInv, HeldInv, SharedInv, [Next]_vars PROVE SharedStep
<1> USE DEF SharedStep, SharedInv
<1>1. CASE \E r \in Requests : Ask(r) \/ Join(r)
  BY <1>1, TakesStep
<1>2. CASE \E e \in Requests :
             \/ TimerFires(e) \/ LookupAnswered(e) \/ LookupStale(e) \/ LookupFails(e)
             \/ PostAnswered(e) \/ PostFails(e) \/ Accepted(e) \/ Refused(e)
  BY <1>2, MovesStep
<1>3. CASE \E r \in Requests : Vote(r) \/ VoteReturns(r) \/ ShowError(r)
  BY <1>3, GoesStep
<1>4. CASE \E r \in Requests : Show(r)
  BY <1>4, ShowsStep
<1>5. CASE Restart
  BY <1>5, DropsStep
<1>6. CASE UNCHANGED <<starts, req>>
  BY <1>6
<1> QED BY Steps, <1>1, <1>2, <1>3, <1>4, <1>5, <1>6
     DEF vars, bridge, Expire, VoteAnswered, VoteCallFails, Forget

\* A request that joins a start, seen from the requests.
LEMMA TakesSeen ==
  ASSUME HeldInv, NEW r \in Requests, NEW e \in Requests, Takes(r, e)
  PROVE  /\ \A q \in Requests \ {r} : req'[q] = req[q]
         /\ req'[r].at = "parked" /\ req'[r].entry = e /\ req'[r].told = req[r].told
<1> QED BY DEF Takes, Park, HeldInv, TypeOK, ReqType, RequestRecord

LEMMA ClaimsStep ==
  ASSUME RoundsInv, HeldInv, SharedInv, SharedStep PROVE Claims'
<1>0. starts \in [Requests -> StartRecord] /\ req \in [Requests -> RequestRecord]
  BY DEF HeldInv, TypeOK, StartsType, ReqType
<1> USE DEF SharedInv, Claims
<1>1. ASSUME NEW r \in Requests, NEW e \in Requests, Takes(r, e) PROVE Claims'
  <2>1. PICK new \in StartRecord :
          /\ starts' = [starts EXCEPT ![e] = new]
          /\ new.phase \in {"open", "lookup", "post"}
          /\ new.phase = "open" => Kind[e] = "slot"
          /\ Kind[e] = "slot" => new.mode = "duel"
          /\ \/ e = r /\ new.claimed = {r}
             \/ starts[e].phase = "open" /\ new.claimed = starts[e].claimed \cup {r}
    BY <1>1 DEF Takes
  <2>2. req[r].at = "new" /\ Kind[r] = Kind[e]
    BY <1>1 DEF Takes
  <2>3. /\ \A q \in Requests \ {r} : req'[q] = req[q]
        /\ req'[r].at = "parked" /\ req'[r].entry = e
    BY <1>1, TakesSeen
  <2>4. starts'[e] = new /\ \A f \in Requests \ {e} : starts'[f] = starts[f]
    BY <1>0, <2>1
  <2>5. starts[e].claimed \subseteq Requests
    BY <1>0 DEF StartRecord
  <2>6. \A f \in Requests \ {e} : starts[f].phase # "none" => r \notin starts[f].claimed /\ f # r
    BY <2>2
  <2>7. starts[e].phase = "open" => r \notin starts[e].claimed /\ e # r
    BY <2>2
  <2>8. \A q \in Requests : req[q].at = "parked" /\ req[q].entry = e =>
          starts[e].phase # "none" /\ q \in starts[e].claimed
    OBVIOUS
  <2>9. SUFFICES ASSUME NEW f \in Requests
        PROVE /\ starts'[f].phase # "none" => req'[f].at # "new"
              /\ starts'[f].phase # "none" => \A q \in starts'[f].claimed :
                   req'[q].at # "new" /\ req'[q].entry = f /\ Kind[q] = Kind[f]
              /\ starts'[f].phase = "open" => Kind[f] = "slot"
              /\ Kind[f] = "slot" => starts'[f].mode = "duel"
              /\ \A q \in Requests : req'[q].at = "parked" /\ req'[q].entry = f =>
                   starts'[f].phase # "none" /\ q \in starts'[f].claimed
    OBVIOUS
  <2>10. CASE f = e
    BY <2>1, <2>2, <2>3, <2>4, <2>5, <2>7, <2>8, <2>10
  <2>11. CASE f # e
    <3>1. starts[f].claimed \subseteq Requests
      BY <1>0 DEF StartRecord
    <3> QED BY <2>2, <2>3, <2>4, <2>6, <2>11, <3>1
  <2> QED BY <2>10, <2>11
<1>2. ASSUME NEW r \in Requests, NEW e \in Requests, Shows(r, e) PROVE Claims'
  <2>1. \A f \in Requests : starts[f].claimed \subseteq Requests
    BY <1>0 DEF StartRecord
  <2>2. UNCHANGED starts /\ \A q \in Requests : req'[q].entry = req[q].entry
          /\ (req'[q].at = "new" => req[q].at = "new") /\ (req'[q].at = "parked" => req[q].at = "parked")
    BY <1>2 DEF Shows
  <2> QED BY <2>1, <2>2
<1>3. ASSUME NEW e \in Requests, Moves(e) PROVE Claims'
  <2>1. PICK new : /\ starts' = [starts EXCEPT ![e] = new]
                   /\ new.claimed = starts[e].claimed /\ new.mode = starts[e].mode
                   /\ new.phase \notin {"none", "open"}
    BY <1>3 DEF Moves
  <2>2. UNCHANGED req /\ starts[e].phase # "none"
    BY <1>3 DEF Moves
  <2>3. starts'[e] = new /\ \A f \in Requests \ {e} : starts'[f] = starts[f]
    BY <1>0, <2>1
  <2> QED BY <2>1, <2>2, <2>3
<1>4. ASSUME NEW r \in Requests, Goes(r) PROVE Claims'
  <2>1. \A f \in Requests : starts[f].claimed \subseteq Requests
    BY <1>0 DEF StartRecord
  <2>2. UNCHANGED starts /\ \A q \in Requests : req'[q].entry = req[q].entry
          /\ (req'[q].at = "new" => req[q].at = "new") /\ (req'[q].at = "parked" => req[q].at = "parked")
    BY <1>4 DEF Goes
  <2> QED BY <2>1, <2>2
<1>5. CASE Drops
  BY <1>5 DEF Drops
<1>6. CASE UNCHANGED <<starts, req>>
  BY <1>6
<1> QED BY <1>1, <1>2, <1>3, <1>4, <1>5, <1>6 DEF SharedStep

\* Two columns among the requests of a start, and only one.
LEMMA ColumnsCounted ==
  ASSUME NEW claimed \in SUBSET Requests
  PROVE  IsFiniteSet(Columns(claimed))
<1>1. IsFiniteSet(claimed)
  BY BridgeAssumption, FS_Subset
<1> DEFINE column == [q \in claimed |-> Column[q]]
<1>2. column \in Surjection(claimed, Columns(claimed))
  BY DEF Surjection, Columns
<1> HIDE DEF column
<1> QED BY <1>1, <1>2, FS_Surjection

LEMMA OneColumn ==
  ASSUME NEW claimed \in SUBSET Requests, NEW r \in claimed, BothColumns(claimed)
  PROVE  \E q \in claimed : Column[q] # Column[r]
<1> SUFFICES ASSUME \A q \in claimed : Column[q] = Column[r] PROVE FALSE
  OBVIOUS
<1>1. Columns(claimed) = {Column[r]}
  BY DEF Columns
<1>2. Cardinality({Column[r]}) = 1
  BY FS_Singleton
<1> QED BY <1>1, <1>2 DEF BothColumns

LEMMA TwoColumns ==
  ASSUME NEW claimed \in SUBSET Requests, NEW r \in claimed, NEW q \in claimed,
         Column[q] # Column[r]
  PROVE  BothColumns(claimed)
<1>1. {Column[q], Column[r]} \subseteq Columns(claimed)
  BY DEF Columns
<1>2. Cardinality({Column[q], Column[r]}) = 2
  <2>1. Cardinality({Column[r]}) = 1 /\ IsFiniteSet({Column[r]})
    BY FS_Singleton
  <2>2. {Column[q], Column[r]} = {Column[r]} \cup {Column[q]} /\ Column[q] \notin {Column[r]}
    OBVIOUS
  <2>3. Cardinality({Column[r]} \cup {Column[q]}) = Cardinality({Column[r]}) + 1
    BY <2>1, <2>2, FS_AddElement
  <2> QED BY <2>1, <2>2, <2>3
<1>3. Cardinality({Column[q], Column[r]}) <= Cardinality(Columns(claimed))
  BY <1>1, ColumnsCounted, FS_Subset
<1>4. Cardinality(Columns(claimed)) \in Nat
  BY ColumnsCounted, FS_CardinalityType
<1> QED BY <1>2, <1>3, <1>4 DEF BothColumns

LEMMA ApartStep ==
  ASSUME RoundsInv, HeldInv, SharedInv, Grows, SharedStep PROVE Apart'
<1>0. starts \in [Requests -> StartRecord] /\ req \in [Requests -> RequestRecord]
  BY DEF HeldInv, TypeOK, StartsType, ReqType
<1>s. \A r \in Requests : Served(r) => ServedBy(r, req[r].entry)
  BY DEF SharedInv, Together
<1>r. \A f \in Requests : starts[f].round # NoRound => starts[f].round \in DOMAIN rounds
  BY DEF HeldInv, StartsHeld, StartHeld, Own
<1> USE DEF SharedInv, Apart, Served
<1>1. ASSUME NEW r \in Requests, NEW e \in Requests, Takes(r, e) PROVE Apart'
  <2>1. starts'[e].round = NoRound /\ \A f \in Requests \ {e} : starts'[f] = starts[f]
    BY <1>0, <1>1 DEF Takes
  <2>2. /\ \A q \in Requests \ {r} : req'[q] = req[q]
        /\ req'[r].told = req[r].told /\ req[r].at = "new"
    BY <1>1, TakesSeen DEF Takes
  <2>3. req[r].told # "served"
    BY <1>s, <2>2 DEF ServedBy
  <2> QED BY <2>1, <2>2, <2>3
<1>2. ASSUME NEW r \in Requests, NEW e \in Requests, Shows(r, e) PROVE Apart'
  <2>1. UNCHANGED starts /\ \A q \in Requests \ {r} : req'[q] = req[q]
    BY <1>2 DEF Shows
  <2>2. req'[r].entry = e /\ req'[r].round = starts[e].round
    BY <1>2 DEF Shows
  <2>3. \A q \in Requests : Served(q) /\ req[q].round = starts[e].round =>
          req[q].entry = e \/ starts[e].round = NoRound
    OBVIOUS
  <2> QED BY <2>1, <2>2, <2>3
<1>3. ASSUME NEW e \in Requests, Moves(e) PROVE Apart'
  <2>1. PICK new : /\ starts' = [starts EXCEPT ![e] = new]
                   /\ new.round = starts[e].round \/ new.round \notin DOMAIN rounds
    BY <1>3 DEF Moves
  <2>2. UNCHANGED req
    BY <1>3 DEF Moves
  <2>3. starts'[e] = new /\ \A f \in Requests \ {e} : starts'[f] = starts[f]
    BY <1>0, <2>1
  <2>4. \A q \in Requests : Served(q) => req[q].round = NoRound \/ req[q].round \in DOMAIN rounds
    BY <1>s DEF ServedBy
  <2> QED BY <1>r, <2>1, <2>2, <2>3, <2>4
<1>4. ASSUME NEW r \in Requests, Goes(r) PROVE Apart'
  <2>1. UNCHANGED starts /\ req'[r].told # "served" /\ \A q \in Requests \ {r} : req'[q] = req[q]
    BY <1>4 DEF Goes
  <2> QED BY <2>1
<1>5. CASE Drops
  <2>1. \A e \in Requests : starts'[e].round = NoRound
    BY <1>5 DEF Drops
  <2>2. \A r \in Requests : req'[r] = req[r] \/ req'[r].told # "served"
    BY <1>5 DEF Drops
  <2> QED BY <2>1, <2>2
<1>6. CASE UNCHANGED <<starts, req>>
  BY <1>6
<1> QED BY <1>1, <1>2, <1>3, <1>4, <1>5, <1>6 DEF SharedStep

\* A request stays served by its start whatever happens to other requests.
LEMMA ServedKept ==
  ASSUME Grows, NEW r \in Requests, NEW e \in Requests, ServedBy(r, e),
         req'[r] = req[r],
         \A q \in Requests : req[q].at # "new" => req'[q].at # "new" /\ req'[q].entry = req[q].entry,
         starts'[e].phase = "none" \/ starts'[e] = starts[e]
  PROVE  ServedBy(r, e)'
BY DEF Grows, ServedBy

LEMMA TogetherStep ==
  ASSUME RoundsInv, HeldInv, SharedInv, Grows, SharedStep PROVE Together'
<1>0. starts \in [Requests -> StartRecord] /\ req \in [Requests -> RequestRecord]
  BY DEF HeldInv, TypeOK, StartsType, ReqType
<1>s. \A r \in Requests : Served(r) => /\ ServedBy(r, req[r].entry) /\ req[r].entry \in Requests
                                      /\ req[r].at = "end" /\ req[req[r].entry].at # "new"
  BY DEF SharedInv, Together, ServedBy
<1>a. \A r, s \in Requests : Served(r) /\ Served(s) /\ req[r].entry = req[s].entry => Agree(r, s)
  BY DEF SharedInv, Together
\* Nobody else is told that they were served, and whoever was keeps what they were told.
<1>k. ASSUME \A q \in Requests : /\ req[q].at # "new" => req'[q].at # "new" /\ req'[q].entry = req[q].entry
                                 /\ req'[q].told = "served" => req[q].told = "served"
                                 /\ req[q].at = "end" => req'[q] = req[q],
             \A r \in Requests : Served(r) =>
               starts'[req[r].entry].phase = "none" \/ starts'[req[r].entry] = starts[req[r].entry]
      PROVE  Together'
  <2>1. \A q \in Requests : Served(q)' => Served(q) /\ req'[q] = req[q]
    BY <1>k, <1>s DEF Served
  <2>2. \A r \in Requests : Served(r)' => ServedBy(r, req[r].entry)'
    BY <1>k, <1>s, <2>1, ServedKept
  <2>3. \A r, s \in Requests : Served(r)' /\ Served(s)' /\ req'[r].entry = req'[s].entry => Agree(r, s)'
    BY <1>a, <2>1 DEF Agree
  <2> QED BY <2>1, <2>2, <2>3 DEF Together
<1>1. ASSUME NEW r \in Requests, NEW e \in Requests, Takes(r, e) PROVE Together'
  <2>1. \A f \in Requests \ {e} : starts'[f] = starts[f]
    BY <1>0, <1>1 DEF Takes
  <2>2. /\ \A q \in Requests \ {r} : req'[q] = req[q]
        /\ req'[r].told = req[r].told /\ req[r].at = "new"
    BY <1>1, TakesSeen DEF Takes
  <2>3. e = r \/ starts[e].phase = "open"
    BY <1>1 DEF Takes
  <2>4. \A q \in Requests : Served(q) => req[q].entry # e
    BY <1>s, <2>2, <2>3 DEF ServedBy
  <2> QED BY <1>k, <1>s, <2>1, <2>2, <2>4
<1>2. ASSUME NEW r \in Requests, NEW e \in Requests, Shows(r, e) PROVE Together'
  <2>1. /\ UNCHANGED <<rounds, starts>> /\ \A q \in Requests \ {r} : req'[q] = req[q]
        /\ req[r].at = "parked" /\ req[r].entry = e /\ starts[e].phase = "served"
        /\ req'[r].at = "end" /\ req'[r].entry = e /\ req'[r].told = "served"
        /\ req'[r].round = starts[e].round
        /\ req'[r].paired <=> Kind[r] = "slot" /\ BothColumns(starts[e].claimed)
    BY <1>2 DEF Shows
  <2>2. /\ r \in starts[e].claimed /\ req[e].at # "new" /\ Kind[r] = Kind[e]
        /\ Kind[e] = "slot" => starts[e].mode = "duel"
        /\ \A q \in starts[e].claimed : req[q].at # "new" /\ req[q].entry = e /\ Kind[q] = Kind[e]
    BY <2>1 DEF SharedInv, Claims
  <2>3. /\ starts[e].round # NoRound => starts[e].round \in DOMAIN rounds
        /\ starts[e].mode # "single" => starts[e].round # NoRound
    BY <2>1 DEF HeldInv, StartsHeld, StartHeld, Own
  <2>4. starts[e].claimed \subseteq Requests
    BY <1>0 DEF StartRecord
  <2>5. BothColumns(starts[e].claimed) => \E q \in starts[e].claimed : Column[q] # Column[r]
    BY <2>2, <2>4, OneColumn DEF BothColumns
  <2>6. ~BothColumns(starts[e].claimed) => \A q \in starts[e].claimed : Column[q] = Column[r]
    BY <2>2, <2>4, TwoColumns DEF BothColumns
  <2>7. \A q \in Requests : req[q].at # "new" => req'[q].at # "new" /\ req'[q].entry = req[q].entry
    BY <2>1
  <2>8. req'[r].paired => \E s \in Requests :
          req'[s].at # "new" /\ req'[s].entry = e /\ Column[s] # Column[r]
    BY <2>1, <2>2, <2>4, <2>5, <2>7
  <2>9. ServedBy(r, e)'
    BY <2>1, <2>2, <2>3, <2>7, <2>8 DEF ServedBy
  <2>10. \A q \in Requests \ {r} : Served(q)' => Served(q) /\ req'[q] = req[q] /\ ServedBy(q, req[q].entry)'
    <3> SUFFICES ASSUME NEW q \in Requests \ {r}, Served(q)'
                 PROVE  Served(q) /\ req'[q] = req[q] /\ ServedBy(q, req[q].entry)'
      OBVIOUS
    <3>1. Served(q) /\ req'[q] = req[q]
      BY <2>1 DEF Served
    <3> QED BY <1>s, <2>1, <2>7, <3>1, ServedKept
  <2>11. \A q \in Requests \ {r} : Served(q)' /\ req'[q].entry = e => Agree(r, q)' /\ Agree(q, r)'
    <3> SUFFICES ASSUME NEW q \in Requests \ {r}, Served(q)', req'[q].entry = e
                 PROVE  Agree(r, q)' /\ Agree(q, r)'
      OBVIOUS
    <3>1. Served(q) /\ req'[q] = req[q] /\ ServedBy(q, e)
      BY <1>s, <2>10
    <3>2. /\ q \in starts[e].claimed /\ req[q].round = starts[e].round /\ Kind[q] = Kind[e]
          /\ req[q].paired <=> Kind[q] = "slot" /\ BothColumns(starts[e].claimed)
      BY <2>1, <3>1 DEF ServedBy
    <3> QED BY <2>1, <2>2, <2>6, <3>1, <3>2 DEF Agree
  <2>12. Agree(r, r)'
    BY DEF Agree
  <2>13. \A q, s \in Requests \ {r} :
           Served(q)' /\ Served(s)' /\ req'[q].entry = req'[s].entry => Agree(q, s)'
    BY <1>a, <2>10 DEF Agree
  <2> QED BY <2>1, <2>9, <2>10, <2>11, <2>12, <2>13 DEF Together
<1>3. ASSUME NEW e \in Requests, Moves(e) PROVE Together'
  <2>1. \A f \in Requests \ {e} : starts'[f] = starts[f]
    BY <1>0, <1>3 DEF Moves
  <2>2. UNCHANGED req /\ starts[e].phase \notin {"none", "served"}
    BY <1>3 DEF Moves
  <2>3. \A q \in Requests : Served(q) => req[q].entry # e
    BY <1>s, <2>2 DEF ServedBy
  <2> QED BY <1>k, <1>s, <2>1, <2>2, <2>3
<1>4. ASSUME NEW r \in Requests, Goes(r) PROVE Together'
  <2>1. /\ UNCHANGED starts /\ req[r].told # "served" /\ req'[r].told # "served"
        /\ \A q \in Requests \ {r} : req'[q] = req[q]
        /\ req'[r].entry = req[r].entry /\ req'[r].at # "new"
    BY <1>4 DEF Goes
  <2>2. \A q \in Requests : Served(q)' => Served(q) /\ req'[q] = req[q]
    BY <2>1 DEF Served
  <2>3. \A q \in Requests : Served(q)' => ServedBy(q, req[q].entry)'
    BY <1>s, <2>1, <2>2, ServedKept
  <2>4. \A q, s \in Requests : Served(q)' /\ Served(s)' /\ req'[q].entry = req'[s].entry => Agree(q, s)'
    BY <1>a, <2>2 DEF Agree
  <2> QED BY <2>2, <2>3, <2>4 DEF Together
<1>5. CASE Drops
  <2>1. \A q \in Requests : /\ starts'[q].phase = "none"
                            /\ \/ req'[q] = req[q] /\ req[q].at \in {"new", "end"}
                               \/ /\ req[q].at \in {"parked", "voting"} /\ req'[q].at = "end"
                                  /\ req'[q].entry = req[q].entry /\ req'[q].told = "dropped"
    BY <1>5 DEF Drops
  <2> QED BY <1>k, <1>s, <2>1
<1>6. CASE UNCHANGED <<starts, req>>
  BY <1>6, <1>k
<1> QED BY <1>1, <1>2, <1>3, <1>4, <1>5, <1>6 DEF SharedStep

(***************************************************************************)
(* The theorems.                                                           *)
(***************************************************************************)
LEMMA IndInit == Init => IndInv
<1> SUFFICES ASSUME Init PROVE IndInv
  OBVIOUS
<1>1. RoundsInv
  BY DEF Init, RoundsInv
<1>2. TypeOK
  <2>1. NewChat \in [matchup : Matchup, continueFrom : Nat]
    BY DEF NewChat, NoMatchup, NoRound, NoConv, Matchup, MaybeVote
  <2>2. NoStart \in StartRecord
    BY DEF NoStart, NoConv, NoRound, Modes, Phases, StartRecord
  <2>3. NewRequest \in RequestRecord
    BY DEF NewRequest, NoRound, RequestRecord, Told
  <2>4. NoSends \in [DOMAIN NoSends -> SendRecord]
    BY DEF NoSends
  <2> QED BY <2>1, <2>2, <2>3, <2>4
       DEF Init, TypeOK, ChatsType, DiskType, StartsType, SendsType, ReqType, NoConv
<1>3. ChatsHeld
  BY DEF Init, ChatsHeld, ChatHeld, Mine, NewChat, NoMatchup
<1>4. StartsHeld
  BY DEF Init, StartsHeld, StartHeld, Mine, NoStart
<1>5. SendsHeld
  BY DEF Init, SendsHeld, NoSends
<1>6. RequestsHeld
  BY DEF Init, RequestsHeld, RequestHeld, NewRequest, Ballots, Decisive
<1>7. Claims
  BY DEF Init, Claims, NoStart, NewRequest
<1>8. Apart /\ Together
  BY DEF Init, Apart, Together, Served, NoStart, NewRequest
<1> QED BY <1>1, <1>2, <1>3, <1>4, <1>5, <1>6, <1>7, <1>8 DEF IndInv, HeldInv, SharedInv

LEMMA IndStep == IndInv /\ [Next]_vars => IndInv'
<1> SUFFICES ASSUME IndInv, [Next]_vars PROVE IndInv'
  OBVIOUS
<1>1. RoundsInv /\ HeldInv /\ SharedInv
  BY DEF IndInv
<1>2. RoundsInv' /\ Grows
  BY <1>1, ArenaMoves
<1>3. TypeOK'
  BY <1>1, ChatsTyped, DiskTyped, StartsTyped, SendsTyped, ReqTyped DEF TypeOK
<1>4. HeldInv'
  BY <1>1, <1>3, ChatsHeldStep, StartsHeldStep, SendsHeldStep, RequestsHeldStep DEF HeldInv
<1>5. SharedInv'
  BY <1>1, <1>2, SharedMoves, ClaimsStep, ApartStep, TogetherStep DEF SharedInv
<1> QED BY <1>2, <1>4, <1>5 DEF IndInv

THEOREM IndAlways == Spec => []IndInv
<1> QED BY IndInit, IndStep, PTL DEF Spec

(* No prompt ends in the user's error because of the continuation the      *)
(* bridge sent along, whatever the lookup said, whoever continued the      *)
(* thread and whatever a restart brought back (startRoundFor).             *)
THEOREM PromptIsServed == Spec => []PromptServed
<1>1. IndInv => PromptServed
  BY DEF IndInv, HeldInv, StartsHeld, StartHeld, PromptServed
<1> QED BY <1>1, IndAlways, PTL

(* What a column reports as voted is what the arena recorded, through      *)
(* shared calls, lost replies and restarts (renderVote).                   *)
THEOREM ReportIsRecorded == Spec => []ReportedIsRecorded
<1>1. IndInv => ReportedIsRecorded
  BY DEF IndInv, HeldInv, RequestsHeld, RequestHeld, ReportedIsRecorded
<1> QED BY <1>1, IndAlways, PTL

(* A column that says it is one half of a turn shares the round with the   *)
(* other half, and one that says it stands alone shares it with nobody but *)
(* its own repeats (SlotRendezvous.join, renderSlot).                      *)
THEOREM HalvesShareARound == Spec => []PairedTogether
<1>1. ASSUME IndInv PROVE PairedTogether
  <2> SUFFICES ASSUME NEW r \in Requests, Kind[r] = "slot", req[r].told = "served"
      PROVE /\ req[r].paired => \E s \in Requests \ {r} :
                 /\ req[s].entry = req[r].entry
                 /\ Column[s] # Column[r]
                 /\ req[s].told = "served" => req[s].round = req[r].round /\ req[s].paired
            /\ ~req[r].paired => \A s \in Requests :
                 req[s].told = "served" /\ req[s].round = req[r].round =>
                   Kind[s] = "slot" /\ Column[s] = Column[r]
    BY DEF PairedTogether
  <2>1. ServedBy(r, req[r].entry) /\ Apart
    BY <1>1 DEF IndInv, SharedInv, Together, Served
  <2>2. \A s \in Requests : req[s].told = "served" /\ req[s].entry = req[r].entry =>
          ServedBy(s, req[r].entry) /\ Agree(r, s)
    BY <1>1 DEF IndInv, SharedInv, Together, Served
  <2>3. ASSUME req[r].paired
        PROVE  \E s \in Requests \ {r} :
                 /\ req[s].entry = req[r].entry
                 /\ Column[s] # Column[r]
                 /\ req[s].told = "served" => req[s].round = req[r].round /\ req[s].paired
    BY <2>1, <2>2, <2>3 DEF ServedBy, Agree
  <2>4. ASSUME ~req[r].paired, NEW s \in Requests, req[s].told = "served",
               req[s].round = req[r].round
        PROVE  Kind[s] = "slot" /\ Column[s] = Column[r]
    <3>1. req[s].entry = req[r].entry
      BY <2>1, <2>4 DEF Apart, Served, ServedBy
    <3> QED BY <2>1, <2>2, <2>4, <3>1 DEF ServedBy, Agree
  <2> QED BY <2>3, <2>4
<1> QED BY <1>1, IndAlways, PTL

=============================================================================
