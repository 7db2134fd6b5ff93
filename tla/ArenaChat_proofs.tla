-------------------------- MODULE ArenaChat_proofs --------------------------
(***************************************************************************)
(* What useArenaChat shows and asks for, however many prompts are sent and *)
(* in whatever order their replies arrive.                                 *)
(***************************************************************************)
EXTENDS ArenaChat, TLAPS

(***************************************************************************)
(* The inductive invariant.                                                *)
(***************************************************************************)
\* Only the prompt last sent may still speak; none speaks before it is sent.
SentOnce ==
  /\ current \in {None, prompts}
  /\ \A p \in Prompts :
       /\ p > prompts => request[p] = "idle" /\ ~aborted[p] /\ round[p] = "none"
       /\ p =< prompts /\ p # current => aborted[p]

\* A round is of its own conversation, of the one its prompt named, or of none.
RoundsKnown ==
  /\ conversation =< prompts
  /\ matchup # None => round[matchup] = "open"
  /\ \A p \in Prompts :
       /\ asked[p] < p /\ conv[p] \in {None, p, asked[p]}
       /\ kind[p] = "matchup" => conv[p] # None
       /\ round[p] # "open" => conv[p] = None /\ kind[p] = "none"

\* A ballot is of a round the hook was shown, and once recorded is what was cast.
BallotsKnown ==
  /\ matchup # None => request[matchup] \notin {"idle", "fetching"}
  /\ \A p \in Prompts :
       /\ ballot[p] # "none" => /\ kind[p] = "matchup"
                                /\ request[p] \notin {"idle", "fetching"}
                                /\ choice[p] # "none"
       /\ verdict[p] # "none" => verdict[p] = choice[p] /\ ballot[p] \notin {"none", "posted"}
       /\ ballot[p] \in {"recorded", "accepted"} => verdict[p] # "none"

\* A round that was voted on, and not decided, is the last of its conversation.
Undecided(p) == ballot[p] # "none" /\ verdict[p] # "decisive"
UndecidedLast ==
  \A p, q \in Prompts : Undecided(p) /\ p < q => conv[q] # conv[p]

IndInv == TypeOK /\ SentOnce /\ RoundsKnown /\ BallotsKnown /\ UndecidedLast
            /\ ViewIsCurrent /\ StreamingIsShown /\ NextPromptContinues

USE Bounds DEF Prompts, None

(***************************************************************************)
(* Types.                                                                  *)
(***************************************************************************)
\* Every step keeps the shape of the hook and of the server.
LEMMA TypeStep == ASSUME TypeOK, [Next]_vars PROVE TypeOK'
<1> USE DEF TypeOK, refs, shown, calls, server
<1>1. CASE SendPrompt
  <2>1. aborted' \in [Prompts -> BOOLEAN]
    BY <1>1 DEF SendPrompt, Abort
  <2>2. prompts + 1 \in Prompts /\ prompts' \in 0..MaxPrompts /\ current' \in Prompts
    BY <1>1 DEF SendPrompt
  <2>3. /\ request' \in [Prompts -> {"idle", "fetching", "reading", "finished", "settled"}]
        /\ round' \in [Prompts -> {"none", "asked", "open", "refused"}]
        /\ asked' \in [Prompts -> Prompts \cup {None}]
    BY <1>1, <2>2 DEF SendPrompt
  <2>4. text' \in Seq(Prompts)
    BY <1>1 DEF SendPrompt
  <2>5. {current, matchup, conversation, revealed}' \subseteq Prompts \cup {None}
    BY <1>1, <2>2 DEF SendPrompt
  <2>6. {isStreaming, canVote}' \subseteq BOOLEAN /\ status' = "idle"
    BY <1>1 DEF SendPrompt
  <2>7. UNCHANGED <<socket, ballot, choice, stops, kind, conv, verdict>>
    BY <1>1 DEF SendPrompt
  <2> QED BY <2>1, <2>2, <2>3, <2>4, <2>5, <2>6, <2>7
<1>2. CASE Vote
  BY <1>2 DEF Vote
<1>3. CASE Stop
  BY <1>3 DEF Stop, Cancels, Abort, SettleSlot
<1>4. CASE ResetConversation
  <2>1. aborted' \in [Prompts -> BOOLEAN] /\ text' \in Seq(Prompts)
    BY <1>4 DEF ResetConversation, Abort
  <2> QED BY <1>4, <2>1 DEF ResetConversation
<1>5. CASE SocketOpens
  BY <1>5 DEF SocketOpens, Cancels, Abort, SettleSlot
<1>6. CASE SocketCloses
  BY <1>6 DEF SocketCloses
<1>7. ASSUME NEW p \in Prompts, Opens(p) PROVE TypeOK'
  BY <1>7 DEF Opens
<1>8. ASSUME NEW p \in Prompts, Refuses(p) PROVE TypeOK'
  BY <1>8 DEF Refuses
<1>9. ASSUME NEW p \in Prompts, Records(p) PROVE TypeOK'
  BY <1>9 DEF Records
<1>10. ASSUME NEW p \in Prompts, Returns(p) PROVE TypeOK'
  BY <1>10 DEF Returns, Settles
<1>11. ASSUME NEW p \in Prompts, MatchupStarted(p) PROVE TypeOK'
  BY <1>11 DEF MatchupStarted, Remembered
<1>12. ASSUME NEW p \in Prompts, Token(p) PROVE TypeOK'
  BY <1>12 DEF Token
<1>13. ASSUME NEW p \in Prompts, SlotDone(p) PROVE TypeOK'
  BY <1>13 DEF SlotDone
<1>14. ASSUME NEW p \in Prompts, MatchupDone(p) PROVE TypeOK'
  BY <1>14 DEF MatchupDone
<1>15. ASSUME NEW p \in Prompts, RunError(p) PROVE TypeOK'
  BY <1>15 DEF RunError, SettleSlot
<1>16. ASSUME NEW p \in Prompts, VoteAccepted(p) PROVE TypeOK'
  BY <1>16 DEF VoteAccepted, Kept
<1>17. ASSUME NEW p \in Prompts, VoteFails(p) PROVE TypeOK'
  BY <1>17 DEF VoteFails
<1>18. CASE UNCHANGED vars
  BY <1>18 DEF vars
<1> QED BY <1>1, <1>2, <1>3, <1>4, <1>5, <1>6, <1>7, <1>8, <1>9, <1>10, <1>11, <1>12,
           <1>13, <1>14, <1>15, <1>16, <1>17, <1>18 DEF Next

\* A request that is still heard is that of the prompt last sent.
LEMMA Heard ==
  ASSUME TypeOK, SentOnce, NEW p \in Prompts, NEW place \in {"fetching", "reading"},
         Hears(p, place)
  PROVE  p = current /\ p = prompts /\ current # None
BY DEF Hears, SentOnce, TypeOK

(***************************************************************************)
(* What each step preserves.                                               *)
(***************************************************************************)
LEMMA SentStep == ASSUME TypeOK, SentOnce, [Next]_vars PROVE SentOnce'
<1> USE DEF TypeOK, SentOnce, refs, shown, calls, server
<1>1. CASE SendPrompt
  <2>1. \A p \in Prompts : IF p = current THEN aborted'[p] ELSE aborted'[p] = aborted[p]
    BY <1>1 DEF SendPrompt, Abort
  <2>2. current' = prompts + 1 /\ prompts' = prompts + 1 /\ current' \in Prompts
    BY <1>1 DEF SendPrompt
  <2>3. \A p \in Prompts : p # prompts + 1 => request'[p] = request[p] /\ round'[p] = round[p]
    BY <1>1 DEF SendPrompt
  <2> QED BY <2>1, <2>2, <2>3
<1>2. CASE Vote
  BY <1>2 DEF Vote
<1>3. CASE Stop \/ SocketOpens \/ ResetConversation
  <2>1. \A p \in Prompts : aborted'[p] = aborted[p] \/ (aborted'[p] /\ p = current)
    BY <1>3 DEF Stop, SocketOpens, ResetConversation, Cancels, Abort
  <2>2. current' = current \/ (current' = None /\ (current # None => aborted'[current]))
    BY <1>3 DEF Stop, SocketOpens, ResetConversation, Abort
  <2>3. UNCHANGED <<prompts, request, round>>
    BY <1>3 DEF Stop, SocketOpens, ResetConversation
  <2> QED BY <2>1, <2>2, <2>3
<1>4. CASE SocketCloses
  BY <1>4 DEF SocketCloses
<1>5. ASSUME NEW p \in Prompts, Opens(p) \/ Refuses(p) PROVE SentOnce'
  BY <1>5 DEF Opens, Refuses
<1>6. ASSUME NEW p \in Prompts, Records(p) \/ VoteAccepted(p) \/ VoteFails(p) PROVE SentOnce'
  BY <1>6 DEF Records, VoteAccepted, VoteFails
<1>7. ASSUME NEW p \in Prompts, Returns(p) PROVE SentOnce'
  BY <1>7 DEF Returns, Settles
<1>8. ASSUME NEW p \in Prompts,
             MatchupStarted(p) \/ Token(p) \/ SlotDone(p) \/ MatchupDone(p) \/ RunError(p)
      PROVE  SentOnce'
  BY <1>8 DEF MatchupStarted, Token, SlotDone, MatchupDone, RunError, Hears
<1>9. CASE UNCHANGED vars
  BY <1>9 DEF vars
<1> QED BY <1>1, <1>2, <1>3, <1>4, <1>5, <1>6, <1>7, <1>8, <1>9 DEF Next

LEMMA ConvBefore ==
  ASSUME TypeOK, RoundsKnown, NEW p \in Prompts PROVE conv[p] \in 0..p
<1>1. asked[p] \in 0..MaxPrompts /\ asked[p] < p /\ conv[p] \in {None, p, asked[p]}
  BY DEF TypeOK, RoundsKnown
<1>2. asked[p] \in Nat /\ asked[p] \in 0..p /\ p \in 0..p
  BY <1>1
<1> QED BY <1>1, <1>2

LEMMA RoundsStep == ASSUME IndInv, [Next]_vars PROVE RoundsKnown'
<1> USE DEF TypeOK, RoundsKnown, refs, shown, calls, server
<1>0. TypeOK /\ SentOnce /\ RoundsKnown /\ BallotsKnown
  BY DEF IndInv
<1>1. CASE SendPrompt
  BY <1>0, <1>1 DEF SendPrompt, SentOnce
<1>2. CASE Vote \/ Stop \/ SocketOpens \/ SocketCloses
  BY <1>0, <1>2 DEF Vote, Stop, SocketOpens, SocketCloses
<1>3. CASE ResetConversation
  BY <1>0, <1>3 DEF ResetConversation
<1>4. ASSUME NEW p \in Prompts, Opens(p) PROVE RoundsKnown'
  <2>1. PICK mode \in {"matchup", "shadow", "single"} :
          /\ kind' = [kind EXCEPT ![p] = mode]
          /\ conv' = [conv EXCEPT ![p] = CASE mode = "single"  -> None
                                           [] mode # "single" /\ asked[p] # None -> asked[p]
                                           [] OTHER            -> p]
    BY <1>4 DEF Opens
  <2>2. conv'[p] \in {None, p, asked[p]} /\ (kind'[p] = "matchup" => conv'[p] # None)
    BY <1>0, <2>1
  <2>3. \A q \in Prompts : q # p => conv'[q] = conv[q] /\ kind'[q] = kind[q]
    BY <1>0, <2>1
  <2>4. round' = [round EXCEPT ![p] = "open"] /\ UNCHANGED <<matchup, conversation, asked, prompts>>
    BY <1>4 DEF Opens
  <2> QED BY <1>0, <2>2, <2>3, <2>4
<1>5. ASSUME NEW p \in Prompts, Refuses(p) PROVE RoundsKnown'
  BY <1>0, <1>5 DEF Refuses
<1>6. ASSUME NEW p \in Prompts,
             Records(p) \/ VoteFails(p) \/ Returns(p) \/ Token(p) \/ SlotDone(p)
               \/ MatchupDone(p) \/ RunError(p)
      PROVE  RoundsKnown'
  BY <1>0, <1>6 DEF Records, VoteFails, Returns, Token, SlotDone, MatchupDone, RunError
<1>7. ASSUME NEW p \in Prompts, VoteAccepted(p) PROVE RoundsKnown'
  BY <1>0, <1>7 DEF VoteAccepted, Kept
<1>8. ASSUME NEW p \in Prompts, MatchupStarted(p) PROVE RoundsKnown'
  <2>1. p = prompts
    BY <1>0, <1>8, Heard DEF MatchupStarted
  <2>2. conv[p] =< prompts /\ round[p] = "open"
    BY <1>0, <1>8, <2>1, ConvBefore DEF MatchupStarted
  <2>3. matchup' = p /\ conversation' = conv[p] /\ UNCHANGED <<prompts, round, asked, conv, kind>>
    BY <1>8 DEF MatchupStarted, Remembered
  <2> QED BY <1>0, <2>2, <2>3
<1>9. CASE UNCHANGED vars
  BY <1>0, <1>9 DEF vars
<1> QED BY <1>1, <1>2, <1>3, <1>4, <1>5, <1>6, <1>7, <1>8, <1>9 DEF Next

LEMMA BallotsStep == ASSUME IndInv, [Next]_vars PROVE BallotsKnown'
<1> USE DEF TypeOK, BallotsKnown, refs, shown, calls, server
<1>0. TypeOK /\ SentOnce /\ RoundsKnown /\ BallotsKnown
  BY DEF IndInv
<1>1. CASE SendPrompt
  <2>1. request[prompts + 1] = "idle"
    BY <1>0, <1>1 DEF SendPrompt, SentOnce
  <2> QED BY <1>0, <1>1, <2>1 DEF SendPrompt
<1>2. CASE Vote
  BY <1>0, <1>2 DEF Vote
<1>3. CASE Stop \/ SocketOpens \/ SocketCloses \/ ResetConversation
  <2>1. UNCHANGED <<request, kind, ballot, choice, verdict>> /\ matchup' \in {matchup, None}
    BY <1>3 DEF Stop, SocketOpens, SocketCloses, ResetConversation
  <2> QED BY <1>0, <2>1
<1>4. ASSUME NEW p \in Prompts, Opens(p) PROVE BallotsKnown'
  <2>1. kind[p] = "none" /\ \A q \in Prompts : q # p => kind'[q] = kind[q]
    BY <1>0, <1>4 DEF Opens, RoundsKnown
  <2>2. UNCHANGED <<matchup, request, ballot, verdict, choice>>
    BY <1>4 DEF Opens
  <2> QED BY <1>0, <2>1, <2>2
<1>5. ASSUME NEW p \in Prompts, Refuses(p) \/ Token(p) \/ SlotDone(p) PROVE BallotsKnown'
  BY <1>0, <1>5 DEF Refuses, Token, SlotDone
<1>6. ASSUME NEW p \in Prompts, Records(p) PROVE BallotsKnown'
  BY <1>0, <1>6 DEF Records
<1>7. ASSUME NEW p \in Prompts, VoteFails(p) \/ VoteAccepted(p) PROVE BallotsKnown'
  BY <1>0, <1>7 DEF VoteFails, VoteAccepted
<1>8. ASSUME NEW p \in Prompts, Returns(p) \/ MatchupDone(p) \/ RunError(p) PROVE BallotsKnown'
  BY <1>0, <1>8 DEF Returns, Settles, MatchupDone, RunError
<1>9. ASSUME NEW p \in Prompts, MatchupStarted(p) PROVE BallotsKnown'
  BY <1>0, <1>9 DEF MatchupStarted
<1>10. CASE UNCHANGED vars
  BY <1>0, <1>10 DEF vars
<1> QED BY <1>1, <1>2, <1>3, <1>4, <1>5, <1>6, <1>7, <1>8, <1>9, <1>10 DEF Next

\* The server opens no round behind one that was voted on and not decided.
LEMMA EndsStep == ASSUME IndInv, [Next]_vars PROVE UndecidedLast'
<1> USE DEF TypeOK, UndecidedLast, Undecided, refs, shown, calls, server
<1>0. TypeOK /\ SentOnce /\ RoundsKnown /\ BallotsKnown /\ UndecidedLast
  BY DEF IndInv
<1>1. CASE SendPrompt \/ Stop \/ SocketOpens \/ SocketCloses \/ ResetConversation
  BY <1>0, <1>1 DEF SendPrompt, Stop, SocketOpens, SocketCloses, ResetConversation
<1>2. CASE Vote
  <2>1. matchup = prompts /\ matchup \in Prompts
    BY <1>0, <1>2 DEF Vote, IndInv, ViewIsCurrent, SentOnce
  <2>2. conv[matchup] # None
    BY <1>0, <1>2 DEF Vote, RoundsKnown
  <2>3. \A q \in Prompts : matchup < q => conv[q] = None
    BY <1>0, <2>1 DEF SentOnce, RoundsKnown
  <2>4. \A p \in Prompts : p # matchup => ballot'[p] = ballot[p]
    BY <1>0, <1>2 DEF Vote
  <2>5. UNCHANGED <<verdict, conv>>
    BY <1>2 DEF Vote
  <2> QED BY <1>0, <2>2, <2>3, <2>4, <2>5
<1>3. ASSUME NEW r \in Prompts, Opens(r) PROVE UndecidedLast'
  <2> SUFFICES ASSUME NEW p \in Prompts, NEW q \in Prompts,
                      Undecided(p)', p < q, conv'[q] = conv'[p]
               PROVE  FALSE
    OBVIOUS
  <2>1. Undecided(p)
    BY <1>3 DEF Opens
  <2>2. kind[p] = "matchup" /\ conv[p] # None /\ p # r
    BY <1>0, <1>3, <2>1 DEF Opens, BallotsKnown, RoundsKnown
  <2>3. PICK mode \in {"matchup", "shadow", "single"} :
          /\ mode # "single" /\ asked[r] # None => Continues(asked[r])
          /\ conv' = [conv EXCEPT ![r] = CASE mode = "single"  -> None
                                           [] mode # "single" /\ asked[r] # None -> asked[r]
                                           [] OTHER            -> r]
    BY <1>3 DEF Opens
  <2>4. \A o \in Prompts : o # r => conv'[o] = conv[o]
    BY <1>0, <2>3
  <2>5. q = r
    BY <1>0, <2>1, <2>2, <2>4
  <2>6. conv[p] # q
    BY <1>0, ConvBefore
  <2>7. asked[r] = conv[p] /\ Continues(conv[p])
    BY <1>0, <2>2, <2>3, <2>4, <2>5, <2>6
  <2> DEFINE turns == {o \in Prompts : conv[o] = conv[p]}
             last == CHOOSE o \in turns : \A t \in turns : t =< o
  <2>8. p \in turns /\ \A t \in turns : t =< p
    BY <1>0, <2>1
  <2>9. last \in turns /\ \A t \in turns : t =< last
    BY <2>8
  <2>10. last = p
    BY <2>8, <2>9
  <2> QED BY <2>1, <2>7, <2>10 DEF Continues
<1>4. ASSUME NEW r \in Prompts, Records(r) PROVE UndecidedLast'
  <2>1. UNCHANGED conv /\ \A p \in Prompts : Undecided(p)' => Undecided(p)
    BY <1>0, <1>4 DEF Records, BallotsKnown
  <2> QED BY <1>0, <2>1
<1>5. ASSUME NEW r \in Prompts, VoteAccepted(r) \/ VoteFails(r) PROVE UndecidedLast'
  <2>1. UNCHANGED conv /\ \A p \in Prompts : Undecided(p)' => Undecided(p)
    BY <1>0, <1>5 DEF VoteAccepted, VoteFails, BallotsKnown
  <2> QED BY <1>0, <2>1
<1>6. ASSUME NEW r \in Prompts,
             Refuses(r) \/ Returns(r) \/ MatchupStarted(r) \/ Token(r) \/ SlotDone(r)
               \/ MatchupDone(r) \/ RunError(r)
      PROVE  UndecidedLast'
  BY <1>0, <1>6 DEF Refuses, Returns, MatchupStarted, Token, SlotDone, MatchupDone, RunError
<1>7. CASE UNCHANGED vars
  BY <1>0, <1>7 DEF vars
<1> QED BY <1>1, <1>2, <1>3, <1>4, <1>5, <1>6, <1>7 DEF Next

\* No reply but the current prompt's touches the view.
LEMMA ViewStep == ASSUME IndInv, [Next]_vars PROVE ViewIsCurrent'
<1> USE DEF TypeOK, ViewIsCurrent, refs, shown, calls, server
<1>0. TypeOK /\ SentOnce /\ ViewIsCurrent
  BY DEF IndInv
<1>1. CASE SendPrompt \/ ResetConversation
  BY <1>0, <1>1 DEF SendPrompt, ResetConversation
<1>2. CASE Vote \/ Stop \/ SocketOpens \/ SocketCloses
  BY <1>0, <1>2 DEF Vote, Stop, SocketOpens, SocketCloses
<1>3. ASSUME NEW p \in Prompts, Token(p) PROVE ViewIsCurrent'
  <2>1. p = current
    BY <1>0, <1>3, Heard DEF Token
  <2>2. text \in Seq(Prompts) /\ text' = Append(text, p) /\ UNCHANGED <<current, matchup>>
    BY <1>0, <1>3 DEF Token
  <2>3. \A i \in DOMAIN text' : text'[i] = p \/ (i \in DOMAIN text /\ text'[i] = text[i])
    BY <2>2
  <2> QED BY <1>0, <2>1, <2>2, <2>3
<1>4. ASSUME NEW p \in Prompts, MatchupStarted(p) PROVE ViewIsCurrent'
  <2>1. p = current
    BY <1>0, <1>4, Heard DEF MatchupStarted
  <2> QED BY <1>0, <1>4, <2>1 DEF MatchupStarted
<1>5. ASSUME NEW p \in Prompts,
             Opens(p) \/ Refuses(p) \/ Records(p) \/ Returns(p) \/ SlotDone(p)
               \/ MatchupDone(p) \/ RunError(p) \/ VoteAccepted(p) \/ VoteFails(p)
      PROVE  ViewIsCurrent'
  BY <1>0, <1>5 DEF Opens, Refuses, Records, Returns, SlotDone, MatchupDone, RunError,
       VoteAccepted, VoteFails
<1>6. CASE UNCHANGED vars
  BY <1>0, <1>6 DEF vars
<1> QED BY <1>1, <1>2, <1>3, <1>4, <1>5, <1>6 DEF Next

\* isStreaming follows the current request, through aborts and late replies.
LEMMA StreamingStep == ASSUME IndInv, [Next]_vars PROVE StreamingIsShown'
<1> USE DEF TypeOK, StreamingIsShown, refs, shown, calls, server
<1>0. TypeOK /\ SentOnce /\ ViewIsCurrent /\ StreamingIsShown
  BY DEF IndInv
<1>1. CASE SendPrompt
  <2>1. prompts + 1 \in Prompts /\ current # prompts + 1 /\ ~aborted[prompts + 1]
    BY <1>0, <1>1 DEF SendPrompt, SentOnce
  <2>2. ~aborted'[prompts + 1] /\ current' = prompts + 1 /\ isStreaming' = TRUE
    BY <1>0, <1>1, <2>1 DEF SendPrompt, Abort
  <2>3. request'[prompts + 1] = "fetching"
    BY <1>0, <1>1, <2>1 DEF SendPrompt
  <2> QED BY <2>1, <2>2, <2>3
<1>2. CASE ResetConversation
  BY <1>0, <1>2 DEF ResetConversation
<1>3. CASE Cancels /\ UNCHANGED <<current, request>>
  BY <1>0, <1>3 DEF Cancels, Abort
<1>4. CASE UNCHANGED <<current, request, aborted, isStreaming>>
  BY <1>0, <1>4
<1>5. CASE Stop \/ SocketOpens
  BY <1>3, <1>4, <1>5 DEF Stop, SocketOpens
<1>6. CASE Vote \/ SocketCloses
  BY <1>4, <1>6 DEF Vote, SocketCloses
<1>7. ASSUME NEW p \in Prompts, Returns(p) PROVE StreamingIsShown'
  <2>1. UNCHANGED <<current, aborted>> /\ request' = [request EXCEPT ![p] = "settled"]
        /\ isStreaming' = (isStreaming /\ current # p)
    BY <1>7 DEF Returns, Settles
  <2>2. CASE p = current
    <3>1. request'[current] = "settled"
      BY <1>0, <2>1, <2>2
    <3>2. isStreaming' = FALSE
      BY <2>1, <2>2, Zenon
    <3> QED BY <2>1, <3>1, <3>2
  <2>3. CASE p # current
    <3>1. isStreaming' = isStreaming /\ (current # None => request'[current] = request[current])
      BY <1>0, <2>1, <2>3
    <3> QED BY <1>0, <2>1, <3>1
  <2> QED BY <2>2, <2>3
<1>8. ASSUME NEW p \in Prompts, MatchupStarted(p) PROVE StreamingIsShown'
  <2>1. p = current
    BY <1>0, <1>8, Heard DEF MatchupStarted
  <2> QED BY <1>0, <1>8, <2>1 DEF MatchupStarted, Hears
<1>9. ASSUME NEW p \in Prompts, MatchupDone(p) \/ RunError(p) PROVE StreamingIsShown'
  <2>1. p = current
    BY <1>0, <1>9, Heard DEF MatchupDone, RunError
  <2> QED BY <1>0, <1>9, <2>1 DEF MatchupDone, RunError
<1>10. ASSUME NEW p \in Prompts,
              Opens(p) \/ Refuses(p) \/ Records(p) \/ Token(p) \/ SlotDone(p)
                \/ VoteAccepted(p) \/ VoteFails(p)
       PROVE  StreamingIsShown'
  BY <1>4, <1>10 DEF Opens, Refuses, Records, Token, SlotDone, VoteAccepted, VoteFails
<1>11. CASE UNCHANGED vars
  BY <1>4, <1>11 DEF vars
<1> QED BY <1>1, <1>2, <1>5, <1>6, <1>7, <1>8, <1>9, <1>10, <1>11 DEF Next

\* The conversation to go on with is the shown round's, and not a closed one.
LEMMA HandlesStep == ASSUME IndInv, [Next]_vars PROVE NextPromptContinues'
<1> USE DEF TypeOK, NextPromptContinues, HandlesAgree, ClosedStaysClosed, refs, shown, calls,
            server
<1>0. TypeOK /\ SentOnce /\ RoundsKnown /\ BallotsKnown /\ UndecidedLast /\ NextPromptContinues
  BY DEF IndInv
<1>1. CASE SendPrompt
  BY <1>0, <1>1 DEF SendPrompt
<1>2. CASE Vote
  BY <1>0, <1>2 DEF Vote
<1>3. CASE Stop \/ SocketOpens \/ SocketCloses
  <2>1. UNCHANGED <<matchup, conversation, ballot, choice, conv>>
    BY <1>3 DEF Stop, SocketOpens, SocketCloses
  <2> QED BY <1>0, <2>1
<1>4. CASE ResetConversation
  <2>1. matchup' = None /\ conversation' = None /\ UNCHANGED <<ballot, choice, conv, kind>>
    BY <1>4 DEF ResetConversation
  <2>2. \A p \in Prompts : ballot[p] = "accepted" => conv[p] # None
    BY <1>0 DEF BallotsKnown, RoundsKnown
  <2> QED BY <2>1, <2>2
<1>5. ASSUME NEW p \in Prompts, Opens(p) PROVE NextPromptContinues'
  <2>1. matchup # p /\ ballot[p] = "none"
    BY <1>0, <1>5 DEF Opens, RoundsKnown, BallotsKnown
  <2>2. \A q \in Prompts : q # p => conv'[q] = conv[q]
    BY <1>0, <1>5 DEF Opens
  <2>3. UNCHANGED <<matchup, conversation, ballot, choice>>
    BY <1>5 DEF Opens
  <2> QED BY <1>0, <2>1, <2>2, <2>3
<1>6. ASSUME NEW p \in Prompts, VoteAccepted(p) PROVE NextPromptContinues'
  <2>1. \A q \in Prompts : ballot'[q] = "accepted" => conv[q] # None
    BY <1>0, <1>6 DEF VoteAccepted, BallotsKnown, RoundsKnown
  <2>2. conversation' = (IF choice[p] = "decisive" THEN conversation ELSE None)
    BY <1>6 DEF VoteAccepted, Kept
  <2>3. UNCHANGED <<matchup, choice, conv>> /\ \A q \in Prompts : q # p => ballot'[q] = ballot[q]
    BY <1>0, <1>6 DEF VoteAccepted
  <2> QED BY <1>0, <2>1, <2>2, <2>3
<1>7. ASSUME NEW p \in Prompts, MatchupStarted(p) PROVE NextPromptContinues'
  <2>1. p = prompts
    BY <1>0, <1>7, Heard DEF MatchupStarted
  <2>2. matchup' = p /\ conversation' = conv[p] /\ UNCHANGED <<ballot, choice, conv>>
    BY <1>7 DEF MatchupStarted, Remembered
  <2>3. ASSUME NEW q \in Prompts, ballot[q] = "accepted", choice[q] = "indecisive"
        PROVE  conv[p] # conv[q]
    <3>1. Undecided(q) /\ q # p
      BY <1>0, <1>7, <2>3 DEF MatchupStarted, Hears, BallotsKnown, Undecided
    <3>2. q < p
      BY <1>0, <2>1, <2>3, <3>1 DEF SentOnce, BallotsKnown
    <3> QED BY <1>0, <3>1, <3>2 DEF UndecidedLast
  <2> QED BY <2>2, <2>3
<1>8. ASSUME NEW p \in Prompts, Records(p) \/ VoteFails(p) PROVE NextPromptContinues'
  <2>1. \A q \in Prompts : ballot'[q] = "accepted" => ballot[q] = "accepted"
    BY <1>0, <1>8 DEF Records, VoteFails
  <2>2. UNCHANGED <<matchup, conversation, choice, conv>>
    BY <1>8 DEF Records, VoteFails
  <2> QED BY <1>0, <2>1, <2>2
<1>9. ASSUME NEW p \in Prompts,
             Refuses(p) \/ Returns(p) \/ Token(p) \/ SlotDone(p) \/ MatchupDone(p) \/ RunError(p)
      PROVE  NextPromptContinues'
  <2>1. UNCHANGED <<matchup, conversation, ballot, choice, conv>>
    BY <1>9 DEF Refuses, Returns, Token, SlotDone, MatchupDone, RunError
  <2> QED BY <1>0, <2>1
<1>10. CASE UNCHANGED vars
  BY <1>0, <1>10 DEF vars
<1> QED BY <1>1, <1>2, <1>3, <1>4, <1>5, <1>6, <1>7, <1>8, <1>9, <1>10 DEF Next

LEMMA IndInit == Init => IndInv
<1> SUFFICES ASSUME Init PROVE IndInv
  OBVIOUS
<1>1. TypeOK
  <2>1. text \in Seq(Prompts) /\ prompts \in 0..MaxPrompts
    BY DEF Init
  <2>2. /\ {current, matchup, conversation, revealed} \subseteq Prompts \cup {None}
        /\ {isStreaming, canVote} \subseteq BOOLEAN
    BY DEF Init
  <2> QED BY <2>1, <2>2 DEF Init, TypeOK
<1>2. SentOnce /\ RoundsKnown /\ BallotsKnown /\ UndecidedLast
  BY DEF Init, SentOnce, RoundsKnown, BallotsKnown, UndecidedLast, Undecided
<1>3. ViewIsCurrent /\ StreamingIsShown
  <2>1. DOMAIN text = {} /\ matchup = None /\ current = None /\ isStreaming = FALSE
    BY DEF Init
  <2> QED BY <2>1 DEF ViewIsCurrent, StreamingIsShown
<1>4. NextPromptContinues
  BY DEF Init, NextPromptContinues, HandlesAgree, ClosedStaysClosed
<1> QED BY <1>1, <1>2, <1>3, <1>4 DEF IndInv

\* The inductive invariant always holds.
THEOREM Inductive == Spec => []IndInv
<1>1. IndInv /\ [Next]_vars => IndInv'
  BY TypeStep, SentStep, RoundsStep, BallotsStep, EndsStep, ViewStep, StreamingStep, HandlesStep
     DEF IndInv
<1> QED BY <1>1, IndInit, PTL DEF Spec

\* The view is that of the prompt last sent, whatever replies to earlier ones
\* still arrive (the identity checks of handleEvent and of the finally block).
THEOREM ViewTrue == Spec => []ViewIsTrue
<1>1. IndInv => ViewIsTrue
  BY DEF IndInv, ViewIsTrue
<1> QED BY <1>1, Inductive, PTL

\* The conversation the next prompt names is the shown round's, and never one
\* that an indecisive vote has closed.
THEOREM HandleTrue == Spec => []NextPromptContinues
<1>1. IndInv => NextPromptContinues
  BY DEF IndInv
<1> QED BY <1>1, Inductive, PTL

=============================================================================
