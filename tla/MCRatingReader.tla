---- MODULE MCRatingReader ----
(***************************************************************************)
(* An instance of RatingReader: three models whose uuids sort otherwise    *)
(* than their creation, and four matchups.  Session s1 votes twice, with a *)
(* second decisive vote or a skip, so that either test may screen it out   *)
(* while a pass is under way; one vote has no session.  The answers of one *)
(* round are saved late or never.                                          *)
(***************************************************************************)
EXTENDS RatingReader

Late == 1  \* the round whose answers are not saved at first

MCModelOrder == <<"m1", "m2", "m3">>
MCIdOrder == <<"m3", "m1", "m2">>
MCMatchups == 1..4
MCSlotA == <<"m1", "m2", "m3", "m1">>
MCSlotB == <<"m2", "m1", "m2", "m3">>
MCSessionOf == <<"s1", "s1", "s2", "anonymous">>
MCBallots == <<{"left"}, {"left", "skip"}, {"both_good"}, {"right"}>>

\* The worker does all it can before a request comes; while one is read, passes
\* do not fail, two of the votes are yet to be cast, and the rows, which
\* ReplyScaled does not look at, come first.
\* Answers matter to the raw read and the sample only, and there with their vote:
\* the late ones come, if they do, when the vote is cast and a raw read is next.
Focus ==
  /\ answered' # answered => cast[Late] # NoVote /\ pc = "style"
  /\ \/ reader'.left = Statements
     \/ /\ reader.left # {} /\ "rows" \notin reader'.left
        /\ faults' = 0 /\ cast'[2] = NoVote /\ cast'[4] = NoVote

MCInit == ReaderInit /\ answered = Matchups \ {Late}

MCSpec == MCInit /\ [][ReaderNext]_<<vars, reader>> /\ Fairness
====
