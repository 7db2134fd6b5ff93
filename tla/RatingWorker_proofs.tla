------------------------ MODULE RatingWorker_proofs ------------------------
(***************************************************************************)
(* What the rating worker publishes, for every roster, every set of votes, *)
(* every cadence and any number of faults; and what a reply is made of     *)
(* that is read beside it.                                                 *)
(***************************************************************************)
EXTENDS RatingReader, FiniteSetTheorems, SequenceTheorems, TLAPS

(***************************************************************************)
(* The rows of a fit.                                                      *)
(***************************************************************************)
\* An upsert writes its rows ...
LEMMA UpsertWrites ==
  ASSUME NEW table, NEW rows, NEW m \in DOMAIN rows
  PROVE  m \in DOMAIN Upsert(table, rows) /\ Upsert(table, rows)[m] = rows[m]
BY DEF Upsert

\* ... and leaves the others alone.
LEMMA UpsertKeeps ==
  ASSUME NEW table, NEW rows, NEW m \in DOMAIN table
  PROVE  /\ m \in DOMAIN Upsert(table, rows)
         /\ m \notin DOMAIN rows => Upsert(table, rows)[m] = table[m]
BY DEF Upsert

\* A fit has one row per model of its roster, and none that reads as "unrated".
LEMMA FitRows ==
  ASSUME NEW data, data.pairs # {}
  PROVE  /\ DOMAIN ComputeRatings(data) = ToSet(data.ids)
         /\ \A m \in ToSet(data.ids) : ComputeRatings(data)[m] # NoRow
<1> DEFINE rows == ComputeRatings(data)
<1>1. DOMAIN rows = ToSet(data.ids)
  BY DEF ComputeRatings
<1>2. \A m \in ToSet(data.ids) : rows[m].fit = data.pairs
  BY DEF ComputeRatings, FitBradleyTerry
<1> QED BY <1>1, <1>2 DEF NoRow

\* A style fit has one row per model of the roster, too.
LEMMA StyleRows ==
  ASSUME NEW ids, NEW ballots
  PROVE  DOMAIN ComputeStyleRatings(ids, ballots) = ToSet(ids)
BY DEF ComputeStyleRatings

\* The aggregates keep the order the models were read in.
LEMMA AggregatedIds ==
  ASSUME NEW ids, NEW rows PROVE BuildAggregatedData(ids, rows).ids = ids
BY DEF BuildAggregatedData

(***************************************************************************)
(* The commit of a fit.                                                    *)
(***************************************************************************)
Publishes ==
  /\ pc = "fit"
  /\ newest' = ComputeRatings(pass.data)
  /\ ratings' = Upsert(ratings, ComputeRatings(pass.data))

\* Every step either publishes a fit in both tables or writes neither.
LEMMA OneCommit == [Next]_vars => Publishes \/ UNCHANGED <<ratings, newest>>
BY DEF Next, vars, Publishes, Vote, SaveAnswers, Toggle, Work, Screen, ReadModels, Aggregate, FitAndWrite,
       WriteRatings, ReadStyleVotes, FitAndWriteStyle, WriteStyle, Fail, CommitReplyLost, Crash,
       Finish, Abandon, tables, env

(***************************************************************************)
(* The cadence of warm starts.                                             *)
(***************************************************************************)
\* Each warm fit moved the counter of the loop as well, so a chain of them is
\* shorter than the count since the last full refit; and a pass that is not
\* forced cold started below the cadence.
CadenceInv ==
  /\ warm.chain \in Nat /\ sinceFull \in Nat /\ force \in BOOLEAN
  /\ warm # NoSeed => warm.chain + 1 =< sinceFull
  /\ FullRefitEvery > 0 =>
       /\ sinceFull =< FullRefitEvery
       /\ pc # "sleep" /\ ~force => sinceFull < FullRefitEvery

\* The loop's own state moves when a pass completes and when the process dies.
LEMMA LoopSteps ==
  ASSUME [Next]_vars
  PROVE  \/ Finish /\ pc # "sleep"
         \/ UNCHANGED loop /\ Abandon
         \/ UNCHANGED loop /\ pc # "sleep" /\ pc' # "sleep" /\ UNCHANGED force
         \/ Screen
         \/ UNCHANGED <<loop, pc, force>>
         \/ Crash
BY DEF Next, vars, Vote, SaveAnswers, Toggle, Work, Screen, ReadModels, Aggregate, FitAndWrite,
       ReadStyleVotes, FitAndWriteStyle, Fail, CommitReplyLost, Crash, Abandon, tables, env

\* FULL_REFIT_EVERY is a number.
LEMMA CadenceInNat == FullRefitEvery \in Nat
BY WorkerAssumption

\* The steps.
LEMMA CadenceStep == ASSUME CadenceInv, [Next]_vars PROVE CadenceInv'
<1> USE CadenceInNat
<1>1. CASE Finish /\ pc # "sleep"
  <2>1. Seed = NoSeed \/ (Seed = warm /\ ~force /\ warm # NoSeed)
    BY DEF Seed, Reusable
  <2>2. PICK k : /\ warm' = [size |-> Len(pass.ids) + 1, chain |-> k]
                 /\ k = 0 \/ (~force /\ warm # NoSeed /\ k = warm.chain + 1)
    BY <1>1, <2>1 DEF Finish, WarmAfter
  <2>3. sinceFull' = IF force \/ warm = NoSeed THEN 1 ELSE sinceFull + 1
    BY <1>1 DEF Finish, Cadence
  <2>4. warm'.chain = k
    BY <2>2
  <2>5. k \in Nat /\ k + 1 =< sinceFull' /\ sinceFull' \in Nat
    BY <2>2, <2>3 DEF CadenceInv
  <2>6. FullRefitEvery > 0 => sinceFull' =< FullRefitEvery
    BY <1>1, <2>3 DEF CadenceInv
  <2> QED BY <1>1, <2>4, <2>5, <2>6 DEF CadenceInv, Finish
<1>2. CASE UNCHANGED loop /\ Abandon
  BY <1>2 DEF CadenceInv, loop, Abandon
<1>3. CASE UNCHANGED loop /\ pc # "sleep" /\ pc' # "sleep" /\ UNCHANGED force
  BY <1>3 DEF CadenceInv, loop
<1>4. CASE Screen
  <2>1. UNCHANGED <<warm, sinceFull>>
    BY <1>4 DEF Screen, loop
  <2>2. force' = (FullRefitEvery > 0 /\ sinceFull >= FullRefitEvery)
    BY <1>4 DEF Screen, Idle
  <2>3. force' \in BOOLEAN /\ (force' <=> FullRefitEvery > 0 /\ sinceFull >= FullRefitEvery)
    BY <2>2, Zenon
  <2>4. FullRefitEvery > 0 /\ ~force' => sinceFull < FullRefitEvery
    BY <2>3 DEF CadenceInv
  <2> QED BY <2>1, <2>3, <2>4 DEF CadenceInv
<1>5. CASE UNCHANGED <<loop, pc, force>>
  BY <1>5 DEF CadenceInv, loop
<1>6. CASE Crash
  <2>1. warm' = NoSeed /\ sinceFull' = 0 /\ ~force' /\ force' \in BOOLEAN /\ pc' = "sleep"
    BY <1>6 DEF Crash, Abandon
  <2>2. warm'.chain = 0
    BY <2>1 DEF NoSeed
  <2>3. FullRefitEvery > 0 => 0 =< FullRefitEvery
    OBVIOUS
  <2> QED BY <2>1, <2>2, <2>3 DEF CadenceInv
<1> QED BY <1>1, <1>2, <1>3, <1>4, <1>5, <1>6, LoopSteps

\* No published fit ends a chain of FULL_REFIT_EVERY warm starts, through skipped
\* passes, failures, lost commits, restarts and roster changes.
THEOREM ChainBounded == Spec => []WarmChainBounded
<1>1. Init => CadenceInv
  <2> SUFFICES ASSUME Init PROVE CadenceInv
    OBVIOUS
  <2>1. warm = NoSeed /\ sinceFull = 0 /\ ~force /\ force \in BOOLEAN /\ pc = "sleep"
    BY DEF Init
  <2>2. warm.chain = 0
    BY <2>1 DEF NoSeed
  <2>3. FullRefitEvery > 0 => 0 =< FullRefitEvery
    BY CadenceInNat
  <2> QED BY <2>1, <2>2, <2>3 DEF CadenceInv
<1>2. CadenceInv => WarmChainBounded
  BY CadenceInNat DEF CadenceInv, WarmChainBounded, Seed, Reusable, NoSeed
<1> QED BY <1>1, <1>2, CadenceStep, PTL DEF Spec
(***************************************************************************)
(* The style panel against the votes.                                      *)
(***************************************************************************)
\* The locals of a pass are a record of four fields.
PassShape ==
  \E x, i, d, b : pass = [excluded |-> x, ids |-> i, data |-> d, ballots |-> b]

\* What the style fit was given are scored votes with both answers still, and a
\* model is rated before it gets a style rating.
StyleInv ==
  /\ PassShape
  /\ DOMAIN cast = Matchups /\ enabled \subseteq Models
  /\ Models \subseteq DOMAIN ratings /\ Models \subseteq DOMAIN styled
  /\ effects \subseteq Scored(cast) \cap answered
  /\ pc = "styleFit" => pass.ballots \subseteq Scored(cast) \cap answered
  /\ \A m \in Models : styled[m] # NoRow => ratings[m] # NoRow
  /\ pc \in {"style", "styleFit"} => \A m \in ToSet(pass.ids) : ratings[m] # NoRow
  /\ pc = "fit" => pass.data.pairs # {} /\ pass.data.ids = pass.ids

\* A vote is cast once and an answer is saved once: both stay.
LEMMA ScoredGrows ==
  ASSUME StyleInv, [Next]_vars
  PROVE  /\ Scored(cast) \subseteq Scored(cast') /\ DOMAIN cast' = Matchups
         /\ answered \subseteq answered'
<1>1. CASE UNCHANGED cast /\ (UNCHANGED answered \/ \E u \in Matchups : SaveAnswers(u))
  BY <1>1 DEF StyleInv, SaveAnswers
<1>2. CASE \E u \in Matchups : Vote(u)
  <2>1. PICK u \in Matchups :
          cast[u] = NoVote /\ \E v \in Ballots[u] : cast' = [cast EXCEPT ![u] = v]
    BY <1>2 DEF Vote
  <2>2. \A w \in Scored(cast) : w # u /\ cast'[w] = cast[w]
    BY <2>1 DEF StyleInv, Scored, Cast
  <2>3. DOMAIN cast' = Matchups
    BY <2>1 DEF StyleInv
  <2>4. answered' = answered
    BY <1>2 DEF Vote
  <2> QED BY <2>2, <2>3, <2>4 DEF Scored, Cast
<1> QED
  BY <1>1, <1>2 DEF Next, vars, env, SaveAnswers, Toggle, Work, Screen, ReadModels, Aggregate, FitAndWrite,
     ReadStyleVotes, FitAndWriteStyle, Fail, CommitReplyLost, Crash

\* A rated model stays rated, and a committed fit rates its whole roster.
LEMMA RatedGrows ==
  ASSUME StyleInv, [Next]_vars
  PROVE  /\ Models \subseteq DOMAIN ratings'
         /\ \A m \in Models : ratings[m] # NoRow => ratings'[m] # NoRow
         /\ Publishes => \A m \in ToSet(pass.ids) : ratings'[m] # NoRow
<1>1. CASE Publishes
  <2>1. DOMAIN ComputeRatings(pass.data) = ToSet(pass.ids)
        /\ \A m \in ToSet(pass.ids) : ComputeRatings(pass.data)[m] # NoRow
    BY <1>1, FitRows DEF Publishes, StyleInv
  <2>2. \A m \in ToSet(pass.ids) : ratings'[m] # NoRow
    BY <1>1, <2>1, UpsertWrites DEF Publishes
  <2>3. \A m \in DOMAIN ratings \ ToSet(pass.ids) : m \in DOMAIN ratings' /\ ratings'[m] = ratings[m]
    BY <1>1, <2>1, UpsertKeeps DEF Publishes
  <2>4. \A m \in DOMAIN ratings : m \in DOMAIN ratings'
    BY <1>1, UpsertKeeps DEF Publishes
  <2> QED BY <2>2, <2>3, <2>4 DEF StyleInv
<1>2. CASE UNCHANGED ratings
  <2>1. ~Publishes \/ \A m \in ToSet(pass.ids) : ratings'[m] # NoRow
    BY <1>1, UpsertWrites, FitRows DEF Publishes, StyleInv
  <2> QED BY <1>2, <2>1 DEF StyleInv
<1> QED BY <1>1, <1>2, OneCommit

\* The steps, as far as the style tables and the pass go.
LEMMA StyleStep == ASSUME StyleInv, [Next]_vars PROVE StyleInv'
<1> USE ScoredGrows, RatedGrows
<1>1. CASE UNCHANGED <<tables, pc, pass>> /\ enabled' \subseteq Models
  BY <1>1 DEF StyleInv, PassShape, tables
<1>2. CASE UNCHANGED <<enabled, tables>> /\ pc' \notin {"fit", "style", "styleFit"}
           /\ PassShape'
  BY <1>2 DEF StyleInv, tables
<1>3. CASE Aggregate /\ pc' = "fit"
  <2>1. PICK x, i, d, b : pass = [excluded |-> x, ids |-> i, data |-> d, ballots |-> b]
    BY DEF StyleInv, PassShape
  <2>2. PICK data : /\ data = BuildAggregatedData(pass.ids, AggregateRows(cast, pass.excluded))
                    /\ data.pairs # {} /\ pass' = [pass EXCEPT !.data = data]
    BY <1>3 DEF Aggregate
  <2>3. pass' = [excluded |-> x, ids |-> i, data |-> data, ballots |-> b]
    BY <2>1, <2>2
  <2>4. data.ids = i
    BY <2>1, <2>2, AggregatedIds
  <2>5. UNCHANGED <<enabled, tables>>
    BY <1>3 DEF Aggregate, env
  <2>6. pass'.data.pairs # {} /\ pass'.data.ids = pass'.ids
    BY <2>2, <2>3, <2>4
  <2>7. PassShape'
    BY <2>3 DEF PassShape
  <2> QED BY <1>3, <2>5, <2>6, <2>7 DEF StyleInv, tables
<1>4. CASE Publishes /\ UNCHANGED <<enabled, styled, effects, pass>> /\ pc' \in {"style", "sleep"}
  BY <1>4 DEF StyleInv, PassShape
<1>5. CASE Publishes /\ UNCHANGED <<enabled, styled, effects>> /\ pc' = "sleep" /\ pass' = Idle
  BY <1>5 DEF StyleInv, PassShape, Idle
<1>6. CASE ReadStyleVotes
  <2>1. PICK x, i, d, b : pass = [excluded |-> x, ids |-> i, data |-> d, ballots |-> b]
    BY DEF StyleInv, PassShape
  <2>2. PICK votes : votes \subseteq Scored(cast) \cap answered /\ pass' = [pass EXCEPT !.ballots = votes]
    BY <1>6 DEF ReadStyleVotes, FetchStyleVotes, Counted
  <2>3. pass' = [excluded |-> x, ids |-> i, data |-> d, ballots |-> votes]
    BY <2>1, <2>2
  <2>4. UNCHANGED <<enabled, cast, answered, tables>> /\ pc = "style" /\ pc' = "styleFit"
    BY <1>6 DEF ReadStyleVotes, env
  <2> QED BY <2>1, <2>2, <2>3, <2>4 DEF StyleInv, PassShape, tables
<1>7. CASE pc = "styleFit" /\ WriteStyle /\ UNCHANGED <<enabled, ratings>> /\ pc' = "sleep" /\ pass' = Idle
  <2>1. \A m \in ToSet(pass.ids) : ratings'[m] # NoRow
    BY <1>7 DEF StyleInv
  <2>2. \A m \in DOMAIN styled : m \in DOMAIN styled'
                                 /\ (m \notin ToSet(pass.ids) => styled'[m] = styled[m])
    BY <1>7, UpsertKeeps, StyleRows DEF WriteStyle
  <2>3. \A m \in Models : styled'[m] # NoRow => ratings'[m] # NoRow
    BY <1>7, <2>1, <2>2 DEF StyleInv
  <2>4. effects' \subseteq Scored(cast') \cap answered'
    BY <1>7 DEF StyleInv, WriteStyle
  <2> QED BY <1>7, <2>2, <2>3, <2>4 DEF StyleInv, PassShape, Idle
<1>8. CASE UNCHANGED vars
  BY <1>8 DEF vars, env, tables, StyleInv, PassShape
<1>9. CASE Next
  <2>1. CASE (\E u \in Matchups : Vote(u) \/ SaveAnswers(u)) \/ (\E m \in Models : Toggle(m))
    <3>1. UNCHANGED <<tables, pc, pass>> /\ enabled' \subseteq Models
      BY <2>1 DEF Vote, SaveAnswers, Toggle, StyleInv
    <3> QED BY <1>1, <3>1
  <2>2. CASE Screen \/ ReadModels \/ (Aggregate /\ pc' # "fit") \/ Fail \/ Crash
    <3>1. PICK x, i, d, b : pass = [excluded |-> x, ids |-> i, data |-> d, ballots |-> b]
      BY DEF StyleInv, PassShape
    <3>2. PassShape'
      BY <2>2, <3>1 DEF PassShape, Screen, ReadModels, Aggregate, Fail, Crash, Abandon, Idle
    <3>3. UNCHANGED <<enabled, tables>> /\ pc' \notin {"fit", "style", "styleFit"}
      BY <2>2 DEF Screen, ReadModels, Aggregate, Fail, Crash, Abandon, env
    <3> QED BY <1>2, <3>2, <3>3
  <2>3. CASE FitAndWrite
    BY <1>4, <1>5, <2>3 DEF FitAndWrite, WriteRatings, Publishes, Finish, env
  <2>4. CASE FitAndWriteStyle
    <3>1. CASE pass.ballots = {}
      <4>1. UNCHANGED <<enabled, tables>> /\ pc' = "sleep" /\ pass' = Idle
        BY <2>4, <3>1 DEF FitAndWriteStyle, Finish, env, tables
      <4> QED BY <1>2, <4>1 DEF PassShape, Idle
    <3>2. CASE pass.ballots # {}
      BY <1>7, <2>4, <3>2 DEF FitAndWriteStyle, Finish, env
    <3> QED BY <3>1, <3>2
  <2>5. CASE CommitReplyLost
    BY <1>5, <1>7, <2>5 DEF CommitReplyLost, Abandon, WriteRatings, Publishes, env
  <2> QED
    BY <1>3, <1>6, <1>9, <2>1, <2>2, <2>3, <2>4, <2>5 DEF Next, Work
<1> QED BY <1>8, <1>9

\* Before the first pass.
LEMMA StyleInit == ASSUME Init PROVE StyleInv
<1>1. PassShape
  BY DEF Init, Idle, PassShape
<1> QED BY <1>1 DEF Init, StyleInv

\* The scale of the style effects covers the votes behind them whose models are
\* enabled, and the chart shows every styled model.
LEMMA StyleCovers == StyleInv => StyleReportCovers
BY DEF StyleInv, StyleReportCovers, ReadStyleControl, GetStyleControl, StyleFeatureSpread,
   Scored, Cast

(***************************************************************************)
(* A reply read beside the worker.                                         *)
(***************************************************************************)
\* The coefficients of the reply were fitted on votes that are scored still, with
\* both answers, and the sample, once taken, was taken after them.
ReaderInv ==
  /\ \E q, r, g, f, v, o : reader = [left |-> q, rows |-> r, groups |-> g,
                                     effects |-> f, votes |-> v, roster |-> o]
  /\ reader.effects \subseteq Scored(cast) \cap answered
  /\ "effects" \in reader.left => "spread" \in reader.left
  /\ "spread" \notin reader.left =>
       \A u \in reader.effects : {SlotA[u], SlotB[u]} \subseteq reader.roster => u \in reader.votes

\* The steps of the worker and of the request.
LEMMA ReaderStep ==
  ASSUME StyleInv, ReaderInv, ReaderNext \/ UNCHANGED <<vars, reader>>
  PROVE  ReaderInv'
<1>1. PICK q, r, g, f, v, o : reader = [left |-> q, rows |-> r, groups |-> g,
                                        effects |-> f, votes |-> v, roster |-> o]
  BY DEF ReaderInv
<1>2. CASE UNCHANGED reader
  <2>1. [Next]_vars
    BY <1>2 DEF ReaderNext, Read, ReadRows, ReadGroups, ReadEffects, ReadSpread, Sample
  <2> QED BY <1>2, <2>1, ScoredGrows DEF ReaderInv
<1>3. CASE ReadRows
  BY <1>1, <1>3 DEF ReadRows, ReaderInv, Done, vars, env
<1>4. CASE ReadGroups
  BY <1>1, <1>4 DEF ReadGroups, ReaderInv, Done, vars, env
<1>5. CASE ReadEffects
  <2> DEFINE s == {"effects"} \cup IF effects = {} THEN {"spread"} ELSE {}
  <2>1. reader' = [reader EXCEPT !.left = q \ s, !.effects = effects]
    BY <1>1, <1>5 DEF ReadEffects, Done
  <2>2. reader' = [left |-> q \ s, rows |-> r, groups |-> g,
                   effects |-> effects, votes |-> v, roster |-> o]
    BY <1>1, <2>1
  <2>3. UNCHANGED <<cast, answered>> /\ effects \subseteq Scored(cast) \cap answered /\ "spread" \in q
    BY <1>1, <1>5 DEF ReadEffects, Pending, ReaderInv, StyleInv, vars, env
  <2>4. reader'.effects \subseteq Scored(cast') \cap answered'
    BY <2>2, <2>3
  <2>5. "spread" \notin reader'.left => reader'.effects = {}
    BY <2>1, <2>2, <2>3
  <2>6. "effects" \notin reader'.left
    BY <2>1, <2>2
  <2> QED BY <2>2, <2>4, <2>5, <2>6 DEF ReaderInv
<1>6. CASE ReadSpread
  <2>1. reader' = [left |-> q \ {"spread"}, rows |-> r, groups |-> g, effects |-> f,
                   votes |-> StyleFeatureSpread(cast, answered, enabled), roster |-> enabled]
    BY <1>1, <1>6 DEF ReadSpread, Sample, Done
  <2>2. UNCHANGED <<cast, answered>> /\ "effects" \notin q /\ f \subseteq Scored(cast) \cap answered
    BY <1>1, <1>6 DEF ReadSpread, Sample, Pending, ReaderInv, vars, env
  <2>3. reader'.effects = f /\ "effects" \notin reader'.left
    BY <2>1, <2>2
  <2>4. \A u \in f : {SlotA[u], SlotB[u]} \subseteq enabled => u \in reader'.votes
    BY <2>1, <2>2 DEF StyleFeatureSpread
  <2>5. reader'.roster = enabled
    BY <2>1
  <2> QED BY <2>1, <2>2, <2>3, <2>4, <2>5 DEF ReaderInv
<1> QED BY <1>2, <1>3, <1>4, <1>5, <1>6 DEF ReaderNext, Read

\* Of the votes behind the style coefficients, the sample that scales them leaves
\* out only those of disabled models, in the tables and in a reply read from them
\* by several statements; and the chart shows every styled model.
THEOREM PanelTrue == ReaderSpec => []StylePanelTrue
<1>1. ReaderInit => StyleInv /\ ReaderInv
  <2> SUFFICES ASSUME ReaderInit PROVE StyleInv /\ ReaderInv
    OBVIOUS
  <2>1. StyleInv
    BY StyleInit DEF ReaderInit
  <2>2. ReaderInv
    BY DEF ReaderInit, ReaderInv, Statements
  <2> QED BY <2>1, <2>2
<1>2. (StyleInv /\ ReaderInv) /\ [ReaderNext]_<<vars, reader>> => (StyleInv /\ ReaderInv)'
  <2> SUFFICES ASSUME StyleInv, ReaderInv, [ReaderNext]_<<vars, reader>>
               PROVE  StyleInv' /\ ReaderInv'
    OBVIOUS
  <2>1. [Next]_vars
    BY DEF ReaderNext, Read, ReadRows, ReadGroups, ReadEffects, ReadSpread, Sample
  <2>2. StyleInv'
    BY <2>1, StyleStep
  <2>3. ReaderInv'
    BY ReaderStep
  <2> QED BY <2>2, <2>3
<1>3. StyleInv /\ ReaderInv => StylePanelTrue
  BY StyleCovers DEF ReaderInv, ReplyScaled, StylePanelTrue
<1> QED BY <1>1, <1>2, <1>3, PTL DEF ReaderSpec


(***************************************************************************)
(* Induction, over numbers and over the subsets of a finite set.           *)
(***************************************************************************)
\* Induction over 0..n: the least element outside T has none before it.
LEMMA NumberInduction ==
  ASSUME NEW n \in Nat, NEW T, 0 \in T, \A k \in 0..(n - 1) : k \in T => k + 1 \in T
  PROVE  0..n \subseteq T
<1> DEFINE R == OpToRel(<, Nat)
           Out == (0..n) \ T
<1>1. SUFFICES ASSUME Out # {} PROVE FALSE
  OBVIOUS
<1>2. \A x, y \in Nat : y < x => <<y, x>> \in R
  BY DEF OpToRel
<1>3. IsWellFoundedOn(R, Nat)
  BY NatLessThanWellFounded
<1>4. Out \subseteq Nat
  OBVIOUS
<1>5. PICK x \in Out : \A y \in Out : ~(<<y, x>> \in R)
  <2> HIDE DEF R, Out
  <2> QED BY <1>1, <1>3, <1>4, WFMin
<1>6. x \in 1..n
  OBVIOUS
<1>7. x - 1 \in 0..(n - 1) /\ x - 1 < x /\ x - 1 \in Nat /\ (x - 1) + 1 = x
  BY <1>6
<1>8. x \in Nat /\ <<x - 1, x>> \in R
  <2> HIDE DEF R
  <2> QED BY <1>2, <1>6, <1>7
<1>9. x - 1 \notin Out
  <2> HIDE DEF R, Out
  <2> QED BY <1>5, <1>8
<1>10. x - 1 \in T
  BY <1>6, <1>9
<1>11. x \in T
  BY <1>7, <1>10
<1> QED BY <1>5, <1>11

\* A set of numbers has a least element.
LEMMA LeastNumber ==
  ASSUME NEW T, T \subseteq Nat, T # {} PROVE \E n \in T : \A m \in T : n =< m
<1> DEFINE R == OpToRel(<, Nat)
<1>1. \A x, y \in Nat : y < x => <<y, x>> \in R
  BY DEF OpToRel
<1>2. IsWellFoundedOn(R, Nat)
  BY NatLessThanWellFounded
<1> HIDE DEF R
<1>3. \E x \in T : \A y \in T : ~(<<y, x>> \in R)
  BY <1>2, WFMin
<1>4. \E x \in T : \A y \in T : ~(y < x)
  BY <1>1, <1>3
<1> QED BY <1>4

\* The element a fold takes from a set.
OneOf(s) == CHOOSE x \in s : TRUE

\* It is one of the set's.
LEMMA OneOfIs == ASSUME NEW s, s # {} PROVE OneOf(s) \in s
BY DEF OneOf

\* Induction over the subsets of a finite set, one element at a time.
LEMMA SubsetInduction ==
  ASSUME NEW S, IsFiniteSet(S), NEW T, {} \in T,
         \A s \in SUBSET S : s # {} /\ s \ {OneOf(s)} \in T => s \in T
  PROVE  SUBSET S \subseteq T
<1> DEFINE N == Cardinality(S)
           Sizes == {k \in Nat : \A s \in SUBSET S : Cardinality(s) = k => s \in T}
<1>1. N \in Nat /\ \A s \in SUBSET S : IsFiniteSet(s) /\ Cardinality(s) \in 0..N
  BY FS_CardinalityType, FS_Subset
<1>2. 0 \in Sizes
  <2> SUFFICES ASSUME NEW s \in SUBSET S, Cardinality(s) = 0 PROVE s \in T
    OBVIOUS
  <2>1. IsFiniteSet(s)
    BY <1>1
  <2>2. s = {}
    BY <2>1, FS_EmptySet
  <2> QED BY <2>2
<1>3. ASSUME NEW k \in 0..(N - 1), k \in Sizes PROVE k + 1 \in Sizes
  <2> SUFFICES ASSUME NEW s \in SUBSET S, Cardinality(s) = k + 1 PROVE s \in T
    BY <1>3
  <2>1. s # {}
    <3>1. Cardinality(s) # 0
      OBVIOUS
    <3> QED BY <3>1, FS_EmptySet
  <2>2. IsFiniteSet(s) /\ OneOf(s) \in s
    BY <1>1, <2>1, OneOfIs
  <2>3. Cardinality(s \ {OneOf(s)}) = Cardinality(s) - 1
    BY <2>2, FS_RemoveElement
  <2>4. Cardinality(s \ {OneOf(s)}) = k
    BY <2>3
  <2> QED BY <1>3, <2>1, <2>4
<1>4. 0..N \subseteq Sizes
  <2> HIDE DEF N, Sizes
  <2> QED BY <1>1, <1>2, <1>3, NumberInduction
<1> QED BY <1>1, <1>4

(***************************************************************************)
(* What a fold computes: MapThenFoldSet defines its function by recursion. *)
(***************************************************************************)
\* It is a function on the subsets, here of values in A.
Iterates(it, S, A, b, op) ==
  /\ it \in [SUBSET S -> A]
  /\ \A s \in SUBSET S : it[s] = IF s = {} THEN b ELSE op[<<OneOf(s), it[s \ {OneOf(s)}]>>]

\* There is such a function.
LEMMA FoldExists ==
  ASSUME NEW S, IsFiniteSet(S), NEW A, NEW b \in A, NEW op \in [S \X A -> A]
  PROVE  \E it : Iterates(it, S, A, b, op)
<1> DEFINE N == Cardinality(S)
           Small(k) == {s \in SUBSET S : Cardinality(s) =< k}
           Good(k, g) == /\ g \in [Small(k) -> A]
                         /\ \A s \in Small(k) : g[s] = IF s = {} THEN b ELSE op[<<OneOf(s), g[s \ {OneOf(s)}]>>]
           Reach == {k \in Nat : \E g : Good(k, g)}
<1>1. N \in Nat /\ \A s \in SUBSET S : IsFiniteSet(s) /\ Cardinality(s) \in 0..N
  BY FS_CardinalityType, FS_Subset
<1>2. \A s \in SUBSET S : s # {} =>
        /\ OneOf(s) \in S /\ s \ {OneOf(s)} \in SUBSET S
        /\ Cardinality(s \ {OneOf(s)}) = Cardinality(s) - 1
  BY <1>1, OneOfIs, FS_RemoveElement
<1>3. 0 \in Reach
  <2>1. \A s \in Small(0) : s = {}
    BY <1>1, FS_EmptySet
  <2>2. Good(0, [s \in Small(0) |-> b])
    BY <2>1
  <2> QED BY <2>2
<1>4. ASSUME NEW k \in 0..(N - 1), k \in Reach PROVE k + 1 \in Reach
  <2>1. PICK g : Good(k, g)
    BY <1>4
  <2> DEFINE h == [s \in Small(k + 1) |-> IF s = {} THEN b ELSE op[<<OneOf(s), g[s \ {OneOf(s)}]>>]]
  <2>2. \A s \in Small(k + 1) : s # {} => s \ {OneOf(s)} \in Small(k)
    BY <1>1, <1>2
  <2>3. h \in [Small(k + 1) -> A]
    BY <1>2, <2>1, <2>2
  <2>4. Small(k) \subseteq Small(k + 1)
    BY <1>1
  <2>5. ASSUME NEW s \in Small(k) PROVE h[s] = g[s]
    BY <2>1, <2>4
  <2>6. \A s \in Small(k + 1) : h[s] = IF s = {} THEN b ELSE op[<<OneOf(s), h[s \ {OneOf(s)}]>>]
    BY <2>2, <2>5
  <2>7. Good(k + 1, h)
    BY <2>3, <2>6
  <2>8. k + 1 \in Nat
    OBVIOUS
  <2> QED BY <2>7, <2>8
<1>5. 0..N \subseteq Reach
  <2> HIDE DEF N, Reach
  <2> QED BY <1>1, <1>3, <1>4, NumberInduction
<1>6. PICK g : Good(N, g)
  BY <1>1, <1>5
<1>7. Small(N) = SUBSET S
  BY <1>1
<1> QED BY <1>6, <1>7 DEF Iterates

(***************************************************************************)
(* Sums of counts.                                                         *)
(***************************************************************************)
\* What adding f up is, subset by subset.
Adds(it, S, f) ==
  it = [s \in SUBSET S |-> IF s = {} THEN 0 ELSE f[OneOf(s)] + it[s \ {OneOf(s)}]]

\* Numbers can be added up so.
LEMMA SumExists ==
  ASSUME NEW S, IsFiniteSet(S), NEW f \in [S -> Nat]
  PROVE  \E it : Adds(it, S, f)
<1>1. PICK op \in [S \X Nat -> Nat] : \A x \in S, n \in Nat : op[<<x, n>>] = f[x] + n
  <2> DEFINE g == [p \in S \X Nat |-> f[p[1]] + p[2]]
  <2>1. g \in [S \X Nat -> Nat] /\ \A x \in S, n \in Nat : g[<<x, n>>] = f[x] + n
    OBVIOUS
  <2> QED BY <2>1
<1>2. 0 \in Nat
  OBVIOUS
<1>3. PICK it : Iterates(it, S, Nat, 0, op)
  BY <1>2, FoldExists, Zenon
<1>4. \A s \in SUBSET S : s # {} => op[<<OneOf(s), it[s \ {OneOf(s)}]>>] = f[OneOf(s)] + it[s \ {OneOf(s)}]
  BY <1>1, <1>3, OneOfIs DEF Iterates
<1>5. it = [s \in SUBSET S |-> IF s = {} THEN 0 ELSE f[OneOf(s)] + it[s \ {OneOf(s)}]]
  BY <1>3, <1>4 DEF Iterates
<1> QED BY <1>5 DEF Adds

\* The sizes of disjoint sets add up.
LEMMA DisjointUnion ==
  ASSUME NEW A, IsFiniteSet(A), NEW B, IsFiniteSet(B), A \cap B = {}
  PROVE  /\ IsFiniteSet(A \cup B) /\ Cardinality(A) \in Nat /\ Cardinality(B) \in Nat
         /\ Cardinality(A \cup B) = Cardinality(A) + Cardinality(B)
<1>1. Cardinality(A \cap B) = 0
  BY FS_EmptySet
<1>2. Cardinality(A) \in Nat /\ Cardinality(B) \in Nat
  BY FS_CardinalityType
<1>3. IsFiniteSet(A \cup B)
      /\ Cardinality(A \cup B) = Cardinality(A) + Cardinality(B) - Cardinality(A \cap B)
  BY FS_Union
<1> QED BY <1>1, <1>2, <1>3

\* The sum of the sizes of disjoint sets is the size of their union.
LEMMA SumCounts ==
  ASSUME NEW S, IsFiniteSet(S), NEW U, IsFiniteSet(U), NEW B,
         \A s \in S : B[s] \subseteq U,
         \A s, t \in S : s # t => B[s] \cap B[t] = {},
         NEW f, \A s \in S : f[s] = Cardinality(B[s]),
         NEW it, Adds(it, S, f)
  PROVE  it[S] = Cardinality({u \in U : \E s \in S : u \in B[s]})
<1> DEFINE In(s) == {u \in U : \E t \in s : u \in B[t]}
           T == {s \in SUBSET S : it[s] = Cardinality(In(s))}
<1>1. {} \in T
  <2>1. In({}) = {} /\ it[{}] = 0
    BY DEF Adds
  <2> QED BY <2>1, FS_EmptySet
<1>2. ASSUME NEW s \in SUBSET S, s # {}, s \ {OneOf(s)} \in T PROVE s \in T
  <2> DEFINE x == OneOf(s)
             r == s \ {OneOf(s)}
  <2>1. x \in s /\ x \in S
    BY <1>2, OneOfIs
  <2>2. it[s] = f[x] + it[r]
    BY <1>2 DEF Adds
  <2>3. In(s) = B[x] \cup In(r) /\ B[x] \cap In(r) = {}
    BY <2>1
  <2>4. IsFiniteSet(B[x]) /\ IsFiniteSet(In(r))
    BY <2>1, FS_Subset
  <2>5. Cardinality(In(s)) = Cardinality(B[x]) + Cardinality(In(r))
    <3> HIDE DEF In, x, r
    <3> QED BY <2>3, <2>4, DisjointUnion
  <2>6. it[r] = Cardinality(In(r)) /\ f[x] = Cardinality(B[x])
    BY <1>2, <2>1
  <2>7. it[s] = Cardinality(In(s))
    <3> HIDE DEF In, x, r
    <3> QED BY <2>2, <2>5, <2>6
  <2> QED BY <2>7
<1>3. S \in T
  <2> HIDE DEF T
  <2> QED BY <1>1, <1>2, SubsetInduction
<1> QED BY <1>3

(***************************************************************************)
(* Union-find.                                                             *)
(***************************************************************************)
\* The walk of _UnionFind.find, n parents up from x.
Walks(w, n, S, p, x) == w \in [0..n -> S] /\ w[0] = x /\ \A k \in 1..n : w[k] = p[w[k - 1]]

\* Such a walk exists ...
LEMMA WalkExists ==
  ASSUME NEW n \in Nat, NEW S, NEW p \in [S -> S], NEW x \in S
  PROVE  \E w : Walks(w, n, S, p, x)
<1> DEFINE T == {m \in Nat : \E w : Walks(w, m, S, p, x)}
<1>1. 0 \in T
  <2>1. Walks([k \in 0..0 |-> x], 0, S, p, x)
    BY DEF Walks
  <2> QED BY <2>1
<1>2. ASSUME NEW m \in 0..(n - 1), m \in T PROVE m + 1 \in T
  <2>1. PICK w : Walks(w, m, S, p, x)
    BY <1>2
  <2> DEFINE v == [k \in 0..(m + 1) |-> IF k = m + 1 THEN p[w[m]] ELSE w[k]]
  <2>2. w[m] \in S
    BY <2>1 DEF Walks
  <2>3. v \in [0..(m + 1) -> S]
    BY <2>1, <2>2 DEF Walks
  <2>4. v[0] = x
    BY <2>1 DEF Walks
  <2>5. ASSUME NEW k \in 1..(m + 1) PROVE v[k] = p[v[k - 1]]
    <3>1. CASE k = m + 1
      BY <3>1
    <3>2. CASE k # m + 1
      BY <2>1, <3>2 DEF Walks
    <3> QED BY <3>1, <3>2
  <2>6. Walks(v, m + 1, S, p, x)
    <3> HIDE DEF v
    <3> QED BY <2>3, <2>4, <2>5 DEF Walks
  <2>7. m + 1 \in Nat
    OBVIOUS
  <2> QED BY <2>6, <2>7
<1>3. n \in T
  <2> HIDE DEF T
  <2>1. n \in 0..n
    OBVIOUS
  <2> QED BY <1>1, <1>2, <2>1, NumberInduction
<1> QED BY <1>3

\* ... and a function that is defined by that recursion is one.
LEMMA WalkIs ==
  ASSUME NEW n \in Nat, NEW S, NEW p \in [S -> S], NEW x \in S, NEW w,
         w = [k \in 0..n |-> IF k = 0 THEN x ELSE p[w[k - 1]]]
  PROVE  Walks(w, n, S, p, x)
<1> DEFINE T == {k \in 0..n : w[k] \in S}
<1>1. w[0] = x /\ \A k \in 1..n : w[k] = p[w[k - 1]]
  OBVIOUS
<1>2. 0 \in T
  BY <1>1
<1>3. \A k \in 0..(n - 1) : k \in T => k + 1 \in T
  <2> SUFFICES ASSUME NEW k \in 0..(n - 1), w[k] \in S PROVE k + 1 \in 0..n /\ w[k + 1] \in S
    OBVIOUS
  <2>1. k + 1 \in 1..n /\ (k + 1) - 1 = k
    OBVIOUS
  <2>2. w[k + 1] = p[w[k]]
    BY <1>1, <2>1
  <2> QED BY <2>1, <2>2
<1>4. 0..n \subseteq T
  <2> HIDE DEF T
  <2> QED BY <1>2, <1>3, NumberInduction
<1>5. w \in [0..n -> S]
  BY <1>4
<1> QED BY <1>1, <1>5 DEF Walks

\* The parents after find has pointed the walk at its end.
Compressed(n, p, w) == [y \in 1..n |-> IF \E k \in 0..n : y = w[k] THEN w[n] ELSE p[y]]

Found(w, n, p, r, x) ==
  /\ Walks(w, n, 1..n, p, x)
  /\ Find([parent |-> p, rank |-> r], x) =
       [root |-> w[n], uf |-> [parent |-> Compressed(n, p, w), rank |-> r]]

\* find returns the end of the walk, with the path compressed.
LEMMA FindIs ==
  ASSUME NEW n \in Nat, NEW p \in [1..n -> 1..n], NEW r, NEW x \in 1..n
  PROVE  \E w : Found(w, n, p, r, x)
<1> DEFINE uf == [parent |-> p, rank |-> r]
           W == CHOOSE walk : walk = [k \in 0..Len(uf.parent) |->
                                        IF k = 0 THEN x ELSE uf.parent[walk[k - 1]]]
<1>1. Find(uf, x) = [root |-> W[Len(uf.parent)],
                     uf |-> [uf EXCEPT !.parent =
                               [y \in DOMAIN uf.parent |-> IF y \in {W[k] : k \in DOMAIN W}
                                                           THEN W[Len(uf.parent)] ELSE uf.parent[y]]]]
  BY DEF Find
<1>2. uf.parent = p /\ Len(p) = n
  OBVIOUS
<1>3. \E w : w = [k \in 0..n |-> IF k = 0 THEN x ELSE p[w[k - 1]]]
  <2>1. PICK w : Walks(w, n, 1..n, p, x)
    BY WalkExists
  <2>2. ASSUME NEW k \in 0..n PROVE w[k] = IF k = 0 THEN x ELSE p[w[k - 1]]
    <3>1. k = 0 \/ k \in 1..n
      OBVIOUS
    <3> QED BY <2>1, <3>1 DEF Walks
  <2> DEFINE v == [k \in 0..n |-> IF k = 0 THEN x ELSE p[w[k - 1]]]
  <2>3. \A k \in 0..n : v[k] = w[k]
    BY <2>2
  <2>4. w \in [0..n -> 1..n] /\ v \in [0..n -> 1..n]
    <3>1. v = [k \in 0..n |-> v[k]]
      OBVIOUS
    <3> HIDE DEF v
    <3> QED BY <2>1, <2>3, <3>1 DEF Walks
  <2>5. w = v
    <3> HIDE DEF v
    <3> QED BY <2>3, <2>4
  <2> QED BY <2>5
<1>4. W = [k \in 0..n |-> IF k = 0 THEN x ELSE p[W[k - 1]]]
  <2> DEFINE rec(w) == [k \in 0..n |-> IF k = 0 THEN x ELSE p[w[k - 1]]]
  <2>1. W = CHOOSE w : w = rec(w)
    BY <1>2
  <2>2. \E w : w = rec(w)
    BY <1>3
  <2> HIDE DEF W, rec
  <2>3. W = rec(W)
    BY <2>1, <2>2, Zenon
  <2> QED BY <2>3 DEF rec
<1>5. Walks(W, n, 1..n, p, x)
  <2> HIDE DEF W
  <2> QED BY <1>4, WalkIs
<1>6. \A y \in 1..n : y \in {W[k] : k \in DOMAIN W} <=> \E k \in 0..n : y = W[k]
  <2> HIDE DEF W
  <2> QED BY <1>5 DEF Walks
<1>7. Find(uf, x) = [root |-> W[n], uf |-> [parent |-> Compressed(n, p, W), rank |-> r]]
  <2> DEFINE P == [y \in DOMAIN uf.parent |-> IF y \in {W[k] : k \in DOMAIN W}
                                              THEN W[Len(uf.parent)] ELSE uf.parent[y]]
             Q == [y \in 1..n |-> IF \E k \in 0..n : y = W[k] THEN W[n] ELSE p[y]]
  <2>1. P = Q
    <3> HIDE DEF W
    <3> QED BY <1>2, <1>6
  <2>2. Find(uf, x) = [root |-> W[n], uf |-> [uf EXCEPT !.parent = P]]
    BY <1>1, <1>2
  <2> HIDE DEF P, Q, W
  <2>3. [uf EXCEPT !.parent = Q] = [parent |-> Q, rank |-> r]
    OBVIOUS
  <2>4. Find(uf, x) = [root |-> W[n], uf |-> [parent |-> Q, rank |-> r]]
    BY <2>1, <2>2, <2>3
  <2> QED BY <2>4 DEF Q, Compressed
<1> QED
  <2> HIDE DEF W
  <2> QED BY <1>5, <1>7 DEF Found

\* A forest whose trees have the roots rep; ranks grow towards them.
Forest(n, p, r, rep) ==
  /\ p \in [1..n -> 1..n] /\ r \in [1..n -> Nat] /\ rep \in [1..n -> 1..n]
  /\ \A x \in 1..n :
       /\ rep[p[x]] = rep[x]
       /\ p[rep[x]] = rep[x]
       /\ p[x] = x => rep[x] = x
       /\ x # rep[x] => r[x] < r[p[x]] /\ r[x] < r[rep[x]]

\* n + 1 steps over n places meet one of them twice.
LEMMA Pigeons ==
  ASSUME NEW n \in Nat, NEW w \in [0..n -> 1..n]
  PROVE  \E i, j \in 0..n : i # j /\ w[i] = w[j]
<1>1. PICK S, T : S = 0..n /\ T = 1..n
  OBVIOUS
<1>2. IsFiniteSet(S) /\ Cardinality(S) = n + 1
  BY <1>1, FS_Interval
<1>3. IsFiniteSet(T) /\ Cardinality(T) = n
  BY <1>1, FS_Interval
<1>4. Cardinality(T) < Cardinality(S)
  BY <1>2, <1>3
<1>5. w \in [S -> T]
  BY <1>1
<1>6. IsFiniteSet(S) /\ IsFiniteSet(T)
  BY <1>2, <1>3
<1>7. \E i, j \in S : i # j /\ w[i] = w[j]
  BY <1>4, <1>5, <1>6, FS_PigeonHole, Zenon
<1> QED BY <1>1, <1>7

\* n steps are enough: a longer walk would meet n + 1 ranks.
LEMMA WalkEnds ==
  ASSUME NEW n \in Nat, NEW p, NEW r, NEW rep, Forest(n, p, r, rep),
         NEW x \in 1..n, NEW w, Walks(w, n, 1..n, p, x)
  PROVE  w[n] = rep[x] /\ \A k \in 0..n : rep[w[k]] = rep[x]
<1> DEFINE Same == {k \in 0..n : rep[w[k]] = rep[x]}
           Off  == {j \in 0..n : w[n - j] # rep[x]}
           Up  == {j \in 0..n : \A i \in 0..(j - 1) : r[w[i]] < r[w[j]]}
<1>1. w \in [0..n -> 1..n] /\ w[0] = x /\ \A k \in 0..(n - 1) : w[k + 1] = p[w[k]]
  <2>1. \A k \in 0..(n - 1) : k + 1 \in 1..n /\ (k + 1) - 1 = k
    OBVIOUS
  <2> QED BY <2>1 DEF Walks
<1>2. 0..n \subseteq Same
  <2>1. 0 \in Same
    BY <1>1
  <2>2. ASSUME NEW k \in 0..(n - 1), k \in Same PROVE k + 1 \in Same
    <3>1. k \in 0..n /\ k + 1 \in 0..n
      OBVIOUS
    <3>2. rep[p[w[k]]] = rep[w[k]]
      BY <1>1, <3>1 DEF Forest
    <3> QED BY <1>1, <2>2, <3>1, <3>2
  <2> HIDE DEF Same
  <2> QED BY <2>1, <2>2, NumberInduction
<1>3. w[n] = rep[x]
  <2> SUFFICES ASSUME w[n] # rep[x] PROVE FALSE
    OBVIOUS
  <2>1. 0..n \subseteq Off
    <3>1. 0 \in Off
      OBVIOUS
    <3>2. ASSUME NEW j \in 0..(n - 1), j \in Off PROVE j + 1 \in Off
      <4> DEFINE k == n - (j + 1)
      <4>1. k \in 0..(n - 1) /\ k + 1 = n - j /\ j + 1 \in 0..n
        OBVIOUS
      <4>2. w[k + 1] = p[w[k]] /\ w[k + 1] # rep[x]
        BY <1>1, <3>2, <4>1
      <4>3. w[k] # rep[x]
        BY <4>2 DEF Forest
      <4> QED BY <4>1, <4>3
    <3> HIDE DEF Off
    <3> QED BY <3>1, <3>2, NumberInduction
  <2>2. ASSUME NEW k \in 0..(n - 1) PROVE r[w[k]] < r[w[k + 1]]
    <3>1. n - k \in Off /\ n - (n - k) = k
      BY <2>1
    <3>2. w[k] # rep[x] /\ rep[w[k]] = rep[x] /\ w[k] \in 1..n
      BY <1>1, <1>2, <3>1
    <3> QED BY <1>1, <3>2 DEF Forest
  <2>3. \A k \in 0..n : r[w[k]] \in Nat
    BY <1>1 DEF Forest
  <2>4. 0..n \subseteq Up
    <3>1. 0 \in Up
      OBVIOUS
    <3>2. ASSUME NEW j \in 0..(n - 1), j \in Up PROVE j + 1 \in Up
      <4>1. ASSUME NEW i \in 0..j PROVE r[w[i]] < r[w[j + 1]]
        <5>1. r[w[j]] < r[w[j + 1]] /\ j \in 0..n /\ j + 1 \in 0..n /\ i \in 0..n
          BY <2>2
        <5>2. i = j \/ r[w[i]] < r[w[j]]
          BY <3>2
        <5>3. r[w[i]] \in Nat /\ r[w[j]] \in Nat /\ r[w[j + 1]] \in Nat
          BY <2>3, <5>1
        <5> QED BY <5>1, <5>2, <5>3
      <4> QED BY <4>1
    <3> HIDE DEF Up
    <3> QED BY <3>1, <3>2, NumberInduction
  <2>5. \A i, j \in 0..n : i < j => w[i] # w[j]
    <3> SUFFICES ASSUME NEW i \in 0..n, NEW j \in 0..n, i < j PROVE w[i] # w[j]
      OBVIOUS
    <3>1. r[w[i]] < r[w[j]]
      BY <2>4
    <3> QED BY <2>3, <3>1
  <2>6. \A i, j \in 0..n : i # j => w[i] # w[j]
    BY <2>5
  <2>7. \E i, j \in 0..n : i # j /\ w[i] = w[j]
    BY <1>1, Pigeons
  <2> QED BY <2>6, <2>7
<1> QED BY <1>2, <1>3

FindsRoot(n, p, r, rep, x, q) ==
  /\ Find([parent |-> p, rank |-> r], x) = [root |-> rep[x], uf |-> [parent |-> q, rank |-> r]]
  /\ Forest(n, q, r, rep)

\* find names the root of the tree, and compressing the path leaves the trees.
LEMMA FindFinds ==
  ASSUME NEW n \in Nat, NEW p, NEW r, NEW rep, Forest(n, p, r, rep), NEW x \in 1..n
  PROVE  \E q : FindsRoot(n, p, r, rep, x, q)
<1>1. p \in [1..n -> 1..n]
  BY DEF Forest
<1>2. PICK w : Found(w, n, p, r, x)
  BY <1>1, FindIs
<1>3. w[n] = rep[x] /\ \A k \in 0..n : rep[w[k]] = rep[x]
  BY <1>2, WalkEnds DEF Found
<1> DEFINE q == Compressed(n, p, w)
<1>4. \A y \in 1..n : q[y] = p[y] \/ (q[y] = rep[x] /\ rep[y] = rep[x])
  BY <1>3 DEF Compressed
<1>5. q \in [1..n -> 1..n]
  BY <1>1, <1>3 DEF Forest, Compressed
<1>6. rep[rep[x]] = rep[x]
  BY DEF Forest
<1>7. Forest(n, q, r, rep)
  <2> SUFFICES ASSUME NEW y \in 1..n
               PROVE  /\ rep[q[y]] = rep[y] /\ q[rep[y]] = rep[y]
                      /\ q[y] = y => rep[y] = y
                      /\ y # rep[y] => r[y] < r[q[y]] /\ r[y] < r[rep[y]]
    <3> HIDE DEF q
    <3> QED BY <1>5 DEF Forest
  <2> HIDE DEF q
  <2>1. rep[y] \in 1..n /\ rep[rep[y]] = rep[y]
    BY DEF Forest
  <2>2. q[rep[y]] = rep[y]
    BY <1>4, <2>1 DEF Forest
  <2> QED BY <1>4, <1>6, <2>1, <2>2 DEF Forest
<1>8. Find([parent |-> p, rank |-> r], x) = [root |-> rep[x], uf |-> [parent |-> q, rank |-> r]]
  BY <1>2, <1>3 DEF Found
<1> QED
  <2> HIDE DEF q
  <2> QED BY <1>7, <1>8 DEF FindsRoot

\* Two trees become one, and the others stay apart.
Merges(n, rep, new, a, b) ==
  /\ new[a] = new[b]
  /\ \A x, y \in 1..n : /\ rep[x] = rep[y] => new[x] = new[y]
                        /\ new[x] = new[y] => \/ rep[x] = rep[y]
                                              \/ rep[x] = rep[a] /\ rep[y] = rep[b]
                                              \/ rep[x] = rep[b] /\ rep[y] = rep[a]

Unites(n, uf, rep, a, b, q, s, new) ==
  /\ Union(uf, a, b) = [parent |-> q, rank |-> s]
  /\ Forest(n, q, s, new)
  /\ Merges(n, rep, new, a, b)

\* The root low is hung under the root high.
Hangs(n, p, r, rep, low, high, q, s, new) ==
  /\ low \in 1..n /\ high \in 1..n /\ low # high
  /\ rep[low] = low /\ rep[high] = high /\ r[low] =< r[high]
  /\ q = [p EXCEPT ![low] = high]
  /\ s = [r EXCEPT ![high] = IF r[high] = r[low] THEN r[high] + 1 ELSE r[high]]
  /\ new = [x \in 1..n |-> IF rep[x] = low THEN high ELSE rep[x]]

\* The result is a forest, whose ranks still grow towards the roots.
LEMMA HungForest ==
  ASSUME NEW n \in Nat, NEW p, NEW r, NEW rep, Forest(n, p, r, rep), NEW low, NEW high,
         NEW q, NEW s, NEW new, Hangs(n, p, r, rep, low, high, q, s, new)
  PROVE  Forest(n, q, s, new)
<1> USE DEF Hangs
<1>1. p \in [1..n -> 1..n] /\ r \in [1..n -> Nat] /\ rep \in [1..n -> 1..n]
  BY DEF Forest
<1>2. q \in [1..n -> 1..n] /\ new \in [1..n -> 1..n]
  BY <1>1
<1>3. PICK h \in Nat : h = (IF r[high] = r[low] THEN r[high] + 1 ELSE r[high]) /\ r[low] < h /\ r[high] =< h
  <2>1. r[high] \in Nat /\ r[low] \in Nat
    BY <1>1
  <2> QED BY <2>1
<1>4. s \in [1..n -> Nat] /\ s[high] = h /\ \A x \in 1..n : x # high => s[x] = r[x]
  BY <1>1, <1>3
<1>5. q \in [1..n -> 1..n] /\ s \in [1..n -> Nat] /\ new \in [1..n -> 1..n]
  BY <1>2, <1>4
<1>6. q[low] = high /\ \A x \in 1..n : x # low => q[x] = p[x]
  BY <1>1
<1>7. r[low] < s[high] /\ \A x \in 1..n : r[x] =< s[x] /\ (x # high => s[x] = r[x])
  <2>1. \A x \in 1..n : r[x] \in Nat
    BY <1>1
  <2> QED BY <1>3, <1>4, <2>1
<1>8. p[high] = high /\ new[high] = high /\ new[low] = high
  BY DEF Forest
<1> SUFFICES ASSUME NEW x \in 1..n
             PROVE  /\ new[q[x]] = new[x] /\ q[new[x]] = new[x]
                    /\ q[x] = x => new[x] = x
                    /\ x # new[x] => s[x] < s[q[x]] /\ s[x] < s[new[x]]
  BY <1>5 DEF Forest
<1>9. /\ rep[x] \in 1..n /\ p[x] \in 1..n /\ rep[p[x]] = rep[x] /\ p[rep[x]] = rep[x]
      /\ p[x] = x => rep[x] = x
      /\ x # rep[x] => r[x] < r[p[x]] /\ r[x] < r[rep[x]]
  BY DEF Forest
<1>10. CASE x = low
  BY <1>6, <1>7, <1>8, <1>10
<1>11. CASE x # low /\ rep[x] = low
  <2>1. x # high /\ new[x] = high /\ q[x] = p[x] /\ new[p[x]] = high
    BY <1>6, <1>9, <1>11
  <2>2. q[high] = high /\ p[x] # x
    BY <1>6, <1>8, <1>9, <1>11
  <2>3. r[x] < r[p[x]] /\ r[x] < r[low] /\ s[x] = r[x]
    BY <1>7, <1>9, <1>11, <2>1
  <2>4. r[p[x]] =< s[p[x]] /\ r[low] < s[high]
    BY <1>7, <1>9
  <2>5. r[x] \in Nat /\ r[p[x]] \in Nat /\ s[p[x]] \in Nat /\ r[low] \in Nat /\ s[high] \in Nat
    BY <1>1, <1>5, <1>9
  <2>6. s[x] < s[p[x]] /\ s[x] < s[high]
    BY <2>3, <2>4, <2>5
  <2> QED BY <2>1, <2>2, <2>6
<1>12. CASE rep[x] # low
  <2>1. x # low /\ new[x] = rep[x] /\ q[x] = p[x] /\ new[p[x]] = rep[x] /\ q[rep[x]] = rep[x]
    BY <1>6, <1>9, <1>12
  <2>2. CASE x = rep[x]
    BY <1>9, <2>1, <2>2
  <2>3. CASE x # rep[x]
    <3>1. x # high
      BY <2>3
    <3>2. s[x] = r[x] /\ r[p[x]] =< s[p[x]] /\ r[rep[x]] =< s[rep[x]]
      BY <1>7, <1>9, <3>1
    <3>3. r[x] \in Nat /\ r[p[x]] \in Nat /\ s[p[x]] \in Nat /\ r[rep[x]] \in Nat /\ s[rep[x]] \in Nat
      BY <1>1, <1>5, <1>9
    <3>4. r[x] < r[p[x]] /\ r[x] < r[rep[x]]
      BY <1>9, <2>3
    <3>5. s[x] < s[p[x]]
      BY <3>2, <3>3, <3>4
    <3>6. s[x] < s[rep[x]]
      BY <3>2, <3>3, <3>4
    <3> QED BY <1>9, <2>1, <2>3, <3>5, <3>6
  <2> QED BY <2>2, <2>3
<1> QED BY <1>10, <1>11, <1>12

\* union makes one tree of the trees of a and b.
LEMMA UnionUnites ==
  ASSUME NEW n \in Nat, NEW p, NEW r, NEW rep, Forest(n, p, r, rep), NEW a \in 1..n, NEW b \in 1..n
  PROVE  \E q, s, new : Unites(n, [parent |-> p, rank |-> r], rep, a, b, q, s, new)
<1> DEFINE uf == [parent |-> p, rank |-> r]
           ra == rep[a]
           rb == rep[b]
<1>1. PICK p1 : FindsRoot(n, p, r, rep, a, p1)
  BY FindFinds
<1>2. /\ Find(uf, a) = [root |-> ra, uf |-> [parent |-> p1, rank |-> r]]
      /\ Forest(n, p1, r, rep)
  BY <1>1 DEF FindsRoot
<1>3. PICK p2 : FindsRoot(n, p1, r, rep, b, p2)
  BY <1>2, FindFinds
<1>4. /\ Find([parent |-> p1, rank |-> r], b) = [root |-> rb, uf |-> [parent |-> p2, rank |-> r]]
      /\ Forest(n, p2, r, rep)
  BY <1>3, Zenon DEF FindsRoot
<1> DEFINE low == IF r[ra] < r[rb] THEN ra ELSE rb
           high == IF low = ra THEN rb ELSE ra
           q == [p2 EXCEPT ![low] = high]
           s == [r EXCEPT ![high] = IF @ = r[low] THEN @ + 1 ELSE @]
           new == [x \in 1..n |-> IF rep[x] = low THEN high ELSE rep[x]]
<1>5. Union(uf, a, b) = IF ra = rb THEN [parent |-> p2, rank |-> r] ELSE [parent |-> q, rank |-> s]
  <2>1. Find(uf, a).root = ra /\ Find(uf, a).uf = [parent |-> p1, rank |-> r]
    BY <1>2
  <2>2. /\ Find(Find(uf, a).uf, b).root = rb
        /\ Find(Find(uf, a).uf, b).uf = [parent |-> p2, rank |-> r]
        /\ Find(Find(uf, a).uf, b).uf.rank = r
        /\ Find(Find(uf, a).uf, b).uf.parent = p2
    BY <1>4, <2>1
  <2> QED BY <2>1, <2>2, Zenon DEF Union
<1>6. ra \in 1..n /\ rb \in 1..n /\ rep[ra] = ra /\ rep[rb] = rb /\ r[ra] \in Nat /\ r[rb] \in Nat
  BY DEF Forest
<1>7. CASE ra = rb
  <2>1. Merges(n, rep, rep, a, b)
    BY <1>7 DEF Merges
  <2> QED BY <1>4, <1>5, <1>7, <2>1 DEF Unites
<1>8. CASE ra # rb
  <2>1. low \in 1..n /\ high \in 1..n /\ low # high /\ rep[low] = low /\ rep[high] = high
        /\ r[low] =< r[high] /\ {low, high} = {ra, rb}
    BY <1>6, <1>8
  <2>2. s = [r EXCEPT ![high] = IF r[high] = r[low] THEN r[high] + 1 ELSE r[high]]
    <3>1. r \in [1..n -> Nat]
      BY DEF Forest
    <3> HIDE DEF low, high
    <3> QED BY <3>1
  <2>3. \A x \in 1..n : new[x] = IF rep[x] = low THEN high ELSE rep[x]
    OBVIOUS
  <2>4. Forest(n, q, s, new)
    <3>1. q = [p2 EXCEPT ![low] = high] /\ new = [x \in 1..n |-> IF rep[x] = low THEN high ELSE rep[x]]
      OBVIOUS
    <3> HIDE DEF low, high, q, s, new
    <3>2. Hangs(n, p2, r, rep, low, high, q, s, new)
      BY <2>1, <2>2, <3>1 DEF Hangs
    <3> QED BY <1>4, <3>2, HungForest
  <2>5. Merges(n, rep, new, a, b)
    <3> HIDE DEF low, high, new
    <3>1. new[a] = high /\ new[b] = high
      BY <1>6, <2>1, <2>3
    <3> QED BY <2>1, <2>3, <3>1 DEF Merges
  <2>6. Union(uf, a, b) = [parent |-> q, rank |-> s]
    BY <1>5, <1>8
  <2> HIDE DEF uf, q, s, new
  <2>7. Unites(n, uf, rep, a, b, q, s, new)
    BY <2>4, <2>5, <2>6 DEF Unites
  <2> QED BY <2>7 DEF uf
<1> QED BY <1>7, <1>8

\* The trees are the classes of s: its pairs are joined, and whatever set keeps
\* the pairs of s together keeps a tree together.
Keeps(S, s) == \A p \in s : p.i \in S <=> p.j \in S

Classes(n, s, rep) ==
  /\ \A p \in s : rep[p.i] = rep[p.j]
  /\ \A S \in SUBSET (1..n) : Keeps(S, s) =>
       \A x, y \in 1..n : rep[x] = rep[y] => (x \in S <=> y \in S)

\* One more pair.
LEMMA MergedClasses ==
  ASSUME NEW n \in Nat, NEW s, NEW p, p.i \in 1..n, p.j \in 1..n,
         \A q \in s : q.i \in 1..n /\ q.j \in 1..n,
         NEW rep, Classes(n, s, rep), NEW new, Merges(n, rep, new, p.i, p.j)
  PROVE  Classes(n, s \cup {p}, new)
<1>1. \A q \in s \cup {p} : new[q.i] = new[q.j]
  BY DEF Classes, Merges
<1>2. ASSUME NEW S \in SUBSET (1..n), Keeps(S, s \cup {p}), NEW x \in 1..n, NEW y \in 1..n, new[x] = new[y]
      PROVE  x \in S <=> y \in S
  <2>1. Keeps(S, s) /\ (p.i \in S <=> p.j \in S)
    BY <1>2 DEF Keeps
  <2>2. \A u, v \in 1..n : rep[u] = rep[v] => (u \in S <=> v \in S)
    BY <2>1 DEF Classes
  <2>3. \/ rep[x] = rep[y]
        \/ rep[x] = rep[p.i] /\ rep[y] = rep[p.j]
        \/ rep[x] = rep[p.j] /\ rep[y] = rep[p.i]
    BY <1>2 DEF Merges
  <2> QED BY <2>1, <2>2, <2>3
<1> QED BY <1>1, <1>2 DEF Classes

Trees(n, uf, p, r, rep) == uf = [parent |-> p, rank |-> r] /\ Forest(n, p, r, rep)

Forests(n) == {uf \in [parent : [1..n -> 1..n], rank : [1..n -> Nat]] :
                 \E p, r, rep : Trees(n, uf, p, r, rep)}

Fresh(n) == [parent |-> [k \in 1..n |-> k], rank |-> [k \in 1..n |-> 0]]

\* The union-find after the pairs, whatever their order, has their classes.
Unions(n, pairs) == FoldSet(LAMBDA p, acc : Union(acc, p.i, p.j), Fresh(n), pairs)

\* Trees are states of the union-find.
LEMMA InForests ==
  ASSUME NEW n \in Nat, NEW uf, NEW p, NEW r, NEW rep, Trees(n, uf, p, r, rep)
  PROVE  uf \in Forests(n)
BY DEF Forests, Trees, Forest

\* So union stays among them.
LEMMA UnionInForests ==
  ASSUME NEW n \in Nat, NEW uf \in Forests(n), NEW a \in 1..n, NEW b \in 1..n
  PROVE  Union(uf, a, b) \in Forests(n)
<1>1. PICK p, r, rep : Trees(n, uf, p, r, rep)
  BY DEF Forests
<1>2. PICK q, s, new : Unites(n, [parent |-> p, rank |-> r], rep, a, b, q, s, new)
  BY <1>1, UnionUnites DEF Trees
<1>3. Trees(n, Union(uf, a, b), q, s, new)
  BY <1>1, <1>2 DEF Trees, Unites
<1> QED BY <1>3, InForests

\* At first every member is a tree of its own.
LEMMA FreshTrees ==
  ASSUME NEW n \in Nat
  PROVE  \E p, r, rep : Trees(n, Fresh(n), p, r, rep) /\ Classes(n, {}, rep)
<1> DEFINE p == [k \in 1..n |-> k]
           r == [k \in 1..n |-> 0]
<1>1. Forest(n, p, r, p)
  BY DEF Forest
<1>2. Classes(n, {}, p)
  BY DEF Classes
<1>3. Trees(n, Fresh(n), p, r, p)
  BY <1>1 DEF Trees, Fresh
<1> QED
  <2> HIDE DEF p, r
  <2> QED BY <1>2, <1>3

\* Whatever the order in which the pairs are united, the trees are their classes.
LEMMA FoldUnites ==
  ASSUME NEW n \in Nat, NEW pairs, IsFiniteSet(pairs), \A p \in pairs : p.i \in 1..n /\ p.j \in 1..n
  PROVE  \E p, r, rep : Trees(n, Unions(n, pairs), p, r, rep) /\ Classes(n, pairs, rep)
<1> DEFINE op == [z \in pairs \X Forests(n) |-> Union(z[2], z[1].i, z[1].j)]
           step(it) == [s \in SUBSET pairs |-> IF s = {} THEN Fresh(n)
                          ELSE Union(it[s \ {OneOf(s)}], OneOf(s).i, OneOf(s).j)]
           C == CHOOSE it : it = step(it)
<1>1. Unions(n, pairs) = C[pairs]
  BY DEF Unions, FoldSet, MapThenFoldSet, OneOf
<1>2. C = step(C)
  <2>1. \A z \in pairs \X Forests(n) : op[z] \in Forests(n)
    <3> SUFFICES ASSUME NEW e \in pairs, NEW uf \in Forests(n) PROVE Union(uf, e.i, e.j) \in Forests(n)
      OBVIOUS
    <3> QED BY UnionInForests
  <2>2. op \in [pairs \X Forests(n) -> Forests(n)]
    BY <2>1
  <2>3. Fresh(n) \in Forests(n)
    BY FreshTrees, InForests
  <2>4. PICK it : Iterates(it, pairs, Forests(n), Fresh(n), op)
    <3> HIDE DEF op
    <3> QED BY <2>2, <2>3, FoldExists
  <2>5. \A s \in SUBSET pairs : it[s] = IF s = {} THEN Fresh(n) ELSE Union(it[s \ {OneOf(s)}], OneOf(s).i, OneOf(s).j)
    BY <2>4, OneOfIs DEF Iterates
  <2>6. it = step(it)
    BY <2>4, <2>5 DEF Iterates
  <2> HIDE DEF step
  <2> QED BY <2>6
<1> DEFINE Good(s) == \E p, r, rep : Trees(n, C[s], p, r, rep) /\ Classes(n, s, rep)
           T == {s \in SUBSET pairs : Good(s)}
<1>3. {} \in T
  <2>1. C[{}] = Fresh(n)
    <3> HIDE DEF C
    <3> QED BY <1>2
  <2> QED BY <2>1, FreshTrees
<1>4. ASSUME NEW s \in SUBSET pairs, s # {}, s \ {OneOf(s)} \in T PROVE s \in T
  <2> HIDE DEF C
  <2>1. OneOf(s) \in s
    BY <1>4, OneOfIs
  <2>2. PICK p, r, rep : Trees(n, C[s \ {OneOf(s)}], p, r, rep) /\ Classes(n, s \ {OneOf(s)}, rep)
    BY <1>4
  <2>3. C[s] = Union(C[s \ {OneOf(s)}], OneOf(s).i, OneOf(s).j)
    BY <1>2, <1>4
  <2>4. OneOf(s).i \in 1..n /\ OneOf(s).j \in 1..n
    BY <2>1
  <2>5. PICK q, t, new : Unites(n, [parent |-> p, rank |-> r], rep, OneOf(s).i, OneOf(s).j, q, t, new)
    BY <2>2, <2>4, UnionUnites DEF Trees
  <2>6. Trees(n, C[s], q, t, new)
    BY <2>2, <2>3, <2>5 DEF Trees, Unites
  <2>7. Classes(n, (s \ {OneOf(s)}) \cup {OneOf(s)}, new)
    BY <2>2, <2>4, <2>5, MergedClasses DEF Unites
  <2>8. (s \ {OneOf(s)}) \cup {OneOf(s)} = s
    BY <2>1
  <2> QED BY <2>6, <2>7, <2>8
<1>5. pairs \in T
  <2> HIDE DEF T
  <2> QED BY <1>3, <1>4, SubsetInduction
<1> QED BY <1>1, <1>5

\* The class of x is what is joined to x.
LEMMA ClassesJoined ==
  ASSUME NEW n \in Nat, NEW s, \A p \in s : p.i \in 1..n /\ p.j \in 1..n,
         NEW rep, Classes(n, s, rep), NEW x \in 1..n, NEW y \in 1..n
  PROVE  rep[x] = rep[y] <=> Joined(n, s, x, y)
<1>1. ASSUME rep[x] = rep[y] PROVE Joined(n, s, x, y)
  BY <1>1 DEF Classes, Keeps, Joined
<1>2. ASSUME Joined(n, s, x, y) PROVE rep[x] = rep[y]
  <2> DEFINE S == {z \in 1..n : rep[z] = rep[x]}
  <2>1. S \in SUBSET (1..n) /\ x \in S /\ \A p \in s : p.i \in S <=> p.j \in S
    BY DEF Classes
  <2>2. y \in S
    <3> HIDE DEF S
    <3> QED BY <1>2, <2>1 DEF Joined
  <2> QED BY <2>2
<1> QED BY <1>1, <1>2

\* The first member of the class of k, and the classes that begin before it.
FirstOf(n, rep, k) == Min({j \in 1..n : rep[j] = rep[k]})

Earlier(n, rep, k) == {rep[j] : j \in 1..(FirstOf(n, rep, k) - 1)}

\* It is the least of them.
LEMMA FirstIs ==
  ASSUME NEW n \in Nat, NEW rep, NEW k \in 1..n
  PROVE  /\ FirstOf(n, rep, k) \in 1..n /\ rep[FirstOf(n, rep, k)] = rep[k]
         /\ \A j \in 1..n : rep[j] = rep[k] => FirstOf(n, rep, k) =< j
<1> DEFINE S == {j \in 1..n : rep[j] = rep[k]}
<1>1. S \subseteq Nat /\ k \in S
  OBVIOUS
<1>2. \E x \in S : \A y \in S : x =< y
  <2> HIDE DEF S
  <2> QED BY <1>1, LeastNumber
<1>3. Min(S) \in S /\ \A y \in S : Min(S) =< y
  <2> HIDE DEF S
  <2> QED BY <1>2 DEF Min
<1> QED BY <1>3 DEF FirstOf

\* Classes that begin at different places count different numbers of classes before.
LEMMA EarlierApart ==
  ASSUME NEW n \in Nat, NEW rep \in [1..n -> 1..n], NEW x \in 1..n, NEW y \in 1..n,
         FirstOf(n, rep, x) < FirstOf(n, rep, y)
  PROVE  Cardinality(Earlier(n, rep, x)) # Cardinality(Earlier(n, rep, y))
<1> DEFINE a == FirstOf(n, rep, x)
           b == FirstOf(n, rep, y)
           A == Earlier(n, rep, x)
           B == Earlier(n, rep, y)
<1>1. a \in 1..n /\ b \in 1..n /\ rep[a] = rep[x] /\ \A j \in 1..n : rep[j] = rep[x] => a =< j
  BY FirstIs
<1>2. A = {rep[j] : j \in 1..(a - 1)} /\ B = {rep[j] : j \in 1..(b - 1)}
  BY DEF Earlier
<1> HIDE DEF a, b, A, B
<1>3. a < b
  BY DEF a, b
<1>4. A \subseteq B /\ rep[x] \in B
  BY <1>1, <1>2, <1>3
<1>5. rep[x] \notin A
  BY <1>1, <1>2
<1>6. B \in SUBSET (1..n)
  BY <1>1, <1>2
<1>7. IsFiniteSet(1..n)
  BY FS_Interval
<1>8. IsFiniteSet(B)
  BY <1>6, <1>7, FS_Subset
<1>9. Cardinality(A) # Cardinality(B)
  BY <1>4, <1>5, <1>8, FS_Subset
<1> QED BY <1>9 DEF A, B

\* The labels of connectivity.py: two are equal exactly when a chain of pairs
\* joins their members, in whatever order the pairs were united.
THEOREM LabelsAreJoined ==
  ASSUME NEW n \in Nat, NEW pairs, IsFiniteSet(pairs), \A p \in pairs : p.i \in 1..n /\ p.j \in 1..n,
         NEW x \in 1..n, NEW y \in 1..n
  PROVE  ConnectedComponents(n, pairs)[x] = ConnectedComponents(n, pairs)[y] <=> Joined(n, pairs, x, y)
<1>1. PICK p, r, rep : Trees(n, Unions(n, pairs), p, r, rep) /\ Classes(n, pairs, rep)
  BY FoldUnites
<1>2. rep \in [1..n -> 1..n]
  BY <1>1 DEF Trees, Forest
<1> DEFINE root == [k \in 1..n |-> Find(Unions(n, pairs), k).root]
           label == [k \in 1..n |-> Cardinality(
                       {root[j] : j \in 1..(Min({j \in 1..n : root[j] = root[k]}) - 1)})]
<1>3. ConnectedComponents(n, pairs) = label
  BY DEF ConnectedComponents, Unions, Fresh
<1>4. root = rep
  <2>1. \A k \in 1..n : Find(Unions(n, pairs), k).root = rep[k]
    <3> SUFFICES ASSUME NEW k \in 1..n PROVE Find(Unions(n, pairs), k).root = rep[k]
      OBVIOUS
    <3>1. PICK q : FindsRoot(n, p, r, rep, k, q)
      BY <1>1, FindFinds DEF Trees
    <3> QED BY <1>1, <3>1 DEF Trees, FindsRoot
  <2> QED BY <1>2, <2>1
<1>5. label = [k \in 1..n |-> Cardinality(Earlier(n, rep, k))]
  <2> HIDE DEF root
  <2> QED BY <1>4 DEF Earlier, FirstOf
<1>6. /\ ConnectedComponents(n, pairs)[x] = Cardinality(Earlier(n, rep, x))
      /\ ConnectedComponents(n, pairs)[y] = Cardinality(Earlier(n, rep, y))
  <2> HIDE DEF label
  <2> QED BY <1>3, <1>5
<1>7. ASSUME rep[x] = rep[y] PROVE Earlier(n, rep, x) = Earlier(n, rep, y)
  BY <1>7 DEF Earlier, FirstOf
<1>8. ASSUME rep[x] # rep[y] PROVE Cardinality(Earlier(n, rep, x)) # Cardinality(Earlier(n, rep, y))
  <2>1. /\ FirstOf(n, rep, x) \in 1..n /\ FirstOf(n, rep, y) \in 1..n
        /\ FirstOf(n, rep, x) # FirstOf(n, rep, y)
    BY <1>8, FirstIs
  <2>2. FirstOf(n, rep, x) < FirstOf(n, rep, y) \/ FirstOf(n, rep, y) < FirstOf(n, rep, x)
    BY <2>1
  <2> QED BY <1>2, <2>2, EarlierApart
<1>9. rep[x] = rep[y] <=> Joined(n, pairs, x, y)
  BY <1>1, ClassesJoined
<1> QED BY <1>6, <1>7, <1>8, <1>9

(***************************************************************************)
(* What the aggregates count.                                              *)
(***************************************************************************)
\* The states of `preferences`.
Casts == [Matchups -> Votes \cup {NoVote}]
IsCast(c) == c \in Casts

Between(c, x, m, k) == {u \in Counted(c, x) : Played(u, m) /\ Played(u, k)}
WinsOf(c, x, m, k)  == Cardinality({u \in Between(c, x, m, k) : WonBy(c, u, m)})
TiesOf(c, x, m, k)  == Cardinality({u \in Between(c, x, m, k) : u \in Ties(c)})

RowOf(c, x, a, b) ==
  [lo |-> IdOrder[a], hi |-> IdOrder[b],
   winsLo |-> WinsOf(c, x, IdOrder[a], IdOrder[b]),
   winsHi |-> WinsOf(c, x, IdOrder[b], IdOrder[a]),
   ties   |-> TiesOf(c, x, IdOrder[a], IdOrder[b])]

\* The image of a finite set.
LEMMA ImageFinite ==
  ASSUME NEW f, IsFiniteSet(DOMAIN f) PROVE IsFiniteSet({f[x] : x \in DOMAIN f})
<1> DEFINE g == [x \in DOMAIN f |-> f[x]]
<1>1. g \in Surjection(DOMAIN f, {f[x] : x \in DOMAIN f})
  BY DEF Surjection
<1> QED BY <1>1, FS_Surjection

\* The order of the uuids names each model once.
LEMMA IdOrderIs ==
  /\ IsFiniteSet(DOMAIN IdOrder) /\ DOMAIN IdOrder \subseteq Nat
  /\ \A a, b \in DOMAIN IdOrder : IdOrder[a] = IdOrder[b] => a = b
<1>1. IdOrder \in Seq(Models) /\ IsInjective(IdOrder)
  BY RosterAssumption
<1>2. DOMAIN IdOrder = 1..Len(IdOrder) /\ Len(IdOrder) \in Nat
  BY <1>1, LenProperties
<1>3. IsFiniteSet(DOMAIN IdOrder)
  BY <1>2, FS_Interval
<1> QED BY <1>1, <1>2, <1>3 DEF IsInjective

\* The rows come from pairs of models in the order of the uuids.
LEMMA RowsAre ==
  ASSUME NEW c, NEW x
  PROVE  /\ \A r \in AggregateRows(c, x) : \E a, b \in DOMAIN IdOrder : a < b /\ r = RowOf(c, x, a, b)
         /\ IsFiniteSet(AggregateRows(c, x))
<1> DEFINE Q == {q \in (DOMAIN IdOrder) \X (DOMAIN IdOrder) :
                   q[1] < q[2] /\ Between(c, x, IdOrder[q[1]], IdOrder[q[2]]) # {}}
           f == [q \in Q |-> RowOf(c, x, q[1], q[2])]
<1>1. \A m, k : Between(c, x, m, k) = Between(c, x, k, m)
  BY DEF Between
<1>2. AggregateRows(c, x) = {RowOf(c, x, q[1], q[2]) : q \in Q}
  BY <1>1 DEF AggregateRows, RowOf, WinsOf, TiesOf, Between
<1>3. IsFiniteSet(Q)
  <2>1. IsFiniteSet((DOMAIN IdOrder) \X (DOMAIN IdOrder))
    BY IdOrderIs, FS_Product
  <2> QED BY <2>1, FS_Subset
<1>4. AggregateRows(c, x) = {f[q] : q \in DOMAIN f}
  BY <1>2
<1>5. IsFiniteSet({f[q] : q \in DOMAIN f})
  BY <1>3, ImageFinite
<1>6. IsFiniteSet(AggregateRows(c, x))
  BY <1>4, <1>5
<1> QED BY <1>2, <1>6

\* pair(r) of build_aggregated_data.
PairOf(ids, r) ==
  LET i == IndexOf(ids, r.lo)
      j == IndexOf(ids, r.hi)
  IN IF i < j
     THEN [i |-> i, j |-> j, winsI |-> r.winsLo, winsJ |-> r.winsHi, ties |-> r.ties]
     ELSE [i |-> j, j |-> i, winsI |-> r.winsHi, winsJ |-> r.winsLo, ties |-> r.ties]

PairsOf(ids, c, x) == BuildAggregatedData(ids, AggregateRows(c, x)).pairs

\* The place of a model in a list that holds it.
LEMMA IndexIs ==
  ASSUME NEW ids, NEW m \in ToSet(ids) PROVE IndexOf(ids, m) \in DOMAIN ids /\ ids[IndexOf(ids, m)] = m
BY DEF IndexOf, ToSet

\* A pair counts the votes between its two models, and turning it kept the wins
\* with their model.
Counts(ids, c, x, p) ==
  /\ p.i \in DOMAIN ids /\ p.j \in DOMAIN ids /\ ids[p.i] # ids[p.j]
  /\ p.winsI = WinsOf(c, x, ids[p.i], ids[p.j])
  /\ p.winsJ = WinsOf(c, x, ids[p.j], ids[p.i])
  /\ p.ties = TiesOf(c, x, ids[p.i], ids[p.j])

CountsRow(ids, c, x, p, a, b) ==
  Counts(ids, c, x, p) /\ {ids[p.i], ids[p.j]} = {IdOrder[a], IdOrder[b]}

\* Turning a row keeps its counts with their models.
LEMMA PairCounts ==
  ASSUME NEW ids, NEW c, NEW x, NEW a \in DOMAIN IdOrder, NEW b \in DOMAIN IdOrder, a < b,
         {IdOrder[a], IdOrder[b]} \subseteq ToSet(ids)
  PROVE  CountsRow(ids, c, x, PairOf(ids, RowOf(c, x, a, b)), a, b)
<1> DEFINE i == IndexOf(ids, IdOrder[a])
           j == IndexOf(ids, IdOrder[b])
           r == RowOf(c, x, a, b)
           p == PairOf(ids, r)
<1>1. i \in DOMAIN ids /\ j \in DOMAIN ids /\ ids[i] = IdOrder[a] /\ ids[j] = IdOrder[b]
  BY IndexIs
<1>2. ids[i] # ids[j]
  BY <1>1, IdOrderIs
<1>3. /\ r.lo = ids[i] /\ r.hi = ids[j]
      /\ r.winsLo = WinsOf(c, x, ids[i], ids[j]) /\ r.winsHi = WinsOf(c, x, ids[j], ids[i])
      /\ r.ties = TiesOf(c, x, ids[i], ids[j])
  BY <1>1 DEF RowOf
<1>4. TiesOf(c, x, ids[i], ids[j]) = TiesOf(c, x, ids[j], ids[i])
  BY DEF TiesOf, Between
<1>5. IndexOf(ids, r.lo) = i /\ IndexOf(ids, r.hi) = j
  BY <1>1, <1>3
<1> HIDE DEF i, j, r
<1>6. ASSUME i < j PROVE Counts(ids, c, x, p) /\ {ids[p.i], ids[p.j]} = {ids[i], ids[j]}
  <2>1. p = [i |-> i, j |-> j, winsI |-> r.winsLo, winsJ |-> r.winsHi, ties |-> r.ties]
    BY <1>5, <1>6 DEF PairOf
  <2>2. p.i = i /\ p.j = j /\ p.winsI = r.winsLo /\ p.winsJ = r.winsHi /\ p.ties = r.ties
    BY <2>1
  <2> HIDE DEF p
  <2> QED BY <1>1, <1>2, <1>3, <2>2 DEF Counts
<1>7. ASSUME ~(i < j) PROVE Counts(ids, c, x, p) /\ {ids[p.i], ids[p.j]} = {ids[i], ids[j]}
  <2>1. p = [i |-> j, j |-> i, winsI |-> r.winsHi, winsJ |-> r.winsLo, ties |-> r.ties]
    BY <1>5, <1>7 DEF PairOf
  <2>2. p.i = j /\ p.j = i /\ p.winsI = r.winsHi /\ p.winsJ = r.winsLo /\ p.ties = r.ties
    BY <2>1
  <2> HIDE DEF p
  <2> QED BY <1>1, <1>2, <1>3, <1>4, <2>2 DEF Counts
<1>8. Counts(ids, c, x, p) /\ {ids[p.i], ids[p.j]} = {ids[i], ids[j]}
  <2> HIDE DEF p
  <2> QED BY <1>6, <1>7
<1> QED BY <1>1, <1>8 DEF r, CountsRow

\* The pairs of a fit, each from one row.
LEMMA PairsAre ==
  ASSUME NEW ids, NEW c, NEW x
  PROVE  /\ IsFiniteSet(PairsOf(ids, c, x))
         /\ \A p \in PairsOf(ids, c, x) : Counts(ids, c, x, p)
         /\ \A p, q \in PairsOf(ids, c, x) :
              {ids[p.i], ids[p.j]} = {ids[q.i], ids[q.j]} => p = q
<1> DEFINE R == {r \in AggregateRows(c, x) : {r.lo, r.hi} \subseteq ToSet(ids)}
           f == [r \in R |-> PairOf(ids, r)]
<1>1. PairsOf(ids, c, x) = {PairOf(ids, r) : r \in R}
  BY DEF PairsOf, BuildAggregatedData, PairOf
<1>2. IsFiniteSet(R)
  BY RowsAre, FS_Subset
<1>3. PairsOf(ids, c, x) = {f[r] : r \in DOMAIN f}
  BY <1>1
<1>4. IsFiniteSet({f[r] : r \in DOMAIN f})
  BY <1>2, ImageFinite
<1>5. IsFiniteSet(PairsOf(ids, c, x))
  BY <1>3, <1>4
<1>6. ASSUME NEW p \in PairsOf(ids, c, x)
      PROVE  \E a, b \in DOMAIN IdOrder :
               /\ a < b /\ p = PairOf(ids, RowOf(c, x, a, b))
               /\ Counts(ids, c, x, p) /\ {ids[p.i], ids[p.j]} = {IdOrder[a], IdOrder[b]}
  <2>1. PICK r \in R : p = PairOf(ids, r)
    BY <1>1
  <2>2. PICK a \in DOMAIN IdOrder, b \in DOMAIN IdOrder : a < b /\ r = RowOf(c, x, a, b)
    BY RowsAre
  <2>3. {IdOrder[a], IdOrder[b]} \subseteq ToSet(ids)
    <3>1. r.lo = IdOrder[a] /\ r.hi = IdOrder[b]
      BY <2>2 DEF RowOf
    <3> QED BY <3>1
  <2>4. p = PairOf(ids, RowOf(c, x, a, b))
    BY <2>1, <2>2
  <2>5. CountsRow(ids, c, x, PairOf(ids, RowOf(c, x, a, b)), a, b)
    BY <2>2, <2>3, PairCounts
  <2>6. Counts(ids, c, x, p) /\ {ids[p.i], ids[p.j]} = {IdOrder[a], IdOrder[b]}
    BY <2>4, <2>5 DEF CountsRow
  <2> QED BY <2>2, <2>4, <2>6
<1>7. ASSUME NEW p \in PairsOf(ids, c, x), NEW q \in PairsOf(ids, c, x),
             {ids[p.i], ids[p.j]} = {ids[q.i], ids[q.j]}
      PROVE  p = q
  <2>1. PICK a \in DOMAIN IdOrder, b \in DOMAIN IdOrder :
          a < b /\ p = PairOf(ids, RowOf(c, x, a, b)) /\ {ids[p.i], ids[p.j]} = {IdOrder[a], IdOrder[b]}
    BY <1>6
  <2>2. PICK d \in DOMAIN IdOrder, e \in DOMAIN IdOrder :
          d < e /\ q = PairOf(ids, RowOf(c, x, d, e)) /\ {ids[q.i], ids[q.j]} = {IdOrder[d], IdOrder[e]}
    BY <1>6
  <2>3. {IdOrder[a], IdOrder[b]} = {IdOrder[d], IdOrder[e]}
    BY <1>7, <2>1, <2>2
  <2>4. (a = d /\ b = e) \/ (a = e /\ b = d)
    BY <2>3, IdOrderIs
  <2>5. a \in Nat /\ b \in Nat /\ d \in Nat /\ e \in Nat
    BY IdOrderIs
  <2> QED BY <2>1, <2>2, <2>4, <2>5
<1> QED BY <1>5, <1>6, <1>7

\* The wins of the two models and the ties are all the votes between them.
LEMMA CountedOnce ==
  ASSUME NEW c, IsCast(c), NEW x, NEW m, NEW k, m # k
  PROVE  /\ IsFiniteSet(Between(c, x, m, k))
         /\ WinsOf(c, x, m, k) \in Nat /\ WinsOf(c, x, k, m) \in Nat /\ TiesOf(c, x, m, k) \in Nat
         /\ WinsOf(c, x, m, k) + WinsOf(c, x, k, m) + TiesOf(c, x, m, k) = Cardinality(Between(c, x, m, k))
<1> DEFINE all == Between(c, x, m, k)
           A == {u \in all : WonBy(c, u, m)}
           B == {u \in all : WonBy(c, u, k)}
           T == {u \in all : u \in Ties(c)}
<1>1. IsFiniteSet(all)
  BY RosterAssumption, FS_Subset DEF Between, Counted, Scored, Cast
<1>2. \A u \in all : /\ u \in Matchups /\ c[u] \in {"left", "right", "both_good", "both_bad"}
                     /\ {SlotA[u], SlotB[u]} = {m, k} /\ SlotA[u] # SlotB[u]
  BY RosterAssumption DEF Between, Counted, Scored, Cast, Played, IsCast, Casts, Votes, NoVote
<1>3. all = A \cup B \cup T
  BY <1>2 DEF WonBy, Ties, Cast, NoVote
<1>4. A \cap B = {} /\ (A \cup B) \cap T = {}
  BY <1>2 DEF WonBy, Ties
<1>5. WinsOf(c, x, m, k) = Cardinality(A) /\ WinsOf(c, x, k, m) = Cardinality(B) /\ TiesOf(c, x, m, k) = Cardinality(T)
  <2>1. Between(c, x, k, m) = all
    BY DEF Between
  <2> QED BY <2>1 DEF WinsOf, TiesOf
<1>6. IsFiniteSet(A) /\ IsFiniteSet(B) /\ IsFiniteSet(T)
  BY <1>1, FS_Subset
<1> HIDE DEF all, A, B, T
<1>7. /\ IsFiniteSet(A \cup B) /\ Cardinality(A) \in Nat /\ Cardinality(B) \in Nat
      /\ Cardinality(A \cup B) = Cardinality(A) + Cardinality(B)
  BY <1>4, <1>6, DisjointUnion
<1>8. Cardinality(T) \in Nat /\ Cardinality(all) = Cardinality(A \cup B) + Cardinality(T)
  BY <1>3, <1>4, <1>6, <1>7, DisjointUnion
<1> QED BY <1>1, <1>5, <1>7, <1>8 DEF all

\* The votes between a model of a fit and the others.
PlayedIn(ids, c, x, k) ==
  {u \in Matchups : \E p \in {q \in PairsOf(ids, c, x) : k \in {q.i, q.j}} :
                      u \in Between(c, x, ids[p.i], ids[p.j])}

\* The games of a model in a fit are those votes.
LEMMA GamesAre ==
  ASSUME NEW ids, NEW c, IsCast(c), NEW x, NEW k \in DOMAIN ids
  PROVE  BuildAggregatedData(ids, AggregateRows(c, x)).games[k] =
           Cardinality(PlayedIn(ids, c, x, k))
<1> DEFINE S == {q \in PairsOf(ids, c, x) : k \in {q.i, q.j}}
           total(p) == p.winsI + p.winsJ + p.ties
           f == [p \in S |-> total(p)]
           B == [p \in S |-> Between(c, x, ids[p.i], ids[p.j])]
           C == CHOOSE it : it = [s \in SUBSET S |-> IF s = {} THEN 0 ELSE total(OneOf(s)) + it[s \ {OneOf(s)}]]
<1>1. BuildAggregatedData(ids, AggregateRows(c, x)).games[k] = MapThenSumSet(total, S)
  BY DEF BuildAggregatedData, PairsOf, PairOf
<1>2. MapThenSumSet(total, S) = C[S]
  BY DEF MapThenSumSet, MapThenFoldSet, OneOf
<1>3. IsFiniteSet(S)
  BY PairsAre, FS_Subset
<1>4. ASSUME NEW p \in S PROVE f[p] \in Nat /\ f[p] = Cardinality(B[p])
  <2>1. Counts(ids, c, x, p)
    BY PairsAre
  <2>2. p.winsI \in Nat /\ p.winsJ \in Nat /\ p.ties \in Nat
        /\ total(p) = Cardinality(Between(c, x, ids[p.i], ids[p.j]))
    BY <2>1, CountedOnce DEF Counts
  <2> QED BY <2>2
<1>5. f \in [S -> Nat]
  BY <1>4
<1>6. Adds(C, S, f)
  <2>1. PICK it : Adds(it, S, f)
    <3> HIDE DEF f, S
    <3> QED BY <1>3, <1>5, SumExists
  <2>2. ASSUME NEW t
        PROVE  [s \in SUBSET S |-> IF s = {} THEN 0 ELSE f[OneOf(s)] + t[s \ {OneOf(s)}]] =
               [s \in SUBSET S |-> IF s = {} THEN 0 ELSE total(OneOf(s)) + t[s \ {OneOf(s)}]]
    <3>1. \A s \in SUBSET S : s # {} => f[OneOf(s)] = total(OneOf(s))
      BY OneOfIs
    <3> HIDE DEF f, S, total
    <3> QED BY <3>1
  <2>3. it = [s \in SUBSET S |-> IF s = {} THEN 0 ELSE total(OneOf(s)) + it[s \ {OneOf(s)}]]
    <3> HIDE DEF f, S, total
    <3> QED BY <2>1, <2>2 DEF Adds
  <2>4. C = [s \in SUBSET S |-> IF s = {} THEN 0 ELSE total(OneOf(s)) + C[s \ {OneOf(s)}]]
    <3> HIDE DEF f, S, total
    <3> QED BY <2>3
  <2> HIDE DEF f, S, total, C
  <2> QED BY <2>2, <2>4 DEF Adds
<1>7. \A p \in S : B[p] \subseteq Matchups
  BY DEF Between, Counted, Scored, Cast
<1>8. \A p, q \in S : p # q => B[p] \cap B[q] = {}
  <2> SUFFICES ASSUME NEW p \in S, NEW q \in S, p # q,
                      NEW u \in Between(c, x, ids[p.i], ids[p.j]), u \in Between(c, x, ids[q.i], ids[q.j])
               PROVE  FALSE
    OBVIOUS
  <2>1. ids[p.i] # ids[p.j] /\ ids[q.i] # ids[q.j]
    BY PairsAre DEF Counts
  <2>2. {ids[p.i], ids[p.j]} = {SlotA[u], SlotB[u]} /\ {ids[q.i], ids[q.j]} = {SlotA[u], SlotB[u]}
    BY <2>1 DEF Between, Played
  <2> QED BY <2>2, PairsAre
<1>9. IsFiniteSet(Matchups)
  BY RosterAssumption
<1>10. C[S] = Cardinality({u \in Matchups : \E p \in S : u \in B[p]})
  <2> HIDE DEF S, B, C, f
  <2> QED BY <1>3, <1>4, <1>6, <1>7, <1>8, <1>9, SumCounts
<1> QED BY <1>1, <1>2, <1>10 DEF PlayedIn

(***************************************************************************)
(* A pass against the votes.                                               *)
(***************************************************************************)
\* The votes of c are votes of d too.
Extends(c, d) == \A u \in Matchups : c[u] # NoVote => d[u] = c[u]

\* They count the same, for the same model.
LEMMA VotesStay ==
  ASSUME NEW c, NEW d, Extends(c, d), NEW x, NEW u \in Counted(c, x)
  PROVE  u \in Counted(d, x) /\ u \in Matchups /\ \A m : WonBy(c, u, m) => WonBy(d, u, m)
<1>1. u \in Matchups /\ c[u] # NoVote /\ d[u] = c[u]
  BY DEF Counted, Scored, Cast, Extends
<1> QED BY <1>1 DEF Counted, Scored, Cast, WonBy

\* The ids of a pass are a sequence.
LEMMA FetchedSequence ==
  ASSUME NEW on
  PROVE  /\ Len(FetchModels(on)) \in Nat
         /\ DOMAIN FetchModels(on) = 1..Len(FetchModels(on))
<1> DEFINE places == {k \in DOMAIN ModelOrder : ModelOrder[k] \in on}
           nth(i) == CHOOSE k \in places : Cardinality({j \in places : j <= k}) = i
           ids == [i \in 1..Cardinality(places) |-> ModelOrder[nth(i)]]
           S == {ids[i] : i \in 1..Cardinality(places)}
<1>1. FetchModels(on) = ids
  BY DEF FetchModels
<1>2. DOMAIN ModelOrder = 1..Len(ModelOrder) /\ Len(ModelOrder) \in Nat
  BY RosterAssumption, LenProperties
<1>3. IsFiniteSet(places)
  <2>1. IsFiniteSet(DOMAIN ModelOrder)
    BY <1>2, FS_Interval
  <2> QED BY <2>1, FS_Subset
<1>4. Cardinality(places) \in Nat
  BY <1>3, FS_CardinalityType
<1>5. ids \in [1..Cardinality(places) -> S]
  OBVIOUS
<1>6. ids \in Seq(S)
  <2> HIDE DEF ids, S, places
  <2> QED BY <1>4, <1>5, SeqDef
<1> HIDE DEF ids, S, places
<1> QED BY <1>1, <1>6, LenProperties

\* The labels of a fit are those of its components.
LEMMA FitLabels ==
  ASSUME NEW ids, Len(ids) \in Nat, DOMAIN ids = 1..Len(ids), NEW c, NEW x,
         NEW a \in 1..Len(ids), NEW b \in 1..Len(ids)
  PROVE  LET label == ConnectedComponents(Len(ids), PairsOf(ids, c, x))
         IN label[a] = label[b] <=> Joined(Len(ids), PairsOf(ids, c, x), a, b)
<1>1. IsFiniteSet(PairsOf(ids, c, x))
  BY PairsAre
<1>2. \A p \in PairsOf(ids, c, x) : p.i \in 1..Len(ids) /\ p.j \in 1..Len(ids)
  BY PairsAre DEF Counts
<1> QED BY <1>1, <1>2, LabelsAreJoined

\* The wins of a model against another are no more than the votes for it, then
\* and later.
LEMMA WinsBounded ==
  ASSUME NEW c, NEW d, Extends(c, d), NEW x, NEW m, NEW k
  PROVE  WinsOf(c, x, m, k) <= Cardinality({u \in Matchups : WonBy(d, u, m) /\ Played(u, k)})
<1> DEFINE A == {u \in Between(c, x, m, k) : WonBy(c, u, m)}
           B == {u \in Matchups : WonBy(d, u, m) /\ Played(u, k)}
<1>1. A \subseteq B
  BY VotesStay DEF Between
<1>2. IsFiniteSet(B)
  BY RosterAssumption, FS_Subset
<1> HIDE DEF A, B
<1>3. Cardinality(A) <= Cardinality(B)
  BY <1>1, <1>2, FS_Subset
<1> QED BY <1>3 DEF WinsOf, A, B

\* The games of a model are no more than the votes a later read finds for it, and
\* those it would find had the rounds their answers.
LEMMA GamesBounded ==
  ASSUME NEW ids, NEW c, IsCast(c), NEW d, Extends(c, d), NEW x, NEW on, NEW k \in DOMAIN ids
  PROVE  BuildAggregatedData(ids, AggregateRows(c, x)).games[k] <=
           Cardinality({u \in FetchStyleVotes(d, on, ids, x) : Played(u, ids[k])})
             + Cardinality({u \in Counted(d, x) \ on : Played(u, ids[k])})
<1> DEFINE A == PlayedIn(ids, c, x, k)
           B == {u \in FetchStyleVotes(d, on, ids, x) : Played(u, ids[k])}
           C == {u \in Counted(d, x) \ on : Played(u, ids[k])}
<1>1. BuildAggregatedData(ids, AggregateRows(c, x)).games[k] = Cardinality(A)
  BY GamesAre
<1>2. ASSUME NEW u \in A PROVE u \in B \cup C
  <2>1. PICK p \in PairsOf(ids, c, x) : k \in {p.i, p.j} /\ u \in Between(c, x, ids[p.i], ids[p.j])
    BY DEF PlayedIn
  <2>2. p.i \in DOMAIN ids /\ p.j \in DOMAIN ids /\ ids[p.i] # ids[p.j]
    BY PairsAre DEF Counts
  <2>3. {SlotA[u], SlotB[u]} = {ids[p.i], ids[p.j]}
    BY <2>1, <2>2 DEF Between, Played
  <2>4. u \in Counted(d, x)
    BY <2>1, VotesStay DEF Between
  <2>5. {SlotA[u], SlotB[u]} \subseteq ToSet(ids) /\ Played(u, ids[k])
    BY <2>1, <2>2, <2>3 DEF ToSet, Played
  <2> QED BY <2>4, <2>5 DEF FetchStyleVotes
<1>3. B \subseteq Matchups /\ C \subseteq Matchups
  BY DEF FetchStyleVotes, Counted, Scored, Cast
<1>4. IsFiniteSet(B) /\ IsFiniteSet(C) /\ A \subseteq B \cup C
  BY <1>2, <1>3, RosterAssumption, FS_Subset
<1> HIDE DEF A, B, C
<1>5. IsFiniteSet(B \cup C) /\ IsFiniteSet(B \cap C)
      /\ Cardinality(B \cup C) = Cardinality(B) + Cardinality(C) - Cardinality(B \cap C)
  BY <1>4, FS_Union, FS_Intersection
<1>6. Cardinality(A) <= Cardinality(B \cup C) /\ IsFiniteSet(A)
  BY <1>4, <1>5, FS_Subset
<1>7. /\ Cardinality(A) \in Nat /\ Cardinality(B) \in Nat /\ Cardinality(C) \in Nat
      /\ Cardinality(B \cap C) \in Nat
  BY <1>4, <1>5, <1>6, FS_CardinalityType
<1>8. Cardinality(A) <= Cardinality(B) + Cardinality(C)
  BY <1>5, <1>6, <1>7
<1> QED BY <1>1, <1>8 DEF B, C

\* What the pass holds is of c, the earlier state of `preferences` that its
\* aggregates were read from.
Aggregated(c) ==
  Extends(c, cast) /\ pass.data = BuildAggregatedData(pass.ids, AggregateRows(c, pass.excluded))

PassInv ==
  /\ cast \in Casts
  /\ pc \in {"aggregate", "fit", "style"} =>
       Len(pass.ids) \in Nat /\ DOMAIN pass.ids = 1..Len(pass.ids)
  /\ pc \in {"fit", "style"} => \E c \in Casts : Aggregated(c)

\* `preferences` only grows.
LEMMA CastGrows ==
  ASSUME cast \in Casts, [Next]_vars
  PROVE  cast' \in Casts /\ Extends(cast, cast')
<1>1. CASE UNCHANGED cast
  BY <1>1 DEF Extends
<1>2. CASE \E u \in Matchups : Vote(u)
  <2>1. PICK u \in Matchups : cast[u] = NoVote /\ \E v \in Ballots[u] : cast' = [cast EXCEPT ![u] = v]
    BY <1>2 DEF Vote
  <2>2. Ballots[u] \subseteq Votes
    BY WorkerAssumption
  <2> QED BY <2>1, <2>2 DEF Casts, Extends
<1> QED
  BY <1>1, <1>2 DEF Next, vars, env, SaveAnswers, Toggle, Work, Screen, ReadModels, Aggregate,
     FitAndWrite, ReadStyleVotes, FitAndWriteStyle, Fail, CommitReplyLost, Crash

\* What was an earlier state of the votes is one still.
LEMMA HeldStays ==
  ASSUME PassInv, [Next]_vars, UNCHANGED pass
  PROVE  \A c \in Casts : Aggregated(c) => Aggregated(c)'
<1>1. Extends(cast, cast')
  BY CastGrows DEF PassInv
<1>2. \A c : Extends(c, cast) => Extends(c, cast')
  BY <1>1 DEF Extends
<1> QED BY <1>2 DEF Aggregated

\* The steps.
LEMMA PassStep == ASSUME StyleInv, PassInv, [Next]_vars PROVE PassInv'
<1>1. cast' \in Casts
  BY CastGrows DEF PassInv
<1>2. CASE UNCHANGED <<pass, pc>> \/ (UNCHANGED pass /\ pc = "fit" /\ pc' = "style")
  BY <1>1, <1>2, HeldStays DEF PassInv
<1>3. CASE pc' \in {"sleep", "models", "styleFit"}
  BY <1>1, <1>3 DEF PassInv
<1>4. PICK x, i, d, b : pass = [excluded |-> x, ids |-> i, data |-> d, ballots |-> b]
  BY DEF StyleInv, PassShape
<1>5. CASE ReadModels
  <2>1. pc' = "aggregate" /\ pass'.ids = FetchModels(enabled)
    BY <1>4, <1>5 DEF ReadModels
  <2> QED BY <1>1, <2>1, FetchedSequence DEF PassInv
<1>6. CASE Aggregate /\ pc' = "fit"
  <2>1. pass' = [pass EXCEPT !.data = BuildAggregatedData(pass.ids, AggregateRows(cast, pass.excluded))]
        /\ UNCHANGED cast /\ pc = "aggregate"
    BY <1>6 DEF Aggregate, env
  <2>2. pass'.data = BuildAggregatedData(i, AggregateRows(cast, x)) /\ pass'.ids = i /\ pass'.excluded = x
    BY <1>4, <2>1
  <2>3. Aggregated(cast)'
    BY <2>1, <2>2 DEF Aggregated, Extends
  <2>4. Len(i) \in Nat /\ DOMAIN i = 1..Len(i)
    BY <1>4, <2>1 DEF PassInv
  <2>5. \E c \in Casts : Aggregated(c)'
    BY <1>1, <2>1, <2>3
  <2> QED BY <1>1, <1>6, <2>2, <2>4, <2>5 DEF PassInv
<1>8. CASE UNCHANGED vars
  BY <1>2, <1>8 DEF vars
<1>9. CASE Next
  <2>1. CASE (\E u \in Matchups : Vote(u) \/ SaveAnswers(u)) \/ (\E m \in Models : Toggle(m))
    BY <1>2, <2>1 DEF Vote, SaveAnswers, Toggle
  <2>2. CASE \/ Screen \/ (Aggregate /\ pc' # "fit") \/ ReadStyleVotes \/ FitAndWriteStyle
             \/ Fail \/ CommitReplyLost \/ Crash
    BY <1>3, <2>2 DEF Screen, Aggregate, ReadStyleVotes, FitAndWriteStyle, Fail, CommitReplyLost,
       Crash, Abandon, Finish
  <2>3. CASE FitAndWrite
    BY <1>2, <1>3, <2>3 DEF FitAndWrite, Finish
  <2> QED BY <1>5, <1>6, <1>9, <2>1, <2>2, <2>3 DEF Next, Work
<1> QED BY <1>8, <1>9

\* What a pass that holds such votes publishes is true of them.
LEMMA PassTrue == StyleInv /\ PassInv => PassIsFaithful
<1> SUFFICES ASSUME StyleInv, PassInv PROVE PassIsFaithful
  OBVIOUS
<1> DEFINE n == Len(pass.ids)
<1>1. ASSUME pc = "fit" PROVE LabelsAreComponents /\ WinsAreVotes
  <2>1. PICK c \in Casts : Aggregated(c)
    BY <1>1 DEF PassInv
  <2>2. n \in Nat /\ DOMAIN pass.ids = 1..n
    BY <1>1 DEF PassInv
  <2>3. pass.data.pairs = PairsOf(pass.ids, c, pass.excluded)
    BY <2>1 DEF Aggregated, PairsOf
  <2> DEFINE P == PairsOf(pass.ids, c, pass.excluded)
  <2>4. ASSUME NEW a \in 1..n, NEW b \in 1..n
        PROVE  ConnectedComponents(n, P)[a] = ConnectedComponents(n, P)[b] <=> Joined(n, P, a, b)
    BY <2>2, <2>4, FitLabels
  <2> HIDE DEF P
  <2>5. LabelsAreComponents
    BY <2>3, <2>4 DEF LabelsAreComponents, P
  <2>6. ASSUME NEW p \in pass.data.pairs
        PROVE  /\ p.winsI <= Cardinality({u \in Matchups : WonBy(cast, u, pass.ids[p.i]) /\ Played(u, pass.ids[p.j])})
               /\ p.winsJ <= Cardinality({u \in Matchups : WonBy(cast, u, pass.ids[p.j]) /\ Played(u, pass.ids[p.i])})
    <3>1. Counts(pass.ids, c, pass.excluded, p)
      BY <2>3, <2>6, PairsAre
    <3>2. Extends(c, cast)
      BY <2>1 DEF Aggregated
    <3> QED BY <3>1, <3>2, WinsBounded DEF Counts
  <2>7. WinsAreVotes
    BY <2>6 DEF WinsAreVotes
  <2> QED BY <2>5, <2>7
<1> QED BY <1>1 DEF PassIsFaithful

\* The raw read, against the aggregates of the same pass.
LEMMA ReadCovers ==
  ASSUME StyleInv, PassInv, pc = "style", pc' = "styleFit", [Next]_vars
  PROVE  SameVoters
<1>1. ReadStyleVotes
  BY DEF Next, vars, Vote, SaveAnswers, Toggle, Work, Screen, ReadModels, Aggregate, FitAndWrite,
     FitAndWriteStyle, Fail, CommitReplyLost, Crash, Finish, Abandon
<1>2. PICK x, i, d, b : pass = [excluded |-> x, ids |-> i, data |-> d, ballots |-> b]
  BY DEF StyleInv, PassShape
<1>3. PICK votes : votes = FetchStyleVotes(cast, answered, pass.ids, pass.excluded)
                   /\ pass' = [pass EXCEPT !.ballots = votes]
  BY <1>1 DEF ReadStyleVotes
<1>4. pass'.ballots = votes
  BY <1>2, <1>3
<1>5. \A u \in pass'.ballots : SessionOf[u] \notin pass.excluded
  BY <1>3, <1>4 DEF FetchStyleVotes, Counted
<1>6. PICK c \in Casts : Aggregated(c)
  BY DEF PassInv
<1>7. ASSUME NEW k \in DOMAIN pass.ids
      PROVE  pass.data.games[k] <=
               Cardinality({u \in pass'.ballots : Played(u, pass.ids[k])})
                 + Cardinality({u \in Counted(cast, pass.excluded) \ answered : Played(u, pass.ids[k])})
  <2>1. pass.data.games[k] = BuildAggregatedData(pass.ids, AggregateRows(c, pass.excluded)).games[k]
    BY <1>6 DEF Aggregated
  <2>2. IsCast(c) /\ Extends(c, cast)
    BY <1>6 DEF Aggregated, IsCast
  <2> DEFINE read == {u \in FetchStyleVotes(cast, answered, pass.ids, pass.excluded) : Played(u, pass.ids[k])}
             rest == {u \in Counted(cast, pass.excluded) \ answered : Played(u, pass.ids[k])}
  <2>3. BuildAggregatedData(pass.ids, AggregateRows(c, pass.excluded)).games[k] <=
          Cardinality(read) + Cardinality(rest)
    BY <1>7, <2>2, GamesBounded
  <2>4. read = {u \in pass'.ballots : Played(u, pass.ids[k])}
    BY <1>3, <1>4
  <2> HIDE DEF read, rest
  <2>5. pass.data.games[k] <= Cardinality(read) + Cardinality(rest)
    BY <2>1, <2>3
  <2> QED BY <2>4, <2>5 DEF rest
<1> QED BY <1>5, <1>7 DEF SameVoters

\* Before the first pass.
LEMMA PassInit == Init => PassInv
BY DEF Init, PassInv, Casts

\* What a pass is about to publish is true of the votes it read one statement
\* after the other: labels are components, and no win was turned.
THEOREM FaithfulPass == Spec => []PassIsFaithful
<1>1. Init => StyleInv /\ PassInv
  BY StyleInit, PassInit
<1>2. (StyleInv /\ PassInv) /\ [Next]_vars => (StyleInv /\ PassInv)'
  BY StyleStep, PassStep
<1> QED BY <1>1, <1>2, PassTrue, PTL DEF Spec

\* Both fits of a pass saw the same voters: the raw read brings back no session
\* that was screened out, and the games it leaves out are those of voted rounds
\* without both answers.
THEOREM SameVotersRead == Spec => StyleReadCovers
<1>1. Init => StyleInv /\ PassInv
  BY StyleInit, PassInit
<1>2. (StyleInv /\ PassInv) /\ [Next]_vars => (StyleInv /\ PassInv)'
  BY StyleStep, PassStep
<1>3. StyleInv /\ PassInv /\ [Next]_vars => [pc = "style" /\ pc' = "styleFit" => SameVoters]_vars
  BY ReadCovers
<1> QED BY <1>1, <1>2, <1>3, PTL DEF Spec, StyleReadCovers

(***************************************************************************)
(* The endpoints that count votes.                                         *)
(***************************************************************************)
\* A finite set split in two.
LEMMA Split ==
  ASSUME NEW U, IsFiniteSet(U), NEW A, NEW B, A \cup B = U, A \cap B = {}
  PROVE  /\ IsFiniteSet(A) /\ IsFiniteSet(B)
         /\ Cardinality(A) \in Nat /\ Cardinality(B) \in Nat
         /\ Cardinality(U) = Cardinality(A) + Cardinality(B)
<1>1. A \in SUBSET U /\ B \in SUBSET U
  OBVIOUS
<1>2. IsFiniteSet(A) /\ IsFiniteSet(B)
  BY <1>1, FS_Subset
<1> QED BY <1>2, DisjointUnion

\* Votes are finitely many.
LEMMA VotesFinite == ASSUME NEW U, U \subseteq Matchups PROVE IsFiniteSet(U)
BY RosterAssumption, FS_Subset

\* Two models, a vote of one of five kinds.
LEMMA BallotIs ==
  ASSUME NEW c \in Casts, NEW u \in Cast(c)
  PROVE  /\ u \in Matchups /\ SlotA[u] \in Models /\ SlotB[u] \in Models /\ SlotA[u] # SlotB[u]
         /\ c[u] \in {"left", "right", "both_good", "both_bad", "skip"}
         /\ u \in Scored(c) <=> c[u] # "skip"
         /\ u \in Decisive(c) <=> c[u] \in {"left", "right"}
         /\ u \in Ties(c) <=> c[u] \in {"both_good", "both_bad"}
BY RosterAssumption DEF Cast, Scored, Decisive, Ties, Casts, Votes, NoVote

\* A row of the leaderboard accounts for every vote of its model.
LEMMA RowAddsUp ==
  ASSUME NEW c \in Casts, NEW m, NEW r
  PROVE  LET row == LeaderboardRow(c, r, m)
         IN row.wins + row.losses + row.ties + row.skips = row.total
<1> DEFINE mine == {u \in Cast(c) : Played(u, m)}
           W == {u \in mine : WonBy(c, u, m)}
           L == {u \in mine \cap Decisive(c) : ~WonBy(c, u, m)}
           T == mine \cap Ties(c)
           K == {u \in mine : c[u] = "skip"}
<1>1. IsFiniteSet(mine)
  BY VotesFinite DEF Cast
<1>2. mine = (W \cup L) \cup (T \cup K)
  BY BallotIs
<1>3. (W \cup L) \cap (T \cup K) = {} /\ W \cap L = {} /\ T \cap K = {}
  BY BallotIs DEF WonBy
<1>4. LeaderboardRow(c, r, m) = [id |-> m, wins |-> Cardinality(W), losses |-> Cardinality(L),
        ties |-> Cardinality(T), skips |-> Cardinality(K), total |-> Cardinality(mine), rating |-> r[m]]
  BY DEF LeaderboardRow
<1> HIDE DEF mine, W, L, T, K
<1>5. IsFiniteSet(W \cup L) /\ IsFiniteSet(T \cup K)
      /\ Cardinality(mine) = Cardinality(W \cup L) + Cardinality(T \cup K)
  <2>1. (W \cup L) \cap (T \cup K) = {}
    BY <1>3
  <2> QED BY <1>1, <1>2, <2>1, Split
<1>6. /\ Cardinality(W) \in Nat /\ Cardinality(L) \in Nat
      /\ Cardinality(W \cup L) = Cardinality(W) + Cardinality(L)
  <2>1. IsFiniteSet(W \cup L) /\ W \cap L = {}
    BY <1>3, <1>5
  <2> QED BY <2>1, Split
<1>7. /\ Cardinality(T) \in Nat /\ Cardinality(K) \in Nat
      /\ Cardinality(T \cup K) = Cardinality(T) + Cardinality(K)
  <2>1. IsFiniteSet(T \cup K) /\ T \cap K = {}
    BY <1>3, <1>5
  <2> QED BY <2>1, Split
<1>8. Cardinality(W) + Cardinality(L) + Cardinality(T) + Cardinality(K) = Cardinality(mine)
  BY <1>5, <1>6, <1>7
<1> QED BY <1>4, <1>8

\* The votes a model won.
WonVotes(c, m) == {u \in Cast(c) : WonBy(c, u, m)}

\* The wins of a row are those votes, and so are the wins by slot.
LEMMA WinsByRow ==
  ASSUME NEW c \in Casts, NEW m, NEW r
  PROVE  LeaderboardRow(c, r, m).wins = Cardinality(WonVotes(c, m))
<1>1. {u \in {w \in Cast(c) : Played(w, m)} : WonBy(c, u, m)} = WonVotes(c, m)
  BY DEF WonVotes, WonBy, Played
<1> QED BY <1>1 DEF LeaderboardRow

\* ... and so are the wins by slot.
LEMMA WinsBySlot ==
  ASSUME NEW c \in Casts, NEW m
  PROVE  PositionStats(c, m).slotAWins + PositionStats(c, m).slotBWins = Cardinality(WonVotes(c, m))
<1> DEFINE A == {u \in {w \in Decisive(c) : SlotA[w] = m} : WonBy(c, u, m)}
           B == {u \in {w \in Decisive(c) : SlotB[w] = m} : WonBy(c, u, m)}
<1>1. PositionStats(c, m).slotAWins = Cardinality(A) /\ PositionStats(c, m).slotBWins = Cardinality(B)
  BY DEF PositionStats
<1>2. A \cup B = WonVotes(c, m) /\ A \cap B = {}
  BY BallotIs DEF WonVotes, WonBy, Decisive
<1>3. IsFiniteSet(WonVotes(c, m))
  BY VotesFinite DEF WonVotes, Cast
<1> HIDE DEF A, B
<1>4. Cardinality(WonVotes(c, m)) = Cardinality(A) + Cardinality(B)
  BY <1>2, <1>3, Split
<1> QED BY <1>1, <1>4

\* The summary splits the votes, and the decisive ones by the slot that won.
LEMMA SummaryAddsUp ==
  ASSUME NEW c \in Casts, NEW on
  PROVE  LET sum == GetSummary(c, on)
         IN /\ sum.decisiveVotes = sum.slotAWins + sum.slotBWins
            /\ sum.totalVotes = sum.decisiveVotes + sum.tieVotes + sum.skipVotes
<1> DEFINE sum == GetSummary(c, on)
           A == {u \in Cast(c) : WonBy(c, u, SlotA[u])}
           B == {u \in Cast(c) : WonBy(c, u, SlotB[u])}
           K == {u \in Cast(c) : c[u] = "skip"}
<1>1. /\ sum.totalVotes = Cardinality(Cast(c)) /\ sum.decisiveVotes = Cardinality(Decisive(c))
      /\ sum.tieVotes = Cardinality(Ties(c)) /\ sum.skipVotes = Cardinality(K)
      /\ sum.slotAWins = Cardinality(A) /\ sum.slotBWins = Cardinality(B)
  BY DEF GetSummary
<1>2. IsFiniteSet(Cast(c))
  BY VotesFinite DEF Cast
<1>3. A \cup B = Decisive(c) /\ A \cap B = {}
  BY BallotIs DEF WonBy, Decisive
<1>4. Decisive(c) \cup (Ties(c) \cup K) = Cast(c) /\ Decisive(c) \cap (Ties(c) \cup K) = {}
      /\ Ties(c) \cap K = {}
  BY BallotIs DEF Decisive, Ties
<1> HIDE DEF A, B, K, sum
<1>5. /\ IsFiniteSet(Decisive(c)) /\ IsFiniteSet(Ties(c) \cup K)
      /\ Cardinality(Cast(c)) = Cardinality(Decisive(c)) + Cardinality(Ties(c) \cup K)
      /\ Cardinality(Decisive(c)) \in Nat
  <2>1. Decisive(c) \cup (Ties(c) \cup K) = Cast(c)
    BY <1>4
  <2>2. Decisive(c) \cap (Ties(c) \cup K) = {}
    BY <1>4
  <2> QED BY <1>2, <2>1, <2>2, Split
<1>6. /\ Cardinality(Ties(c) \cup K) = Cardinality(Ties(c)) + Cardinality(K)
      /\ Cardinality(Ties(c)) \in Nat /\ Cardinality(K) \in Nat
  <2> DEFINE T == Ties(c)
  <2>1. IsFiniteSet(T \cup K)
    BY <1>5
  <2>2. T \cap K = {}
    BY <1>4
  <2> HIDE DEF T
  <2>3. Cardinality(T \cup K) = Cardinality(T) + Cardinality(K)
        /\ Cardinality(T) \in Nat /\ Cardinality(K) \in Nat
    BY <2>1, <2>2, Split
  <2> QED BY <2>3 DEF T
<1>7. Cardinality(Decisive(c)) = Cardinality(A) + Cardinality(B)
  <2>1. IsFiniteSet(Decisive(c)) /\ A \cup B = Decisive(c) /\ A \cap B = {}
    BY <1>3, <1>5
  <2> QED BY <2>1, Split
<1>8. Cardinality(Cast(c)) = Cardinality(Decisive(c)) + Cardinality(Ties(c)) + Cardinality(K)
  BY <1>5, <1>6
<1>9. sum.decisiveVotes = sum.slotAWins + sum.slotBWins
      /\ sum.totalVotes = sum.decisiveVotes + sum.tieVotes + sum.skipVotes
  BY <1>1, <1>7, <1>8
<1> QED BY <1>9 DEF sum

(***************************************************************************)
(* The entries of the head-to-head table.                                  *)
(***************************************************************************)
\* The places of the two models of a vote in the order of the uuids.
Low(u)  == Min({IndexOf(IdOrder, SlotA[u]), IndexOf(IdOrder, SlotB[u])})
High(u) == Max({IndexOf(IdOrder, SlotA[u]), IndexOf(IdOrder, SlotB[u])})

\* An entry holds the votes between its two models.
VotesOf(c, e) == {u \in Scored(c) : {SlotA[u], SlotB[u]} = {e.a, e.b}}

EntryCounts(c, e) ==
  /\ e.a # e.b
  /\ e.games = Cardinality(VotesOf(c, e))
  /\ e.aWins = Cardinality({u \in VotesOf(c, e) : WonBy(c, u, e.a)})
  /\ e.bWins = Cardinality({u \in VotesOf(c, e) : WonBy(c, u, e.b)})
  /\ VotesOf(c, e) # {}

\* What a vote contributes to: the entry at its places.
EntryAt(c, p) ==
  LET of == {u \in Scored(c) : <<Low(u), High(u)>> = p}
      won(k) == Cardinality({u \in of : WonBy(c, u, IdOrder[p[k]])})
  IN [a |-> IdOrder[p[1]], b |-> IdOrder[p[2]], aWins |-> won(1), bWins |-> won(2),
      ties |-> Cardinality(of) - won(1) - won(2), games |-> Cardinality(of)]

\* The least and the greatest of two numbers.
LEMMA TwoMinMax ==
  ASSUME NEW i \in Nat, NEW j \in Nat
  PROVE  IF i <= j THEN Min({i, j}) = i /\ Max({i, j}) = j ELSE Min({i, j}) = j /\ Max({i, j}) = i
<1>1. ASSUME i <= j PROVE Min({i, j}) = i /\ Max({i, j}) = j
  BY <1>1 DEF Min, Max
<1>2. ASSUME ~(i <= j) PROVE Min({i, j}) = j /\ Max({i, j}) = i
  BY <1>2 DEF Min, Max
<1> QED BY <1>1, <1>2

\* The places are in order, and hold the two models.
LEMMA PlacesAre ==
  ASSUME NEW u \in Matchups
  PROVE  /\ Low(u) \in DOMAIN IdOrder /\ High(u) \in DOMAIN IdOrder /\ Low(u) < High(u)
         /\ {IdOrder[Low(u)], IdOrder[High(u)]} = {SlotA[u], SlotB[u]}
<1> DEFINE i == IndexOf(IdOrder, SlotA[u])
           j == IndexOf(IdOrder, SlotB[u])
<1>1. SlotA[u] \in ToSet(IdOrder) /\ SlotB[u] \in ToSet(IdOrder) /\ SlotA[u] # SlotB[u]
  BY RosterAssumption
<1>2. i \in DOMAIN IdOrder /\ j \in DOMAIN IdOrder /\ IdOrder[i] = SlotA[u] /\ IdOrder[j] = SlotB[u]
  BY <1>1, IndexIs
<1>3. Low(u) = Min({i, j}) /\ High(u) = Max({i, j})
  BY DEF Low, High
<1>4. i # j /\ i \in Nat /\ j \in Nat
  BY <1>1, <1>2, IdOrderIs
<1> HIDE DEF i, j
<1>5. IF i <= j THEN Low(u) = i /\ High(u) = j ELSE Low(u) = j /\ High(u) = i
  BY <1>3, <1>4, TwoMinMax
<1> QED BY <1>2, <1>4, <1>5

\* Votes share their places exactly when they share their models.
LEMMA PlacesApart ==
  ASSUME NEW u \in Matchups, NEW v \in Matchups
  PROVE  <<Low(u), High(u)>> = <<Low(v), High(v)>> <=> {SlotA[u], SlotB[u]} = {SlotA[v], SlotB[v]}
<1>1. /\ Low(u) \in DOMAIN IdOrder /\ High(u) \in DOMAIN IdOrder /\ Low(u) < High(u)
      /\ {IdOrder[Low(u)], IdOrder[High(u)]} = {SlotA[u], SlotB[u]}
  BY PlacesAre
<1>2. /\ Low(v) \in DOMAIN IdOrder /\ High(v) \in DOMAIN IdOrder /\ Low(v) < High(v)
      /\ {IdOrder[Low(v)], IdOrder[High(v)]} = {SlotA[v], SlotB[v]}
  BY PlacesAre
<1>3. Low(u) \in Nat /\ High(u) \in Nat /\ Low(v) \in Nat /\ High(v) \in Nat
  BY <1>1, <1>2, IdOrderIs
<1>4. ASSUME {SlotA[u], SlotB[u]} = {SlotA[v], SlotB[v]} PROVE Low(u) = Low(v) /\ High(u) = High(v)
  <2>1. (Low(u) = Low(v) /\ High(u) = High(v)) \/ (Low(u) = High(v) /\ High(u) = Low(v))
    BY <1>1, <1>2, <1>4, IdOrderIs
  <2> QED BY <1>1, <1>2, <1>3, <2>1
<1> QED BY <1>1, <1>2, <1>4

\* The entry at the places of a vote is that of its two models.
LEMMA EntryOf ==
  ASSUME NEW c \in Casts, NEW u \in Scored(c)
  PROVE  LET e == EntryAt(c, <<Low(u), High(u)>>)
         IN EntryCounts(c, e) /\ {e.a, e.b} = {SlotA[u], SlotB[u]}
<1> DEFINE p == <<Low(u), High(u)>>
           e == EntryAt(c, p)
           of == {w \in Scored(c) : <<Low(w), High(w)>> = p}
<1>1. u \in Matchups /\ \A w \in Scored(c) : w \in Matchups
  BY DEF Scored, Cast
<1>2. /\ e.a = IdOrder[Low(u)] /\ e.b = IdOrder[High(u)] /\ e.games = Cardinality(of)
      /\ e.aWins = Cardinality({w \in of : WonBy(c, w, IdOrder[Low(u)])})
      /\ e.bWins = Cardinality({w \in of : WonBy(c, w, IdOrder[High(u)])})
  BY DEF EntryAt
<1> HIDE DEF e
<1>3. {e.a, e.b} = {SlotA[u], SlotB[u]} /\ SlotA[u] # SlotB[u]
  BY <1>1, <1>2, PlacesAre, RosterAssumption
<1>4. of = VotesOf(c, e)
  BY <1>1, <1>3, PlacesApart DEF VotesOf
<1>5. u \in VotesOf(c, e)
  BY <1>3 DEF VotesOf
<1>6. e.a # e.b
  BY <1>3
<1> HIDE DEF of, p
<1>7. EntryCounts(c, e)
  BY <1>2, <1>4, <1>5, <1>6 DEF EntryCounts
<1> QED BY <1>3, <1>7 DEF e, p

\* The entries of the table: one per pair of models, and one for every scored vote.
LEMMA EntriesAre ==
  ASSUME NEW c \in Casts
  PROVE  /\ IsFiniteSet(GetHeadToHead(c))
         /\ \A e \in GetHeadToHead(c) : EntryCounts(c, e)
         /\ \A e, f \in GetHeadToHead(c) : {e.a, e.b} = {f.a, f.b} => e = f
         /\ \A u \in Scored(c) : \E e \in GetHeadToHead(c) : u \in VotesOf(c, e)
<1> DEFINE E == GetHeadToHead(c)
           of(u) == EntryAt(c, <<Low(u), High(u)>>)
           f == [u \in Scored(c) |-> of(u)]
<1>1. E = {EntryAt(c, p) : p \in {<<Low(u), High(u)>> : u \in Scored(c)}}
  BY DEF GetHeadToHead, EntryAt, Low, High
<1>2. E = {f[u] : u \in DOMAIN f}
  BY <1>1
<1>3. IsFiniteSet(Scored(c))
  BY VotesFinite DEF Scored, Cast
<1>4. IsFiniteSet({f[u] : u \in DOMAIN f})
  BY <1>3, ImageFinite
<1>5. IsFiniteSet(E)
  BY <1>2, <1>4
<1>6. \A u \in Scored(c) : of(u) \in E
  BY <1>2
<1>7. \A e \in E : \E u \in Scored(c) : e = of(u)
  BY <1>2
<1>8. \A u \in Scored(c) : EntryCounts(c, of(u)) /\ {of(u).a, of(u).b} = {SlotA[u], SlotB[u]}
  BY EntryOf
<1>9. \A u, v \in Scored(c) : {SlotA[u], SlotB[u]} = {SlotA[v], SlotB[v]} => of(u) = of(v)
  <2> SUFFICES ASSUME NEW u \in Scored(c), NEW v \in Scored(c),
                      {SlotA[u], SlotB[u]} = {SlotA[v], SlotB[v]}
               PROVE  of(u) = of(v)
    OBVIOUS
  <2>1. u \in Matchups /\ v \in Matchups
    BY DEF Scored, Cast
  <2>2. <<Low(u), High(u)>> = <<Low(v), High(v)>>
    BY <2>1, PlacesApart
  <2> QED BY <2>2
<1> HIDE DEF E, f, of
<1>10. \A e \in E : EntryCounts(c, e)
  BY <1>7, <1>8
<1>11. \A e, g \in E : {e.a, e.b} = {g.a, g.b} => e = g
  <2> SUFFICES ASSUME NEW e \in E, NEW g \in E, {e.a, e.b} = {g.a, g.b} PROVE e = g
    OBVIOUS
  <2>1. PICK u \in Scored(c) : e = of(u)
    BY <1>7
  <2>2. PICK v \in Scored(c) : g = of(v)
    BY <1>7
  <2>3. {e.a, e.b} = {SlotA[u], SlotB[u]} /\ {g.a, g.b} = {SlotA[v], SlotB[v]}
    BY <1>8, <2>1, <2>2
  <2>4. {SlotA[u], SlotB[u]} = {SlotA[v], SlotB[v]}
    BY <2>3
  <2> QED BY <1>9, <2>1, <2>2, <2>4
<1>12. \A u \in Scored(c) : \E e \in E : u \in VotesOf(c, e)
  <2> SUFFICES ASSUME NEW u \in Scored(c) PROVE u \in VotesOf(c, of(u))
    BY <1>6
  <2> QED BY <1>8 DEF VotesOf
<1> QED BY <1>5, <1>10, <1>11, <1>12 DEF E

\* One entry per pair of models that was sampled.
LEMMA PairsSampled ==
  ASSUME NEW c \in Casts, NEW on
  PROVE  GetSummary(c, on).pairsSampled = Cardinality(GetHeadToHead(c))
<1> DEFINE E == GetHeadToHead(c)
           T == {{SlotA[u], SlotB[u]} : u \in Scored(c)}
           f == [e \in E |-> {e.a, e.b}]
<1>1. \A e \in E : f[e] \in T
  <2> SUFFICES ASSUME NEW e \in E PROVE {e.a, e.b} \in T
    OBVIOUS
  <2>1. PICK u : u \in VotesOf(c, e)
    BY EntriesAre DEF EntryCounts
  <2> QED BY <2>1 DEF VotesOf
<1>2. \A t \in T : \E e \in E : f[e] = t
  <2> SUFFICES ASSUME NEW u \in Scored(c) PROVE \E e \in E : {e.a, e.b} = {SlotA[u], SlotB[u]}
    OBVIOUS
  <2>1. PICK e \in E : u \in VotesOf(c, e)
    BY EntriesAre
  <2> QED BY <2>1 DEF VotesOf
<1>3. \A e, g \in E : f[e] = f[g] => e = g
  BY EntriesAre
<1>4. IsFiniteSet(E)
  BY EntriesAre
<1>5. GetSummary(c, on).pairsSampled = Cardinality(T)
  BY DEF GetSummary
<1>6. DOMAIN f = E /\ f = [e \in E |-> f[e]]
  OBVIOUS
<1> HIDE DEF E, T, f
<1>7. f \in Surjection(E, T)
  BY <1>1, <1>2, <1>6 DEF Surjection
<1>8. f \in Injection(E, T)
  BY <1>1, <1>3, <1>6 DEF Injection, IsInjective
<1>9. Cardinality(T) = Cardinality(E)
  BY <1>4, <1>7, <1>8, FS_Surjection
<1> QED BY <1>5, <1>9 DEF E

\* The games of an entry are the pair's in the matchmaking statistics.
LEMMA PairAgrees ==
  ASSUME NEW c \in Casts, NEW e \in GetHeadToHead(c), NEW m, NEW x, m # x,
         m \in {e.a, e.b}, x \in {e.a, e.b}
  PROVE  e.games = PairGames(c, m, x)
<1>1. EntryCounts(c, e)
  BY EntriesAre
<1>2. {e.a, e.b} = {m, x}
  OBVIOUS
<1>3. VotesOf(c, e) = {u \in Scored(c) : {SlotA[u], SlotB[u]} = {m, x}}
  BY <1>2 DEF VotesOf
<1> QED BY <1>1, <1>3 DEF EntryCounts, PairGames

\* The entries of a model hold different votes, and all of its scored ones.
EntriesOf(c, m) == {e \in GetHeadToHead(c) : m \in {e.a, e.b}}

\* No two of them share a vote, and together they hold every scored vote of the model.
LEMMA EntriesPartition ==
  ASSUME NEW c \in Casts, NEW m
  PROVE  /\ IsFiniteSet(EntriesOf(c, m))
         /\ \A e \in EntriesOf(c, m) : VotesOf(c, e) \subseteq Matchups /\ EntryCounts(c, e)
         /\ \A e, f \in EntriesOf(c, m) : e # f => VotesOf(c, e) \cap VotesOf(c, f) = {}
         /\ \A u \in Scored(c) : Played(u, m) <=> \E e \in EntriesOf(c, m) : u \in VotesOf(c, e)
<1>1. IsFiniteSet(EntriesOf(c, m))
  BY EntriesAre, FS_Subset DEF EntriesOf
<1>2. \A e \in EntriesOf(c, m) : VotesOf(c, e) \subseteq Matchups /\ EntryCounts(c, e)
  BY EntriesAre DEF EntriesOf, VotesOf, Scored, Cast
<1>3. ASSUME NEW e \in EntriesOf(c, m), NEW f \in EntriesOf(c, m), e # f
      PROVE  VotesOf(c, e) \cap VotesOf(c, f) = {}
  <2>1. e \in GetHeadToHead(c) /\ f \in GetHeadToHead(c)
    BY DEF EntriesOf
  <2>2. {e.a, e.b} # {f.a, f.b}
    BY <1>3, <2>1, EntriesAre
  <2> QED BY <2>2 DEF VotesOf
<1>4. ASSUME NEW u \in Scored(c)
      PROVE  Played(u, m) <=> \E e \in EntriesOf(c, m) : u \in VotesOf(c, e)
  <2>1. PICK e \in GetHeadToHead(c) : u \in VotesOf(c, e)
    BY EntriesAre
  <2> QED BY <2>1 DEF EntriesOf, VotesOf, Played
<1> QED BY <1>1, <1>2, <1>3, <1>4

\* The games of a model, entry by entry, are the last point of its activity curve.
LEMMA GamesSum ==
  ASSUME NEW c \in Casts, NEW m
  PROVE  MapThenSumSet(LAMBDA p : p.games, EntriesOf(c, m)) = CumulativeGames(c, m)
<1> DEFINE S == EntriesOf(c, m)
           value(p) == p.games
           f == [p \in S |-> value(p)]
           B == [p \in S |-> VotesOf(c, p)]
           C == CHOOSE it : it = [s \in SUBSET S |-> IF s = {} THEN 0 ELSE value(OneOf(s)) + it[s \ {OneOf(s)}]]
<1>1. MapThenSumSet(LAMBDA p : p.games, EntriesOf(c, m)) = C[S]
  BY DEF MapThenSumSet, MapThenFoldSet, OneOf
<1>2. IsFiniteSet(S)
  BY EntriesPartition
<1>3. ASSUME NEW p \in S PROVE f[p] \in Nat /\ f[p] = Cardinality(B[p])
  <2>1. EntryCounts(c, p) /\ VotesOf(c, p) \subseteq Matchups
    BY EntriesPartition
  <2>2. IsFiniteSet(B[p])
    BY <2>1, VotesFinite
  <2>3. Cardinality(B[p]) \in Nat
    BY <2>2, FS_CardinalityType
  <2>4. value(p) = Cardinality(B[p])
    BY <2>1, <1>3 DEF EntryCounts
  <2> QED BY <2>3, <2>4
<1>4. f \in [S -> Nat]
  BY <1>3
<1>5. Adds(C, S, f)
  <2>1. PICK it : Adds(it, S, f)
    <3> HIDE DEF f, S
    <3> QED BY <1>2, <1>4, SumExists
  <2>2. ASSUME NEW t
        PROVE  [s \in SUBSET S |-> IF s = {} THEN 0 ELSE f[OneOf(s)] + t[s \ {OneOf(s)}]] =
               [s \in SUBSET S |-> IF s = {} THEN 0 ELSE value(OneOf(s)) + t[s \ {OneOf(s)}]]
    <3>1. \A s \in SUBSET S : s # {} => f[OneOf(s)] = value(OneOf(s))
      BY OneOfIs
    <3> HIDE DEF f, S, value
    <3> QED BY <3>1
  <2>3. it = [s \in SUBSET S |-> IF s = {} THEN 0 ELSE value(OneOf(s)) + it[s \ {OneOf(s)}]]
    <3> HIDE DEF f, S, value
    <3> QED BY <2>1, <2>2 DEF Adds
  <2>4. C = [s \in SUBSET S |-> IF s = {} THEN 0 ELSE value(OneOf(s)) + C[s \ {OneOf(s)}]]
    <3> HIDE DEF f, S, value
    <3> QED BY <2>3
  <2> HIDE DEF f, S, value, C
  <2> QED BY <2>2, <2>4 DEF Adds
<1>6. \A p \in S : B[p] \subseteq VotesOf(c, p)
  OBVIOUS
<1>7. \A p \in S : B[p] \subseteq Matchups
  BY <1>6, EntriesPartition
<1>8. \A p, q \in S : p # q => B[p] \cap B[q] = {}
  BY <1>6, EntriesPartition
<1>9. IsFiniteSet(Matchups)
  BY RosterAssumption
<1>10. C[S] = Cardinality({u \in Matchups : \E p \in S : u \in B[p]})
  <2> HIDE DEF S, B, C, f
  <2> QED BY <1>2, <1>3, <1>5, <1>7, <1>8, <1>9, SumCounts
<1>11. {u \in Matchups : \E p \in S : u \in B[p]} = {u \in Scored(c) : Played(u, m)}
  BY EntriesPartition DEF Scored, Cast, VotesOf
<1> QED BY <1>1, <1>10, <1>11 DEF CumulativeGames, WonVotes

\* The wins of a model, entry by entry, are the votes it won.
LEMMA WinsSum ==
  ASSUME NEW c \in Casts, NEW m
  PROVE  MapThenSumSet(LAMBDA p : IF p.a = m THEN p.aWins ELSE p.bWins, EntriesOf(c, m)) =
           Cardinality(WonVotes(c, m))
<1> DEFINE S == EntriesOf(c, m)
           value(p) == IF p.a = m THEN p.aWins ELSE p.bWins
           f == [p \in S |-> value(p)]
           B == [p \in S |-> {u \in VotesOf(c, p) : WonBy(c, u, m)}]
           C == CHOOSE it : it = [s \in SUBSET S |-> IF s = {} THEN 0 ELSE value(OneOf(s)) + it[s \ {OneOf(s)}]]
<1>1. MapThenSumSet(LAMBDA p : IF p.a = m THEN p.aWins ELSE p.bWins, EntriesOf(c, m)) = C[S]
  BY DEF MapThenSumSet, MapThenFoldSet, OneOf
<1>2. IsFiniteSet(S)
  BY EntriesPartition
<1>3. ASSUME NEW p \in S PROVE f[p] \in Nat /\ f[p] = Cardinality(B[p])
  <2>1. EntryCounts(c, p) /\ VotesOf(c, p) \subseteq Matchups
    BY EntriesPartition
  <2>2. IsFiniteSet(B[p])
    BY <2>1, VotesFinite
  <2>3. Cardinality(B[p]) \in Nat
    BY <2>2, FS_CardinalityType
  <2>4. value(p) = Cardinality(B[p])
    BY <2>1, <1>3 DEF EntryCounts, EntriesOf
  <2> QED BY <2>3, <2>4
<1>4. f \in [S -> Nat]
  BY <1>3
<1>5. Adds(C, S, f)
  <2>1. PICK it : Adds(it, S, f)
    <3> HIDE DEF f, S
    <3> QED BY <1>2, <1>4, SumExists
  <2>2. ASSUME NEW t
        PROVE  [s \in SUBSET S |-> IF s = {} THEN 0 ELSE f[OneOf(s)] + t[s \ {OneOf(s)}]] =
               [s \in SUBSET S |-> IF s = {} THEN 0 ELSE value(OneOf(s)) + t[s \ {OneOf(s)}]]
    <3>1. \A s \in SUBSET S : s # {} => f[OneOf(s)] = value(OneOf(s))
      BY OneOfIs
    <3> HIDE DEF f, S, value
    <3> QED BY <3>1
  <2>3. it = [s \in SUBSET S |-> IF s = {} THEN 0 ELSE value(OneOf(s)) + it[s \ {OneOf(s)}]]
    <3> HIDE DEF f, S, value
    <3> QED BY <2>1, <2>2 DEF Adds
  <2>4. C = [s \in SUBSET S |-> IF s = {} THEN 0 ELSE value(OneOf(s)) + C[s \ {OneOf(s)}]]
    <3> HIDE DEF f, S, value
    <3> QED BY <2>3
  <2> HIDE DEF f, S, value, C
  <2> QED BY <2>2, <2>4 DEF Adds
<1>6. \A p \in S : B[p] \subseteq VotesOf(c, p)
  OBVIOUS
<1>7. \A p \in S : B[p] \subseteq Matchups
  BY <1>6, EntriesPartition
<1>8. \A p, q \in S : p # q => B[p] \cap B[q] = {}
  BY <1>6, EntriesPartition
<1>9. IsFiniteSet(Matchups)
  BY RosterAssumption
<1>10. C[S] = Cardinality({u \in Matchups : \E p \in S : u \in B[p]})
  <2> HIDE DEF S, B, C, f
  <2> QED BY <1>2, <1>3, <1>5, <1>7, <1>8, <1>9, SumCounts
<1>11. {u \in Matchups : \E p \in S : u \in B[p]} = WonVotes(c, m)
  <2>1. \A u \in WonVotes(c, m) : u \in Scored(c) /\ Played(u, m)
    BY DEF WonVotes, WonBy, Played, Scored
  <2>2. \A u \in WonVotes(c, m) : \E p \in S : u \in VotesOf(c, p)
    BY <2>1, EntriesPartition
  <2>3. \A p \in S : \A u \in VotesOf(c, p) : u \in Matchups /\ (WonBy(c, u, m) => u \in WonVotes(c, m))
    BY DEF VotesOf, Scored, Cast, WonVotes
  <2>4. \A u \in WonVotes(c, m) : u \in Matchups /\ WonBy(c, u, m)
    BY DEF WonVotes, Cast
  <2> HIDE DEF S
  <2> QED BY <2>2, <2>3, <2>4
<1> QED BY <1>1, <1>10, <1>11 DEF CumulativeGames, WonVotes

\* What the five endpoints say of one table is true together.
LEMMA TalliesOf ==
  ASSUME cast \in Casts, enabled \subseteq Models
  PROVE  TalliesAgree
<1> DEFINE row(m) == LeaderboardRow(cast, ratings, m)
           pos(m) == PositionStats(cast, m)
           sum == GetSummary(cast, enabled)
           h2h == GetHeadToHead(cast)
           of(m) == {p \in h2h : m \in {p.a, p.b}}
<1>1. \A m : row(m).wins + row(m).losses + row(m).ties + row(m).skips = row(m).total
  BY RowAddsUp
<1>2. \A m : /\ MapThenSumSet(LAMBDA p : IF p.a = m THEN p.aWins ELSE p.bWins, of(m)) = row(m).wins
             /\ MapThenSumSet(LAMBDA p : p.games, of(m)) = CumulativeGames(cast, m)
  BY WinsSum, GamesSum, WinsByRow DEF EntriesOf
<1>3. \A m : pos(m).slotAWins + pos(m).slotBWins = row(m).wins
  BY WinsBySlot, WinsByRow
<1>4. \A m \in enabled : \A x \in Models \ {m} : \A p \in of(m) \cap of(x) :
        p.games = PairGames(cast, m, x)
  BY PairAgrees
<1>5. sum.decisiveVotes = sum.slotAWins + sum.slotBWins
      /\ sum.totalVotes = sum.decisiveVotes + sum.tieVotes + sum.skipVotes
  BY SummaryAddsUp
<1>6. sum.pairsSampled = Cardinality(h2h)
  BY PairsSampled
<1> HIDE DEF row, pos, sum, h2h
<1> QED BY <1>1, <1>2, <1>3, <1>4, <1>5, <1>6 DEF TalliesAgree, row, pos, sum, h2h

\* The five endpoints that count votes tell one story about any table of votes.
THEOREM OneStory == Spec => []TalliesAgree
<1>1. Init => StyleInv /\ PassInv
  BY StyleInit, PassInit
<1>2. (StyleInv /\ PassInv) /\ [Next]_vars => (StyleInv /\ PassInv)'
  BY StyleStep, PassStep
<1>3. StyleInv /\ PassInv => TalliesAgree
  BY TalliesOf DEF StyleInv, PassInv
<1> QED BY <1>1, <1>2, <1>3, PTL DEF Spec
=============================================================================
