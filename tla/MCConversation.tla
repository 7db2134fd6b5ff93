--------------------------- MODULE MCConversation ---------------------------
(* A small instance of Conversation for TLC. *)
EXTENDS Conversation, TLC

CONSTANTS m1, m2

TwoModels == {m1, m2}
BothWays  == {<<m1, m2>>, <<m2, m1>>}

Symmetry == Permutations(Requests) \cup Permutations(Ballots)
              \cup Permutations(Sessions)

\* Three requests race only for one blind conversation of one session.  Two may
\* open one each, or meet a shadow round or another session; then one of them may
\* be seated the other way.
Asked == {r \in Requests : input[r] # NoInput}
Blind(r) == input[r].mode = "blind"
Seated(r) == Saved(r) => turns[r].model["A"] = m1

Race == \A r, s \in Asked : /\ input[r].conv = input[s].conv
                            /\ input[r].session = input[s].session
                            /\ Blind(r) /\ Seated(r)
Apart(r, s) == /\ Seated(r) \/ Seated(s)
               /\ input[r].session # input[s].session \/ ~Blind(r) \/ ~Blind(s)
Scopes == /\ Cardinality(Asked) =< 2
          /\ \A r \in Asked : Blind(r) \/ Seated(r)
          /\ \A r, s \in Asked : r # s => Apart(r, s)

Focus == (Race \/ Scopes)'
=============================================================================
