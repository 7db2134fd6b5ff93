---------------------------- MODULE Server_proofs ----------------------------
(***************************************************************************)
(* The two parts of the server that no connection owns: the rendezvous of  *)
(* sibling requests (JoinBroker), for every set of requests and scopes,    *)
(* every duration and every cap; and the deployment the server runs in,    *)
(* with its migrations, seeds, roster and chat handler (Deployment), for   *)
(* every list of migrations, every older release, every line-up of models  *)
(* and every request body.                                                 *)
(***************************************************************************)
EXTENDS JoinBroker, Deployment, FiniteSetTheorems, SequenceTheorems, WellFoundedInduction,
        TLAPS

(***************************************************************************)
(* The rendezvous: its inductive invariant.                                *)
(***************************************************************************)
Leads(r) == join[r].state # "none"

\* A request leads, follows or was turned away, and never two of these.
Roles ==
  \A r \in Requests :
    /\ pc[r] = "idle" => ~Leads(r) /\ leader[r] = None
    /\ pc[r] \notin {"idle", "accept", "done"} => Leads(r)
    /\ pc[r] = "accept" => leader[r] # None
    /\ pc[r] # "done" => reply[r] = "none"
    /\ Leads(r) => scope[r] \in Scopes /\ leader[r] = None /\ pc[r] # "accept"
    /\ leader[r] # None =>
         pc[r] \in {"accept", "done"} /\ join[leader[r]].state = "paired"

\* The timers and promises of an entry agree with its state.
Entries ==
  \A l \in Requests :
    /\ ~Leads(l) => join[l].window = Off /\ join[l].deadline = Off
    /\ Leads(l) =>
         /\ <<join[l].state, join[l].sibling>> \in
              {<<"open", "pending">>, <<"paired", "paired">>, <<"expired", "alone">>}
         /\ join[l].state = "open" <=> join[l].window # Off
         /\ join[l].state = "open" => pc[l] = "sibling" /\ join[l].deadline # Off
         /\ join[l].state = "paired" /\ join[l].accept = "pending" =>
              join[l].deadline # Off

\* What a leader hands over is its own answer, and what its follower is told.
Handed ==
  \A l \in Requests : Leads(l) =>
    /\ join[l].accept \in {"pending", "timeout"}
         \/ (pc[l] = "done" /\ join[l].accept = reply[l])
    /\ reply[l] = "stream" /\ join[l].state = "paired" => join[l].accept # "pending"
    /\ reply[l] # "timeout"

Told ==
  \A f \in Requests : (leader[f] # None /\ pc[f] = "done") =>
    /\ join[leader[f]].accept # "pending"
    /\ reply[f] = join[leader[f]].accept

\* The map holds the scope's leader, unless it was forgotten after its grace.
InMap ==
  /\ \A s \in Scopes : pending[s] # None =>
       Leads(pending[s]) /\ scope[pending[s]] = s
  /\ \A l \in Requests : Leads(l) =>
       \/ pending[scope[l]] = l
       \/ join[l].state # "open" /\ join[l].age >= Grace

\* A paired entry has exactly one follower.
Siblings ==
  /\ \A f, g \in Requests : leader[f] # None /\ leader[f] = leader[g] => f = g
  /\ \A l \in Requests : join[l].state = "paired" => \E f \in Requests : leader[f] = l

Waiting == {s \in Scopes : Unpaired(s)}

\* The scopes that wait for a sibling respect the cap.
Bounded == Cardinality(Waiting) =< MaxPending

Shape  == TypeOK /\ Roles /\ Entries /\ Handed /\ Told /\ InMap /\ Siblings
IndInv == Shape /\ Bounded

USE RequestsFinite, ScopesFinite, Durations, NoneIsNoValue

(***************************************************************************)
(* Each step keeps the shape.                                              *)
(***************************************************************************)
JoinType == [state : {"none", "open", "paired", "expired"},
             age : 0..Grace,
             window : Timer(WindowMs), deadline : Timer(Deadline),
             sibling : {"pending", "paired", "alone"},
             accept : {"pending", "stream"} \cup Failures]

\* An entry stays an entry whatever the broker does to it.
LEMMA EntryTypes ==
  /\ NewJoin \in JoinType
  /\ \A e \in JoinType :
       /\ Paired(e) \in JoinType /\ Expire(e) \in JoinType /\ Release(e) \in JoinType
       /\ \A v \in {"stream"} \cup Failures :
            [e EXCEPT !.deadline = Off, !.accept = Settle(@, v)] \in JoinType
       /\ [e EXCEPT !.window = Elapse(@), !.deadline = Elapse(@),
                    !.age = IF @ < Grace THEN @ + 1 ELSE @] \in JoinType
<1> USE DEF JoinType, Timer, Off
<1>1. Grace \in Nat /\ Deadline \in Nat
  BY DEF Grace, Deadline
<1>2. NewJoin \in JoinType
  BY <1>1 DEF NewJoin
<1>3. ASSUME NEW e \in JoinType
      PROVE  Paired(e) \in JoinType /\ Expire(e) \in JoinType /\ Release(e) \in JoinType
  <2>0. 0 \in 0..Grace
    BY <1>1
  <2>1. Paired(e) \in JoinType
    <3> HIDE DEF Timer
    <3>1. Off \in Timer(WindowMs)
      BY DEF Timer
    <3>2. Settle(e.sibling, "paired") \in {"pending", "paired", "alone"}
      BY DEF Settle
    <3> QED BY <2>0, <3>1, <3>2 DEF Paired
  <2>2. Expire(e) \in JoinType
    <3> HIDE DEF Timer
    <3> QED BY <2>0 DEF Expire
  <2>3. Release(e) \in JoinType
    BY <1>1 DEF Release, Settle
  <2> QED BY <2>1, <2>2, <2>3
<1>4. ASSUME NEW e \in JoinType, NEW v \in {"stream"} \cup Failures
      PROVE  [e EXCEPT !.deadline = Off, !.accept = Settle(@, v)] \in JoinType
  BY DEF Settle
<1>5. ASSUME NEW e \in JoinType
      PROVE  [e EXCEPT !.window = Elapse(@), !.deadline = Elapse(@),
                       !.age = IF @ < Grace THEN @ + 1 ELSE @] \in JoinType
  <2>1. ASSUME NEW max \in Nat, NEW timer \in Timer(max)
        PROVE  Elapse(timer) \in Timer(max)
    BY DEF Elapse
  <2>2. Elapse(e.window) \in Timer(WindowMs) /\ Elapse(e.deadline) \in Timer(Deadline)
    <3> HIDE DEF Timer
    <3> QED BY <1>1, <2>1
  <2>3. (IF e.age < Grace THEN e.age + 1 ELSE e.age) \in 0..Grace
    BY <1>1
  <2> HIDE DEF Timer
  <2> QED BY <2>2, <2>3
<1> QED BY <1>2, <1>3, <1>4, <1>5

\* The rendezvous starts empty.
LEMMA ShapeInit == Init => Shape
<1> SUFFICES ASSUME Init PROVE Shape
  OBVIOUS
<1> USE DEF Init, NoJoin, Leads
<1>1. TypeOK
  BY DEF TypeOK, Places, Replies, Timer, Grace, Deadline, Off
<1>2. Roles /\ Entries /\ Handed
  BY DEF Roles, Entries, Handed
<1>3. Told /\ InMap /\ Siblings
  BY DEF Told, InMap, Siblings
<1> QED BY <1>1, <1>2, <1>3 DEF Shape

\* What the map loses in a sweep has settled and outlived its grace.
LEMMA SweptRows ==
  ASSUME Shape, NEW s \in Scopes
  PROVE  /\ Swept[s] \in {None, pending[s]}
         /\ s \in Tracked <=> Swept[s] # None
         /\ Unpaired(s) => Swept[s] = pending[s]
         /\ (pending[s] # None /\ Swept[s] = None) =>
              join[pending[s]].state # "open" /\ join[pending[s]].age >= Grace
<1>1. pending[s] # None => pending[s] \in Requests
  BY DEF Shape, TypeOK
<1>2. pending[s] # None => join[pending[s]].age \in 0..Grace
  BY <1>1 DEF Shape, TypeOK
<1>3. Grace \in Nat
  BY DEF Grace
<1> QED BY <1>1, <1>2, <1>3 DEF Swept, Tracked, Stays, Unpaired

\* A claim that opens an entry.
LEMMA ShapeLead ==
  ASSUME Shape, NEW r \in Requests, NEW s \in Scopes, Lead(r, s) PROVE Shape'
<1> USE DEF Shape
<1>1. /\ pc[r] = "idle" /\ s \notin Tracked
      /\ \A q \in Requests : q # r => /\ join'[q] = join[q] /\ pc'[q] = pc[q]
                                      /\ scope'[q] = scope[q]
      /\ join'[r] = NewJoin /\ pc'[r] = "sibling" /\ scope'[r] = s
      /\ leader' = leader /\ reply' = reply
      /\ pending'[s] = r
      /\ \A k \in Scopes : k # s => pending'[k] = Swept[k]
  BY DEF Lead, TypeOK, Swept
<1>2. ~Leads(r) /\ leader[r] = None /\ reply[r] = "none"
  BY <1>1 DEF Roles
<1>3. \A q \in Requests : leader[q] # r
  BY <1>2 DEF Roles, TypeOK, Leads
<1>4. TypeOK'
  <2>1. join' \in [Requests -> JoinType]
    BY EntryTypes DEF Lead, TypeOK, JoinType
  <2>2. pending' \in [Scopes -> Requests \cup {None}]
    BY DEF Lead, TypeOK, Swept
  <2> QED BY <2>1, <2>2 DEF Lead, TypeOK, JoinType, Places
<1>5. Roles'
  BY <1>1, <1>2, <1>3 DEF Roles, TypeOK, Leads, NewJoin
<1>6. Entries'
  BY <1>1, <1>2 DEF Entries, TypeOK, Leads, NewJoin, Off, Deadline
<1>7. Handed'
  BY <1>1, <1>2 DEF Handed, TypeOK, Leads, NewJoin
<1>8. Told'
  BY <1>1, <1>2, <1>3 DEF Told, TypeOK
<1>9. InMap'
  <2>1. ASSUME NEW k \in Scopes, pending'[k] # None
        PROVE  Leads(pending[k])' /\ scope'[pending'[k]] = k
    <3>1. CASE k = s
      BY <3>1, <1>1 DEF Leads, NewJoin
    <3>2. CASE k # s
      BY <3>2, <2>1, <1>1, <1>2, SweptRows DEF InMap, Leads, TypeOK
    <3> QED BY <3>1, <3>2
  <2>2. ASSUME NEW l \in Requests, Leads(l)'
        PROVE  \/ pending'[scope'[l]] = l
               \/ join'[l].state # "open" /\ join'[l].age >= Grace
    <3>1. CASE l = r
      BY <3>1, <1>1
    <3>2. CASE l # r
      <4>1. Leads(l) /\ scope[l] \in Scopes /\ scope'[l] = scope[l] /\ join'[l] = join[l]
        BY <3>2, <2>2, <1>1 DEF Leads, Roles
      <4>2. CASE pending[scope[l]] = l
        <5>1. scope[l] = s => Swept[s] = None
          BY <1>1, SweptRows
        <5> QED BY <4>1, <4>2, <5>1, <1>1, SweptRows DEF TypeOK
      <4> QED BY <4>1, <4>2 DEF InMap
    <3> QED BY <3>1, <3>2
  <2> QED BY <2>1, <2>2 DEF InMap
<1>10. Siblings'
  BY <1>1, <1>2 DEF Siblings, Leads, NewJoin
<1> QED BY <1>4, <1>5, <1>6, <1>7, <1>8, <1>9, <1>10

\* A claim that takes slot B of an open entry.
LEMMA ShapeFollow ==
  ASSUME Shape, NEW r \in Requests, NEW s \in Scopes, Follow(r, s) PROVE Shape'
<1> USE DEF Shape
<1> DEFINE l == pending[s]
<1>1. /\ pc[r] = "idle" /\ l \in Requests /\ l # r /\ Leads(l) /\ scope[l] = s
      /\ join[l].state = "open" /\ join[l].sibling = "pending"
      /\ join[l].deadline # Off
  BY DEF Follow, Unpaired, TypeOK, InMap, Roles, Entries, Leads
<1>2. /\ join'[l].state = "paired" /\ join'[l].sibling = "paired"
      /\ join'[l].window = Off /\ join'[l].age = 0
      /\ join'[l].deadline = join[l].deadline /\ join'[l].accept = join[l].accept
      /\ \A q \in Requests : q # l => join'[q] = join[q]
      /\ \A q \in Requests : q # r => /\ pc'[q] = pc[q] /\ scope'[q] = scope[q]
                                      /\ leader'[q] = leader[q]
      /\ pc'[r] = "accept" /\ scope'[r] = s /\ leader'[r] = l
      /\ reply' = reply /\ pending' = Swept
  BY <1>1 DEF Follow, Paired, Settle, TypeOK
<1>3. ~Leads(r) /\ leader[r] = None /\ reply[r] = "none"
  BY <1>1 DEF Roles
<1>4. \A q \in Requests : leader[q] # l /\ leader[q] # r
  BY <1>1, <1>3 DEF Roles, TypeOK, Leads
<1>5. TypeOK'
  <2>1. join' \in [Requests -> JoinType]
    <3>1. join \in [Requests -> JoinType]
      BY DEF TypeOK, JoinType
    <3>2. Paired(join[l]) \in JoinType
      BY <1>1, <3>1, EntryTypes
    <3> QED BY <1>1, <3>1, <3>2 DEF Follow
  <2>2. pending' \in [Scopes -> Requests \cup {None}]
    BY DEF Follow, TypeOK, Swept
  <2> QED BY <1>1, <2>1, <2>2 DEF Follow, TypeOK, JoinType, Places
<1>6. Roles'
  BY <1>1, <1>2, <1>3, <1>4 DEF Roles, TypeOK, Leads
<1>7. Entries'
  BY <1>1, <1>2, <1>3 DEF Entries, TypeOK, Leads
<1>8. Handed'
  BY <1>1, <1>2, <1>3 DEF Handed, Roles, Entries, TypeOK, Leads
<1>9. Told'
  BY <1>1, <1>2, <1>3, <1>4 DEF Told, TypeOK
<1>10. InMap'
  <2>1. ASSUME NEW k \in Scopes, pending'[k] # None
        PROVE  Leads(pending[k])' /\ scope'[pending'[k]] = k
    <3>1. pending'[k] = pending[k] /\ pending[k] \in Requests
      BY <2>1, <1>2, SweptRows DEF TypeOK
    <3>2. Leads(pending[k]) /\ scope[pending[k]] = k
      BY <2>1, <3>1 DEF InMap
    <3>3. scope'[pending[k]] = k
      BY <3>1, <3>2, <1>2, <1>3
    <3>4. join'[pending[k]].state # "none"
      BY <3>1, <3>2, <1>2 DEF Leads
    <3> QED BY <3>1, <3>3, <3>4 DEF Leads
  <2>2. ASSUME NEW q \in Requests, Leads(q)'
        PROVE  \/ pending'[scope'[q]] = q
               \/ join'[q].state # "open" /\ join'[q].age >= Grace
    <3>1. CASE q = l
      <4>1. Unpaired(s)
        BY DEF Follow
      <4> QED BY <3>1, <4>1, <1>1, <1>2, SweptRows
    <3>2. CASE q # l
      <4>1. Leads(q) /\ scope[q] \in Scopes /\ scope'[q] = scope[q] /\ join'[q] = join[q]
        BY <3>2, <2>2, <1>2, <1>3 DEF Leads, Roles
      <4>2. CASE pending[scope[q]] = q
        BY <4>1, <4>2, <1>2, SweptRows DEF TypeOK
      <4> QED BY <4>1, <4>2 DEF InMap
    <3> QED BY <3>1, <3>2
  <2> QED BY <2>1, <2>2 DEF InMap
<1>11. Siblings'
  <2>1. \A f, g \in Requests : leader'[f] # None /\ leader'[f] = leader'[g] => f = g
    BY <1>1, <1>2, <1>4 DEF Siblings
  <2>2. ASSUME NEW k \in Requests, join'[k].state = "paired"
        PROVE  \E f \in Requests : leader'[f] = k
    <3>1. CASE k = l
      BY <3>1, <1>2
    <3>2. CASE k # l
      BY <3>2, <2>2, <1>2, <1>3 DEF Siblings
    <3> QED BY <3>1, <3>2
  <2> QED BY <2>1, <2>2 DEF Siblings
<1> QED BY <1>5, <1>6, <1>7, <1>8, <1>9, <1>10, <1>11

\* A sweep alone forgets only what may be forgotten.
LEMMA InMapSwept ==
  ASSUME Shape, pending' = Swept, join' = join,
         \A q \in Requests : Leads(q) => scope'[q] = scope[q]
  PROVE  InMap'
<1> USE DEF Shape
<1>1. ASSUME NEW k \in Scopes, pending'[k] # None
      PROVE  Leads(pending[k])' /\ scope'[pending'[k]] = k
  <2>1. pending'[k] = pending[k] /\ pending[k] \in Requests
    BY <1>1, SweptRows DEF TypeOK
  <2> QED BY <1>1, <2>1 DEF InMap, Leads
<1>2. ASSUME NEW q \in Requests, Leads(q)'
      PROVE  \/ pending'[scope'[q]] = q
             \/ join'[q].state # "open" /\ join'[q].age >= Grace
  <2>1. Leads(q) /\ scope[q] \in Scopes /\ scope'[q] = scope[q]
    BY <1>2 DEF Leads, Roles
  <2>2. CASE pending[scope[q]] = q
    BY <2>1, <2>2, SweptRows DEF TypeOK
  <2> QED BY <2>1, <2>2 DEF InMap
<1> QED BY <1>1, <1>2 DEF InMap

\* A claim that is turned away.
LEMMA ShapeTurnAway ==
  ASSUME Shape, NEW r \in Requests, NEW s \in Scopes, TurnAway(r, s) PROVE Shape'
<1> USE DEF Shape
<1>1. /\ pc[r] = "idle" /\ join' = join /\ leader' = leader /\ pending' = Swept
      /\ \A q \in Requests : q # r => /\ pc'[q] = pc[q] /\ scope'[q] = scope[q]
                                      /\ reply'[q] = reply[q]
      /\ pc'[r] = "done" /\ scope'[r] = s
      /\ reply'[r] \in {"expired", "exhausted", "unavailable"}
  BY DEF TurnAway, TypeOK
<1>2. ~Leads(r) /\ leader[r] = None
  BY <1>1 DEF Roles
<1>3. TypeOK'
  <2>1. pending' \in [Scopes -> Requests \cup {None}]
    BY <1>1 DEF TypeOK, Swept
  <2> QED BY <2>1 DEF TurnAway, TypeOK, Places, Replies
<1>4. Roles'
  BY <1>1, <1>2 DEF Roles, Leads
<1>5. Entries' /\ Handed'
  BY <1>1, <1>2 DEF Entries, Handed, Leads
<1>6. Told' /\ Siblings'
  BY <1>1, <1>2 DEF Told, Siblings
<1>7. InMap'
  BY <1>1, <1>2, InMapSwept
<1> QED BY <1>3, <1>4, <1>5, <1>6, <1>7

\* The window of l finds l's own entry in the map: it is open until then.
LEMMA ShapeWindow ==
  ASSUME Shape, NEW l \in Requests, WindowCloses(l) PROVE Shape'
<1> USE DEF Shape
<1>1. join[l].window = 0 /\ pending' = pending /\ scope' = scope /\ leader' = leader
      /\ pc' = pc /\ reply' = reply
  BY DEF WindowCloses
<1>2. /\ Leads(l) /\ join[l].state = "open" /\ join[l].sibling = "pending"
      /\ pending[scope[l]] = l /\ scope[l] \in Scopes /\ pc[l] = "sibling"
  BY <1>1 DEF Entries, InMap, Roles, Off
<1>3. join' = [join EXCEPT ![l] = Release(Expire(@))]
  <2> DEFINE held == [q \in Requests |->
                        IF q = pending[scope[l]] THEN Expire(join[q]) ELSE join[q]]
  <2>1. join' = [held EXCEPT ![l] = Release(@)]
    BY DEF WindowCloses
  <2> QED BY <1>2, <2>1 DEF TypeOK
<1>4. /\ join'[l].state = "expired" /\ join'[l].sibling = "alone"
      /\ join'[l].window = Off /\ join'[l].deadline = Off
      /\ join'[l].accept = join[l].accept
      /\ \A q \in Requests : q # l => join'[q] = join[q]
  BY <1>2, <1>3 DEF Release, Expire, Settle, TypeOK
<1>5. \A q \in Requests : leader[q] # l
  BY <1>2 DEF Roles
<1>6. TypeOK'
  <2>1. join' \in [Requests -> JoinType]
    BY <1>3, EntryTypes DEF TypeOK, JoinType
  <2> QED BY <1>1, <2>1 DEF TypeOK, JoinType
<1>7. Roles'
  BY <1>1, <1>2, <1>4, <1>5 DEF Roles, Leads, TypeOK
<1>8. Entries'
  BY <1>1, <1>4 DEF Entries, Leads
<1>9. Handed'
  BY <1>1, <1>2, <1>4 DEF Handed, Leads
<1>10. Told'
  BY <1>1, <1>4, <1>5 DEF Told, TypeOK
<1>11. InMap'
  BY <1>1, <1>2, <1>4 DEF InMap, Leads, TypeOK
<1>12. Siblings'
  BY <1>1, <1>4 DEF Siblings
<1> QED BY <1>6, <1>7, <1>8, <1>9, <1>10, <1>11, <1>12

\* Handing over a value settles the deadline and, if it is the first, the promise.
LEMMA HandRow ==
  ASSUME TypeOK, NEW r \in Requests, NEW v \in {"stream"} \cup Failures,
         join' = [join EXCEPT ![r].deadline = Off, ![r].accept = Settle(@, v)]
  PROVE  /\ join' \in [Requests -> JoinType]
         /\ \A q \in Requests :
              /\ join'[q].state = join[q].state /\ join'[q].sibling = join[q].sibling
              /\ join'[q].window = join[q].window /\ join'[q].age = join[q].age
              /\ q # r => join'[q].deadline = join[q].deadline
                          /\ join'[q].accept = join[q].accept
         /\ join'[r].deadline = Off
         /\ join'[r].accept = Settle(join[r].accept, v)
<1> DEFINE e == [join[r] EXCEPT !.deadline = Off, !.accept = Settle(@, v)]
<1>1. join \in [Requests -> JoinType]
  BY DEF TypeOK, JoinType
<1>2. join' = [join EXCEPT ![r] = e]
  BY <1>1 DEF JoinType
<1>3. e \in JoinType
  BY <1>1, EntryTypes
<1>4. /\ e.state = join[r].state /\ e.sibling = join[r].sibling
      /\ e.window = join[r].window /\ e.age = join[r].age
      /\ e.deadline = Off /\ e.accept = Settle(join[r].accept, v)
  BY <1>1 DEF JoinType
<1> HIDE DEF e
<1>5. \A q \in Requests : join'[q] = IF q = r THEN e ELSE join[q]
  BY <1>1, <1>2
<1>6. join' \in [Requests -> JoinType]
  BY <1>1, <1>2, <1>3
<1> QED BY <1>4, <1>5, <1>6

\* The publish deadline of a leader passes.
LEMMA ShapeDeadline ==
  ASSUME Shape, NEW l \in Requests, DeadlinePasses(l) PROVE Shape'
<1> USE DEF Shape
<1>1. /\ join[l].deadline = 0 /\ join[l].window = Off
      /\ pending' = pending /\ scope' = scope /\ leader' = leader
      /\ pc' = pc /\ reply' = reply
  BY DEF DeadlinePasses
<1>2. /\ join' \in [Requests -> JoinType]
      /\ \A q \in Requests :
           /\ join'[q].state = join[q].state /\ join'[q].sibling = join[q].sibling
           /\ join'[q].window = join[q].window /\ join'[q].age = join[q].age
           /\ q # l => join'[q].deadline = join[q].deadline
                       /\ join'[q].accept = join[q].accept
      /\ join'[l].deadline = Off
      /\ join'[l].accept = Settle(join[l].accept, "timeout")
  BY HandRow DEF DeadlinePasses, Failures
<1>3. Leads(l) /\ join[l].state # "open"
  BY <1>1 DEF Entries, Off
<1>4. TypeOK'
  BY <1>1, <1>2 DEF TypeOK, JoinType
<1> HIDE DEF Shape
<1>5. Roles'
  BY <1>1, <1>2 DEF Shape, Roles, Leads, TypeOK
<1>6. Entries'
  BY <1>1, <1>2, <1>3 DEF Shape, Entries, Leads, Settle
<1>7. Handed'
  BY <1>1, <1>2 DEF Shape, Handed, Leads, Settle
<1>8. Told'
  <2>1. \A f \in Requests : leader[f] # None => leader[f] \in Requests
    BY DEF Shape, TypeOK
  <2> QED BY <2>1, <1>1, <1>2 DEF Shape, Told, Settle
<1>9. InMap'
  <2>1. \A s \in Scopes : pending[s] # None => pending[s] \in Requests
    BY DEF Shape, TypeOK
  <2> QED BY <2>1, <1>1, <1>2 DEF Shape, InMap, Leads
<1>10. Siblings'
  BY <1>1, <1>2 DEF Shape, Siblings
<1> QED BY <1>4, <1>5, <1>6, <1>7, <1>8, <1>9, <1>10 DEF Shape

\* Time passes.
LEMMA ShapeTick == ASSUME Shape, Tick PROVE Shape'
<1>1. /\ pending' = pending /\ scope' = scope /\ leader' = leader
      /\ pc' = pc /\ reply' = reply
      /\ \A q \in Requests : join[q].window # 0 /\ join[q].deadline # 0
  BY DEF Tick
<1>2. Grace \in Nat /\ Deadline \in Nat /\ WindowMs \in Nat
  BY DEF Grace, Deadline
<1>3. join \in [Requests -> JoinType]
  BY DEF Shape, TypeOK, JoinType
<1>4. ASSUME NEW max \in Nat, NEW timer \in Timer(max), timer # 0
      PROVE  Elapse(timer) # Off <=> timer # Off
  BY <1>4 DEF Elapse, Timer, Off
<1>5. ASSUME NEW q \in Requests
      PROVE  /\ join'[q] \in JoinType
             /\ join'[q].state = join[q].state /\ join'[q].sibling = join[q].sibling
             /\ join'[q].accept = join[q].accept
             /\ join'[q].window # Off <=> join[q].window # Off
             /\ join'[q].deadline # Off <=> join[q].deadline # Off
             /\ join[q].age >= Grace => join'[q].age >= Grace
  <2> DEFINE e == [join[q] EXCEPT !.window = Elapse(@), !.deadline = Elapse(@),
                                  !.age = IF @ < Grace THEN @ + 1 ELSE @]
  <2>1. join'[q] = e
    BY DEF Tick
  <2>2. join[q] \in JoinType /\ e \in JoinType
    BY <1>3, EntryTypes
  <2>3. /\ e.window = Elapse(join[q].window) /\ e.deadline = Elapse(join[q].deadline)
        /\ e.age = IF join[q].age < Grace THEN join[q].age + 1 ELSE join[q].age
        /\ e.state = join[q].state /\ e.sibling = join[q].sibling
        /\ e.accept = join[q].accept
    BY <2>2 DEF JoinType
  <2>4. join[q].window \in Timer(WindowMs) /\ join[q].deadline \in Timer(Deadline)
        /\ join[q].age \in Nat
    BY <2>2, <1>2 DEF JoinType
  <2>5. /\ Elapse(join[q].window) # Off <=> join[q].window # Off
        /\ Elapse(join[q].deadline) # Off <=> join[q].deadline # Off
    BY <2>4, <1>1, <1>2, <1>4
  <2> HIDE DEF e
  <2> QED BY <2>1, <2>2, <2>3, <2>4, <2>5, <1>2
<1>6. TypeOK'
  <2>1. DOMAIN join' = Requests
    BY DEF Tick
  <2>2. join' = [q \in Requests |-> join'[q]]
    BY DEF Tick
  <2>3. join' \in [Requests -> JoinType]
    BY <2>2, <1>5
  <2> QED BY <1>1, <2>3 DEF Shape, TypeOK, JoinType
<1>7. Roles'
  <2>1. \A f \in Requests : leader[f] # None => leader[f] \in Requests
    BY DEF Shape, TypeOK
  <2> QED BY <2>1, <1>1, <1>5 DEF Shape, Roles, Leads
<1>8. Entries'
  BY <1>1, <1>5 DEF Shape, Entries, Leads
<1>9. Handed'
  BY <1>1, <1>5 DEF Shape, Handed, Leads
<1>10. Told'
  <2>1. \A f \in Requests : leader[f] # None => leader[f] \in Requests
    BY DEF Shape, TypeOK
  <2> QED BY <2>1, <1>1, <1>5 DEF Shape, Told
<1>11. InMap'
  <2>1. \A s \in Scopes : pending[s] # None => pending[s] \in Requests
    BY DEF Shape, TypeOK
  <2> QED BY <2>1, <1>1, <1>5 DEF Shape, InMap, Leads
<1>12. Siblings'
  BY <1>1, <1>5 DEF Shape, Siblings
<1> QED BY <1>6, <1>7, <1>8, <1>9, <1>10, <1>11, <1>12 DEF Shape

(***************************************************************************)
(* The handler's steps.                                                    *)
(***************************************************************************)
LEMMA ShapeGoto ==
  ASSUME Shape, NEW r \in Requests, NEW place \in {"read", "pick", "create"},
         Leads(r), join[r].state # "open", pc[r] # "done", Goto(r, place)
  PROVE  Shape'
<1>1. /\ UNCHANGED <<pending, join, scope, leader, reply>>
      /\ pc' = [pc EXCEPT ![r] = place]
  BY DEF Goto
<1>2. leader[r] = None /\ reply[r] = "none"
  BY DEF Shape, Roles
<1>3. TypeOK'
  BY <1>1 DEF Shape, TypeOK, Places
<1>4. \A q \in Requests : pc'[q] = IF q = r THEN place ELSE pc[q]
  BY <1>1 DEF Shape, TypeOK
<1>5. Roles'
  BY <1>1, <1>2, <1>4 DEF Shape, Roles, Leads
<1>6. Entries' /\ Handed'
  BY <1>1, <1>4 DEF Shape, Entries, Handed, Leads
<1>7. Told'
  BY <1>1, <1>2, <1>4 DEF Shape, Told
<1>8. InMap' /\ Siblings'
  BY <1>1 DEF Shape, InMap, Siblings, Leads
<1> QED BY <1>3, <1>5, <1>6, <1>7, <1>8 DEF Shape

Working(r) == pc[r] \in {"read", "pick", "create"}

\* A leader at work leads a settled entry and has told nobody anything.
LEMMA WorkerFacts ==
  ASSUME Shape, NEW r \in Requests, Working(r)
  PROVE  /\ Leads(r) /\ leader[r] = None /\ join[r].state # "open"
         /\ join[r].accept \in {"pending", "timeout"}
BY DEF Shape, Roles, Entries, Handed, Working

\* The leader answers and hands the same to its sibling: a failure or the round.
LEMMA ShapeReject ==
  ASSUME Shape, NEW r \in Requests, NEW v \in {"refused", "error", "stream"},
         Working(r), Reject(r, v)
  PROVE  Shape'
<1>1. /\ UNCHANGED <<pending, scope, leader>>
      /\ pc' = [pc EXCEPT ![r] = "done"] /\ reply' = [reply EXCEPT ![r] = v]
  BY DEF Reject, Answer
<1>2. /\ join' \in [Requests -> JoinType]
      /\ \A q \in Requests :
           /\ join'[q].state = join[q].state /\ join'[q].sibling = join[q].sibling
           /\ join'[q].window = join[q].window /\ join'[q].age = join[q].age
           /\ q # r => join'[q].deadline = join[q].deadline
                       /\ join'[q].accept = join[q].accept
      /\ join'[r].deadline = Off
      /\ join'[r].accept = Settle(join[r].accept, v)
  <2>1. TypeOK /\ v \in {"stream"} \cup Failures
    BY DEF Shape, Failures
  <2>2. join' = [join EXCEPT ![r].deadline = Off, ![r].accept = Settle(@, v)]
    BY DEF Reject, Hand
  <2> QED BY <2>1, <2>2, HandRow
<1>3. /\ Leads(r) /\ leader[r] = None /\ join[r].state # "open"
      /\ join[r].accept \in {"pending", "timeout"}
  BY WorkerFacts
<1>4. TypeOK'
  BY <1>1, <1>2 DEF Shape, TypeOK, JoinType, Places, Replies, Failures
<1>5. \A q \in Requests : /\ pc'[q] = IF q = r THEN "done" ELSE pc[q]
                          /\ reply'[q] = IF q = r THEN v ELSE reply[q]
  BY <1>1 DEF Shape, TypeOK
<1>6. \A f \in Requests : leader[f] # None => leader[f] \in Requests
  BY DEF Shape, TypeOK
<1>7. Roles'
  BY <1>1, <1>2, <1>3, <1>5, <1>6 DEF Shape, Roles, Leads
<1>8. Entries'
  BY <1>1, <1>2, <1>3, <1>5 DEF Shape, Entries, Leads, Settle
<1>9. Handed'
  BY <1>1, <1>2, <1>3, <1>5 DEF Shape, Handed, Leads, Settle
<1>10. Told'
  BY <1>1, <1>2, <1>3, <1>5, <1>6 DEF Shape, Told, Settle
<1>11. InMap'
  <2>1. \A s \in Scopes : pending[s] # None => pending[s] \in Requests
    BY DEF Shape, TypeOK
  <2> QED BY <2>1, <1>1, <1>2 DEF Shape, InMap, Leads
<1>12. Siblings'
  BY <1>1, <1>2 DEF Shape, Siblings
<1> QED BY <1>4, <1>7, <1>8, <1>9, <1>10, <1>11, <1>12 DEF Shape

\* It answers alone: an exception, or a round nobody shares.
LEMMA ShapeAnswer ==
  ASSUME Shape, NEW r \in Requests, NEW v \in {"error", "stream"},
         Working(r), Answer(r, v), join' = join,
         v = "stream" => join[r].state # "paired"
  PROVE  Shape'
<1>1. /\ UNCHANGED <<pending, scope, leader, join>>
      /\ pc' = [pc EXCEPT ![r] = "done"] /\ reply' = [reply EXCEPT ![r] = v]
  BY DEF Answer
<1>2. /\ Leads(r) /\ leader[r] = None /\ join[r].state # "open"
      /\ join[r].accept \in {"pending", "timeout"}
  BY WorkerFacts
<1>3. TypeOK'
  BY <1>1 DEF Shape, TypeOK, Places, Replies, Failures
<1>4. \A q \in Requests : /\ pc'[q] = IF q = r THEN "done" ELSE pc[q]
                          /\ reply'[q] = IF q = r THEN v ELSE reply[q]
  BY <1>1 DEF Shape, TypeOK
<1>5. Roles'
  BY <1>1, <1>2, <1>4 DEF Shape, Roles, Leads
<1>6. Entries' /\ Handed'
  BY <1>1, <1>2, <1>4 DEF Shape, Entries, Handed, Leads
<1>7. Told'
  BY <1>1, <1>2, <1>4 DEF Shape, Told
<1>8. InMap' /\ Siblings'
  BY <1>1 DEF Shape, InMap, Siblings, Leads
<1> QED BY <1>3, <1>5, <1>6, <1>7, <1>8 DEF Shape

\* A follower answers what its leader handed over.
LEMMA ShapeAccept ==
  ASSUME Shape, NEW r \in Requests, Accept(r) PROVE Shape'
<1>1. /\ pc[r] = "accept" /\ Resumable(r)
      /\ UNCHANGED <<pending, scope, leader, join>>
      /\ pc' = [pc EXCEPT ![r] = "done"]
      /\ reply' = [reply EXCEPT ![r] = join[leader[r]].accept]
  BY DEF Accept, Answer
<1>2. leader[r] \in Requests /\ ~Leads(r) /\ join[leader[r]].accept # "pending"
  BY <1>1 DEF Shape, TypeOK, Roles, Resumable
<1>3. join[leader[r]].accept \in {"stream"} \cup Failures
  BY <1>2 DEF Shape, TypeOK
<1>4. TypeOK'
  BY <1>1, <1>3 DEF Shape, TypeOK, Places, Replies
<1>5. \A q \in Requests :
        /\ pc'[q] = IF q = r THEN "done" ELSE pc[q]
        /\ reply'[q] = IF q = r THEN join[leader[r]].accept ELSE reply[q]
  BY <1>1 DEF Shape, TypeOK
<1>6. Roles'
  BY <1>1, <1>2, <1>5 DEF Shape, Roles, Leads
<1>7. Entries' /\ Handed'
  BY <1>1, <1>2, <1>5 DEF Shape, Entries, Handed, Leads
<1>8. Told'
  BY <1>1, <1>2, <1>5 DEF Shape, Told
<1>9. InMap' /\ Siblings'
  BY <1>1 DEF Shape, InMap, Siblings, Leads
<1> QED BY <1>4, <1>6, <1>7, <1>8, <1>9 DEF Shape

\* Every step keeps the shape.
LEMMA ShapeNext == ASSUME Shape, [Next]_vars PROVE Shape'
<1>1. CASE Tick
  BY <1>1, ShapeTick
<1>2. ASSUME NEW r \in Requests, NEW s \in Scopes, Claim(r, s) PROVE Shape'
  BY <1>2, ShapeLead, ShapeFollow, ShapeTurnAway DEF Claim
<1>3. ASSUME NEW r \in Requests, WindowCloses(r) \/ DeadlinePasses(r) PROVE Shape'
  BY <1>3, ShapeWindow, ShapeDeadline
<1>4. ASSUME NEW r \in Requests, SiblingKnown(r) PROVE Shape'
  <2>1. Leads(r) /\ join[r].state # "open" /\ pc[r] # "done"
    BY <1>4 DEF SiblingKnown, Resumable, Shape, Roles, Entries
  <2>2. PICK place \in {"read", "pick"} : Goto(r, place)
    BY <1>4 DEF SiblingKnown
  <2> QED BY <2>1, <2>2, ShapeGoto
<1>5. ASSUME NEW r \in Requests, LeaderWork(r) PROVE Shape'
  <2>1. Working(r)
    BY <1>5 DEF LeaderWork, ReadContext, Pick, CreateMatchup, Working
  <2>2. Leads(r) /\ join[r].state # "open" /\ pc[r] # "done"
    BY <2>1, WorkerFacts DEF Working
  <2>3. CASE ReadContext(r) \/ Pick(r)
    BY <2>1, <2>2, <2>3, ShapeGoto, ShapeReject, ShapeAnswer DEF ReadContext, Pick
  <2>4. CASE CreateMatchup(r)
    <3>1. CASE Reject(r, "refused") \/ Reject(r, "error")
      BY <2>1, <3>1, ShapeReject
    <3>2. CASE Answer(r, "stream") /\ join[r].sibling = "paired" /\ Hand(r, "stream")
      BY <2>1, <3>2, ShapeReject DEF Reject
    <3>3. CASE Answer(r, "stream") /\ join[r].sibling # "paired" /\ UNCHANGED join
      <4>1. join[r].state # "paired"
        BY <2>2, <3>3 DEF Shape, Entries
      <4> QED BY <2>1, <3>3, <4>1, ShapeAnswer
    <3> QED BY <2>4, <3>1, <3>2, <3>3 DEF CreateMatchup
  <2> QED BY <1>5, <2>3, <2>4 DEF LeaderWork
<1>6. ASSUME NEW r \in Requests, Accept(r) PROVE Shape'
  BY <1>6, ShapeAccept
<1>7. CASE UNCHANGED vars
  BY <1>7 DEF vars, Shape, TypeOK, Roles, Entries, Handed, Told, InMap, Siblings, Leads
<1> QED BY <1>1, <1>2, <1>3, <1>4, <1>5, <1>6, <1>7 DEF Next

(***************************************************************************)
(* The cap.                                                                *)
(***************************************************************************)
LEMMA WaitingFinite == IsFiniteSet(Waiting) /\ IsFiniteSet(Tracked) /\ Waiting \subseteq Tracked
<1>1. Waiting \subseteq Tracked
  BY DEF Waiting, Tracked, Stays, Unpaired
<1>2. IsFiniteSet(Tracked)
  BY FS_Subset DEF Tracked
<1> QED BY <1>1, <1>2, FS_Subset

\* Nobody waits at first.
LEMMA BoundedInit == Init => Bounded
<1> SUFFICES ASSUME Init PROVE Bounded
  OBVIOUS
<1>1. Waiting = {}
  BY DEF Init, Waiting, Unpaired
<1> QED BY <1>1, FS_EmptySet DEF Bounded

\* A step after which no other scope waits keeps to the cap.
LEMMA FewerWaiting ==
  ASSUME Bounded, Waiting' \subseteq Waiting PROVE Bounded'
<1>1. Cardinality(Waiting') =< Cardinality(Waiting)
  BY WaitingFinite, FS_Subset
<1>2. Cardinality(Waiting) \in Nat /\ Cardinality(Waiting') \in Nat
  BY WaitingFinite, FS_Subset, FS_CardinalityType
<1> QED BY <1>1, <1>2 DEF Bounded

\* A new leader waits only where the cap has room.
LEMMA BoundedLead ==
  ASSUME Shape, NEW r \in Requests, NEW s \in Scopes, Lead(r, s) PROVE Bounded'
<1>1. /\ Cardinality(Tracked) < MaxPending /\ ~Leads(r)
      /\ pending' = [Swept EXCEPT ![s] = r] /\ join' = [join EXCEPT ![r] = NewJoin]
  BY DEF Lead, HasRoom, Shape, Roles
<1>2. Waiting' \subseteq Tracked \cup {s}
  <2> SUFFICES ASSUME NEW k \in Scopes, Unpaired(k)', k # s PROVE k \in Tracked
    BY DEF Waiting
  <2>1. pending'[k] = Swept[k]
    BY <1>1 DEF Swept
  <2> QED BY <2>1, SweptRows DEF Unpaired
<1>3. Cardinality(Tracked \cup {s}) =< Cardinality(Tracked) + 1
      /\ IsFiniteSet(Tracked \cup {s}) /\ Cardinality(Tracked) \in Nat
  <2>1. IsFiniteSet(Tracked) /\ Cardinality(Tracked) \in Nat
    BY WaitingFinite, FS_CardinalityType
  <2>2. /\ IsFiniteSet(Tracked \cup {s})
        /\ Cardinality(Tracked \cup {s}) =
             IF s \in Tracked THEN Cardinality(Tracked) ELSE Cardinality(Tracked) + 1
    BY <2>1, FS_AddElement
  <2> QED BY <2>1, <2>2
<1>4. Cardinality(Waiting') =< Cardinality(Tracked \cup {s})
      /\ Cardinality(Waiting') \in Nat /\ Cardinality(Tracked \cup {s}) \in Nat
  BY <1>2, <1>3, FS_Subset, FS_CardinalityType
<1> QED BY <1>1, <1>3, <1>4 DEF Bounded

\* Every step keeps to the cap.
LEMMA BoundedNext == ASSUME IndInv, [Next]_vars PROVE Bounded'
<1> USE DEF IndInv
<1>1. ASSUME NEW r \in Requests, NEW s \in Scopes, Claim(r, s) PROVE Bounded'
  <2>1. CASE Lead(r, s)
    BY <2>1, BoundedLead
  <2>2. CASE Follow(r, s) \/ TurnAway(r, s)
    <3>1. pending' = Swept
      BY <2>2 DEF Follow, TurnAway
    <3>2. \A q \in Requests : join'[q].state = "open" => join[q].state = "open"
      <4>1. CASE Follow(r, s)
        <5>1. pending[s] \in Requests
          BY <4>1 DEF Follow, Unpaired, Shape, TypeOK
        <5> QED BY <4>1, <5>1 DEF Follow, Paired, Shape, TypeOK
      <4>2. CASE TurnAway(r, s)
        BY <4>2 DEF TurnAway
      <4> QED BY <2>2, <4>1, <4>2
    <3>3. Waiting' \subseteq Waiting
      <4> SUFFICES ASSUME NEW k \in Scopes, Unpaired(k)' PROVE Unpaired(k)
        BY DEF Waiting
      <4>1. pending'[k] = pending[k] /\ pending[k] \in Requests
        BY <3>1, SweptRows DEF Unpaired, Shape, TypeOK
      <4> QED BY <4>1, <3>2 DEF Unpaired
    <3> QED BY <3>3, FewerWaiting
  <2> QED BY <1>1, <2>1, <2>2 DEF Claim
<1>2. ASSUME pending' = pending,
             \A q \in Requests : join'[q].state = "open" => join[q].state = "open"
      PROVE  Bounded'
  <2>1. Waiting' \subseteq Waiting
    <3> SUFFICES ASSUME NEW k \in Scopes, Unpaired(k)' PROVE Unpaired(k)
      BY DEF Waiting
    <3>1. pending[k] \in Requests
      BY <1>2 DEF Unpaired, Shape, TypeOK
    <3> QED BY <3>1, <1>2 DEF Unpaired
  <2> QED BY <2>1, FewerWaiting
<1>3. CASE Tick
  <2>1. ASSUME NEW q \in Requests PROVE join'[q].state = join[q].state
    <3>1. ASSUME NEW e \in JoinType
          PROVE  [e EXCEPT !.window = Elapse(@), !.deadline = Elapse(@),
                           !.age = IF @ < Grace THEN @ + 1 ELSE @].state = e.state
      BY DEF JoinType
    <3>2. join[q] \in JoinType
      BY DEF Shape, TypeOK, JoinType
    <3>3. join'[q] = [join[q] EXCEPT !.window = Elapse(@), !.deadline = Elapse(@),
                                     !.age = IF @ < Grace THEN @ + 1 ELSE @]
      BY <1>3 DEF Tick
    <3> QED BY <3>1, <3>2, <3>3
  <2> QED BY <1>3, <2>1, <1>2 DEF Tick
<1>4. ASSUME NEW l \in Requests, WindowCloses(l) PROVE Bounded'
  <2> DEFINE held == [q \in Requests |->
                        IF q = pending[scope[l]] THEN Expire(join[q]) ELSE join[q]]
  <2>1. join' = [held EXCEPT ![l] = Release(@)]
    BY <1>4 DEF WindowCloses
  <2>2. ASSUME NEW q \in Requests
        PROVE  held[q].state = "open" => join[q].state = "open"
    BY DEF Expire, Shape, TypeOK
  <2>3. ASSUME NEW e \in JoinType PROVE Release(e).state = e.state
    BY DEF Release, JoinType
  <2>4. ASSUME NEW q \in Requests PROVE held[q] \in JoinType
    BY EntryTypes DEF Shape, TypeOK, JoinType
  <2>5. ASSUME NEW q \in Requests
        PROVE  join'[q].state = "open" => join[q].state = "open"
    <3> HIDE DEF held
    <3> QED BY <2>1, <2>2, <2>3, <2>4
  <2> QED BY <1>4, <2>5, <1>2 DEF WindowCloses
<1>5. ASSUME NEW r \in Requests,
             DeadlinePasses(r) \/ SiblingKnown(r) \/ LeaderWork(r) \/ Accept(r)
      PROVE  Bounded'
  <2>1. pending' = pending
    BY <1>5 DEF DeadlinePasses, SiblingKnown, LeaderWork, ReadContext, Pick,
                CreateMatchup, Accept, Goto, Answer, Reject
  <2>2. \/ join' = join
        \/ \E v \in {"stream"} \cup Failures :
             join' = [join EXCEPT ![r].deadline = Off, ![r].accept = Settle(@, v)]
    BY <1>5 DEF DeadlinePasses, SiblingKnown, LeaderWork, ReadContext, Pick,
                CreateMatchup, Accept, Goto, Answer, Reject, Hand, Failures
  <2>3. ASSUME NEW q \in Requests PROVE join'[q].state = join[q].state
    BY <2>2, HandRow DEF Shape
  <2> QED BY <2>1, <2>3, <1>2
<1>6. CASE UNCHANGED vars
  BY <1>6, <1>2 DEF vars
<1> QED BY <1>1, <1>3, <1>4, <1>5, <1>6 DEF Next

(***************************************************************************)
(* The theorems of the rendezvous.                                         *)
(***************************************************************************)
\* The inductive invariant of the rendezvous.
THEOREM Inductive == Spec => []IndInv
<1>1. Init => IndInv
  BY ShapeInit, BoundedInit DEF IndInv
<1>2. IndInv /\ [Next]_vars => IndInv'
  BY ShapeNext, BoundedNext DEF IndInv
<1> QED BY <1>1, <1>2, PTL DEF Spec

\* Every reachable state is well typed, whatever the durations and the cap.
THEOREM TypeCorrect == Spec => []TypeOK
<1>1. IndInv => TypeOK
  BY DEF IndInv, Shape
<1> QED BY <1>1, Inductive, PTL

\* A waiting leader has its window armed and its entry in the map, a waiting
\* follower its leader's deadline: no request is parked without a timer.
THEOREM Watched == Spec => []WaiterIsWatched
<1>1. ASSUME IndInv PROVE WaiterIsWatched
  <2> USE <1>1
  <2>1. ASSUME NEW l \in Leaders, pc[l] = "sibling", join[l].sibling = "pending"
        PROVE  join[l].window # Off /\ pending[scope[l]] = l
    BY <2>1 DEF IndInv, Shape, Entries, InMap, Leads, Leaders
  <2>2. ASSUME NEW f \in Requests, pc[f] = "accept", join[leader[f]].accept = "pending"
        PROVE  join[leader[f]].deadline # Off
    <3>1. leader[f] \in Requests /\ join[leader[f]].state = "paired"
      BY <2>2 DEF IndInv, Shape, TypeOK, Roles
    <3> QED BY <2>2, <3>1 DEF IndInv, Shape, Entries, Leads
  <2> QED BY <2>1, <2>2 DEF WaiterIsWatched
<1> QED BY <1>1, Inductive, PTL

\* However claims, timers and sweeps interleave, two leaders of one scope never
\* coexist within its window and grace.
THEOREM OneRound == Spec => []OneRoundPerScope
<1>1. IndInv => OneRoundPerScope
  BY DEF IndInv, Shape, InMap, OneRoundPerScope, Leaders, Leads
<1> QED BY <1>1, Inductive, PTL

\* A follower is told its leader's own failure, or 504.
THEOREM Mirrors == Spec => []FollowerMirrorsLeader
<1>1. ASSUME IndInv PROVE FollowerMirrorsLeader
  <2> USE <1>1
  <2> SUFFICES ASSUME NEW l \in Leaders, NEW f \in Followers(l)
               PROVE  reply[f] \in {"none", "timeout"} \/ reply[f] = reply[l]
    BY DEF FollowerMirrorsLeader
  <2>1. f \in Requests /\ l \in Requests /\ leader[f] = l /\ leader[f] # None
    BY DEF Followers, Leaders
  <2> QED BY <2>1 DEF IndInv, Shape, Roles, Told, Handed, Leads, Leaders
<1> QED BY <1>1, Inductive, PTL

\* What a request shows, case by case.
LEMMA ShownByState ==
  ASSUME NEW r \in Requests
  PROVE  /\ reply[r] # "stream" => Shown(r) = {}
         /\ leader[r] # None => Shown(r) # {"A"}
         /\ (leader[r] = None /\ join[r].sibling # "paired") => Shown(r) # {"A"}
         /\ (reply[r] = "stream" /\ leader[r] = None /\ join[r].sibling = "paired")
              => Shown(r) = {"A"}
  BY DEF Shown

\* The two connections of a round show one slot each, a lone one both.
THEOREM ShownOnce == Spec => []SlotsShownOnce
<1>1. ASSUME IndInv PROVE SlotsShownOnce
  <2> USE <1>1
  <2> SUFFICES ASSUME NEW l \in Leaders
               PROVE  /\ Cardinality(Followers(l)) =< 1
                      /\ Shown(l) = {"A"} => \E f \in Followers(l) :
                           pc[f] = "accept" \/ reply[f] \in {"stream", "timeout"}
                      /\ \A f \in Followers(l) : Shown(f) # {} => Shown(l) = {"A"}
    BY DEF SlotsShownOnce
  <2>1. l \in Requests /\ Leads(l) /\ leader[l] = None
    BY DEF Leaders, Leads, IndInv, Shape, Roles
  <2>2. Cardinality(Followers(l)) =< 1
    <3>1. CASE Followers(l) = {}
      BY <3>1, FS_EmptySet
    <3>2. ASSUME NEW f \in Followers(l) PROVE Cardinality(Followers(l)) =< 1
      <4>1. Followers(l) = {f}
        BY <2>1 DEF Followers, IndInv, Shape, Siblings
      <4>2. Cardinality({f}) = 1
        BY FS_Singleton
      <4> QED BY <4>1, <4>2
    <3> QED BY <3>1, <3>2
  <2>3. ASSUME NEW f \in Followers(l)
        PROVE  /\ f \in Requests /\ leader[f] = l /\ join[l].state = "paired"
               /\ join[l].sibling = "paired"
               /\ pc[f] = "accept" \/ (pc[f] = "done" /\ reply[f] = join[l].accept
                                         /\ join[l].accept # "pending")
    BY <2>1 DEF Followers, IndInv, Shape, Roles, Entries, Told, Leads
  <2>4. ASSUME Shown(l) = {"A"}
        PROVE  \E f \in Followers(l) :
                 pc[f] = "accept" \/ reply[f] \in {"stream", "timeout"}
    <3>1. reply[l] = "stream" /\ join[l].sibling = "paired"
      BY <2>1, <2>4, ShownByState
    <3>2. join[l].state = "paired"
      BY <2>1, <3>1 DEF IndInv, Shape, Entries
    <3>3. PICK f \in Followers(l) : TRUE
      BY <2>1, <3>2 DEF Followers, IndInv, Shape, Siblings
    <3>4. join[l].accept \in {"stream", "timeout"}
      BY <2>1, <3>1, <3>2 DEF IndInv, Shape, Handed
    <3> QED BY <2>3, <3>3, <3>4
  <2>5. ASSUME NEW f \in Followers(l), Shown(f) # {} PROVE Shown(l) = {"A"}
    <3>1. reply[f] = "stream"
      BY <2>3, <2>5, ShownByState
    <3>2. pc[f] = "done" /\ join[l].accept = "stream"
      BY <2>3, <3>1 DEF IndInv, Shape, Roles
    <3>3. reply[l] = "stream"
      BY <2>1, <3>2 DEF IndInv, Shape, Handed
    <3> QED BY <2>1, <2>3, <3>3, ShownByState
  <2> QED BY <2>2, <2>4, <2>5
<1> QED BY <1>1, Inductive, PTL

\* At most MaxPending requests wait for a sibling.
THEOREM FewWait == Spec => []RendezvousBounded
<1>1. ASSUME IndInv PROVE RendezvousBounded
  <2> USE <1>1
  <2> DEFINE R == {r \in Requests : pc[r] = "sibling" /\ join[r].sibling = "pending"}
             f == [r \in R |-> scope[r]]
  <2>1. ASSUME NEW r \in R
        PROVE  r \in Requests /\ scope[r] \in Waiting /\ pending[scope[r]] = r
    <3>1. Leads(r) /\ scope[r] \in Scopes
      BY DEF IndInv, Shape, Roles
    <3>2. join[r].state = "open"
      BY <3>1 DEF IndInv, Shape, Entries
    <3>3. pending[scope[r]] = r
      BY <3>1, <3>2 DEF IndInv, Shape, InMap
    <3> QED BY <3>1, <3>2, <3>3 DEF Waiting, Unpaired
  <2>2. f \in Injection(R, Waiting)
    BY <2>1 DEF Injection, IsInjective
  <2>3. IsFiniteSet(R) /\ Cardinality(R) =< Cardinality(Waiting)
    <3> HIDE DEF f, R
    <3> QED BY <2>2, WaitingFinite, FS_Injection
  <2>4. Cardinality(R) \in Nat /\ Cardinality(Waiting) \in Nat
    BY <2>3, WaitingFinite, FS_CardinalityType
  <2> QED BY <2>3, <2>4 DEF IndInv, Bounded, RendezvousBounded
<1> QED BY <1>1, Inductive, PTL

(***************************************************************************)
(* The deployment: its inductive invariant.                                *)
(***************************************************************************)
\* The first n migrations, and how many are in effect.
First(n) == {Files[i] : i \in 1..n}
Done == Len(schema.log)

\* What is in effect is the first migrations, and what is recorded is those,
\* under one name each.
Tables ==
  /\ schema \in [table : BOOLEAN, recorded : SUBSET (OldLog \cup Range(Files)),
                 log : Seq(Range(Files))]
  /\ Done =< Len(Files) /\ \A i \in 1..Done : schema.log[i] = Files[i]
  /\ Renamed(schema.recorded) = First(Done)
  /\ IsFiniteSet(schema.recorded) /\ Cardinality(schema.recorded) = Done
  /\ ~schema.table => schema.recorded = {}

\* What a script has left to do fits its place: once it has listed the files these
\* are the last ones, and one that runs a file runs the next.
ScriptPlaces == {"check", "create", "rename", "list", "apply", "sql", "upsert", "boot",
                 "serving", "ended"}

Fits(p, place, places) ==
  /\ place \in {"rename", "list", "apply", "sql"} => schema.table
  /\ place \in {"list", "apply", "sql"} => schema.recorded \subseteq Range(Files)
  /\ place = "apply" => \E j \in 0..Done : places = (j + 1)..Len(Files)
  /\ place = "sql" => places = (Done + 1)..Len(Files) /\ Done < Len(Files)
  /\ place = "upsert" => places \subseteq DOMAIN Lineup[p]

Scripts ==
  /\ process \in [Process -> [at : ScriptPlaces, todo : SUBSET Nat]]
  /\ \A p \in Process : Fits(p, process[p].at, process[p].todo)
  /\ \A p, q \in Process : At(p, "sql") /\ At(q, "sql") => p = q

\* The roster is of models, and the default, once resolved, the one named.
Roster ==
  /\ IsFiniteSet(enabled) /\ enabled \subseteq Models \ {NoModel}
  /\ default = NoModel \/ (default \in Models \ {NoModel} /\ Named(default))

\* What the handler has understood of a request holds while it looks and draws.
Understood ==
  /\ request.body \in RequestBodies /\ request.header \in BOOLEAN
  /\ request.plan \in {"single", "matchup", "shadow"}
  /\ request.body.prompt # Absent => request.prompt = request.body.prompt
  /\ request.body.prompt = Absent => NewestUserText(request.body.messages, request.prompt)
  /\ config.trigger = "manual" /\ ~request.header /\ ~request.body.props.arena
       => request.plan = "single"

\* A request the handler has taken up.
HandledRequests ==
  [at : {"look up", "draw", "answered"}, plan : {"none", "single", "matchup", "shadow"},
   code : {"ok", "invalid_request", "join_requires_session", "default_model_missing", "error"},
   A : Models \cup {NoModel}, B : Models \cup {NoModel}, incumbent : Models \cup {NoModel},
   body : RequestBodies, header : BOOLEAN, prompt : STRING \cup {Absent}]

\* Where the handler is, it knows what it needs to answer as promised.
Handled ==
  /\ request \in {NoRequest} \cup HandledRequests
  /\ request.at \in {"look up", "draw"} => Understood /\ request.code = "ok"
  /\ request.at = "look up" => request.plan \in {"single", "shadow"}
  /\ request.at = "draw" => /\ request.plan \in {"matchup", "shadow"}
                            /\ request.plan = "shadow" =>
                                 request.incumbent # NoModel /\ Named(request.incumbent)
  /\ ServedAsPromised

DeployInv == Tables /\ Scripts /\ Roster /\ Handled

(***************************************************************************)
(* Files and places.                                                       *)
(***************************************************************************)
\* The first n files are n files, and one more comes after them.
LEMMA FirstFiles ==
  ASSUME NEW n \in Nat, n =< Len(Files)
  PROVE  /\ IsFiniteSet(First(n)) /\ Cardinality(First(n)) = n
         /\ First(n) \subseteq Range(Files)
         /\ n < Len(Files) => /\ Files[n + 1] \in Range(Files) \ First(n)
                              /\ First(n + 1) = First(n) \cup {Files[n + 1]}
<1>1. /\ Len(Files) \in Nat /\ DOMAIN Files = 1..Len(Files)
      /\ \A i, j \in 1..Len(Files) : Files[i] = Files[j] => i = j
  BY FilesInOrder DEF IsInjective
<1>2. /\ First(n) \subseteq Range(Files)
      /\ n < Len(Files) => /\ Files[n + 1] \in Range(Files) \ First(n)
                           /\ First(n + 1) = First(n) \cup {Files[n + 1]}
  <2>1. First(n) \subseteq Range(Files)
    BY <1>1 DEF First, Range
  <2>2. CASE n < Len(Files)
    <3>1. Files[n + 1] \in Range(Files) \ First(n)
      BY <1>1, <2>2 DEF First, Range
    <3>2. 1..(n + 1) = 1..n \cup {n + 1}
      OBVIOUS
    <3>3. First(n + 1) = First(n) \cup {Files[n + 1]}
      BY <3>2 DEF First
    <3> QED BY <2>1, <3>1, <3>3
  <2> QED BY <2>1, <2>2
<1>3. IsFiniteSet(First(n)) /\ Cardinality(First(n)) = n
  <2> DEFINE f == [i \in 1..n |-> Files[i]]
  <2>1. IsFiniteSet(1..n) /\ Cardinality(1..n) = n
    BY FS_Interval
  <2>2. f \in Bijection(1..n, First(n))
    BY <1>1 DEF Bijection, Injection, Surjection, IsInjective, First
  <2>3. ExistsBijection(1..n, First(n))
    BY <2>2 DEF ExistsBijection
  <2> QED BY <2>1, <2>3, FS_Bijection
<1> QED BY <1>2, <1>3

\* The current names are renamed no further.
LEMMA RenamedFiles == ASSUME NEW S, S \subseteq Range(Files) PROVE Renamed(S) = S
<1>1. \A f \in S : Current(f) = f
  BY RenamesAreOld DEF Current
<1> QED BY <1>1 DEF Renamed

\* The foremost of some places is one of them, and the least.
LEMMA ForemostPlace ==
  ASSUME NEW S, S \subseteq Nat, S # {}
  PROVE  Foremost(S) \in S /\ \A y \in S : Foremost(S) =< y
<1> DEFINE R == OpToRel(<, Nat)
<1>1. \A x, y \in Nat : y < x => <<y, x>> \in R
  BY DEF OpToRel
<1>2. IsWellFoundedOn(R, Nat)
  BY NatLessThanWellFounded
<1> HIDE DEF R
<1>3. \E x \in S : \A y \in S : ~(<<y, x>> \in R)
  BY <1>2, WFMin
<1>4. \E x \in S : \A y \in S : ~(y < x)
  BY <1>1, <1>3
<1>5. \E x \in S : \A y \in S : x =< y
  BY <1>4
<1> QED BY <1>5 DEF Foremost, Min

\* Of the places from k on, the foremost is k.
LEMMA NextPlace ==
  ASSUME NEW k \in Nat, NEW n \in Nat, k =< n
  PROVE  Foremost(k..n) = k /\ After(k..n) = (k + 1)..n
<1>1. Foremost(k..n) \in k..n /\ \A y \in k..n : Foremost(k..n) =< y
  BY ForemostPlace
<1>2. Foremost(k..n) = k
  BY <1>1
<1> QED BY <1>2 DEF After

(***************************************************************************)
(* The scripts.                                                            *)
(***************************************************************************)
LEMMA ScriptsInit == DeployInit => Tables /\ Scripts
<1> SUFFICES ASSUME DeployInit PROVE Tables /\ Scripts
  OBVIOUS
<1>1. Files \in Seq(Range(Files)) /\ Len(Files) \in Nat
  BY FilesInOrder
<1>2. Scripts
  <2>1. \A p \in Process : process[p].at \in {"check", "ended"}
    BY DEF DeployInit
  <2>2. process \in [Process -> [at : ScriptPlaces, todo : SUBSET Nat]]
    <3>1. \A p \in Process : [at |-> IF p = "app" THEN "check" ELSE "ended", todo |-> {}]
                              \in [at : ScriptPlaces, todo : SUBSET Nat]
      BY DEF ScriptPlaces
    <3> QED BY <3>1 DEF DeployInit
  <2> QED BY <2>1, <2>2 DEF Scripts, Fits, At
<1>3. CASE schema = [table |-> FALSE, recorded |-> {}, log |-> <<>>]
  <2>1. Renamed({}) = First(0)
    BY DEF Renamed, First
  <2> QED BY <1>1, <1>2, <1>3, <2>1, FS_EmptySet DEF Tables, Done
<1>4. CASE schema = [table |-> TRUE, recorded |-> OldLog,
                     log |-> SubSeq(Files, 1, Cardinality(OldLog))]
  <2> DEFINE n == Cardinality(OldLog)
  <2>1. n \in Nat /\ n =< Len(Files) /\ IsFiniteSet(OldLog) /\ Renamed(OldLog) = First(n)
    BY AnOlderRelease, FS_CardinalityType DEF Renamed, First
  <2>2. /\ schema.log \in Seq(Range(Files)) /\ Len(schema.log) = n
        /\ \A i \in 1..n : schema.log[i] = Files[i]
    BY <1>1, <1>4, <2>1
  <2> QED BY <1>1, <1>2, <1>4, <2>1, <2>2 DEF Tables, Done
<1> QED BY <1>2, <1>3, <1>4 DEF DeployInit

\* Where a script goes in one step, when its place and what it has left fit the
\* tables.
LEMMA Moved ==
  ASSUME Scripts, NEW p \in Process, NEW place \in ScriptPlaces, NEW places \in SUBSET Nat,
         MoveTo(p, place, places)
  PROVE  /\ process' \in [Process -> [at : ScriptPlaces, todo : SUBSET Nat]]
         /\ process'[p] = [at |-> place, todo |-> places]
         /\ \A q \in Process \ {p} : process'[q] = process[q]
<1>1. [at |-> place, todo |-> places] \in [at : ScriptPlaces, todo : SUBSET Nat]
  OBVIOUS
<1> QED BY <1>1 DEF MoveTo, Scripts

\* A script that goes to a place it fits keeps the scripts in order: it may come to
\* run a file only when no other does.
LEMMA Moves ==
  ASSUME Scripts, NEW p \in Process, NEW place \in ScriptPlaces, NEW places \in SUBSET Nat,
         UNCHANGED schema, MoveTo(p, place, places), Fits(p, place, places),
         place = "sql" => \A q \in Process : ~At(q, "sql")
  PROVE  Scripts'
<1>1. /\ process' \in [Process -> [at : ScriptPlaces, todo : SUBSET Nat]]
      /\ process'[p] = [at |-> place, todo |-> places]
      /\ \A q \in Process \ {p} : process'[q] = process[q]
  BY Moved
<1>2. \A q \in Process : \A a, b : Fits(q, a, b)' <=> Fits(q, a, b)
  BY DEF Fits, Done
<1>3. \A q \in Process : Fits(q, process'[q].at, process'[q].todo)
  BY <1>1 DEF Scripts
<1>4. \A q, r \in Process : At(q, "sql")' /\ At(r, "sql")' => q = r
  BY <1>1 DEF Scripts, At
<1> QED BY <1>1, <1>2, <1>3, <1>4 DEF Scripts

\* Anything fits where no migration is being looked at.
LEMMA Leaves ==
  ASSUME Scripts, NEW p \in Process, NEW place \in {"check", "create", "ended", "boot", "serving"},
         UNCHANGED schema, MoveTo(p, place, {})
  PROVE  Scripts'
<1>1. Fits(p, place, {})
  BY DEF Fits
<1>2. place \in ScriptPlaces /\ {} \in SUBSET Nat /\ place # "sql"
  BY DEF ScriptPlaces
<1> QED BY <1>1, <1>2, Moves

\* Every step of the migrations keeps the first files in effect and recorded.
LEMMA ScriptsMigrate ==
  ASSUME Tables, Scripts, NEW p \in Process, Migrates(p) PROVE Tables' /\ Scripts'
<1>1. /\ Len(Files) \in Nat /\ DOMAIN Files = 1..Len(Files) /\ Done \in Nat
      /\ process[p].todo \in SUBSET Nat /\ Fits(p, process[p].at, process[p].todo)
  BY FilesInOrder DEF Tables, Scripts, Done
<1>2. ASSUME UNCHANGED schema PROVE Tables'
  BY <1>2 DEF Tables, Done
<1>3. CASE CheckTable(p)
  <2>1. UNCHANGED schema
    BY <1>3 DEF CheckTable
  <2>2. CASE schema.table
    <3>1. MoveTo(p, "rename", {})
      BY <1>3, <2>2 DEF CheckTable
    <3>2. Fits(p, "rename", {})
      BY <2>2 DEF Fits
    <3>3. "rename" \in ScriptPlaces /\ {} \in SUBSET Nat
      BY DEF ScriptPlaces
    <3> QED BY <1>2, <2>1, <3>1, <3>2, <3>3, Moves
  <2>3. CASE ~schema.table
    <3>1. MoveTo(p, "create", {})
      BY <1>3, <2>3 DEF CheckTable
    <3> QED BY <1>2, <2>1, <3>1, Leaves
  <2> QED BY <2>2, <2>3
<1>4. CASE CreateTable(p)
  <2>1. CASE schema.table
    <3>1. UNCHANGED schema /\ MoveTo(p, "ended", {})
      BY <1>4, <2>1 DEF CreateTable
    <3> QED BY <1>2, <3>1, Leaves
  <2>2. CASE ~schema.table
    <3>1. schema' = [schema EXCEPT !.table = TRUE] /\ MoveTo(p, "list", {})
      BY <1>4, <2>2 DEF CreateTable
    <3>2. /\ schema'.table = TRUE /\ schema'.log = schema.log
          /\ schema.recorded = {} /\ schema'.recorded = {} /\ Done' = Done
          /\ schema' \in [table : BOOLEAN, recorded : SUBSET (OldLog \cup Range(Files)),
                          log : Seq(Range(Files))]
      BY <2>2, <3>1 DEF Tables, Done
    <3>3. Tables'
      BY <3>2 DEF Tables
    <3>4. /\ process' \in [Process -> [at : ScriptPlaces, todo : SUBSET Nat]]
          /\ process'[p] = [at |-> "list", todo |-> {}]
          /\ \A q \in Process \ {p} : process'[q] = process[q]
      <4>1. "list" \in ScriptPlaces /\ {} \in SUBSET Nat
        BY DEF ScriptPlaces
      <4> QED BY <3>1, <4>1, Moved
    <3>5. \A q \in Process : Fits(q, process[q].at, process[q].todo) => process[q].at # "sql"
      BY <2>2 DEF Fits
    <3>6. ASSUME NEW q \in Process PROVE Fits(q, process[q].at, process[q].todo)'
      <4>1. CASE q = p
        BY <3>2, <3>4, <4>1 DEF Fits
      <4>2. CASE q # p
        <5>1. Fits(q, process[q].at, process[q].todo) /\ process'[q] = process[q]
          BY <3>4, <4>2 DEF Scripts
        <5>2. process[q].at \notin {"rename", "list", "apply", "sql"}
          BY <2>2, <5>1 DEF Fits
        <5> QED BY <5>1, <5>2 DEF Fits
      <4> QED BY <4>1, <4>2
    <3>7. \A q \in Process : ~At(q, "sql")'
      BY <3>4, <3>5 DEF Scripts, At
    <3> QED BY <3>3, <3>4, <3>6, <3>7 DEF Scripts
  <2> QED BY <2>1, <2>2
<1>5. CASE RenameOld(p)
  <2>1. /\ schema' = [schema EXCEPT !.recorded = Renamed(schema.recorded)]
        /\ MoveTo(p, "list", {}) /\ process[p].at = "rename"
    BY <1>5 DEF RenameOld, At
  <2>2. /\ schema'.recorded = First(Done) /\ schema'.table = schema.table
        /\ schema'.log = schema.log /\ Done' = Done
    BY <2>1 DEF Tables, Done
  <2>3. /\ First(Done) \subseteq Range(Files) /\ Renamed(First(Done)) = First(Done)
        /\ IsFiniteSet(First(Done)) /\ Cardinality(First(Done)) = Done
    BY <1>1, FirstFiles, RenamedFiles DEF Tables
  <2>4. schema' \in [table : BOOLEAN, recorded : SUBSET (OldLog \cup Range(Files)),
                     log : Seq(Range(Files))]
    BY <2>1, <2>2, <2>3 DEF Tables
  <2>5. schema.table
    BY <1>1, <2>1 DEF Fits
  <2>6. Tables'
    BY <2>2, <2>3, <2>4, <2>5 DEF Tables
  <2>7. /\ process' \in [Process -> [at : ScriptPlaces, todo : SUBSET Nat]]
        /\ process'[p] = [at |-> "list", todo |-> {}]
        /\ \A q \in Process \ {p} : process'[q] = process[q]
    <3>1. "list" \in ScriptPlaces /\ {} \in SUBSET Nat
      BY DEF ScriptPlaces
    <3> QED BY <2>1, <3>1, Moved
  <2>8. ASSUME NEW q \in Process PROVE Fits(q, process[q].at, process[q].todo)'
    <3>1. CASE q = p
      BY <2>2, <2>3, <2>5, <2>7, <3>1 DEF Fits
    <3>2. CASE q # p
      <4>1. Fits(q, process[q].at, process[q].todo) /\ process'[q] = process[q]
        BY <2>7, <3>2 DEF Scripts
      <4> QED BY <2>2, <2>3, <2>5, <4>1 DEF Fits
    <3> QED BY <3>1, <3>2
  <2>9. \A q, r \in Process : At(q, "sql")' /\ At(r, "sql")' => q = r
    BY <2>7 DEF Scripts, At
  <2> QED BY <2>6, <2>7, <2>8, <2>9 DEF Scripts
<1>6. CASE ListApplied(p)
  <2>1. /\ UNCHANGED schema /\ process[p].at = "list"
        /\ MoveTo(p, "apply", Outstanding(schema.recorded))
    BY <1>6 DEF ListApplied, At
  <2>2. schema.table /\ schema.recorded \subseteq Range(Files)
    BY <1>1, <2>1 DEF Fits
  <2>3. schema.recorded = First(Done)
    BY <2>2, RenamedFiles DEF Tables
  <2>4. Outstanding(schema.recorded) = (Done + 1)..Len(Files)
    <3>1. \A i \in 1..Len(Files) : Files[i] \in First(Done) <=> i =< Done
      <4>1. ASSUME NEW i \in 1..Len(Files), i =< Done PROVE Files[i] \in First(Done)
        <5>1. i \in 1..Done
          BY <1>1, <4>1
        <5> QED BY <5>1 DEF First
      <4>2. ASSUME NEW i \in 1..Len(Files), Files[i] \in First(Done) PROVE i =< Done
        <5>1. PICK k \in 1..Done : Files[i] = Files[k]
          BY <4>2 DEF First
        <5>2. k \in 1..Len(Files)
          BY <1>1 DEF Tables
        <5>3. i = k
          BY <1>1, <5>1, <5>2, FilesInOrder DEF IsInjective
        <5> QED BY <1>1, <5>3
      <4> QED BY <4>1, <4>2
    <3> QED BY <1>1, <2>3, <3>1 DEF Outstanding, Tables
  <2>5. Outstanding(schema.recorded) \in SUBSET Nat
    BY <1>1, <2>4
  <2>6. Done \in 0..Done
    BY <1>1
  <2>7. Fits(p, "apply", Outstanding(schema.recorded))
    BY <2>2, <2>4, <2>6 DEF Fits
  <2> QED BY <1>2, <2>1, <2>5, <2>7, Moves DEF ScriptPlaces
<1>7. CASE BeginFile(p)
  <2>1. /\ UNCHANGED schema /\ process[p].at = "apply" /\ process[p].todo # {}
        /\ \A q \in Process : At(q, "sql") => File(q) # File(p)
    BY <1>7 DEF BeginFile, At
  <2>2. PICK j \in 0..Done : process[p].todo = (j + 1)..Len(Files)
    BY <1>1, <2>1 DEF Fits
  <2>3. j < Len(Files) /\ File(p) = Files[j + 1]
    <3>1. j + 1 =< Len(Files) /\ j + 1 \in Nat
      BY <1>1, <2>1, <2>2
    <3>2. Foremost((j + 1)..Len(Files)) = j + 1
      BY <1>1, <3>1, NextPlace
    <3> QED BY <1>1, <2>2, <3>1, <3>2 DEF File
  <2>4. CASE File(p) \in Range(schema.log) \cup schema.recorded
    <3>1. MoveTo(p, "ended", {})
      BY <1>7, <2>4 DEF BeginFile
    <3> QED BY <1>2, <2>1, <3>1, Leaves
  <2>5. CASE File(p) \notin Range(schema.log) \cup schema.recorded
    <3>1. j = Done
      <4>1. SUFFICES ASSUME j < Done PROVE FALSE
        BY <1>1
      <4>2. schema.log[j + 1] = Files[j + 1] /\ j + 1 \in DOMAIN schema.log
        BY <1>1, <4>1 DEF Tables, Done
      <4> QED BY <2>3, <2>5, <4>2 DEF Range
    <3>2. \A q \in Process : ~At(q, "sql")
      <4>1. SUFFICES ASSUME NEW q \in Process, At(q, "sql") PROVE FALSE
        OBVIOUS
      <4>2. process[q].todo = (Done + 1)..Len(Files)
        BY <4>1 DEF Scripts, Fits, At
      <4>3. File(q) = File(p)
        BY <2>2, <3>1, <4>2 DEF File
      <4> QED BY <2>1, <4>1, <4>3
    <3>3. Fits(p, "sql", process[p].todo)
      BY <1>1, <2>1, <2>2, <2>3, <3>1 DEF Fits
    <3>4. MoveTo(p, "sql", process[p].todo)
      BY <1>7, <2>5 DEF BeginFile
    <3> QED BY <1>1, <1>2, <2>1, <3>2, <3>3, <3>4, Moves DEF ScriptPlaces
  <2> QED BY <2>4, <2>5
<1>8. CASE CommitFile(p)
  <2>1. /\ process[p].at = "sql" /\ MoveTo(p, "apply", After(process[p].todo))
        /\ schema' = [schema EXCEPT !.recorded = @ \cup {File(p)}, !.log = Append(@, File(p))]
    BY <1>8 DEF CommitFile, At
  <2>2. /\ process[p].todo = (Done + 1)..Len(Files) /\ Done < Len(Files)
        /\ schema.table /\ schema.recorded \subseteq Range(Files)
    BY <1>1, <2>1 DEF Fits
  <2>3. \A q \in Process : At(q, "sql") => q = p
    BY <2>1 DEF Scripts, At
  <2>4. File(p) = Files[Done + 1] /\ After(process[p].todo) = (Done + 2)..Len(Files)
    <3>1. Done + 1 \in Nat /\ Done + 1 =< Len(Files) /\ (Done + 1) + 1 = Done + 2
      BY <1>1, <2>2
    <3>2. /\ Foremost((Done + 1)..Len(Files)) = Done + 1
          /\ After((Done + 1)..Len(Files)) = (Done + 2)..Len(Files)
      BY <1>1, <3>1, NextPlace
    <3> QED BY <2>2, <3>2 DEF File
  <2>5. schema.recorded = First(Done)
    BY <2>2, RenamedFiles DEF Tables
  <2>6. /\ Files[Done + 1] \in Range(Files) \ First(Done)
        /\ First(Done + 1) = First(Done) \cup {Files[Done + 1]}
    BY <1>1, <2>2, FirstFiles
  <2>7. /\ schema'.recorded = First(Done + 1) /\ schema'.table = schema.table
        /\ schema'.log = Append(schema.log, Files[Done + 1])
        /\ schema' \in [table : BOOLEAN, recorded : SUBSET (OldLog \cup Range(Files)),
                        log : Seq(Range(Files))]
    <3>1. schema \in [table : BOOLEAN, recorded : SUBSET (OldLog \cup Range(Files)),
                      log : Seq(Range(Files))]
      BY DEF Tables
    <3>2. First(Done + 1) \subseteq Range(Files)
      BY <2>2, <2>5, <2>6
    <3>3. Append(schema.log, Files[Done + 1]) \in Seq(Range(Files))
      BY <2>6, <3>1
    <3>4. schema' = [schema EXCEPT !.recorded = First(Done + 1),
                                   !.log = Append(schema.log, Files[Done + 1])]
      BY <2>1, <2>4, <2>5, <2>6
    <3> QED BY <3>1, <3>2, <3>3, <3>4
  <2>8. Done' = Done + 1 /\ \A i \in 1..(Done + 1) : schema'.log[i] = Files[i]
    BY <1>1, <2>7 DEF Tables, Done
  <2>9. /\ First(Done + 1) \subseteq Range(Files) /\ Renamed(First(Done + 1)) = First(Done + 1)
        /\ IsFiniteSet(First(Done + 1)) /\ Cardinality(First(Done + 1)) = Done + 1
    BY <1>1, <2>2, FirstFiles, RenamedFiles
  <2>10. Tables'
    <3>1. Done' =< Len(Files) /\ \A i \in 1..Done' : schema'.log[i] = Files[i]
      BY <1>1, <2>2, <2>8
    <3>2. Renamed(schema'.recorded) = First(Done')
      BY <2>7, <2>8, <2>9
    <3>3. IsFiniteSet(schema'.recorded) /\ Cardinality(schema'.recorded) = Done'
      BY <2>7, <2>8, <2>9
    <3>4. schema'.table
      BY <2>2, <2>7
    <3> QED BY <2>7, <3>1, <3>2, <3>3, <3>4 DEF Tables
  <2>11. (Done + 2)..Len(Files) \in SUBSET Nat /\ "apply" \in ScriptPlaces
    BY <1>1 DEF ScriptPlaces
  <2>12. /\ process' \in [Process -> [at : ScriptPlaces, todo : SUBSET Nat]]
         /\ process'[p] = [at |-> "apply", todo |-> (Done + 2)..Len(Files)]
         /\ \A q \in Process \ {p} : process'[q] = process[q]
    <3>1. MoveTo(p, "apply", (Done + 2)..Len(Files))
      BY <2>1, <2>4
    <3> QED BY <2>11, <3>1, Moved
  <2>13. \A q \in Process : Fits(q, process[q].at, process[q].todo)'
    <3>1. Done + 1 \in 0..(Done + 1) /\ (Done + 1) + 1 = Done + 2
      BY <1>1
    <3>2. Fits(p, process[p].at, process[p].todo)'
      BY <2>2, <2>7, <2>8, <2>9, <2>12, <3>1 DEF Fits
    <3>3. ASSUME NEW q \in Process, q # p PROVE Fits(q, process[q].at, process[q].todo)'
      <4>1. Fits(q, process[q].at, process[q].todo) /\ process[q].at # "sql"
        BY <2>3, <3>3 DEF Scripts, At
      <4>2. \A j \in 0..Done : j \in 0..(Done + 1)
        BY <1>1
      <4> QED BY <2>2, <2>7, <2>8, <2>9, <2>12, <3>3, <4>1, <4>2 DEF Fits
    <3> QED BY <3>2, <3>3
  <2>14. \A q, r \in Process : At(q, "sql")' /\ At(r, "sql")' => q = r
    BY <2>3, <2>12 DEF At
  <2> QED BY <2>10, <2>12, <2>13, <2>14 DEF Scripts
<1> QED BY <1>3, <1>4, <1>5, <1>6, <1>7, <1>8 DEF Migrates

\* The seeds, the server and the operator leave what was migrated alone.
LEMMA ScriptsElse ==
  ASSUME Tables, Scripts,
         \/ \E p \in Process : Seeds(p) \/ Die(p)
         \/ Boot \/ Restart \/ RunByHand \/ Serves \/ UNCHANGED deployed
  PROVE  Tables' /\ Scripts'
<1>1. UNCHANGED schema
  <2>1. ASSUME NEW p \in Process, Seeds(p) \/ Die(p) PROVE UNCHANGED schema
    BY <2>1 DEF Seeds, DisableAll, Upsert, Seeded, Die
  <2>2. CASE Boot \/ Restart \/ RunByHand \/ LookUp \/ UNCHANGED deployed
    BY <2>2 DEF Boot, Restart, RunByHand, LookUp, deployed
  <2>3. CASE Draw
    BY <2>3 DEF Draw
  <2>4. ASSUME NEW body, NEW protocol, NEW header, NEW hit, Receive(body, protocol, header, hit)
        PROVE  UNCHANGED schema
    BY <2>4 DEF Receive
  <2> QED BY <2>1, <2>2, <2>3, <2>4 DEF Serves
<1>2. Tables'
  BY <1>1 DEF Tables, Done
<1>3. ASSUME NEW p \in Process, Seeds(p) PROVE Scripts'
  <2>1. CASE DisableAll(p)
    <3>1. DOMAIN Lineup[p] \in SUBSET Nat
      BY LineupsAreModels DEF Process
    <3>2. MoveTo(p, "upsert", DOMAIN Lineup[p])
      BY <2>1 DEF DisableAll
    <3>3. Fits(p, "upsert", DOMAIN Lineup[p]) /\ "upsert" \in ScriptPlaces
      BY DEF Fits, ScriptPlaces
    <3> QED BY <1>1, <3>1, <3>2, <3>3, Moves
  <2>2. CASE Upsert(p)
    <3>1. process[p].todo \in SUBSET Nat /\ process[p].todo \subseteq DOMAIN Lineup[p]
      BY <2>2 DEF Upsert, Scripts, Fits, At
    <3>2. After(process[p].todo) \in SUBSET Nat /\ After(process[p].todo) \subseteq DOMAIN Lineup[p]
      BY <3>1 DEF After
    <3>3. MoveTo(p, "upsert", After(process[p].todo))
      BY <2>2 DEF Upsert
    <3>4. Fits(p, "upsert", After(process[p].todo)) /\ "upsert" \in ScriptPlaces
      BY <3>2 DEF Fits, ScriptPlaces
    <3> QED BY <1>1, <3>2, <3>3, <3>4, Moves DEF ScriptPlaces
  <2>3. CASE Seeded(p)
    <3>1. MoveTo(p, "boot", {}) \/ MoveTo(p, "ended", {})
      BY <2>3 DEF Seeded
    <3> QED BY <1>1, <3>1, Leaves
  <2> QED BY <1>3, <2>1, <2>2, <2>3 DEF Seeds
<1>4. ASSUME NEW p \in Process, Die(p) PROVE Scripts'
  <2>1. MoveTo(p, "ended", {})
    BY <1>4 DEF Die
  <2> QED BY <1>1, <2>1, Leaves
<1>5. CASE Boot \/ Restart \/ RunByHand
  <2>1. "app" \in Process /\ "operator" \in Process
    BY DEF Process
  <2>2. PICK p \in Process, place \in {"serving", "ended", "check"} : MoveTo(p, place, {})
    BY <1>5, <2>1 DEF Boot, Restart, RunByHand
  <2>3. Scripts'
    BY <1>1, <2>2, Leaves
  <2> QED BY <1>2, <2>3
<1>6. CASE Serves \/ UNCHANGED deployed
  <2>1. UNCHANGED process
    <3>1. CASE LookUp \/ UNCHANGED deployed
      BY <3>1 DEF LookUp, deployed
    <3>2. CASE Draw
      BY <3>2 DEF Draw
    <3>3. ASSUME NEW body, NEW protocol, NEW header, NEW hit, Receive(body, protocol, header, hit)
          PROVE  UNCHANGED process
      BY <3>3 DEF Receive
    <3> QED BY <1>6, <3>1, <3>2, <3>3 DEF Serves
  <2>2. \A q \in Process : Fits(q, process[q].at, process[q].todo)'
    BY <1>1, <2>1 DEF Scripts, Fits, Done
  <2>3. Scripts'
    BY <2>1, <2>2 DEF Scripts, At
  <2> QED BY <1>2, <2>3
<1> QED BY <1>2, <1>3, <1>4, <1>5, <1>6

(***************************************************************************)
(* The roster.                                                             *)
(***************************************************************************)
\* The model found is one of those given and named by the needle, or none.
LEMMA DefaultFound ==
  ASSUME NEW needle, NEW models
  PROVE  \/ FindDefaultModel(needle, models) = NoModel
         \/ \E m \in models : /\ FindDefaultModel(needle, models) = m
                              /\ needle \in {m.id, m.key, m.slug, m.name}
<1> DEFINE Matches(kind) == {m \in models : m[kind] = needle}
           Else(found, other) == IF found # {} THEN found ELSE other
           found == Else(Matches("id"),
                         Else(Matches("key"), Else(Matches("slug"), Matches("name"))))
<1>1. \A m \in found : m \in models /\ needle \in {m.id, m.key, m.slug, m.name}
  OBVIOUS
<1>2. Cardinality({}) = 0
  BY FS_EmptySet
<1>3. FindDefaultModel(needle, models) =
        IF Cardinality(found) = 1 THEN CHOOSE m \in found : TRUE ELSE NoModel
  BY DEF FindDefaultModel
<1> HIDE DEF found
<1> QED BY <1>1, <1>2, <1>3

\* No model is enabled and no default resolved before the first boot.
LEMMA RosterInit == DeployInit => Roster
BY FS_EmptySet DEF DeployInit, Roster

\* Seeds enable models of their lineup, and a boot resolves the default among the
\* enabled ones, by the name the environment gives.
LEMMA RosterStep ==
  ASSUME Tables, Scripts, Roster, [DeployNext]_deployed PROVE Roster'
<1>1. ASSUME UNCHANGED <<config, enabled, default>> PROVE Roster'
  BY <1>1 DEF Roster, Named
<1>2. ASSUME NEW p \in Process, Migrates(p) PROVE Roster'
  <2>1. UNCHANGED <<config, enabled, default>>
    BY <1>2 DEF Migrates, CheckTable, CreateTable, RenameOld, ListApplied, BeginFile, CommitFile,
                serverOnly
  <2> QED BY <1>1, <2>1
<1>3. ASSUME NEW p \in Process, Seeds(p) PROVE Roster'
  <2>1. CASE DisableAll(p)
    <3>1. enabled' = {} /\ UNCHANGED <<config, default>>
      BY <2>1 DEF DisableAll, serverOnly
    <3> QED BY <3>1, FS_EmptySet DEF Roster, Named
  <2>2. CASE Upsert(p)
    <3> DEFINE m == Lineup[p][Foremost(process[p].todo)]
    <3>1. enabled' = enabled \cup {m} /\ UNCHANGED <<config, default>>
      BY <2>2 DEF Upsert, serverOnly
    <3>2. /\ process[p].todo \subseteq Nat /\ process[p].todo # {}
          /\ process[p].todo \subseteq DOMAIN Lineup[p]
      BY <2>2 DEF Upsert, Scripts, Fits, At
    <3>3. Foremost(process[p].todo) \in DOMAIN Lineup[p]
      BY <3>2, ForemostPlace
    <3>4. m \in Models \ {NoModel}
      BY <3>3, LineupsAreModels DEF Process
    <3>5. IsFiniteSet(enabled \cup {m})
      BY FS_AddElement DEF Roster
    <3> HIDE DEF m
    <3> QED BY <3>1, <3>4, <3>5 DEF Roster, Named
  <2>3. CASE Seeded(p)
    BY <1>1, <2>3 DEF Seeded, serverOnly
  <2> QED BY <1>3, <2>1, <2>2, <2>3 DEF Seeds
<1>4. ASSUME NEW p \in Process, Die(p) PROVE Roster'
  <2>1. UNCHANGED <<config, enabled>> /\ default' \in {default, NoModel}
    BY <1>4 DEF Die, serverOnly
  <2> QED BY <2>1 DEF Roster, Named
<1>5. CASE Boot
  <2>1. UNCHANGED <<config, enabled>> /\ default' \in {default, Resolved(enabled)}
    BY <1>5 DEF Boot
  <2>2. Resolved(enabled) = NoModel \/ (Resolved(enabled) \in enabled /\ Named(Resolved(enabled)))
    BY DefaultFound DEF Resolved, Named
  <2> QED BY <2>1, <2>2 DEF Roster, Named
<1>6. CASE Restart \/ RunByHand \/ LookUp \/ UNCHANGED deployed
  BY <1>1, <1>6 DEF Restart, RunByHand, LookUp, deployed, serverOnly
<1>7. CASE Draw
  BY <1>1, <1>7 DEF Draw
<1>8. ASSUME NEW body, NEW protocol, NEW header, NEW hit, Receive(body, protocol, header, hit)
      PROVE  Roster'
  BY <1>1, <1>8 DEF Receive
<1> QED BY <1>2, <1>3, <1>4, <1>5, <1>6, <1>7, <1>8 DEF DeployNext, Serves

(***************************************************************************)
(* Requests.                                                               *)
(***************************************************************************)
\* Some of n places have a last one.
LEMMA LastPlace ==
  ASSUME NEW n \in Nat, NEW S, S \subseteq 1..n, S # {} PROVE \E i \in S : \A j \in S : j =< i
<1> DEFINE T == {n - i : i \in S}
<1>1. T \subseteq Nat /\ T # {}
  <2>1. \A i \in S : n - i \in Nat
    OBVIOUS
  <2> QED BY <2>1
<1>2. \E k \in T : \A y \in T : k =< y
  BY <1>1, ForemostPlace
<1>3. PICK i \in S : \A j \in S : n - i =< n - j
  BY <1>2
<1> QED BY <1>3

\* The prompt of an envelope is the newest thing the user said, or absent.
LEMMA NewestFound ==
  ASSUME NEW messages \in Seq(Messages)
  PROVE  LET text == LastUserPrompt(messages)
         IN text \in STRING \cup {Absent} /\ (text = Absent \/ NewestUserText(messages, text))
<1> DEFINE said == {i \in DOMAIN messages : messages[i].role = "user"}
           last == CHOOSE i \in said : \A j \in said : j <= i
<1>1. CASE said = {} \/ messages[last].text = Blank
  <2>1. LastUserPrompt(messages) = Absent
    BY <1>1 DEF LastUserPrompt
  <2> QED BY <2>1
<1>2. CASE said # {} /\ messages[last].text # Blank
  <2>1. said \subseteq 1..Len(messages) /\ Len(messages) \in Nat
    OBVIOUS
  <2>2. last \in said /\ \A j \in said : j <= last
    <3>1. \E i \in said : \A j \in said : j <= i
      BY <1>2, <2>1, LastPlace
    <3> QED BY <3>1
  <2> HIDE DEF last
  <2>3. last \in DOMAIN messages /\ messages[last] \in Messages /\ messages[last].role = "user"
    BY <2>2
  <2>4. messages[last] = [role |-> "user", text |-> messages[last].text]
    BY <2>3 DEF Messages
  <2>5. \A j \in last + 1 .. Len(messages) : messages[j].role # "user"
    BY <2>1, <2>2
  <2>6. NewestUserText(messages, messages[last].text)
    BY <2>3, <2>4, <2>5 DEF NewestUserText
  <2>7. LastUserPrompt(messages) = messages[last].text
    BY <1>2 DEF LastUserPrompt, last
  <2> QED BY <2>3, <2>6, <2>7 DEF Messages
<1> QED BY <1>1, <1>2

\* A body is refused as invalid, or its prompt is the user's and it opts in only
\* where the client did.
LEMMA Parsed ==
  ASSUME NEW body \in RequestBodies, NEW protocol
  PROVE  LET parsed == ParseChatRequest(body, protocol)
         IN \/ parsed = Refused("invalid_request")
            \/ /\ parsed.ok /\ parsed.prompt \in STRING \cup {Absent}
               /\ body.prompt # Absent => parsed.prompt = body.prompt
               /\ body.prompt = Absent => NewestUserText(body.messages, parsed.prompt)
               /\ parsed.props.arena \in BOOLEAN /\ (parsed.props.arena => body.props.arena)
<1>1. /\ body.prompt \in STRING /\ body.messages \in Seq(Messages)
      /\ body.props \in [session : STRING, arena : BOOLEAN, joinKey : STRING]
  BY DEF RequestBodies
<1> DEFINE Ours(props) == props.arena \in BOOLEAN /\ (props.arena => body.props.arena)
<1>2. ASSUME NEW prompt, NEW props
      PROVE  \/ ToArenaChatRequest(prompt, props) = Refused("invalid_request")
             \/ /\ ToArenaChatRequest(prompt, props) = Accepted(prompt, props)
                /\ prompt # Absent
  BY DEF ToArenaChatRequest
<1>3. ASSUME NEW place PROVE Ours(PropsAt(place, body))
  BY <1>1 DEF PropsAt, NoProps
<1>4. Ours(OpenAiProps(body))
  <2> DEFINE ext == PropsAt("omni_arena", body)
  <2>1. OpenAiProps(body).arena = ext.arena
    <3>1. CASE ext = body.props
      BY <1>1, <3>1 DEF OpenAiProps
    <3>2. CASE ext = NoProps
      BY <3>2 DEF OpenAiProps, NoProps
    <3> QED BY <3>1, <3>2 DEF PropsAt
  <2>2. Ours(ext)
    BY <1>3
  <2> QED BY <2>1, <2>2
<1>5. ASSUME NEW prompt, NEW props
      PROVE  /\ Accepted(prompt, props).ok /\ Accepted(prompt, props).prompt = prompt
             /\ Accepted(prompt, props).props = props
  BY DEF Accepted
<1>6. CASE protocol \in DOMAIN PropsPlace /\ IsProtocolEnvelope(body)
  <2>1. body.prompt = Absent /\ ParseChatRequest(body, protocol) = ParseEnvelope(body, protocol)
    BY <1>6 DEF ParseChatRequest, IsProtocolEnvelope
  <2> DEFINE text == LastUserPrompt(body.messages)
             props == IF protocol = "openai" THEN OpenAiProps(body)
                      ELSE PropsAt(PropsPlace[protocol], body)
  <2>2. \/ ParseEnvelope(body, protocol) = Refused("invalid_request")
        \/ ParseEnvelope(body, protocol) = ToArenaChatRequest(text, props)
    BY DEF ParseEnvelope
  <2>3. text \in STRING \cup {Absent} /\ (text = Absent \/ NewestUserText(body.messages, text))
    BY <1>1, NewestFound
  <2>4. Ours(props)
    BY <1>3, <1>4
  <2> HIDE DEF text, props
  <2> QED BY <1>2, <1>5, <2>1, <2>2, <2>3, <2>4
<1>7. CASE ~(protocol \in DOMAIN PropsPlace /\ IsProtocolEnvelope(body))
  <2> DEFINE props == PropsAt("top", body)
  <2>1. ParseChatRequest(body, protocol) = ToArenaChatRequest(body.prompt, props)
    BY <1>7 DEF ParseChatRequest
  <2>2. Ours(props)
    BY <1>3
  <2> HIDE DEF props
  <2> QED BY <1>1, <1>2, <1>5, <2>1, <2>2
<1> QED BY <1>6, <1>7

(***************************************************************************)
(* Draws.                                                                  *)
(***************************************************************************)
\* Two enabled models, in either order.
Drawn(a) ==
  /\ a.modelA \in enabled /\ a.modelB \in enabled /\ a.modelA # a.modelB
  /\ a.slotA \in enabled /\ a.slotB \in enabled /\ a.slotA # a.slotB

\* Both seatings of two different enabled models.
LEMMA TwoDrawn ==
  ASSUME NEW m \in enabled, NEW n \in enabled, m # n PROVE \A a \in Assignments(m, n) : Drawn(a)
BY DEF Assignments, Drawn

\* Whichever matchmaker draws, two different models are drawn.
LEMMA PickedTwo ==
  ASSUME Roster, Cardinality(enabled) >= 2 PROVE \A a \in Picks : Drawn(a)
<1> DEFINE n == Cardinality(enabled)
           models == SetToSeq(enabled)
<1>1. n \in Nat /\ n >= 2
  BY FS_CardinalityType DEF Roster
<1>2. models \in [1..n -> enabled] /\ IsInjective(models)
  <2>1. ExistsBijection(1..n, enabled)
    BY FS_CardinalityType DEF Roster
  <2>2. \E f \in [1..n -> enabled] : IsInjective(f)
    BY <2>1 DEF ExistsBijection, Bijection, Injection
  <2> QED BY <2>2 DEF SetToSeq
<1>3. models \in Seq(enabled) /\ Len(models) = n /\ DOMAIN models = 1..n
  BY <1>1, <1>2
<1> HIDE DEF models, n
<1>4. ASSUME NEW i \in 1..n, NEW j \in 1..n, i # j
      PROVE  \A a \in Assignments(models[i], models[j]) : Drawn(a)
  <2>1. models[i] \in enabled /\ models[j] \in enabled /\ models[i] # models[j]
    BY <1>2, <1>4 DEF IsInjective
  <2> QED BY <2>1, TwoDrawn
<1>5. \A a \in RandomPick(models) : Drawn(a)
  <2>1. SUFFICES ASSUME NEW i \in 1..n, NEW j \in 1..n - 1,
                        NEW a \in Assignments(models[i], models[IF j >= i THEN j + 1 ELSE j])
                 PROVE  Drawn(a)
    BY <1>3 DEF RandomPick
  <2> DEFINE second == IF j >= i THEN j + 1 ELSE j
  <2>2. second \in 1..n /\ second # i
    BY <1>1
  <2> HIDE DEF second
  <2>3. a \in Assignments(models[i], models[second])
    BY <2>1 DEF second
  <2> QED BY <1>4, <2>2, <2>3
<1>6. \A a \in SmartPick(models, Games, Rated) : Drawn(a)
  <2>1. Pairs(models) \subseteq (1..n) \X (1..n) /\ \A p \in Pairs(models) : p[1] # p[2]
    BY <1>3 DEF Pairs
  <2>2. <<n - 1, n>> \in (1..n) \X (1..n) /\ n - 1 # n
    BY <1>1
  <2>3. \A score, threshold : Sampled(score, threshold) \subseteq DOMAIN score
    BY DEF Sampled
  <2>4. ASSUME NEW a \in SmartPick(models, Games, Rated)
        PROVE  \E p \in Pairs(models) \cup {<<n - 1, n>>} :
                 a \in Assignments(models[p[1]], models[p[2]])
    <3> DEFINE Width(m) == IF m.id \in Rated THEN 1 ELSE 2
               Score(b, c) == 1 + 4 \div (1 + Games[{b.id, c.id}]) + Width(b) + Width(c)
               score == [p \in Pairs(models) |-> Score(models[p[1]], models[p[2]])]
               drawn == UNION {Sampled(score, threshold) : threshold \in 0 .. SumFunction(score)}
    <3>1. SmartPick(models, Games, Rated) =
            UNION {Assignments(models[p[1]], models[p[2]]) :
                     p \in {<<Len(models) - 1, Len(models)>>} \cup drawn}
      BY DEF SmartPick
    <3>2. DOMAIN score = Pairs(models)
      OBVIOUS
    <3> HIDE DEF score
    <3>3. drawn \subseteq Pairs(models)
      BY <2>3, <3>2
    <3> HIDE DEF drawn
    <3> QED BY <1>3, <2>4, <3>1, <3>3
  <2>5. ASSUME NEW a \in SmartPick(models, Games, Rated) PROVE Drawn(a)
    <3>1. PICK p \in Pairs(models) \cup {<<n - 1, n>>} :
                 a \in Assignments(models[p[1]], models[p[2]])
      BY <2>4
    <3>2. p[1] \in 1..n /\ p[2] \in 1..n /\ p[1] # p[2]
      BY <1>1, <2>1, <2>2
    <3> QED BY <1>4, <3>1, <3>2
  <2> QED BY <2>5
<1> QED BY <1>5, <1>6 DEF Picks, models

(***************************************************************************)
(* The handler.                                                            *)
(***************************************************************************)
\* No request is being handled at first.
LEMMA HandledInit == DeployInit => Handled
BY DEF DeployInit, Handled, NoRequest, ServedAsPromised

\* An answer keeps the promise when its models do.
LEMMA AnswerPromised ==
  ASSUME request \in HandledRequests, Understood, UNCHANGED config,
         NEW code \in {"ok", "default_model_missing", "error"},
         NEW a \in Models \cup {NoModel}, NEW b \in Models \cup {NoModel},
         Answered(request, code, a, b),
         code = "ok" => /\ request.plan \in {"single", "shadow"} => Named(a)
                        /\ request.plan = "single" <=> b = NoModel
                        /\ a # b
  PROVE  Handled'
<1>1. /\ request' \in HandledRequests /\ request'.at = "answered" /\ request'.code = code
      /\ request'.A = a /\ request'.B = b /\ request'.plan = request.plan
      /\ request'.body = request.body /\ request'.header = request.header
      /\ request'.prompt = request.prompt
  BY DEF Answered, HandledRequests
<1>2. ServedAsPromised'
  BY <1>1 DEF ServedAsPromised, Understood, Named
<1> QED BY <1>1, <1>2 DEF Handled

\* A request is refused before it is planned, or planned as it asks to be.
LEMMA HandledReceive ==
  ASSUME NEW body \in Bodies, NEW protocol, NEW header \in BOOLEAN, NEW hit \in BOOLEAN,
         Receive(body, protocol, header, hit)
  PROVE  Handled'
<1> DEFINE parsed == ParseChatRequest(body, protocol)
           plan == ResolveArenaPlan(config, parsed.props.arena \/ header, hit)
           r == [at |-> "answered", code |-> "ok", plan |-> "none", A |-> NoModel, B |-> NoModel,
                 incumbent |-> NoModel, body |-> body, header |-> header, prompt |-> Absent]
<1>1. body \in RequestBodies
  BY BodiesAreBodies
<1>2. UNCHANGED config
  BY DEF Receive
<1>3. r \in HandledRequests
  BY <1>1 DEF HandledRequests
<1>4. \/ parsed = Refused("invalid_request")
      \/ /\ parsed.ok /\ parsed.prompt \in STRING \cup {Absent}
         /\ body.prompt # Absent => parsed.prompt = body.prompt
         /\ body.prompt = Absent => NewestUserText(body.messages, parsed.prompt)
         /\ parsed.props.arena \in BOOLEAN /\ (parsed.props.arena => body.props.arena)
  BY <1>1, Parsed
<1>5. \/ ~parsed.ok /\ request' = [r EXCEPT !.code = parsed.code]
      \/ parsed.ok /\ request' = [r EXCEPT !.code = "join_requires_session"]
      \/ parsed.ok /\ request' = [r EXCEPT !.plan = plan, !.prompt = parsed.prompt,
                                   !.at = IF plan = "matchup" THEN "draw" ELSE "look up"]
  BY DEF Receive
<1>6. ASSUME NEW code \in {"invalid_request", "join_requires_session"},
             request' = [r EXCEPT !.code = code]
      PROVE  Handled'
  <2>1. request' \in HandledRequests /\ request'.at = "answered" /\ request'.code = code
    BY <1>3, <1>6 DEF HandledRequests
  <2> QED BY <2>1 DEF Handled, ServedAsPromised
<1>7. CASE ~parsed.ok
  <2>1. parsed.code = "invalid_request"
    BY <1>4, <1>7 DEF Refused
  <2> QED BY <1>5, <1>6, <1>7, <2>1
<1>8. ASSUME parsed.ok,
             request' = [r EXCEPT !.plan = plan, !.prompt = parsed.prompt,
                                  !.at = IF plan = "matchup" THEN "draw" ELSE "look up"]
      PROVE  Handled'
  <2>1. parsed # Refused("invalid_request")
    BY <1>8 DEF Refused
  <2>2. /\ parsed.prompt \in STRING \cup {Absent}
        /\ body.prompt # Absent => parsed.prompt = body.prompt
        /\ body.prompt = Absent => NewestUserText(body.messages, parsed.prompt)
        /\ parsed.props.arena \in BOOLEAN /\ (parsed.props.arena => body.props.arena)
    BY <1>4, <2>1
  <2>3. /\ plan \in {"single", "matchup", "shadow"}
        /\ config.trigger = "manual" /\ ~header /\ ~body.props.arena => plan = "single"
    BY <2>2 DEF ResolveArenaPlan, EngagedPlan
  <2> HIDE DEF plan, parsed
  <2>4. /\ request' \in HandledRequests
        /\ request'.at = (IF plan = "matchup" THEN "draw" ELSE "look up")
        /\ request'.code = "ok" /\ request'.plan = plan /\ request'.prompt = parsed.prompt
        /\ request'.body = body /\ request'.header = header
    BY <1>1, <1>8, <2>2, <2>3 DEF HandledRequests
  <2>5. Understood'
    BY <1>1, <1>2, <2>2, <2>3, <2>4 DEF Understood
  <2> QED BY <2>3, <2>4, <2>5 DEF Handled, ServedAsPromised
<1> QED BY <1>5, <1>6, <1>7, <1>8

\* The default of the deployment answers alone, or is the incumbent.
LEMMA HandledLookUp == ASSUME Roster, Handled, LookUp PROVE Handled'
<1>1. /\ request \in HandledRequests /\ request.at = "look up" /\ Understood
      /\ request.plan \in {"single", "shadow"} /\ request.code = "ok" /\ UNCHANGED config
  <2>1. request.at = "look up" /\ UNCHANGED config
    BY DEF LookUp
  <2>2. NoRequest.at # "look up"
    BY DEF NoRequest
  <2>3. request \in HandledRequests
    BY <2>1, <2>2 DEF Handled
  <2> QED BY <2>1, <2>3 DEF Handled
<1>2. CASE default \notin enabled
  <2>1. Answered(request, "default_model_missing", NoModel, NoModel)
    BY <1>2 DEF LookUp
  <2> QED BY <1>1, <2>1, AnswerPromised
<1>3. CASE default \in enabled /\ request.plan = "single"
  <2>1. Answered(request, "ok", default, NoModel)
    BY <1>3 DEF LookUp
  <2>2. default \in Models /\ default # NoModel /\ Named(default)
    BY <1>3 DEF Roster
  <2> QED BY <1>1, <1>3, <2>1, <2>2, AnswerPromised
<1>4. CASE default \in enabled /\ request.plan = "shadow"
  <2>1. request' = [request EXCEPT !.at = "draw", !.incumbent = default]
    BY <1>4 DEF LookUp
  <2>2. default \in Models /\ default # NoModel /\ Named(default)
    BY <1>4 DEF Roster
  <2>3. /\ request' \in HandledRequests /\ request'.at = "draw" /\ request'.incumbent = default
        /\ request'.plan = request.plan /\ request'.code = request.code
        /\ request'.body = request.body /\ request'.header = request.header
        /\ request'.prompt = request.prompt
    BY <1>1, <2>1, <2>2 DEF HandledRequests
  <2>4. Understood'
    BY <1>1, <2>3 DEF Understood
  <2> QED BY <1>1, <1>4, <2>2, <2>3, <2>4 DEF Handled, ServedAsPromised, Named
<1> QED BY <1>1, <1>2, <1>3, <1>4

\* A pair drawn always has a model that is not the incumbent.
LEMMA HandledDraw == ASSUME Roster, Handled, Draw PROVE Handled'
<1>1. /\ request \in HandledRequests /\ request.at = "draw" /\ Understood /\ UNCHANGED config
      /\ request.plan \in {"matchup", "shadow"}
      /\ request.plan = "shadow" => request.incumbent # NoModel /\ Named(request.incumbent)
      /\ request.incumbent \in Models \cup {NoModel}
  <2>1. request.at = "draw" /\ UNCHANGED config
    BY DEF Draw
  <2>2. NoRequest.at # "draw"
    BY DEF NoRequest
  <2>3. request \in HandledRequests
    BY <2>1, <2>2 DEF Handled
  <2> QED BY <2>1, <2>3 DEF Handled, HandledRequests
<1>2. CASE Answered(request, "error", NoModel, NoModel)
  BY <1>1, <1>2, AnswerPromised
<1>3. ASSUME Cardinality(enabled) >= 2, NEW a \in Picks, request.plan = "matchup",
             Answered(request, "ok", a.slotA, a.slotB)
      PROVE  Handled'
  <2>1. Drawn(a)
    BY <1>3, PickedTwo
  <2>2. a.slotA \in Models /\ a.slotB \in Models \ {NoModel} /\ a.slotA # a.slotB
    BY <2>1 DEF Drawn, Roster
  <2> QED BY <1>1, <1>3, <2>2, AnswerPromised
<1>4. ASSUME Cardinality(enabled) >= 2, NEW a \in Picks, request.plan = "shadow"
      PROVE  /\ Challenger(a, request.incumbent) \in Models \ {NoModel}
             /\ Challenger(a, request.incumbent) # request.incumbent
  <2>1. Drawn(a)
    BY <1>4, PickedTwo
  <2> QED BY <2>1 DEF Drawn, Roster, Challenger
<1>5. ASSUME Cardinality(enabled) >= 2, NEW a \in Picks, request.plan = "shadow",
             Answered(request, "ok", request.incumbent, Challenger(a, request.incumbent))
      PROVE  Handled'
  BY <1>1, <1>4, <1>5, AnswerPromised
<1>6. \/ Answered(request, "error", NoModel, NoModel)
      \/ /\ Cardinality(enabled) >= 2
         /\ \E a \in Picks :
              \/ request.plan = "matchup" /\ Answered(request, "ok", a.slotA, a.slotB)
              \/ /\ request.plan = "shadow"
                 /\ Answered(request, "ok", request.incumbent, Challenger(a, request.incumbent))
  BY <1>1, <1>4 DEF Draw
<1> QED BY <1>2, <1>3, <1>5, <1>6

\* Every step of the deployment keeps to what was understood of the request.
LEMMA HandledStep ==
  ASSUME Roster, Handled, [DeployNext]_deployed PROVE Handled'
<1>1. ASSUME UNCHANGED <<config, request>> PROVE Handled'
  <2>1. (Understood' <=> Understood) /\ (ServedAsPromised' <=> ServedAsPromised)
    BY <1>1 DEF Understood, ServedAsPromised, Named
  <2> QED BY <1>1, <2>1 DEF Handled, Named
<1>2. ASSUME NEW p \in Process, Migrates(p) \/ Seeds(p) PROVE Handled'
  <2>1. UNCHANGED <<config, request>>
    BY <1>2 DEF Migrates, CheckTable, CreateTable, RenameOld, ListApplied, BeginFile, CommitFile,
                Seeds, DisableAll, Upsert, Seeded, serverOnly
  <2> QED BY <1>1, <2>1
<1>3. ASSUME NEW p \in Process, Die(p) PROVE Handled'
  <2>1. UNCHANGED config /\ request' \in {request, NoRequest}
    BY <1>3 DEF Die, serverOnly
  <2>2. CASE request' = NoRequest
    BY <2>2 DEF Handled, NoRequest, ServedAsPromised
  <2> QED BY <1>1, <2>1, <2>2
<1>4. CASE Boot \/ Restart \/ RunByHand \/ UNCHANGED deployed
  BY <1>1, <1>4 DEF Boot, Restart, RunByHand, deployed, serverOnly
<1>5. ASSUME NEW body \in Bodies, NEW protocol, NEW header \in BOOLEAN, NEW hit \in Hits(config),
             Receive(body, protocol, header, hit)
      PROVE  Handled'
  <2>1. hit \in BOOLEAN
    BY DEF Hits
  <2> QED BY <1>5, <2>1, HandledReceive
<1> QED BY <1>2, <1>3, <1>4, <1>5, HandledLookUp, HandledDraw DEF DeployNext, Serves

(***************************************************************************)
(* The theorems of the deployment.                                         *)
(***************************************************************************)
\* The inductive invariant of the deployment: tables, scripts, roster and handler.
THEOREM DeployInductive == DeploySpec => []DeployInv
<1>1. DeployInit => DeployInv
  BY ScriptsInit, RosterInit, HandledInit DEF DeployInv
<1>2. DeployInv /\ [DeployNext]_deployed => DeployInv'
  BY ScriptsMigrate, ScriptsElse, RosterStep, HandledStep DEF DeployInv, DeployNext
<1> QED BY <1>1, <1>2, PTL DEF DeploySpec

\* However the container's and the operator's runs of runMigrations interleave
\* (db/migrations.ts) and wherever they die, the files in effect are the first ones,
\* each once and in order, and what schema_migrations records is those.
THEOREM MigratedInOrder == DeploySpec => []MigratedOnce
<1>1. Tables => MigratedOnce
  <2>1. SUFFICES ASSUME Tables PROVE MigratedOnce
    OBVIOUS
  <2>2. /\ schema.log \in Seq(Range(Files)) /\ Files \in Seq(Range(Files))
        /\ Len(schema.log) =< Len(Files)
        /\ \A i \in 1..Len(schema.log) : schema.log[i] = Files[i]
    BY <2>1, FilesInOrder DEF Tables, Done
  <2>3. SubSeq(schema.log, 1, Len(schema.log)) = SubSeq(Files, 1, Len(schema.log))
    BY <2>2
  <2>4. Range(schema.log) = First(Done)
    <3>1. DOMAIN schema.log = 1..Done
      BY <2>2 DEF Done
    <3> QED BY <2>2, <3>1 DEF Range, First, Done
  <2> QED BY <2>1, <2>2, <2>3, <2>4 DEF MigratedOnce, IsPrefix, Tables, Done
<1>2. DeployInv => MigratedOnce
  BY <1>1 DEF DeployInv
<1> QED BY <1>2, DeployInductive, PTL

\* A request the chat handler answers (routes/chat.ts, arena/mode.ts, matchmaking/)
\* gets the round promised: the user's newest words, a comparison only where the
\* trigger engages one, the operator's default alone or as the incumbent, and two
\* different models otherwise; a challenger is never missing.
THEOREM Promised == DeploySpec => []ServedAsPromised
<1>1. DeployInv => ServedAsPromised
  BY DEF DeployInv, Handled
<1> QED BY <1>1, DeployInductive, PTL
==============================================================================
