------------------------------- MODULE Thread -------------------------------
(***************************************************************************)
(* What a persisted arena conversation promises: an append-only chain of   *)
(* rounds with one owner.  A round joins the end of the chain only when    *)
(* every round before it has a winning response, a winner is settled once  *)
(* and never revised, and a round belongs to one place of one chain.       *)
(***************************************************************************)
EXTENDS Naturals, Sequences

CONSTANTS Conversations, Rounds, Slots, Sessions, None

VARIABLES owner,    \* conversation -> the session that opened it, or None
          thread    \* conversation -> its rounds in turn order, with winners

vars == <<owner, thread>>

Entry(m) == [round |-> m, winner |-> None]
Last(c) == thread[c][Len(thread[c])]
Fresh(m) == \A c \in Conversations :
               \A i \in 1..Len(thread[c]) : thread[c][i].round # m

Init == /\ owner = [c \in Conversations |-> None]
        /\ thread = [c \in Conversations |-> << >>]

Open(c, s) ==
  /\ owner[c] = None
  /\ thread[c] = << >>
  /\ owner' = [owner EXCEPT ![c] = s]
  /\ \E m \in Rounds : /\ Fresh(m)
                       /\ thread' = [thread EXCEPT ![c] = <<Entry(m)>>]

Continue(c) ==
  /\ thread[c] # << >>
  /\ Last(c).winner # None
  /\ \E m \in Rounds : /\ Fresh(m)
                       /\ thread' = [thread EXCEPT ![c] = Append(@, Entry(m))]
  /\ UNCHANGED owner

Settle(c) ==
  /\ thread[c] # << >>
  /\ Last(c).winner = None
  /\ \E s \in Slots :
       thread' = [thread EXCEPT ![c][Len(thread[c])].winner = <<Last(c).round, s>>]
  /\ UNCHANGED owner

Next == \E c \in Conversations :
          /\ thread'[c] # thread[c]     \* every step changes one chain
          /\ \/ \E s \in Sessions : Open(c, s)
             \/ Continue(c)
             \/ Settle(c)

Spec == Init /\ [][Next]_vars
=============================================================================
