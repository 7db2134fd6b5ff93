------------------------------ MODULE SlotView ------------------------------
(***************************************************************************)
(* What a round promises of one slot.  The text its reader has put         *)
(* together grows and is emptied when the round is steered.  Then it is    *)
(* the answer, which is also the row that is judged; both are final.  A    *)
(* response may end at any time, but ends well only once it has answered.  *)
(***************************************************************************)
EXTENDS Sequences, Naturals

CONSTANTS Absent   \* no answer, no row

VARIABLES text,    \* the tokens the reader was sent since its last reset
          answer,  \* the answer it was sent
          row,     \* the answer in the database
          over     \* how its response ended, "none" before

view == <<text, answer, row, over>>

Init == text = << >> /\ answer = Absent /\ row = Absent /\ over = "none"

Open == answer = Absent /\ over = "none"

Grow == /\ Open
        /\ Len(text') = Len(text) + 1 /\ SubSeq(text', 1, Len(text)) = text
        /\ UNCHANGED <<answer, row, over>>

Reset == Open /\ text' = << >> /\ UNCHANGED <<answer, row, over>>

\* The row may be there before the reader is told, or when it never is.
Save == row = Absent /\ row' # Absent /\ UNCHANGED <<text, answer, over>>

Answer == /\ Open /\ row \in {Absent, text}
          /\ answer' = text /\ row' = text
          /\ UNCHANGED <<text, over>>

End == /\ over = "none"
       /\ over' \in {"matchup_done", "run_error", "cut"}
       /\ over' = "matchup_done" => answer # Absent
       /\ UNCHANGED <<text, answer, row>>

Next == Grow \/ Reset \/ Save \/ Answer \/ End

Spec == Init /\ [][Next]_view
=============================================================================
