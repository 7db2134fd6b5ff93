---- MODULE MCBridge ----
(***************************************************************************)
(* One chat: a side-by-side prompt on two columns, the two messages that   *)
(* vote on it (and need not agree), and a prompt to any of the three other *)
(* models, before, between or after them.                                  *)
(***************************************************************************)
EXTENDS Bridge

MCRequests == {"colA", "colB", "voteA", "voteB", "next"}
MCKind ==
  [r \in MCRequests |->
    CASE r \in {"colA", "colB"} -> "slot"
      [] r \in {"voteA", "voteB"} -> "vote"
      [] r = "next" -> "prompt"]
MCKey == [r \in MCRequests |-> "chat"]
MCPrompt == [r \in MCRequests |-> IF r \in {"colA", "colB"} THEN 1 ELSE 2]
MCColumn == [r \in MCRequests |-> IF r \in {"colB", "voteB"} THEN "B" ELSE "A"]
MCChoice == [r \in MCRequests |-> IF r = "voteB" THEN "tie" ELSE "left"]
====
