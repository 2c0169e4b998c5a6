--------------------------- MODULE MCCommandsFlood ---------------------------
(***************************************************************************)
(* The rate limit of module Commands, with what its comments say of it as  *)
(* a history: the tokens a user would have left, had every line it was     *)
(* allowed taken its own.                                                  *)
(***************************************************************************)
EXTENDS MCCommands

VARIABLE due

\* A line with these tokens asks the limit.  "due" is refilled for the time that
\* went by; how far it is below zero does not matter.
Taken(rate) ==
    LET quot == Quot(now - limit.last, RefillPeriod)
        sum == due + IF quot > 0 THEN quot ELSE 0
        t == IF sum > FloodTokens THEN FloodTokens ELSE sum
    IN  IF ~Allow(limit, rate).ok THEN t ELSE IF t < rate THEN -1 ELSE t - rate

\* The command that asks it in the next step.
Asked ==
    {c \in Cmds : /\ cur # None /\ c = FindCommand(cur.name, MaskOf(cur.src))
                  /\ c # cur.last /\ IsLimited(c, cur.src)}

MCInit == Init /\ due = FloodTokens

MCNext ==
    /\ Next
    /\ \/ \E c \in Asked : due' = Taken(Info[c].rate)
       \/ /\ Asked = {}
          /\ due' = IF "first" \in {kind, kind'} THEN FloodTokens ELSE due

MCSpec == MCInit /\ [][MCNext]_<< vars, due >>

\* What the comments say, and the code does not keep: a line takes its tokens
\* (ratelimit.c:38, "Subtract tokens"; ratelimit.h:39, "Number of tokens deducted
\* per use"), so that no user is allowed more than its tokens and their refills pay
\* for: a flood is refused.
FloodRefused == due >= 0

==============================================================================
