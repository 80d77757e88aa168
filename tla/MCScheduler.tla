------------------------------ MODULE MCScheduler ------------------------------
EXTENDS Scheduler

\* All cards are in one project.
MCOneProject == [t \in Tasks |-> CHOOSE p \in Projects : TRUE]

\* Only the first card belongs to Claude.
MCFirstClaude == [t \in Tasks |-> IF \A s \in Tasks : t <= s THEN "claude" ELSE "codex"]

\* The second card may wait for the first.
MCDependencies == {<<2, 1>>}

\* Off, one run at a time, or two in the order people gave the cards
MCSettings == {[enabled |-> FALSE, max |-> 1, mode |-> "suggested"],
               [enabled |-> TRUE,  max |-> 1, mode |-> "suggested"],
               [enabled |-> TRUE,  max |-> 2, mode |-> "manual"]}
=============================================================================
