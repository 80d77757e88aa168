----------------------------- MODULE MCRunService -----------------------------
EXTENDS RunProperties, TLC

Setup(provider, stopMayFail, tasks, runs, followups, requests, boots) ==
  [provider |-> provider, stopMayFail |-> stopMayFail, tasks |-> tasks, runs |-> runs,
   followups |-> followups, requests |-> requests, restarts |-> boots]

\* One card, or two of them
One == {CHOOSE t \in Tasks : TRUE}

\* Two runs and two messages of Claude; Codex, whose app-server may end
MCRuns == {Setup("claude", FALSE, One, 2, 2, 1, 0), Setup("codex", FALSE, One, 2, 1, 1, 0)}

\* Two requests at a time, or two runs, with stops that fail; a restart and a request;
\* two requests whose stops are confirmed
MCRaces ==
  {Setup("claude", TRUE, One, 1, 1, 2, 0), Setup("claude", TRUE, One, 2, 1, 1, 0),
   Setup("claude", FALSE, One, 2, 1, 1, 1), Setup("claude", FALSE, One, 1, 1, 2, 0)}

\* Steers; requests that stop, of Claude and of Codex; recovery of two cards, or of one
\* while requests stop it
MCProgress ==
  {Setup("claude", TRUE, One, 2, 1, 0, 0), Setup("claude", TRUE, One, 1, 1, 1, 0),
   Setup("codex", TRUE, One, 1, 0, 1, 0), Setup("claude", FALSE, Tasks, 2, 0, 0, 1),
   Setup("claude", FALSE, One, 1, 0, 1, 1)}

\* The instances that show where code and comments disagree
MCLeftover == {Setup("claude", FALSE, One, 2, 1, 1, 1)}
MCCodexStop == {Setup("codex", FALSE, One, 2, 0, 1, 0)}
MCArchive == {Setup("claude", FALSE, One, 1, 0, 1, 1)}

\* Requests that wait are all alike.
MCSymmetry == Permutations(Requests)
=============================================================================
