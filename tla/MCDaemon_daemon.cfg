CONSTANTS
  app = app  apctl = apctl  other = other  Nobody = Nobody
  Clients <- MCClients  Prompt <- MCPrompt  Backlog = 2
SPECIFICATION FairSpec
INVARIANTS SchedulerStopsLast PathIsHonest NoLostConnection AbortOnlyIfInert
PROPERTIES HandledIsAnswered KeepsToUse PromptIsServed ShutdownEnds
