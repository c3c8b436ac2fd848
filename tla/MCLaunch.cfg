\* Two launchers that install, find or are given Chrome, where one port is free;
\* a Chrome or a profile may not let itself be removed, and a server not answer.
SPECIFICATION FairSpec
CONSTANTS
  Launchers = {l1, l2}
  Entries = {1, 2}
  Chrome = 1
  None = None
  OptionSet <- SomeOptions
  Garbled = {"install"}
  MaxCrashes = 1
  Ports = {x1}
  MaxAttempts = 1
  MaxLeft = 1
INVARIANTS
  TypeOK
  OnlyTornIsIncomplete
  TalksToItsChrome
  NothingIsLeftBehind
PROPERTIES
  LaunchEnds
\* Launchers have failed, or run or dropped their browsers.
CHECK_DEADLOCK FALSE
