\* Two sessions reported in any order by two senders; the loop may be shut down
\* and run again.
CONSTANTS
  Sessions = {s1, s2}
  NoSession = NoSession
  MaxSenders = 2
  MaxQueued = 4
  LastTick = 1
SPECIFICATION FairSpec
INVARIANTS TypeOK OnlyOvertakenStay ExitsAreCountedOnce
PROPERTIES StopsWhenAsked StopsWhenAlone TicksWhenQuiet
