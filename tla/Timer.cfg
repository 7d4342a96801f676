\* Three timers, two runs of do_softirq under way, three ticks.
SPECIFICATION FairSpec
CONSTANTS
  Timers = {a, b, c}
  TestTimer = a
  NoTimer = head
  Runs = {r1, r2}
  MaxJiffies = 3
INVARIANTS
  ListSound
PROPERTIES
  TimerFires
