SPECIFICATION FairSpec
CONSTANTS
  sleeper = sleeper
  poller = poller
  user = user
  object = object
  Sleepers = {}
  Pollers = {poller}
  Users = {user}
  Objects = {object}
  Delays = {1}
  Intervals = {3}
  Durations = {2}
  MaxTime = 4
  SetTimes = {0}
  Careful = TRUE
INVARIANTS
  ListsExact
  

  
  
