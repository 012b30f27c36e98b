SPECIFICATION FairSpec
CONSTANTS
  NumCtx = 3
  NumStarted = 2
  MaxCreated = 3
  CidModulus = 4
  ClockModulus = 3
  Sleeps = {0}
  WaitCids = {1}
  WaitSleep = 1
  MaxLag = 2
  Removes = {FALSE}
  NumSubmitted = 0
PROPERTIES ReadyRuns ResultDelivered
