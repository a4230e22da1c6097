SPECIFICATION DownloaderSpec
CONSTANTS
  j1 = j1  j2 = j2  j3 = j3  v1 = v1  v2 = v2
  Callers = {j1, j2, j3}
  Permits = 1
  MaxTicks = 3
  Version <- MCVersion
  Published = {v1}
  Zipped = {v1}
  Runnable = {v2}
  MaxFaults = 1
INVARIANTS RestingCompilersVerified WorkingCompilersNotMarked NoLostWakeup
PROPERTIES EveryJobEnds
