SPECIFICATION Spec
CONSTANTS
  Half = 64
  STSIZE = 20
  MAXRLAB = 4
  NSYM = 40
  NSYMPR = 2
  NLIBS = 10
  MaxLines = 4
  Jobs <- MCJobs
  Files <- MCFiles
  Sources <- MCSources
INVARIANTS DataMeansSource CommonsApart LinkIsClosed
PROPERTY CodeMeansSource
CHECK_DEADLOCK FALSE
