SPECIFICATION Spec
CONSTANTS
  Jobs <- MCJobs
  SizeLimit = 16
INVARIANTS TypeOK EveryChunkFound RoundedUp
\* The script ends.
CHECK_DEADLOCK FALSE
