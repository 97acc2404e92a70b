SPECIFICATION FairSpec
CONSTANTS
  Video = {v1, v2, v3}
  Limit = 2
  Allows = {"lose"}
INVARIANT TypeOK
INVARIANT FailuresAgree
INVARIANT CompletedAreListed
 
 
PROPERTY UploadsSettle
CHECK_DEADLOCK FALSE
