\* Two rows, two workers and one mishap: an error, a worker's death or a second run; or one agent's
\* photo, uploaded twice.
CONSTANTS
  Media = {m1, m2}
  Workers = {w1, w2}
  NoTask = NoTask
  NoCount = NoCount
  Declared <- DeclaredSizes
  Actual <- ActualSizes
  PhotoQuota = 1
  StorageLimit = 3
  MaxRetries = 1
  MaxMishaps = 1
  Pictures = {m1}
  MaxUploads = 2
  MaxSlips = 1
SPECIFICATION FairGallery
\* The system may stop when every upload is settled.
CHECK_DEADLOCK FALSE
INVARIANTS
  QuotaRespected
  StuckOnlyIfAbandoned
  LeaksOnlyWhenCutOff
  ImagesAreThere
PROPERTY
  EventuallyProcessed
