\* ClientController: revisions 0 and 1 of an epoch, one restart, three events.
\* CompletionNotice: three notices of one owner.
\* DefinitionSave: two saves, two edits by other programs.
\* RunRecorder: a run of two members, two reloads or crashes, one failure.
CONSTANTS
  MaxRev = 1
  MaxRestarts = 1
  MaxEvents = 3
  o1 = o1
  Owners = {o1}
  Notices = {1, 2, 3}
  OwnerOf <- Parent
  Bytes <- Sizes
  MaxItems = 2
  MaxCohortBytes = 4
  Separator = 1
  p1 = p1
  p2 = p2
  Savers = {p1, p2}
  MaxEdits = 2
  MaxMembers = 2
  MaxReloads = 2
  MaxFailures = 1
SPECIFICATION Spec
CHECK_DEADLOCK FALSE
INVARIANTS HintsAreHonoured OwnersReadInOrder QuietIsSettled ReplacesWhatItSaw LegalPrefix
PROPERTY CatchesUp
