CONSTANTS
  MaxEdits = 2
  Texts <- OnwardsAndBack
  Reloads <- Both
  MaxFailures = 2
  MaxLaunches = 1
  MaxRestarts = 2
  Absent = Absent
SPECIFICATION BundleSpec
INVARIANTS
  RecordedNotAhead
PROPERTIES
  BundleConverges
\* the sources rest once all edits were made
CHECK_DEADLOCK FALSE
