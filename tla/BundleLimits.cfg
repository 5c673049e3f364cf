\* A bundle can be older than the sources it is taken for: TLC finds ReusedIsCurrent
\* violated, where two builds run at once.  More, each with what it changes here:
\*   NeverAhead instead, the same way
\*   ReusedIsCurrent, by a revert: Texts <- Back, Reloads <- Never
\*   RebuildsOnlyChanges (a PROPERTY), by a build of the watcher that fails: MaxEdits = 1,
\*     MaxFailures = 2, MaxLaunches = 0, MaxRestarts = 0
\*   AlwaysConverges (a PROPERTY), by two builds at once: MaxLaunches = 0; by a build that
\*     fails at the start: MaxEdits = 1, MaxFailures = 1, MaxLaunches = 0,
\*     MaxRestarts = 0; by a revert: Texts <- Back, MaxLaunches = 0, MaxRestarts = 0
CONSTANTS
  MaxEdits = 2
  Texts <- Onwards
  Reloads <- Always
  MaxFailures = 0
  MaxLaunches = 1
  MaxRestarts = 1
  Absent = Absent
SPECIFICATION BundleSpec
INVARIANTS
  ReusedIsCurrent
\* the sources rest once all edits were made
CHECK_DEADLOCK FALSE
