------------------------------ MODULE MCDataSync ------------------------------
(* DataSync with a file, and a name that can be a directory with a file, for TLC. *)
EXTENDS DataSync, TLC

CONSTANTS data, readme, masks, mask, old, new, p1, p2

TwoLevels == {readme, masks, mask}
ParentOf == readme :> data @@ masks :> data @@ mask :> masks
TwoContents == {old, new}
TwoProcesses == {p1, p2}

\* One build, or two, while people edit and modules write; or two that sync a directory
\* with a file at once.
Alone == [processes |-> {p1}, names |-> TwoLevels, contents |-> TwoContents, busy |-> TRUE]
Together ==
  [processes |-> TwoProcesses, names |-> {masks, mask}, contents |-> {old}, busy |-> FALSE]
Crowded ==
  [processes |-> TwoProcesses, names |-> {masks}, contents |-> {old}, busy |-> TRUE]

PassingMachines == {Alone, Together, Crowded}
TogetherMachines == {Together}

===============================================================================
