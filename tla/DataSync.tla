------------------------------- MODULE DataSync -------------------------------
(***************************************************************************)
(* project.load_project's one-way copy of project/data/ into the           *)
(* environment's data directory (src/nam/project.py,                       *)
(* sync_data_directory): two loops per directory, recursion between them,  *)
(* removals and copies that take several steps, crashes between any two of *)
(* them, and people who edit the source meanwhile.                         *)
(*                                                                         *)
(* A tree gives every path "none", "dir" or the contents of its file.      *)
(***************************************************************************)
EXTENDS Naturals, Sequences, FiniteSets

CONSTANTS
  Root,      \* the data directory
  Below,     \* the paths below it
  Parent,    \* the directory each of them is in
  FileContents, \* what can be in a file
  Partial,   \* what is in a file whose copy has begun and not ended
  NoPath,
  Processes, \* builds of the project on this machine, which share its environment
  Machines   \* which of them there are, and what others do: SyncInit takes one

DataPaths == {Root} \cup Below

\* A path and everything below it: what is in each set that has the path, and whatever
\* is in a directory that it has.
Under ==
  [p \in DataPaths |->
     {q \in DataPaths :
        \A S \in SUBSET DataPaths :
          p \in S /\ (\A r \in Below : Parent[r] \in S => r \in S) => q \in S}]

ASSUME DataPathsAssumption ==
  /\ Root \notin Below /\ NoPath \notin DataPaths
  /\ Parent \in [Below -> DataPaths]
  /\ Under[Root] = DataPaths
ASSUME FileContentsAssumption ==
  {"none", "dir", Partial} \cap FileContents = {} /\ Partial \notin {"none", "dir"}

ASSUME MachinesAssumption ==
  \A s \in Machines :
    /\ s.processes \subseteq Processes
    /\ s.names \subseteq Below         \* what people, and modules, write
    /\ s.contents \subseteq FileContents  \* what people write to it
    /\ s.busy \in BOOLEAN  \* people edit during a sync, and modules write

VARIABLES
  machine,
  src,      \* project/data/
  dst,      \* the environment's copy
  stage,    \* of each process: "down", "syncing", "running", "failed"
  frames,   \* its calls of sync_data_directory that are under way, innermost last:
            \* the directory, which of its loops runs, the items it still has
  job,      \* the removal or copy that is under way
  touched,  \* those since whose launch someone else changed a tree, or left it half done
  overlapped \* those since whose launch another one synced, too

syncVars == <<machine, src, dst, stage, frames, job, touched, overlapped>>
history == <<machine, touched, overlapped>>

NoJob == [op |-> "none", left |-> {}, dirs |-> {}, open |-> NoPath, failed |-> FALSE]

Children(dir, tree) == {p \in Below : Parent[p] = dir /\ tree[p] # "none"}

IsFile(p, tree) == tree[p] \notin {"none", "dir"}

\* A file or directory is in a directory.
IsTree(t) ==
  /\ t[Root] \in {"none", "dir"}
  /\ \A p \in Below : t[p] # "none" => t[Parent[p]] = "dir"

Tree(kinds) == {t \in [DataPaths -> kinds] : IsTree(t)}

Jobs ==
  [op : {"none", "remove", "copy"}, left : SUBSET Below, dirs : SUBSET Below,
   open : Below \cup {NoPath}, failed : BOOLEAN]

Sources ==
  {t \in Tree({"none", "dir"} \cup machine.contents) : \A p \in Below \ machine.names : t[p] = "none"}

SyncTypeOK ==
  /\ src \in Tree({"none", "dir"} \cup FileContents)
  /\ dst \in Tree({"none", "dir", Partial} \cup FileContents)
  /\ machine \in Machines
  /\ stage \in [Processes -> {"down", "syncing", "running", "failed"}]
  /\ frames \in [Processes -> Seq([dir : DataPaths, loop : 1..2, todo : SUBSET Below])]
  /\ job \in [Processes -> Jobs]
  /\ touched \subseteq Processes /\ overlapped \subseteq Processes

SyncInit ==
  /\ machine \in Machines
  /\ src \in Sources
  /\ dst = [p \in DataPaths |-> "none"]
  /\ stage = [w \in Processes |-> "down"]
  /\ frames = [w \in Processes |-> <<>>]
  /\ job = [w \in Processes |-> NoJob]
  /\ touched = {} /\ overlapped = {}

-----------------------------------------------------------------------------
(* The process, and the others that write to the trees *)

Subtree(p, tree) == {q \in Under[p] : tree[q] # "none"}

Call(dir, tree) == [dir |-> dir, loop |-> 1, todo |-> Children(dir, tree)]

Others(w) == {v \in Processes \ {w} : stage[v] = "syncing"}

\* load_project: without a source it only makes the directory.  What others have
\* edited, a sync that began before may leave undone.
Launch(w) ==
  /\ stage[w] \in {"down", "failed"}
  /\ dst' = [dst EXCEPT ![Root] = "dir"]
  /\ touched' = IF machine.busy /\ Others(w) \cap touched # {} THEN touched \cup {w}
                 ELSE touched \ {w}
  /\ IF src[Root] = "dir"
     THEN /\ stage' = [stage EXCEPT ![w] = "syncing"]
          /\ frames' = [frames EXCEPT ![w] = <<Call(Root, dst)>>]
     ELSE stage' = [stage EXCEPT ![w] = "running"] /\ UNCHANGED frames
  /\ overlapped' = IF Others(w) = {} THEN overlapped \ {w} ELSE overlapped \cup {w} \cup Others(w)
  /\ UNCHANGED <<machine, src, job>>

\* What it has not done, another sync may have left to it.
Stop(w, next) ==
  /\ stage' = [stage EXCEPT ![w] = next]
  /\ frames' = [frames EXCEPT ![w] = <<>>]
  /\ job' = [job EXCEPT ![w] = NoJob]
  /\ touched' = IF stage[w] = "syncing" /\ w \in overlapped THEN touched \cup (overlapped \ {w})
                 ELSE touched
  /\ UNCHANGED <<machine, src, dst, overlapped>>

Crash(w) == stage[w] \in {"syncing", "running"} /\ Stop(w, "down")

Changed(p, tree, kinds) == {t \in {[tree EXCEPT ![p] = k] : k \in kinds} : IsTree(t)}

EditsData ==
  /\ machine.busy \/ \A w \in Processes : stage[w] = "down"
  /\ \E p \in {Root} \cup machine.names : src' \in Changed(p, src, {"none", "dir"} \cup machine.contents) \ {src}
  /\ touched' = Processes
  /\ UNCHANGED <<machine, dst, stage, frames, job, overlapped>>

\* A module writes to its data directory.
ModuleWrites ==
  /\ machine.busy /\ \E w \in Processes : stage[w] = "running"
  /\ \E p \in machine.names : dst' \in Changed(p, dst, {"none", "dir"} \cup FileContents) \ {dst}
  /\ touched' = Processes
  /\ UNCHANGED <<machine, src, stage, frames, job, overlapped>>

-----------------------------------------------------------------------------
(* sync_data_directory *)

Depth(w) == Len(frames[w])
Top(w) == frames[w][Depth(w)]

Working(w) == stage[w] = "syncing" /\ job[w].op = "none" /\ frames[w] # <<>>

Without(w, p) == [frames[w] EXCEPT ![Depth(w)].todo = @ \ {p}]

Removal(p) ==
  [NoJob EXCEPT !.op = "remove", !.left = {p} \cup Subtree(p, dst),
               !.dirs = {q \in Subtree(p, dst) : dst[q] = "dir"}]

Copy(p) ==
  [NoJob EXCEPT !.op = "copy", !.left = {p} \cup Subtree(p, src),
               !.dirs = {q \in Subtree(p, src) : src[q] = "dir"}]

\* Slip: a file may stay where the source has a directory.
ObsoleteTrees(p) == src[p] = "none" \/ (dst[p] = "dir" /\ IsFile(p, src))

\* The first loop has to get rid of what the source does not have, or has as
\* another kind.
Obsolete(p) ==
  \/ src[p] = "none"
  \/ IsFile(p, dst) /\ src[p] = "dir"
  \/ dst[p] = "dir" /\ IsFile(p, src)

Drops(w, p) ==
  /\ Working(w) /\ Top(w).loop = 1 /\ p \in Top(w).todo
  /\ Obsolete(p)
  /\ frames' = [frames EXCEPT ![w] = Without(w, p)]
  /\ job' = [job EXCEPT ![w] = Removal(p)]
  /\ UNCHANGED <<src, dst, stage, history>>

\* Slip: the item is visited again after the recursive call.
DescendsEndlessly(w, p) ==
  /\ Working(w) /\ Top(w).loop = 1 /\ p \in Top(w).todo
  /\ dst[p] = "dir" /\ src[p] = "dir"
  /\ frames' = [frames EXCEPT ![w] = Append(@, Call(p, dst))]
  /\ UNCHANGED <<src, dst, stage, job, history>>

Descends(w, p) ==
  /\ Working(w) /\ Top(w).loop = 1 /\ p \in Top(w).todo
  /\ dst[p] = "dir" /\ src[p] = "dir"
  /\ frames' = [frames EXCEPT ![w] = Append(Without(w, p), Call(p, dst))]
  /\ UNCHANGED <<src, dst, stage, job, history>>

Keeps(w, p) ==
  /\ Working(w) /\ Top(w).loop = 1 /\ p \in Top(w).todo
  /\ ~Obsolete(p) /\ ~(dst[p] = "dir" /\ src[p] = "dir")
  /\ frames' = [frames EXCEPT ![w] = Without(w, p)]
  /\ UNCHANGED <<src, dst, stage, job, history>>

\* The source's directory may be gone by the time it is listed.
ListsSource(w) ==
  /\ Working(w) /\ Top(w).loop = 1 /\ Top(w).todo = {}
  /\ IF src[Top(w).dir] = "dir"
     THEN /\ frames' = [frames EXCEPT ![w][Depth(w)] =
                          [dir |-> @.dir, loop |-> 2, todo |-> Children(@.dir, src)]]
          /\ UNCHANGED <<src, dst, stage, job, history>>
     ELSE Stop(w, "failed")

Differs(p) ==
  \/ dst[p] = "none"
  \/ IsFile(p, src) /\ IsFile(p, dst) /\ src[p] # dst[p]

\* Slip: what is there already is copied, too.
CopiesAll(w, p) ==
  /\ Working(w) /\ Top(w).loop = 2 /\ p \in Top(w).todo
  /\ frames' = [frames EXCEPT ![w] = Without(w, p)]
  /\ job' = [job EXCEPT ![w] = Copy(p)]
  /\ UNCHANGED <<src, dst, stage, history>>

\* Only what is missing or whose hash is another is copied; the source may be gone
\* by now.
Copies(w, p) ==
  /\ Working(w) /\ Top(w).loop = 2 /\ p \in Top(w).todo
  /\ Differs(p)
  /\ frames' = [frames EXCEPT ![w] = Without(w, p)]
  /\ job' = [job EXCEPT ![w] = Copy(p)]
  /\ UNCHANGED <<src, dst, stage, history>>

Agrees(w, p) ==
  /\ Working(w) /\ Top(w).loop = 2 /\ p \in Top(w).todo
  /\ ~Differs(p)
  /\ frames' = [frames EXCEPT ![w] = Without(w, p)]
  /\ UNCHANGED <<src, dst, stage, job, history>>

Returns(w) ==
  /\ Working(w) /\ Top(w).loop = 2 /\ Top(w).todo = {}
  /\ frames' = [frames EXCEPT ![w] = SubSeq(@, 1, Depth(w) - 1)]
  /\ stage' = IF Depth(w) = 1 THEN [stage EXCEPT ![w] = "running"] ELSE stage
  /\ UNCHANGED <<src, dst, job, history>>

-----------------------------------------------------------------------------
(* rmtree and unlink, copytree and copy2 *)

\* A directory goes when it is empty; what was a file when it was listed still is.
Removable(w, p) ==
  /\ dst[p] # "none" /\ (dst[p] = "dir" <=> p \in job[w].dirs)
  /\ Children(p, dst) = {}

MayRemove(w, p) ==
  /\ job[w].op = "remove" /\ p \in job[w].left
  /\ \A q \in job[w].left : Parent[q] # p

RemovesOne(w, p) ==
  /\ MayRemove(w, p) /\ Removable(w, p)
  /\ dst' = [dst EXCEPT ![p] = "none"]
  /\ job' = [job EXCEPT ![w].left = @ \ {p}]
  /\ UNCHANGED <<src, stage, frames, history>>

\* Another process was faster.
CannotRemove(w, p) ==
  /\ MayRemove(w, p) /\ ~Removable(w, p)
  /\ Stop(w, "failed")

MayCopy(w, p) ==
  /\ job[w].op = "copy" /\ job[w].open = NoPath /\ p \in job[w].left
  /\ Parent[p] \notin job[w].left

Above(p) == {q \in DataPaths : p \in Under[q]}

\* copytree makes a directory, which may not be there yet, and those it is in; a file
\* needs its directory; what is a directory or a file was determined when it was listed.
Copyable(w, p) ==
  IF p \in job[w].dirs
  THEN src[p] = "dir" /\ dst[p] = "none" /\ \A q \in Above(p) : ~IsFile(q, dst)
  ELSE IsFile(p, src) /\ dst[Parent[p]] = "dir"

MakesDirectory(w, p) ==
  /\ MayCopy(w, p) /\ p \in job[w].dirs /\ Copyable(w, p)
  /\ dst' = [q \in DataPaths |-> IF q \in Above(p) THEN "dir" ELSE dst[q]]
  /\ job' = [job EXCEPT ![w].left = @ \ {p}]
  /\ UNCHANGED <<src, stage, frames, history>>

OpensFile(w, p) ==
  /\ MayCopy(w, p) /\ p \notin job[w].dirs /\ Copyable(w, p) /\ dst[p] # "dir"
  /\ dst' = [dst EXCEPT ![p] = Partial]
  /\ job' = [job EXCEPT ![w].open = p]
  /\ UNCHANGED <<src, stage, frames, history>>

\* copy2 copies into what has become a directory, under a name that is the file's own
\* and none of the paths.
CopiesInto(w, p) ==
  /\ MayCopy(w, p) /\ p \notin job[w].dirs /\ Copyable(w, p) /\ dst[p] = "dir"
  /\ job' = [job EXCEPT ![w].left = @ \ {p}]
  /\ UNCHANGED <<src, dst, stage, frames, history>>

\* The source can be deleted while it is read: its contents are copied all the same.
\* A copy that was removed meanwhile stays removed.
FillsFile(w, p) ==
  /\ job[w].open = p /\ p \in Below
  /\ \E c \in IF IsFile(p, src) THEN {src[p]} ELSE FileContents :
       dst' = IF IsFile(p, dst) THEN [dst EXCEPT ![p] = c] ELSE dst
  /\ job' = [job EXCEPT ![w] = [job[w] EXCEPT !.open = NoPath, !.left = @ \ {p}]]
  /\ UNCHANGED <<src, stage, frames, history>>

\* What cannot be copied is skipped, with everything below it, and reported at the end.
CannotCopy(w, p) ==
  /\ MayCopy(w, p) /\ ~Copyable(w, p)
  /\ job' = [job EXCEPT ![w] = [job[w] EXCEPT !.failed = TRUE, !.left = @ \ Under[p]]]
  /\ UNCHANGED <<src, dst, stage, frames, history>>

EndsJob(w) ==
  /\ job[w].op # "none" /\ job[w].left = {}
  /\ IF job[w].failed
     THEN Stop(w, "failed")
     ELSE job' = [job EXCEPT ![w] = NoJob] /\ UNCHANGED <<src, dst, stage, frames, history>>

-----------------------------------------------------------------------------

FirstLoop(w, p) == Drops(w, p) \/ Descends(w, p) \/ Keeps(w, p)
SecondLoop(w, p) == Copies(w, p) \/ Agrees(w, p)
JobStep(w, p) ==
  \/ RemovesOne(w, p) \/ CannotRemove(w, p)
  \/ MakesDirectory(w, p) \/ OpensFile(w, p) \/ FillsFile(w, p)
  \/ CopiesInto(w, p) \/ CannotCopy(w, p)

SyncStep(w) ==
  \/ ListsSource(w) \/ Returns(w) \/ EndsJob(w)
  \/ \E p \in Below : FirstLoop(w, p) \/ SecondLoop(w, p) \/ JobStep(w, p)

SyncNext ==
  \/ EditsData \/ ModuleWrites
  \/ \E w \in machine.processes : Launch(w) \/ Crash(w) \/ SyncStep(w)

\* The processes run.
SyncFairness == \A w \in Processes : WF_syncVars(SyncStep(w))

SyncSpec == SyncInit /\ [][SyncNext]_syncVars /\ SyncFairness

-----------------------------------------------------------------------------
(* Correctness *)

Syncing == {w \in Processes : stage[w] = "syncing"}

\* Syncs that end leave an exact mirror of the source, whatever an earlier crash or a
\* module left in the copy, and though several processes synced at once, unless someone
\* changed the trees meanwhile, or a sync beside them ended early, or they were launched
\* beside a build that had missed such a change (project.py:76-105).
Mirrored ==
  Syncing = {} /\ src[Root] = "dir"
    => \A w \in Processes : stage[w] = "running" /\ w \notin touched => dst = src

\* The start fails only if someone edited the source during the sync, or another
\* process synced at the same time: nothing that a crash leaves behind makes it fail.
FailsOnlyIfTouched ==
  \A w \in Processes : stage[w] = "failed" \/ job[w].failed => w \in touched \cup overlapped

\* A sync ends, one way or another, also while people go on editing.
SyncEnds == \A w \in Processes : stage[w] = "syncing" ~> stage[w] # "syncing"

-----------------------------------------------------------------------------
(* What one would expect of builds that share a machine, and does not hold *)

\* A build runs with the data of its project ("so a module opening a relative path
\* resolves it from there correctly", project.py:144-153): not while another is still
\* copying a directory that was there when this one looked.
RunsWithItsData ==
  \A w \in Processes :
    stage[w] = "running" /\ w \notin touched /\ src[Root] = "dir" => dst = src

\* Two builds can be launched at once.
LaunchesSucceed == \A w \in Processes : stage[w] = "failed" => w \in touched

===============================================================================
