------------------------------- MODULE Sources -------------------------------
(* The source tree of one project: its versions, the validation report, the   *)
(* package requests and the release export (backend/app/files.py,             *)
(* validation.py, dependencies.py, releases.py and their callers in main.py   *)
(* and builder.py).  The operations hold the project lock (module Runs), so   *)
(* there is one at a time; any of its statements may raise, an UPDATE may be  *)
(* lost after its commit (db._attempt), the process may die at any step, and  *)
(* somebody may edit the folder on disk meanwhile.                            *)
EXTENDS Naturals

CONSTANTS
  Codes,        \* what the editable files may hold
  FirstCode,    \* the starting template
  Requests,     \* dependency_requests ids
  Checks,       \* checks of one validation (8 to 12 in validation.run)
  MaxOps,       \* bound on the operations begun
  Edits,        \* what somebody may make of which tree, outside the builder
  Empty,        \* a tree without the manifests of the template
  Missing,      \* no directory at source/
  None

ASSUME SourcesAssumption ==
  FirstCode \in Codes /\ Checks \in Nat \ {0} /\ MaxOps \in Nat

(* A tree with its manifests: its code and the packages they list.            *)
Content == [code : Codes, packs : SUBSET Requests]
Digests == Content \cup {Empty}

ASSUME EditsAssumption == Edits \subseteq Content \X Content

ASSUME NoneAssumption ==
  /\ Empty # Missing /\ Empty # None /\ Missing # None
  /\ {Empty, Missing, None} \cap Content = {}

VARIABLES
  tree,         \* what is at source/
  snaps,        \* snapshots/<id>/files.json
  versions,     \* the rows of `versions`
  report,       \* projects.last_validation
  request,      \* the dependency_requests rows
  op,           \* the operation that holds the project's lock
  \* history, for the properties only:
  owed,         \* trees that an operation found when it began
  verdict,      \* how the last validation that began ended
  vouched,      \* trees that all checks of one passed validation ran on
  released,     \* trees exported as a release
  replaced,     \* the tree that a request's packages replaced
  placed,       \* the tree that came with them
  begun         \* operations so far

history == <<owed, verdict, vouched, released, replaced, placed, begun>>
vars == <<tree, snaps, versions, report, request, op, history>>

-----------------------------------------------------------------------------
(* files.digest(): os.walk() of a directory that is not there yields nothing. *)
Digest == IF tree = Missing THEN Empty ELSE tree

Names == {"build", "validate", "restore", "approve", "release"}
Steps == {"before", "before_row", "editing", "opening", "checking", "reporting",
          "stopping", "preparing", "listing", "copying", "comparing", "moving", "placing",
          "clearing", "recording", "after", "after_row", "digesting", "exporting"}

Idle == [name |-> None, step |-> "idle", arg |-> None, digest |-> None,
         content |-> None, left |-> 0, saw |-> {}, ok |-> FALSE, meddled |-> 0]
Ops == [name : Names, step : Steps, arg : Digests \cup Requests \cup {None},
        digest : Digests \cup {None}, content : Digests \cup {None},
        left : 0..Checks, saw : SUBSET Digests, ok : BOOLEAN, meddled : 0..2]

NoReport == [status |-> "none", digest |-> None]

TypeOK ==
  /\ tree \in Digests \cup {Missing}
  /\ snaps \subseteq Digests /\ versions \subseteq Digests
  /\ report \in [status : {"none", "passed", "failed"}, digest : Digests \cup {None}]
  /\ request \in [Requests -> [status : {"none", "pending", "applied", "rejected"},
                               digest : Digests \cup {None}]]
  /\ op \in Ops \cup {Idle}
  /\ owed \subseteq Digests /\ vouched \subseteq Digests /\ released \subseteq Digests
  /\ verdict \in {"none", "running", "passed", "failed"}
  /\ replaced \in [Requests -> Digests \cup {None}]
  /\ placed \in [Requests -> Digests \cup {None}]
  /\ begun \in 0..MaxOps

(* create_project(): the seeded template, saved as the first version.         *)
First == [code |-> FirstCode, packs |-> {}]
Init ==
  /\ tree = First /\ snaps = {First} /\ versions = {First}
  /\ report = NoReport
  /\ request = [q \in Requests |-> [status |-> "none", digest |-> None]]
  /\ op = Idle
  /\ owed = {} /\ verdict = "none" /\ vouched = {} /\ released = {}
  /\ replaced = [q \in Requests |-> None] /\ placed = replaced
  /\ begun = 0

-----------------------------------------------------------------------------
(* A definition named *Fault is no part of the specification: it is what a    *)
(* slip in the code would make of its namesake, and breaks a property at the  *)
(* end of the module.                                                         *)

(* Each operation that may change the tree saves a version first.             *)
EntryFault == [build |-> "before", restore |-> "stopping", approve |-> "before",
               validate |-> "opening", release |-> "digesting"]
Entry == [build |-> "before", restore |-> "before", approve |-> "before",
          validate |-> "opening", release |-> "digesting"]
AfterSave == [build |-> "editing", restore |-> "stopping", approve |-> "preparing"]

(* launch(), and release_bundle() under the same lock.                        *)
Begin(name, arg) ==
  /\ op = Idle /\ begun < MaxOps
  /\ begun' = begun + 1
  /\ CASE name = "restore" -> arg \in versions    \* 404 for another id
       [] name = "approve" -> arg \in Requests
       [] name = "release" -> arg \in Digests     \* the digest the user reviewed
       [] OTHER -> arg = None
  /\ op' = [Idle EXCEPT !.name = name, !.step = Entry[name], !.arg = arg]
  /\ owed' = owed \cup {Digest}
  /\ UNCHANGED <<tree, snaps, versions, report, request, verdict, vouched, released,
                 replaced, placed>>

Goto(step) == op' = [op EXCEPT !.step = step]

(* Where an exception leads: validation.run reports in `finally`, a build     *)
(* saves a version in `finally`, any other operation ends.                    *)
Saving == {"before", "before_row", "after", "after_row"}
Unwind ==
  op' = IF op.step = "checking" THEN [op EXCEPT !.step = "reporting", !.ok = FALSE]
        ELSE IF op.name = "build" /\ op.step \notin Saving THEN [op EXCEPT !.step = "after"]
        ELSE Idle

(* A statement raises and has changed nothing: a command fails, a check       *)
(* fails, the budget ends, the run is cancelled, rename() refuses.            *)
Raise ==
  /\ op # Idle /\ op.step # "placing"
  /\ Unwind
  /\ UNCHANGED <<tree, snaps, versions, report, request, history>>

(* save_version(): files.snapshot, then the row.                              *)
SaveFile ==
  /\ op.step \in {"before", "after"}
  /\ snaps' = snaps \cup {Digest}
  /\ op' = [op EXCEPT !.step = IF @ = "before" THEN "before_row" ELSE "after_row",
                      !.digest = Digest]
  /\ UNCHANGED <<tree, versions, report, request, history>>

SaveRow ==
  /\ op.step \in {"before_row", "after_row"}
  /\ versions' = versions \cup {op.digest}
  /\ \/ op.step = "before_row" /\ Goto(AfterSave[op.name])
     \/ op.step = "after_row" /\ op' = Idle
     \/ Unwind                                    \* committed, the answer lost
  /\ UNCHANGED <<tree, snaps, report, request, history>>

-----------------------------------------------------------------------------
(* agent.build(): write_file, patch_file and delete_file reach the editable   *)
(* files only; write_file creates the directories it needs.                   *)
Edited(c) == IF tree \in Content THEN [tree EXCEPT !.code = c] ELSE Empty

AgentEdits(c) ==
  /\ op.step = "editing"
  /\ tree' = Edited(c)
  /\ UNCHANGED <<snaps, versions, report, request, op, history>>

(* dependencies.propose(): the build pauses (ApprovalRequired), or goes on    *)
(* when the INSERT's answer or the checkpoint after it was lost.              *)
Propose(q) ==
  /\ op.step = "editing" /\ request[q].status = "none"
  /\ request' = [request EXCEPT ![q] = [status |-> "pending", digest |-> Digest]]
  /\ Goto("after") \/ UNCHANGED op
  /\ UNCHANGED <<tree, snaps, versions, report, history>>

AgentDone ==
  /\ op.step = "editing"
  /\ Goto("opening")
  /\ UNCHANGED <<tree, snaps, versions, report, request, history>>

-----------------------------------------------------------------------------
(* validation.run(): the digest, and last_validation=NULL.                    *)
Open ==
  /\ op.step = "opening"
  /\ report' = NoReport
  /\ verdict' = "running"
  /\ \/ op' = [op EXCEPT !.step = "checking", !.digest = Digest, !.left = Checks,
                         !.saw = {}, !.ok = FALSE, !.meddled = 0]
     \/ Unwind
  /\ UNCHANGED <<tree, snaps, versions, request, owed, vouched, released, replaced,
                 placed, begun>>

(* The next check passes on the tree as it is now; nothing builds without the *)
(* manifests.                                                                 *)
Check ==
  /\ op.step = "checking" /\ op.left > 0 /\ tree \in Content
  /\ op' = [op EXCEPT !.left = @ - 1, !.saw = @ \cup {tree}]
  /\ UNCHANGED <<tree, snaps, versions, report, request, history>>

(* 'Source changed during validation', or the status is `passed`.             *)
UnchangedSinceFault == TRUE
UnchangedSince      == Digest = op.digest

Compare ==
  /\ op.step = "checking" /\ op.left = 0
  /\ op' = [op EXCEPT !.step = "reporting", !.ok = UnchangedSince]
  /\ UNCHANGED <<tree, snaps, versions, report, request, history>>

(* The report, in `finally`.  After it a build ends, or lets the model look   *)
(* at the screenshots or repair what failed.                                  *)
AfterReport ==
  IF op.name = "build" THEN Goto("editing") \/ Goto("after") ELSE op' = Idle

Outcome == IF op.ok THEN "passed" ELSE "failed"

SawItAll == op.saw = {op.digest} \/ op.meddled > 1    \* edited there and back

Report ==
  /\ op.step = "reporting"
  /\ report' = [status |-> Outcome, digest |-> op.digest]
  /\ verdict' = Outcome
  /\ vouched' = IF op.ok /\ SawItAll THEN vouched \cup {op.digest} ELSE vouched
  /\ AfterReport
  /\ UNCHANGED <<tree, snaps, versions, request, owed, released, replaced, placed, begun>>

-----------------------------------------------------------------------------
(* restore(): the preview is stopped; files.restore reads the snapshot and    *)
(* writes it to a staging directory.                                          *)
Stage ==
  /\ op.step = "stopping"
  /\ op.arg \in snaps
  /\ op' = [op EXCEPT !.step = "moving", !.content = op.arg, !.meddled = 0]
  /\ UNCHANGED <<tree, snaps, versions, report, request, history>>

(* manifests(), image_tags(): apart from added packages they are the          *)
(* template's; a tree without them has no trusted image to run in.            *)
Trusted == tree \in Content

(* dependencies.apply(): the row is pending, the source is the reviewed one.  *)
ReviewedFault(q) == TRUE
Reviewed(q)      == request[q].digest = Digest

CompareFirst ==
  /\ op.step = "preparing"
  /\ request[op.arg].status = "pending" /\ Reviewed(op.arg)
  /\ op' = [op EXCEPT !.step = "listing", !.meddled = 0]
  /\ UNCHANGED <<tree, snaps, versions, report, request, history>>

(* The manifests are read, and are to list the request's packages too ...     *)
WithPackages(t, q) == [t EXCEPT !.packs = @ \cup {q}]

ListPackages ==
  /\ op.step = "listing" /\ Trusted
  /\ op' = [op EXCEPT !.step = "copying", !.content = WithPackages(tree, op.arg)]
  /\ UNCHANGED <<tree, snaps, versions, report, request, history>>

(* ... and files.export() reads the files that will go with them.             *)
CopyFiles ==
  /\ op.step = "copying"
  /\ op' = [op EXCEPT !.step = "comparing",
                      !.content = [tree EXCEPT !.packs = op.content.packs]]
  /\ UNCHANGED <<tree, snaps, versions, report, request, history>>

(* Minutes later, when the images are built, the source is still the reviewed *)
(* one; op.ok: it was not edited there and back since it was compared first.  *)
CompareAgain ==
  /\ op.step = "comparing" /\ Reviewed(op.arg)
  /\ op' = [op EXCEPT !.step = "moving", !.digest = Digest, !.meddled = 0,
                      !.ok = op.meddled < 2]
  /\ UNCHANGED <<tree, snaps, versions, report, request, history>>

(* files.restore(): source.rename(old), which raises where there is no        *)
(* source; op.digest keeps what `old` holds.                                  *)
MoveAway ==
  /\ op.step = "moving" /\ tree # Missing
  /\ tree' = Missing
  /\ op' = [op EXCEPT !.step = "placing", !.digest = tree]
  /\ UNCHANGED <<snaps, versions, report, request, history>>

(* staging.rename(source).                                                    *)
Place ==
  /\ op.step = "placing"
  /\ tree' = op.content
  /\ Goto(IF op.name = "restore" THEN "clearing" ELSE "recording")
  /\ replaced' = IF op.name = "approve" /\ op.meddled = 0
                 THEN [replaced EXCEPT ![op.arg] = op.digest] ELSE replaced
  /\ placed' = IF op.name = "approve" /\ op.ok
               THEN [placed EXCEPT ![op.arg] = op.content] ELSE placed
  /\ UNCHANGED <<snaps, versions, report, request, owed, verdict, vouched, released,
                 begun>>

PutBack ==
  /\ op.step = "placing"
  /\ tree' = op.digest
  /\ op' = Idle
  /\ UNCHANGED <<snaps, versions, report, request, history>>

(* restore(): last_validation=NULL.                                           *)
Clear ==
  /\ op.step = "clearing"
  /\ report' = NoReport
  /\ Goto("after") \/ op' = Idle
  /\ UNCHANGED <<tree, snaps, versions, request, history>>

(* apply()'s batch: the request and the project's row together.               *)
Record ==
  /\ op.step = "recording"
  /\ request' = [request EXCEPT ![op.arg].status = "applied"]
  /\ report' = NoReport
  /\ Goto("after") \/ op' = Idle
  /\ UNCHANGED <<tree, snaps, versions, history>>

(* reject_packages().                                                         *)
Reject(q) ==
  /\ op = Idle /\ request[q].status = "pending"
  /\ request' = [request EXCEPT ![q].status = "rejected"]
  /\ UNCHANGED <<tree, snaps, versions, report, op, history>>

-----------------------------------------------------------------------------
(* releases.bundle(): the gate, and later the export of the files.            *)
GateFault == report.status = "passed"
Gate      == report.status = "passed" /\ report.digest = Digest

PassGate ==
  /\ op.step = "digesting"
  /\ Digest = op.arg /\ Gate /\ Trusted
  /\ op' = [op EXCEPT !.step = "exporting", !.meddled = 0]
  /\ UNCHANGED <<tree, snaps, versions, report, request, history>>

Export ==
  /\ op.step = "exporting"
  /\ released' = IF op.meddled = 0 THEN released \cup {Digest} ELSE released
  /\ op' = Idle
  /\ UNCHANGED <<tree, snaps, versions, report, request, owed, verdict, vouched, replaced,
                 placed, begun>>

-----------------------------------------------------------------------------
(* A preview or a backup: ensure_layout() creates the directories.            *)
EnsureLayout ==
  /\ op = Idle /\ tree = Missing
  /\ tree' = Empty
  /\ UNCHANGED <<snaps, versions, report, request, op, history>>

(* Somebody edits the folder on disk, outside the builder.                    *)
Outside(t) ==
  /\ <<tree, t>> \in Edits /\ t # tree
  /\ tree' = t
  /\ owed' = owed \ {tree}
  /\ op' = IF op = Idle \/ op.meddled = 2 THEN op ELSE [op EXCEPT !.meddled = @ + 1]
  /\ UNCHANGED <<snaps, versions, report, request, verdict, vouched, released,
                 replaced, placed, begun>>

(* The process dies; a new one finds the disk and the rows as they are.       *)
Crash ==
  /\ op # Idle
  /\ op' = Idle
  /\ UNCHANGED <<tree, snaps, versions, report, request, history>>

-----------------------------------------------------------------------------
Next ==
  \/ \E name \in Names, arg \in Digests \cup Requests \cup {None} : Begin(name, arg)
  \/ SaveFile \/ SaveRow \/ Raise
  \/ (\E c \in Codes : AgentEdits(c)) \/ (\E t \in Content : Outside(t))
  \/ \E q \in Requests : Propose(q) \/ Reject(q)
  \/ AgentDone \/ Open \/ Check \/ Compare \/ Report
  \/ CompareFirst \/ ListPackages \/ CopyFiles \/ CompareAgain
  \/ Stage \/ MoveAway \/ Place \/ PutBack \/ Clear \/ Record
  \/ PassGate \/ Export \/ EnsureLayout \/ Crash

Spec == Init /\ [][Next]_vars

-----------------------------------------------------------------------------
(* Safety. *)

(* Every tree an operation found when it began is still there or is a version *)
(* with its snapshot on disk, whatever edits, swaps, failures and crashes     *)
(* followed (save_version before each change), unless somebody changed it on  *)
(* disk before it was saved.                                                  *)
WorkSaved == TypeOK /\ owed \subseteq (versions \cap snaps) \cup {Digest}

(* A report that says "passed" is the one of the last validation begun, and   *)
(* every one of its checks ran on exactly the tree whose digest it names,     *)
(* unless the folder was edited there and back while they ran.                *)
ReportVouches ==
  report.status = "passed" => verdict = "passed" /\ report.digest \in vouched

(* README "exports the exact validated source": a release holds a tree that   *)
(* every check of a passed validation ran on, unless the folder was edited    *)
(* during the export.                                                         *)
ReleasedWasValidated == released \subseteq vouched

(* README "the approval cannot silently apply to a different source version": *)
(* a request's packages are put only into the tree it was made for, unless    *)
(* the folder was edited after apply() compared it for the second time; and   *)
(* what is put in place is that tree with the packages and nothing else,      *)
(* unless the folder was edited there and back between the two comparisons.   *)
AppliedToReviewed ==
  \A q \in Requests :
    /\ replaced[q] # None => replaced[q] = request[q].digest
    /\ placed[q] # None => placed[q] = WithPackages(request[q].digest, q)
=============================================================================
