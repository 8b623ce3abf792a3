----------------------------- MODULE GithubSaves -----------------------------
(* Saving a project to GitHub (backend/app/github.py and publish() in         *)
(* main.py): once a validation has passed on it, the user reviews the local   *)
(* source against the remote branch, and                                      *)
(* publish() creates the repository or checks that neither side changed,      *)
(* commits on top of the reviewed head without force and records what it      *)
(* wrote.  Others push to the branch and edit the folder at any time, the     *)
(* answer of any request or UPDATE may be lost, and the process may die.      *)
EXTENDS Naturals, FiniteSets

CONSTANTS
  Paths,        \* files of the source and of the repository
  Values,       \* what a file may hold: what a blob hash tells apart
  Readme,       \* the file GitHub puts into a new repository
  AutoInit,     \* ... and what it holds
  MaxCommits,   \* bound on the commits of all repositories
  Absent, None

ASSUME GithubSavesAssumption ==
  /\ Readme \in Paths /\ AutoInit \notin Values /\ MaxCommits \in Nat \ {0}
  /\ Absent # None /\ {Absent, None} \cap (Values \cup {AutoInit}) = {}
  /\ None \notin 0..MaxCommits

VARIABLES
  local,        \* the source tree
  remote,       \* the branch: its head and the files of that commit
  row,          \* projects.repo and projects.sync_state
  report,       \* projects.last_validation: the source it passed on
  review,       \* the last review: the source of its digest and the branch's head
  op,           \* the publish() in progress
  \* history, for the properties only:
  commits,      \* how many commits there are
  foreign,      \* paths whose remote content is somebody else's
  pushed,       \* someone pushed since the row was last written
  mishap        \* an answer was lost or the process died since then

history == <<commits, foreign, pushed, mishap>>
vars == <<local, remote, row, report, review, op, history>>

-----------------------------------------------------------------------------
Files   == [Paths -> Values \cup {AutoInit, Absent}]
Nowhere == [p \in Paths |-> Absent]
Heads   == (0..MaxCommits) \cup {None}
Idle    == [step |-> "idle", expected |-> None, content |-> Nowhere,
            head |-> None, base |-> None, prior |-> {}, seen |-> Nowhere]

TypeOK ==
  /\ local \in Files
  /\ remote \in [head : Heads, files : Files]
  /\ row \in [repo : BOOLEAN, head : Heads, files : Files]
  /\ row.repo => row.head # None
  /\ report = None \/ report \in Files
  /\ review = None \/ review \in [head : Heads, content : Files]
  /\ op.step \in {"idle", "creating", "greeting", "exporting", "reading", "writing",
                  "noting"}
  /\ op.expected = None \/ op.expected \in Files
  /\ op.content \in Files /\ op.seen \in Files /\ op.prior \subseteq Paths
  /\ op.head \in Heads /\ op.base \in Heads
  /\ commits \in 0..MaxCommits /\ foreign \subseteq Paths
  /\ pushed \in BOOLEAN /\ mishap \in BOOLEAN

Init ==
  /\ local \in [Paths -> Values \cup {Absent}]
  /\ remote = [head |-> None, files |-> Nowhere]
  /\ row = [repo |-> FALSE, head |-> None, files |-> Nowhere]
  /\ report = None /\ review = None /\ op = Idle
  /\ commits = 0 /\ foreign = {} /\ pushed = FALSE /\ mishap = FALSE

-----------------------------------------------------------------------------
(* A definition named *Fault is no part of the specification: it is what a    *)
(* slip in the code would make of its namesake, and breaks a property at the  *)
(* end of the module.                                                         *)

(* require_validated(): the last validation passed on this very source.       *)
Validated == report = local

(* validation.run() passes, or it does not and leaves no report that vouches. *)
Validate ==
  /\ op = Idle
  /\ report' \in {local, None}
  /\ UNCHANGED <<local, remote, row, review, op, history>>

(* review_github(), which takes no lock: the user reads its diff and sends    *)
(* back the digest and the head.                                              *)
Review ==
  /\ Validated
  /\ review' = [head |-> IF row.repo THEN remote.head ELSE None, content |-> local]
  /\ UNCHANGED <<local, remote, row, report, op, history>>

(* publish(), under the project's lock, with the body of the last review.     *)
Begin ==
  /\ op = Idle /\ review # None /\ Validated
  /\ op' = [Idle EXCEPT !.step = IF row.repo THEN "exporting" ELSE "creating",
                        !.expected = review.content, !.head = review.head, !.base = row.head,
                        !.prior = {p \in Paths : row.files[p] # Absent}]
  /\ UNCHANGED <<local, remote, row, report, review, history>>

NewCommit == commits < MaxCommits /\ commits' = commits + 1

(* create_private(): a repository of a fresh name with GitHub's README.  The  *)
(* one an earlier attempt left behind is not used again.                      *)
CreatePrivate ==
  /\ op.step = "creating"
  /\ NewCommit
  /\ remote' = [head |-> commits', files |-> [Nowhere EXCEPT ![Readme] = AutoInit]]
  /\ foreign' = {} /\ pushed' = FALSE
  /\ op' \in {[op EXCEPT !.step = "greeting"], Idle}          \* its answer may be lost
  /\ UNCHANGED <<local, row, report, review, mishap>>

(* publish() reads the new branch: what collides with the source is taken for *)
(* GitHub's placeholder and may be replaced, the rest is somebody else's.     *)
Colliding == {p \in Paths : remote.files[p] # Absent /\ local[p] # Absent}

FirstRead ==
  /\ op.step = "greeting"
  /\ op' = [op EXCEPT !.step = "exporting", !.head = remote.head, !.base = remote.head,
                      !.prior = Colliding]
  /\ foreign' = {p \in Paths : remote.files[p] # Absent} \ Colliding
  /\ UNCHANGED <<local, remote, row, report, review, commits, pushed, mishap>>

(* save(): the local source is the reviewed one.                              *)
AsReviewedFault == TRUE
AsReviewed      == local = op.expected

Export ==
  /\ op.step = "exporting" /\ AsReviewed
  /\ op' = [op EXCEPT !.step = "reading", !.content = local]
  /\ UNCHANGED <<local, remote, row, report, review, history>>

(* ... the remote is the reviewed one and the one last saved, and no file     *)
(* that was never managed would be overwritten.                               *)
HeadsAgree == remote.head = op.head /\ remote.head = op.base

UnmanagedKept ==
  \A p \in Paths :
    op.content[p] # Absent /\ remote.files[p] # Absent /\ p \notin op.prior
      => remote.files[p] = op.content[p]

ReadRemote ==
  /\ op.step = "reading" /\ HeadsAgree /\ UnmanagedKept
  /\ op' = [op EXCEPT !.step = "writing", !.head = remote.head, !.seen = remote.files]
  /\ UNCHANGED <<local, remote, row, report, review, history>>

(* The tree: the source, minus what was managed and is gone locally, over     *)
(* what the head has.                                                         *)
Overlaid ==
  [p \in Paths |-> IF op.content[p] # Absent THEN op.content[p]
                   ELSE IF p \in op.prior THEN Absent ELSE op.seen[p]]
NothingToSave == Overlaid = op.seen

(* PATCH with force false moves the branch only forward; its answer may be    *)
(* lost.                                                                      *)
ForwardFault == TRUE                            \* force: true
Forward      == remote.head = op.head

Patch ==
  /\ op.step = "writing" /\ ~NothingToSave /\ Forward
  /\ NewCommit
  /\ remote' = [head |-> commits', files |-> Overlaid]
  /\ \/ op' = [op EXCEPT !.step = "noting", !.head = commits'] /\ UNCHANGED mishap
     \/ op' = Idle /\ mishap' = TRUE
  /\ UNCHANGED <<local, row, report, review, foreign, pushed>>

SkipPatch ==
  /\ op.step = "writing" /\ NothingToSave
  /\ op' = [op EXCEPT !.step = "noting"]
  /\ UNCHANGED <<local, remote, row, report, review, history>>

(* UPDATE projects SET repo, sync_state.  What somebody else put there and    *)
(* the source holds as well is managed from now on.                           *)
NotedFault == [repo |-> TRUE, head |-> op.head, files |-> op.seen]
Noted      == [repo |-> TRUE, head |-> op.head, files |-> op.content]

Note ==
  /\ op.step = "noting"
  /\ row' = Noted
  /\ pushed' = (remote.head # op.head)
  /\ foreign' = {p \in foreign : remote.files[p] # op.content[p]}
  /\ op' = Idle /\ mishap' = FALSE
  /\ UNCHANGED <<local, remote, report, review, commits>>

(* The UPDATE was lost, any other request or check raised, or the process     *)
(* died.                                                                      *)
Raise ==
  /\ op # Idle
  /\ op' = Idle
  /\ mishap' = (mishap \/ op.step = "noting")
  /\ UNCHANGED <<local, remote, row, report, review, commits, foreign, pushed>>

-----------------------------------------------------------------------------
(* Somebody else changes one file of the branch.                              *)
Push(p, v) ==
  /\ remote.head # None /\ remote.files[p] # v
  /\ NewCommit
  /\ remote' = [head |-> commits', files |-> [remote.files EXCEPT ![p] = v]]
  /\ foreign' = foreign \cup {p} /\ pushed' = TRUE
  /\ UNCHANGED <<local, row, report, review, op, mishap>>

(* A build, a restore or an applied plan changes one file of the source; like *)
(* publish(), each of them holds the project's lock.                          *)
Edit(p, v) ==
  /\ op = Idle
  /\ local' = [local EXCEPT ![p] = v]
  /\ UNCHANGED <<remote, row, report, review, op, history>>

Next ==
  \/ Validate \/ Review \/ Begin \/ CreatePrivate \/ FirstRead \/ Export \/ ReadRemote
  \/ Patch \/ SkipPatch \/ Note \/ Raise
  \/ \E p \in Paths, v \in Values \cup {Absent} : Push(p, v) \/ Edit(p, v)

Spec == Init /\ [][Next]_vars

-----------------------------------------------------------------------------
(* Action property, README "preserves files it never managed, and refuses to  *)
(* write if GitHub changed since the last save or after the review": a save   *)
(* never changes a file that somebody else put there or changed, across       *)
(* retries after lost answers and crashes, once the builder has read the new  *)
(* repository for the first time.                                             *)
ForeignKept ==
  [][Patch => \A p \in foreign : remote'.files[p] = remote.files[p]]_vars

(* Action property: what a save commits is the source of the digest that the  *)
(* review returned, on top of the head it returned, whatever builds and other *)
(* committers did between review and commit; and a validation passed on it.   *)
SavedAsReviewed ==
  [][Patch => /\ \A p \in Paths : op.expected[p] # Absent
                    => remote'.files[p] = op.expected[p]
              /\ remote.head = op.head /\ report = op.content]_vars

(* The recorded baseline tells the truth: while the branch is where the last  *)
(* save left it, it holds exactly the recorded source and what others put     *)
(* there; and it is elsewhere, so that every save is refused, only if         *)
(* somebody pushed since or the answer of a save was lost.                    *)
BaselineTrue ==
  /\ TypeOK
  /\ row.repo =>
       /\ remote.head = row.head =>
            \A p \in Paths \ foreign : remote.files[p] = row.files[p]
       /\ op = Idle /\ remote.head # row.head => pushed \/ mishap
=============================================================================
