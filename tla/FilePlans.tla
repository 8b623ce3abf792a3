------------------------------ MODULE FilePlans ------------------------------
(* File automation (backend/app/automations.py): plans of mkdir, move and     *)
(* trash operations on the one managed folder, validated, previewed, applied  *)
(* and undone.  apply() and undo() hold one global lock; create_plan() does   *)
(* not take it.  The user changes the folder at any time, any UPDATE may be   *)
(* lost before or after its commit, and the process may die between two       *)
(* renames.  A check and the rename it guards are one step.                   *)
EXTENDS Naturals, FiniteSets, SequencesExt

CONSTANTS
  Plans,        \* file_plans ids
  ProjectOf,    \* the project each plan belongs to
  Paths,        \* visible relative paths inside the managed folder
  Parent,       \* the directory of each path
  Root,         \* the managed folder itself
  Contents,     \* file identities: what (size, mtime) tell apart in a digest
  FirstTree,    \* the folder at the start
  MaxOps,       \* operations in a plan (MAX_OPERATIONS = 100)
  MaxUser,      \* bound on the user's own changes
  MaxCrashes,   \* bound on process deaths
  Dir, Nothing, None

ASSUME FilePlansAssumption ==
  /\ Root \notin Paths /\ Parent \in [Paths -> Paths \cup {Root}]
  /\ \A p \in Paths : Parent[p] # Root => Parent[Parent[p]] = Root
  /\ {Dir, Nothing, None} \cap (Contents \cup Paths \cup Plans) = {} /\ Dir # Nothing
  /\ FirstTree \in [Paths -> Contents \cup {Dir, Nothing}]
  /\ \A p \in Paths : FirstTree[p] # Nothing /\ Parent[p] # Root => FirstTree[Parent[p]] = Dir
  /\ \A p, q \in Paths : FirstTree[p] = FirstTree[q] /\ FirstTree[p] \in Contents => p = q
  /\ MaxOps \in Nat /\ MaxUser \in Nat /\ MaxCrashes \in Nat

VARIABLES
  tree,         \* what is at each visible path
  litter,       \* directories that hold a hidden file
  trash,        \* .foundry-trash/<plan>/<path>
  plan,         \* the file_plans rows
  draft,        \* operations validated by create_plan, row not yet inserted
  job,          \* the apply or undo in progress, under `lock`
  \* history, for the properties only:
  unused,       \* file identities nobody has created yet
  gone,         \* files the user deleted
  victim,       \* the plan whose rename replaced a file
  touched,      \* whether others changed the folder under a plan's feet
  mishap,       \* plans hit by a crash or a lost answer
  users, crashes

vars == <<tree, litter, trash, plan, draft, job, unused, gone, victim, touched,
          mishap, users, crashes>>
history == <<unused, gone, victim, mishap, users, crashes>>

-----------------------------------------------------------------------------
(* Operations.  `from` and `to` are paths, None where there is none.          *)
Operation == [op : {"mkdir", "rmdir", "move", "trash", "trash_restore"},
              from : Paths \cup {None}, to : Paths \cup {None}]

Mkdir(p)   == [op |-> "mkdir", from |-> None, to |-> p]
Move(p, q) == [op |-> "move", from |-> p, to |-> q]
Trash(p)   == [op |-> "trash", from |-> p, to |-> None]

Proposals == {Mkdir(p) : p \in Paths} \cup {Trash(p) : p \in Paths}
             \cup {Move(p, q) : p \in Paths, q \in Paths}

(* A definition named *Fault is no part of the specification: it is what a    *)
(* slip in automations.py would make of its namesake, and breaks a property   *)
(* at the end of the module.                                                  *)

(* The entry apply() appends to `undo`, and undo() to `completed`.            *)
Opposite == [mkdir |-> "rmdir", rmdir |-> "mkdir", move |-> "move",
             trash |-> "trash_restore", trash_restore |-> "trash"]
Converse(a) == [op |-> Opposite[a.op], from |-> a.to, to |-> a.from]

IsFile(p) == p \in Paths /\ tree[p] \in Contents
IsDir(p)  == p = Root \/ (p \in Paths /\ tree[p] = Dir)
Exists(p) == tree[p] # Nothing
IsEmpty(d) == d \notin litter /\ \A p \in Paths : Parent[p] = d => ~Exists(p)

(* inventory() and workspace_digest(): visible files only; neither empty      *)
(* directories nor hidden files are seen.                                     *)
Visible(t) == {<<p, t[p]>> : p \in {q \in Paths : t[q] \in Contents}}

(* validate_operations(): each operation against the folder as it is and the  *)
(* operations before it.                                                      *)
Valid(ops) ==
  \A i \in 1..Len(ops) :
    LET a == ops[i]
        earlier == {ops[j] : j \in 1..(i - 1)}
        made    == {b.to : b \in {c \in earlier : c.op = "mkdir"}}
        filled  == {b.to : b \in {c \in earlier : c.op = "move"}}
        used    == {b.from : b \in earlier} \ {None}
        roomy(p) == (IsDir(Parent[p]) \/ Parent[p] \in made)
                    /\ ~Exists(p) /\ p \notin filled
    IN  /\ a.op = "mkdir" => roomy(a.to) /\ a.to \notin made
        /\ a.op # "mkdir" => IsFile(a.from) /\ a.from \notin used
        /\ a.op = "move"  => roomy(a.to)

Proposable == {ops \in UNION {[1..n -> Proposals] : n \in 1..MaxOps} : Valid(ops)}

-----------------------------------------------------------------------------
Idle == [mode |-> "idle", plan |-> None, todo |-> <<>>, done |-> <<>>]
NoPlan == [status |-> "none", ops |-> <<>>, digest |-> {}, undo |-> <<>>, post |-> {}]

Row  == [status : {"none", "planned", "applied", "undone"}, ops : Seq(Operation),
         digest : SUBSET (Paths \X Contents), undo : Seq(Operation),
         post : SUBSET (Paths \X Contents)]
Job  == [mode : {"idle", "applying", "rolling_back", "undoing", "redoing"},
         plan : Plans \cup {None}, todo : Seq(Operation), done : Seq(Operation)]

TypeOK ==
  /\ tree \in [Paths -> Contents \cup {Dir, Nothing}]
  /\ litter \subseteq Paths
  /\ trash \in [Plans -> [Paths -> Contents \cup {Nothing}]]
  /\ plan \in [Plans -> Row] /\ draft \in [Plans -> Seq(Operation)]
  /\ job \in Job
  /\ unused \subseteq Contents /\ gone \subseteq Contents
  /\ victim \in [Contents -> Plans \cup {None}]
  /\ touched \in [Plans -> {"no", "unseen", "yes"}]
  /\ mishap \subseteq Plans /\ users \in 0..MaxUser /\ crashes \in 0..MaxCrashes

Init ==
  /\ tree = FirstTree
  /\ litter = {}
  /\ trash = [pl \in Plans |-> [p \in Paths |-> Nothing]]
  /\ plan = [pl \in Plans |-> NoPlan]
  /\ draft = [pl \in Plans |-> <<>>]
  /\ job = Idle
  /\ unused = {c \in Contents : \A p \in Paths : FirstTree[p] # c}
  /\ gone = {}
  /\ victim = [c \in Contents |-> None]
  /\ touched = [pl \in Plans |-> "no"]
  /\ mishap = {}
  /\ users = 0 /\ crashes = 0

(* History: `actor` (a plan, or None for the user) changes the folder.  A     *)
(* plan being drafted or carried out is disturbed; any other plan only if its *)
(* digest does not notice.                                                    *)
Disturb(actor) ==
  touched' = [q \in Plans |->
    IF q = actor THEN touched[q]
    ELSE IF draft[q] # <<>> \/ job.plan = q THEN "yes"
    ELSE IF touched[q] = "no" THEN "unseen" ELSE touched[q]]

-----------------------------------------------------------------------------
(* create_plan(): the folder is read by validate_operations, and again, later *)
(* and without the lock, for the digest stored with the row.  A project does  *)
(* one thing at a time (the launcher's lock); other projects do not wait.     *)
ProjectBusy(pl) ==
  \E q \in Plans \ {pl} : ProjectOf[q] = ProjectOf[pl] /\ (draft[q] # <<>> \/ job.plan = q)

Validate(pl, ops) ==
  /\ plan[pl].status = "none" /\ draft[pl] = <<>> /\ ~ProjectBusy(pl)
  /\ ops \in Proposable
  /\ draft' = [draft EXCEPT ![pl] = ops]
  /\ touched' = [touched EXCEPT ![pl] = "no"]
  /\ UNCHANGED <<tree, litter, trash, plan, job, history>>

CreatePlan(pl) ==
  /\ draft[pl] # <<>>
  /\ draft' = [draft EXCEPT ![pl] = <<>>]
  /\ plan' = [plan EXCEPT ![pl] = [NoPlan EXCEPT !.status = "planned",
                                                 !.ops = draft[pl],
                                                 !.digest = Visible(tree)]]
  /\ UNCHANGED <<tree, litter, trash, job, touched, history>>

-----------------------------------------------------------------------------
(* One rename, mkdir or rmdir of the job's plan, whatever led to it.  The     *)
(* parent of a path put back is created first (mkdir parents=True).           *)
WithParent(p) ==
  IF p # None /\ Parent[p] # Root /\ tree[Parent[p]] = Nothing
  THEN [tree EXCEPT ![Parent[p]] = Dir] ELSE tree

Replaces(a, c) ==
  \/ a.op = "move" /\ tree[a.to] = c
  \/ a.op = "trash" /\ trash[job.plan][a.from] = c

Do(a) ==
  /\ tree' = CASE a.op = "mkdir" -> [tree EXCEPT ![a.to] = Dir]
               [] a.op = "rmdir" -> [tree EXCEPT ![a.from] = Nothing]
               [] a.op = "move"  -> [WithParent(a.to) EXCEPT ![a.to] = tree[a.from],
                                                             ![a.from] = Nothing]
               [] a.op = "trash" -> [tree EXCEPT ![a.from] = Nothing]
               [] a.op = "trash_restore" ->
                    [WithParent(a.to) EXCEPT ![a.to] = trash[job.plan][a.to]]
  /\ trash' = CASE a.op = "trash" -> [trash EXCEPT ![job.plan][a.from] = tree[a.from]]
                [] a.op = "trash_restore" -> [trash EXCEPT ![job.plan][a.to] = Nothing]
                [] OTHER -> trash
  /\ victim' = [c \in Contents |-> IF Replaces(a, c) THEN job.plan ELSE victim[c]]
  /\ Disturb(job.plan)
  /\ UNCHANGED <<litter, plan, draft, unused, gone, mishap, users, crashes>>

Stay == UNCHANGED <<tree, litter, trash, plan, draft, touched, history>>

(* What each call raises on.  In apply(), a rename replaces a file that is at *)
(* its destination.  undo() looks first.                                      *)
Applies(a) ==
  CASE a.op = "mkdir" -> ~Exists(a.to) /\ IsDir(Parent[a.to])
    [] a.op = "move"  -> IsFile(a.from) /\ IsDir(Parent[a.to]) /\ tree[a.to] # Dir
    [] a.op = "trash" -> IsFile(a.from)

ReversesFault(a) ==                             \* reverse() for every entry
  CASE a.op = "rmdir" -> IsDir(a.from) /\ IsEmpty(a.from)
    [] a.op = "move"  -> IsFile(a.from) /\ ~Exists(a.to)
    [] OTHER -> FALSE
Reverses(a) ==
  CASE a.op = "rmdir" -> IsDir(a.from) /\ IsEmpty(a.from)
    [] a.op = "move"  -> IsFile(a.from) /\ ~Exists(a.to)
    [] a.op = "trash_restore" -> trash[job.plan][a.to] # Nothing /\ ~Exists(a.to)

ParentIsFile(a) == a.to # None /\ IsFile(Parent[a.to])
Undoes(a) == Reverses(a) /\ ~ParentIsFile(a)

(* Putting a failed undo() back: existence is looked at, errors are passed.   *)
Redoes(a) ==
  CASE a.op = "mkdir" -> ~Exists(a.to) /\ IsDir(Parent[a.to])
    [] a.op = "move"  -> Exists(a.from) /\ ~Exists(a.to) /\ IsDir(Parent[a.to])
    [] a.op = "trash" -> Exists(a.from) /\ trash[job.plan][a.from] = Nothing

(* workspace_digest() against the stored one.                                 *)
AsPreviewedFault(pl) == TRUE
AsPreviewed(pl)      == Visible(tree) = plan[pl].digest
AsAppliedFault(pl)   == TRUE
AsApplied(pl)        == Visible(tree) = plan[pl].post

UndoOrder(pl) == Reverse(plan[pl].undo)

(* apply(): status, then digest, under the lock.                              *)
BeginApply(pl) ==
  /\ job = Idle /\ ~ProjectBusy(pl)
  /\ plan[pl].status = "planned" /\ AsPreviewed(pl)
  /\ job' = [mode |-> "applying", plan |-> pl, todo |-> plan[pl].ops, done |-> <<>>]
  /\ Stay

BeginUndo(pl) ==
  /\ job = Idle /\ ~ProjectBusy(pl)
  /\ plan[pl].status = "applied" /\ AsApplied(pl)
  /\ job' = [mode |-> "undoing", plan |-> pl, todo |-> UndoOrder(pl), done |-> <<>>]
  /\ Stay

Advance(mode, can(_)) ==
  /\ job.mode = mode /\ job.todo # <<>>
  /\ can(Head(job.todo))
  /\ Do(Head(job.todo))
  /\ job' = [job EXCEPT !.todo = Tail(@), !.done = Append(@, Converse(Head(job.todo)))]

ApplyStep == Advance("applying", Applies)
UndoStep  == Advance("undoing", Undoes)

(* A step raises: what was done is put back in reverse order.                 *)
Back == [applying |-> "rolling_back", undoing |-> "redoing"]
TurnBackFault ==                                \* all but the first
  job' = [job EXCEPT !.mode = Back[@], !.done = <<>>,
                     !.todo = Reverse(SubSeq(job.done, 2, Len(job.done)))]
TurnBack ==
  job' = [job EXCEPT !.mode = Back[@], !.done = <<>>, !.todo = Reverse(job.done)]

ApplyRaises ==
  /\ job.mode = "applying" /\ job.todo # <<>> /\ ~Applies(Head(job.todo))
  /\ TurnBack /\ Stay
UndoRaises ==
  /\ job.mode = "undoing" /\ job.todo # <<>> /\ ~Undoes(Head(job.todo))
  /\ TurnBack /\ Stay

(* Every operation is done: the row is updated.                               *)
Recorded ==
  plan' = [plan EXCEPT ![job.plan] =
    IF job.mode = "applying"
    THEN [@ EXCEPT !.status = "applied", !.undo = job.done, !.post = Visible(tree)]
    ELSE [@ EXCEPT !.status = "undone"]]

Finish ==
  /\ job.mode \in {"applying", "undoing"} /\ job.todo = <<>>
  /\ Recorded
  /\ job' = Idle
  /\ UNCHANGED <<tree, litter, trash, draft, touched, history>>

(* The UPDATE raises, committed or not; the files are put back either way.    *)
AnswerLost ==
  /\ job.mode \in {"applying", "undoing"} /\ job.todo = <<>>
  /\ Recorded \/ UNCHANGED plan
  /\ TurnBack
  /\ mishap' = mishap \cup {job.plan}
  /\ UNCHANGED <<tree, litter, trash, draft, touched, unused, gone, victim, users, crashes>>

(* The except clauses of apply() and undo(): an entry that no longer fits is  *)
(* passed over.                                                               *)
PutBack(mode, can(_)) ==
  /\ job.mode = mode /\ job.todo # <<>>
  /\ job' = [job EXCEPT !.todo = Tail(@)]
  /\ IF can(Head(job.todo)) THEN Do(Head(job.todo)) ELSE Stay

RollBackStep ==
  PutBack("rolling_back", Reverses) /\ ~(Reverses(Head(job.todo)) /\ ParentIsFile(Head(job.todo)))
RedoStep     == PutBack("redoing", Redoes)

(* A file where apply()'s rollback needs a directory: mkdir raises out of the *)
(* except clause and the rest is not put back.                                *)
RollBackRaises ==
  /\ job.mode = "rolling_back" /\ job.todo # <<>>
  /\ Reverses(Head(job.todo)) /\ ParentIsFile(Head(job.todo))
  /\ job' = Idle
  /\ Stay

GiveUp ==
  /\ job.mode \in {"rolling_back", "redoing"} /\ job.todo = <<>>
  /\ job' = Idle
  /\ Stay

-----------------------------------------------------------------------------
(* The process dies: the lock, the job and what was being drafted go with it. *)
Crash ==
  /\ crashes < MaxCrashes
  /\ crashes' = crashes + 1
  /\ job' = Idle
  /\ draft' = [pl \in Plans |-> <<>>]
  /\ mishap' = mishap \cup ({job.plan} \ {None})
  /\ UNCHANGED <<tree, litter, trash, plan, touched, unused, gone, victim, users>>

(* The user, in a file manager.                                               *)
UserStep ==
  /\ users < MaxUser
  /\ users' = users + 1
  /\ Disturb(None)
  /\ UNCHANGED <<trash, plan, draft, job, victim, mishap, crashes>>

UserCreates(p, c) ==
  /\ c \in unused /\ ~Exists(p) /\ IsDir(Parent[p])
  /\ tree' = [tree EXCEPT ![p] = c]
  /\ unused' = unused \ {c}
  /\ UserStep /\ UNCHANGED <<litter, gone>>

UserDeletes(p) ==
  /\ IsFile(p)
  /\ tree' = [tree EXCEPT ![p] = Nothing]
  /\ gone' = gone \cup {tree[p]}
  /\ UserStep /\ UNCHANGED <<litter, unused>>

UserRenames(p, q) ==
  /\ IsFile(p) /\ ~Exists(q) /\ IsDir(Parent[q])
  /\ tree' = [tree EXCEPT ![q] = tree[p], ![p] = Nothing]
  /\ UserStep /\ UNCHANGED <<litter, unused, gone>>

UserRemovesDir(p) ==
  /\ IsDir(p) /\ IsEmpty(p)
  /\ tree' = [tree EXCEPT ![p] = Nothing]
  /\ UserStep /\ UNCHANGED <<litter, unused, gone>>

(* A hidden file appears, such as the one a file manager leaves in a folder.  *)
UserLitters(p) ==
  /\ IsDir(p) /\ p \notin litter
  /\ litter' = litter \cup {p}
  /\ UserStep /\ UNCHANGED <<tree, unused, gone>>

User == \E p \in Paths :
  \/ \E c \in Contents : UserCreates(p, c)
  \/ \E q \in Paths : UserRenames(p, q)
  \/ UserDeletes(p) \/ UserRemovesDir(p) \/ UserLitters(p)

-----------------------------------------------------------------------------
JobStep ==
  \/ ApplyStep \/ ApplyRaises \/ UndoStep \/ UndoRaises
  \/ Finish \/ AnswerLost \/ RollBackStep \/ RedoStep
  \/ RollBackRaises \/ GiveUp

Next ==
  \/ \E pl \in Plans :
       \/ \E ops \in Proposable : Validate(pl, ops)
       \/ CreatePlan(pl) \/ BeginApply(pl) \/ BeginUndo(pl)
  \/ JobStep \/ User \/ Crash

Spec == Init /\ [][Next]_vars

-----------------------------------------------------------------------------
(* Safety. *)

Undisturbed(pl) == touched[pl] # "yes"

(* Every file ever in the folder is still there or in a plan's trash, unless  *)
(* the user deleted it or a plan's rename replaced it; and a rename replaces  *)
(* a file only if someone else changed the folder between the plan's          *)
(* validation and its digest, or while it was carried out.  Holds across      *)
(* crashes, lost answers, rollbacks and undo.                                 *)
NothingLost ==
  \A c \in Contents \ (unused \cup gone) :
    \/ \E p \in Paths : tree[p] = c \/ \E pl \in Plans : trash[pl][p] = c
    \/ victim[c] # None /\ ~Undisturbed(victim[c])

(* Action property: the row turns "undone" only when the visible files are    *)
(* again the ones the user was shown before apply.                            *)
UndoRestores ==
  [][\A pl \in Plans :
       plan[pl].status = "applied" /\ plan'[pl].status = "undone" /\ Undisturbed(pl)
         => Visible(tree) = plan[pl].digest]_vars

(* Action property: an apply or undo that failed at any step, or whose UPDATE *)
(* raised, leaves the visible files exactly as it found them.                 *)
AllOrNothing ==
  [][GiveUp /\ Undisturbed(job.plan) =>
       Visible(tree) = IF job.mode = "rolling_back" THEN plan[job.plan].digest
                                                    ELSE plan[job.plan].post]_vars

(* "Recoverable trash" (README): what lies in a plan's trash while nothing is *)
(* in progress can be undone, unless the process died or an answer was lost   *)
(* on that plan.                                                              *)
TrashRecoverable ==
  job = Idle =>
    \A pl \in Plans :
      (\E p \in Paths : trash[pl][p] # Nothing) =>
        plan[pl].status = "applied" \/ pl \in mishap \/ ~Undisturbed(pl)

(* The state of the folder, the trash and the plans, all together.            *)
FilesSafe == TypeOK /\ NothingLost /\ TrashRecoverable

(* Action property: an undo that passed its digest check fails only because   *)
(* of a change the digest does not see, or after a crash or a lost answer.    *)
UndoRefusalExplained ==
  [][UndoRaises => touched[job.plan] # "no" \/ job.plan \in mishap]_vars

(* README "The file agent ... rejects symlinks and collisions, and verifies a *)
(* whole-workspace digest before apply or undo": no file is ever replaced.    *)
NoCollision == \A c \in Contents : victim[c] = None
=============================================================================
