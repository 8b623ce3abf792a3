-------------------------- MODULE PublishingProofs --------------------------
(* Proofs about what leaves the builder for good: saves to GitHub, for any    *)
(* source and number of commits (first half), and native builds, for any      *)
(* number of builds, sources, downloads, crashes and damaged files (second    *)
(* half).                                                                     *)
EXTENDS GithubSaves, NativeBuilds, TLAPS

-----------------------------------------------------------------------------
(* The saves.                                                                 *)
Ops == [step : {"idle", "creating", "greeting", "exporting", "reading", "writing", "noting"},
        expected : Files \cup {None}, content : Files, head : Heads, base : Heads,
        prior : SUBSET Paths, seen : Files]

Saving == op.step \in {"exporting", "reading", "writing"}

(* Every head that anything remembers is that of a commit made before.        *)
Known(h) == h = None \/ h \in 0..commits
HeadsKnown ==
  /\ Known(remote.head) /\ Known(row.head) /\ Known(op.head) /\ Known(op.base)
  /\ review # None => Known(review.head)

(* What the step of publish() says of the heads it holds.                     *)
StepHeads ==
  /\ op.step \in {"creating", "greeting"} => ~row.repo
  /\ op.step = "greeting" => remote.head # None
  /\ Saving => op.base # None
  /\ op.step = "writing" => op.head = op.base
  /\ op.step = "noting" => op.head # None

(* The lock: a source that was validated and reviewed stays what it was.      *)
SourceHeld ==
  /\ op.step # "idle" => report = local
  /\ op.step \in {"reading", "writing", "noting"}
       => op.content = local /\ op.content = op.expected

(* While the branch is where publish() found it, what others put there is     *)
(* what the branch holds and the builder does not manage.                     *)
Told(prior) ==
  \A p \in Paths : p \in foreign <=> p \notin prior /\ remote.files[p] # Absent
PriorTold == Saving /\ remote.head = op.base => Told(op.prior)

SeenTrue ==
  op.step = "writing" /\ remote.head = op.base => op.seen = remote.files /\ UnmanagedKept

(* The branch holds the source c and, where c has no file, what others put    *)
(* there.                                                                     *)
Holds(c) ==
  \A p \in Paths : IF p \in foreign
                   THEN remote.files[p] # Absent /\ c[p] \in {Absent, remote.files[p]}
                   ELSE remote.files[p] = c[p]
Written  == op.step = "noting" /\ remote.head = op.head => Holds(op.content)
Recorded ==
  row.repo /\ remote.head = row.head
    => Holds(row.files) /\ \A p \in foreign : row.files[p] = Absent

Explained ==
  op.step # "noting" /\ row.repo /\ remote.head # row.head => pushed \/ mishap

IInv ==
  /\ TypeOK /\ op \in Ops
  /\ HeadsKnown /\ StepHeads /\ SourceHeld
  /\ PriorTold /\ SeenTrue /\ Written /\ Recorded /\ Explained

-----------------------------------------------------------------------------
(* The fields of what publish() remembers.                                    *)
LEMMA OpFields ==
  ASSUME NEW o \in Ops
  PROVE  /\ o.content \in Files /\ o.seen \in Files /\ o.prior \subseteq Paths
         /\ o.head \in Heads /\ o.base \in Heads /\ (o.expected = None \/ o.expected \in Files)
         /\ o.step \in {"idle", "creating", "greeting", "exporting", "reading", "writing",
                        "noting"}
BY DEF Ops

LEMMA InitSound == Init => IInv
<1> SUFFICES ASSUME Init PROVE IInv
    OBVIOUS
<1> USE GithubSavesAssumption
<1>1. Nowhere \in Files /\ local \in Files
    BY DEF Init, Nowhere, Files
<1>2. Idle \in Ops
    BY <1>1 DEF Idle, Ops, Heads
<1>3. /\ None \in Heads /\ [head |-> None, files |-> Nowhere] \in [head : Heads, files : Files]
      /\ [repo |-> FALSE, head |-> None, files |-> Nowhere]
           \in [repo : BOOLEAN, head : Heads, files : Files]
    BY <1>1 DEF Heads
<1>4. TypeOK
  <2>1. op \in Ops /\ commits \in 0..MaxCommits
      BY <1>2 DEF Init
  <2> QED
      BY <1>1, <1>3, <2>1, OpFields DEF Init, TypeOK
<1> QED
    BY <1>2, <1>4 DEF Init, IInv, HeadsKnown, Known, StepHeads, SourceHeld, PriorTold, SeenTrue,
       Written, Recorded, Explained, Saving, Idle

(* What a step needs of the types of the step before.                         *)
LEMMA Typed ==
  ASSUME TypeOK
  PROVE  /\ local \in Files /\ remote.head \in Heads /\ remote.files \in Files
         /\ row.head \in Heads /\ row.files \in Files /\ row.repo \in BOOLEAN
         /\ commits \in 0..MaxCommits /\ foreign \subseteq Paths
         /\ review # None => review.head \in Heads /\ review.content \in Files
BY DEF TypeOK

(* The steps of publish() change fields of op.                                *)
LEMMA IdleTyped == Idle \in Ops /\ Idle.step = "idle"
<1>1. Nowhere \in Files
    BY DEF Nowhere, Files
<1> QED
    BY <1>1 DEF Idle, Ops, Heads

(* A new commit has a head that nothing remembers.                            *)
LEMMA FreshHead ==
  ASSUME commits \in 0..MaxCommits, NewCommit
  PROVE  /\ commits' \in 0..MaxCommits /\ commits' \in Heads /\ commits' # None
         /\ \A h : Known(h) => h # commits' /\ Known(h)'
         /\ Known(commits)'
<1>1. commits \in Nat /\ commits' = commits + 1 /\ commits < MaxCommits /\ MaxCommits \in Nat
      /\ None \notin 0..MaxCommits
    BY GithubSavesAssumption DEF NewCommit
<1>2. commits' \in 0..MaxCommits /\ commits' # None /\ commits' \notin 0..commits
    BY <1>1
<1>3. \A h : h \in 0..commits => h \in 0..commits'
    BY <1>1
<1> QED
    BY <1>1, <1>2, <1>3 DEF Known, Heads

LEMMA ValidateSound == ASSUME IInv, Validate PROVE IInv'
<1>1. op.step = "idle" /\ op' = op /\ TypeOK'
    BY IdleTyped DEF IInv, Validate, TypeOK, history
<1> QED
    BY <1>1 DEF IInv, Validate, HeadsKnown, Known, StepHeads, SourceHeld, PriorTold, SeenTrue,
       Written, Recorded, Explained, Saving, Told, Holds, UnmanagedKept, history

LEMMA EditSound ==
  ASSUME IInv, NEW p \in Paths, NEW v \in Values \cup {Absent}, Edit(p, v) PROVE IInv'
<1>1. local' \in Files
    BY DEF IInv, Edit, TypeOK, Files
<1>2. op.step = "idle" /\ op' = op /\ TypeOK'
    BY <1>1, IdleTyped DEF IInv, Edit, TypeOK, history
<1> QED
    BY <1>2 DEF IInv, Edit, HeadsKnown, Known, StepHeads, SourceHeld, PriorTold, SeenTrue,
       Written, Recorded, Explained, Saving, Told, Holds, UnmanagedKept, history

LEMMA ReviewSound == ASSUME IInv, Review PROVE IInv'
<1>1. review' \in [head : Heads, content : Files] /\ Known(review'.head)
    BY DEF IInv, Review, TypeOK, Heads, HeadsKnown, Known
<1>2. TypeOK'
    BY <1>1 DEF IInv, Review, TypeOK, history
<1> QED
    BY <1>1, <1>2 DEF IInv, Review, HeadsKnown, Known, StepHeads, SourceHeld, PriorTold,
       SeenTrue, Written, Recorded, Explained, Saving, Told, Holds, UnmanagedKept, history

LEMMA BeginSound == ASSUME IInv, Begin PROVE IInv'
<1> USE DEF IInv
<1>1. /\ op'.step = IF row.repo THEN "exporting" ELSE "creating"
      /\ op'.expected = review.content /\ op'.head = review.head /\ op'.base = row.head
      /\ op'.prior = {p \in Paths : row.files[p] # Absent}
    BY DEF Begin, Idle
<1>2. op' \in Ops
    BY IdleTyped, Typed DEF Begin, Ops
<1>3. TypeOK'
  <2>1. /\ local' \in Files /\ remote' \in [head : Heads, files : Files]
        /\ row' \in [repo : BOOLEAN, head : Heads, files : Files] /\ (row'.repo => row'.head # None)
        /\ report' = None \/ report' \in Files
        /\ review' = None \/ review' \in [head : Heads, content : Files]
        /\ commits' \in 0..MaxCommits /\ foreign' \subseteq Paths
        /\ pushed' \in BOOLEAN /\ mishap' \in BOOLEAN
      BY DEF Begin, TypeOK, history
  <2> QED
      BY <1>1, <1>2, <2>1, OpFields DEF TypeOK
<1>4. HeadsKnown' /\ StepHeads' /\ SourceHeld'
    BY <1>1
      DEF Begin, HeadsKnown, Known, StepHeads, SourceHeld, Saving, Validated, TypeOK, history
<1>5. PriorTold'
    BY <1>1, Typed DEF Begin, PriorTold, Saving, Told, Recorded, Holds, history
<1>6. SeenTrue' /\ Written' /\ Recorded' /\ Explained'
    BY <1>1, IdleTyped DEF Begin, SeenTrue, Written, Recorded, Explained, Holds, history
<1> QED
    BY <1>2, <1>3, <1>4, <1>5, <1>6

LEMMA CreatePrivateSound == ASSUME IInv, CreatePrivate PROVE IInv'
<1> USE DEF IInv
<1>1. /\ ~row.repo /\ ~row'.repo
      /\ op' = Idle \/ (op'.step = "greeting" /\ op'.head = op.head /\ op'.base = op.base)
  <2>1. ASSUME op' = [op EXCEPT !.step = "greeting"]
        PROVE  op'.step = "greeting" /\ op'.head = op.head /\ op'.base = op.base
      BY <2>1 DEF Ops
  <2> QED
      BY <2>1 DEF CreatePrivate, StepHeads
<1>2. op' \in Ops
    BY IdleTyped DEF CreatePrivate, Ops
<1>3. /\ commits' \in 0..MaxCommits /\ commits' \in Heads /\ commits' # None
      /\ \A h : Known(h) => Known(h)'
      /\ Known(commits)'
    BY FreshHead, Typed DEF CreatePrivate
<1>4. remote'.head = commits' /\ remote' \in [head : Heads, files : Files]
    BY <1>3, GithubSavesAssumption DEF CreatePrivate, Nowhere, Files
<1>5. TypeOK'
  <2>1. /\ local' \in Files
        /\ row' \in [repo : BOOLEAN, head : Heads, files : Files]
        /\ report' = None \/ report' \in Files
        /\ review' = None \/ review' \in [head : Heads, content : Files]
        /\ foreign' \subseteq Paths /\ pushed' \in BOOLEAN /\ mishap' \in BOOLEAN
      BY DEF CreatePrivate, TypeOK
  <2> QED
      BY <1>1, <1>2, <1>3, <1>4, <2>1, OpFields DEF TypeOK
<1>6. HeadsKnown'
    BY <1>1, <1>3, <1>4 DEF CreatePrivate, HeadsKnown, Known, Idle
<1>7. StepHeads' /\ SourceHeld'
    BY <1>1, <1>3, <1>4, IdleTyped DEF CreatePrivate, StepHeads, SourceHeld, Saving
<1>8. PriorTold' /\ SeenTrue' /\ Written' /\ Recorded' /\ Explained'
    BY <1>1, IdleTyped DEF PriorTold, SeenTrue, Written, Recorded, Explained, Saving
<1> QED
    BY <1>2, <1>5, <1>6, <1>7, <1>8

LEMMA FirstReadSound == ASSUME IInv, FirstRead PROVE IInv'
<1> USE DEF IInv
<1>1. /\ op'.step = "exporting" /\ op'.head = remote.head /\ op'.base = remote.head
      /\ op'.prior = Colliding /\ remote.head # None /\ ~row.repo
    BY DEF FirstRead, Ops, StepHeads
<1>2. op' \in Ops
    BY Typed DEF FirstRead, Ops, Colliding
<1>3. TypeOK'
  <2>1. /\ local' \in Files /\ remote' \in [head : Heads, files : Files]
        /\ row' \in [repo : BOOLEAN, head : Heads, files : Files] /\ (row'.repo => row'.head # None)
        /\ report' = None \/ report' \in Files
        /\ review' = None \/ review' \in [head : Heads, content : Files]
        /\ commits' \in 0..MaxCommits /\ foreign' \subseteq Paths
        /\ pushed' \in BOOLEAN /\ mishap' \in BOOLEAN
      BY DEF FirstRead, TypeOK, history
  <2> QED
      BY <1>2, <2>1, OpFields DEF TypeOK
<1>4. HeadsKnown' /\ StepHeads' /\ SourceHeld'
    BY <1>1 DEF FirstRead, HeadsKnown, Known, StepHeads, SourceHeld, Saving
<1>5. PriorTold'
    BY <1>1 DEF FirstRead, PriorTold, Saving, Told, Colliding
<1>6. SeenTrue' /\ Written' /\ Recorded' /\ Explained'
    BY <1>1 DEF FirstRead, SeenTrue, Written, Recorded, Explained, Holds
<1> QED
    BY <1>2, <1>3, <1>4, <1>5, <1>6

LEMMA ExportSound == ASSUME IInv, Export PROVE IInv'
<1> USE DEF IInv
<1>1. /\ op'.step = "reading" /\ op'.head = op.head /\ op'.base = op.base
      /\ op'.prior = op.prior /\ op'.content = local /\ op'.expected = local
    BY DEF Export, AsReviewed, Ops
<1>2. op' \in Ops
    BY Typed DEF Export, Ops
<1>3. TypeOK'
  <2>1. /\ local' \in Files /\ remote' \in [head : Heads, files : Files]
        /\ row' \in [repo : BOOLEAN, head : Heads, files : Files] /\ (row'.repo => row'.head # None)
        /\ report' = None \/ report' \in Files
        /\ review' = None \/ review' \in [head : Heads, content : Files]
        /\ commits' \in 0..MaxCommits /\ foreign' \subseteq Paths
        /\ pushed' \in BOOLEAN /\ mishap' \in BOOLEAN
      BY DEF Export, TypeOK, history
  <2> QED
      BY <1>2, <2>1, OpFields DEF TypeOK
<1>4. HeadsKnown' /\ StepHeads' /\ SourceHeld'
    BY <1>1 DEF Export, HeadsKnown, Known, StepHeads, SourceHeld, Saving, history
<1>5. PriorTold' /\ SeenTrue' /\ Written'
    BY <1>1 DEF Export, PriorTold, Saving, Told, SeenTrue, Written, history
<1>6. Recorded' /\ Explained'
    BY <1>1 DEF Export, Recorded, Explained, Holds, history
<1> QED
    BY <1>2, <1>3, <1>4, <1>5, <1>6

LEMMA ReadRemoteSound == ASSUME IInv, ReadRemote PROVE IInv'
<1> USE DEF IInv
<1>1. /\ op'.step = "writing" /\ op'.head = op.base /\ op'.base = op.base
      /\ op'.head = remote.head /\ op'.seen = remote.files
      /\ op'.prior = op.prior /\ op'.content = op.content /\ op'.expected = op.expected
    BY DEF ReadRemote, HeadsAgree, Ops
<1>2. op' \in Ops
    BY Typed DEF ReadRemote, Ops
<1>3. TypeOK'
  <2>1. /\ local' \in Files /\ remote' \in [head : Heads, files : Files]
        /\ row' \in [repo : BOOLEAN, head : Heads, files : Files] /\ (row'.repo => row'.head # None)
        /\ report' = None \/ report' \in Files
        /\ review' = None \/ review' \in [head : Heads, content : Files]
        /\ commits' \in 0..MaxCommits /\ foreign' \subseteq Paths
        /\ pushed' \in BOOLEAN /\ mishap' \in BOOLEAN
      BY DEF ReadRemote, TypeOK, history
  <2> QED
      BY <1>2, <2>1, OpFields DEF TypeOK
<1>4. HeadsKnown' /\ StepHeads' /\ SourceHeld'
    BY <1>1 DEF ReadRemote, HeadsKnown, Known, StepHeads, SourceHeld, Saving, history
<1>5. PriorTold' /\ SeenTrue' /\ Written'
    BY <1>1 DEF ReadRemote, PriorTold, Saving, Told, SeenTrue, UnmanagedKept, Written, history
<1>6. Recorded' /\ Explained'
    BY <1>1 DEF ReadRemote, Recorded, Explained, Holds, history
<1> QED
    BY <1>2, <1>3, <1>4, <1>5, <1>6

(* What a save writes: the reviewed source, and over what the head has.       *)
LEMMA OverlaidHolds ==
  ASSUME IInv, op.step = "writing", remote.head = op.head
  PROVE  /\ Overlaid \in Files
         /\ \A p \in foreign : Overlaid[p] = remote.files[p]
         /\ \A p \in Paths : op.content[p] # Absent => Overlaid[p] = op.content[p]
         /\ \A p \in Paths : IF p \in foreign
                              THEN /\ Overlaid[p] # Absent
                                   /\ op.content[p] \in {Absent, Overlaid[p]}
                              ELSE Overlaid[p] = op.content[p]
<1>1. Told(op.prior) /\ op.seen = remote.files /\ UnmanagedKept
    BY DEF IInv, StepHeads, PriorTold, SeenTrue, Saving
<1>2. op.content \in Files /\ op.seen \in Files /\ foreign \subseteq Paths
    BY OpFields, Typed DEF IInv
<1>3. Overlaid \in Files
    BY <1>2 DEF Overlaid, Files
<1>4. \A p \in Paths : Overlaid[p] = IF op.content[p] # Absent THEN op.content[p]
                                     ELSE IF p \in op.prior THEN Absent ELSE remote.files[p]
    BY <1>1 DEF Overlaid
<1>5. \A p \in foreign : Overlaid[p] = remote.files[p] /\ remote.files[p] # Absent
    BY <1>1, <1>2, <1>4 DEF Told, UnmanagedKept
<1>6. ASSUME NEW p \in Paths, p \notin foreign
      PROVE  Overlaid[p] = op.content[p]
    BY <1>1, <1>4, <1>6 DEF Told
<1> QED
    BY <1>2, <1>3, <1>4, <1>5, <1>6

LEMMA PatchSound == ASSUME IInv, Patch PROVE IInv'
<1> USE DEF IInv
<1>1. op.step = "writing" /\ remote.head = op.head
    BY DEF Patch, Forward
<1>2. /\ commits' \in 0..MaxCommits /\ commits' \in Heads /\ commits' # None
      /\ \A h : Known(h) => h # commits' /\ Known(h)'
      /\ Known(commits)'
    BY FreshHead, Typed DEF Patch
<1>3. remote' = [head |-> commits', files |-> Overlaid]
    BY DEF Patch
<1>4. \/ /\ op' = [op EXCEPT !.step = "noting", !.head = commits'] /\ UNCHANGED mishap
      \/ op' = Idle /\ mishap' = TRUE
    BY DEF Patch
<1>5. ASSUME op' = [op EXCEPT !.step = "noting", !.head = commits']
      PROVE  /\ op'.step = "noting" /\ op'.head = commits' /\ op'.base = op.base
             /\ op'.content = op.content /\ op'.expected = op.expected /\ op' \in Ops
    BY <1>2, <1>5 DEF Ops
<1>6. op' \in Ops
    BY <1>4, <1>5, IdleTyped
<1>7. TypeOK'
  <2>1. /\ local' \in Files /\ remote' \in [head : Heads, files : Files]
        /\ row' \in [repo : BOOLEAN, head : Heads, files : Files] /\ (row'.repo => row'.head # None)
        /\ report' = None \/ report' \in Files
        /\ review' = None \/ review' \in [head : Heads, content : Files]
        /\ foreign' \subseteq Paths /\ pushed' \in BOOLEAN
      BY <1>1, <1>2, <1>3, OverlaidHolds DEF Patch, TypeOK
  <2>2. mishap' \in BOOLEAN
      BY <1>4 DEF TypeOK
  <2> QED
      BY <1>2, <1>6, <2>1, <2>2, OpFields DEF TypeOK
<1>8. remote'.head = commits' /\ remote'.files = Overlaid
    BY <1>3
<1>9. UNCHANGED <<local, row, report, review, foreign, pushed>>
    BY DEF Patch
<1>10. Recorded'
    BY <1>2, <1>8, <1>9 DEF Recorded, HeadsKnown
<1>11. CASE op' = Idle /\ mishap' = TRUE
  <2>1. op'.step = "idle" /\ op'.head = None /\ op'.base = None
      BY <1>11 DEF Idle
  <2>2. HeadsKnown' /\ StepHeads' /\ SourceHeld'
      BY <1>2, <1>8, <1>9, <2>1 DEF HeadsKnown, Known, StepHeads, SourceHeld, Saving
  <2>3. PriorTold' /\ SeenTrue' /\ Written' /\ Explained'
      BY <1>11, <2>1 DEF PriorTold, SeenTrue, Written, Explained, Saving
  <2> QED
      BY <1>6, <1>7, <1>10, <2>2, <2>3
<1>12. CASE op' = [op EXCEPT !.step = "noting", !.head = commits'] /\ UNCHANGED mishap
  <2>1. HeadsKnown' /\ StepHeads' /\ SourceHeld'
    <3>1. HeadsKnown'
        BY <1>2, <1>5, <1>8, <1>9, <1>12 DEF HeadsKnown
    <3> QED
        BY <1>1, <1>2, <1>5, <1>8, <1>9, <1>12, <3>1 DEF StepHeads, SourceHeld, Saving
  <2>2. Written'
      BY <1>1, <1>5, <1>8, <1>9, <1>12, OverlaidHolds DEF Written, Holds
  <2>3. PriorTold' /\ SeenTrue' /\ Explained'
      BY <1>5, <1>12 DEF PriorTold, SeenTrue, Explained, Saving
  <2> QED
      BY <1>6, <1>7, <1>10, <2>1, <2>2, <2>3
<1> QED
    BY <1>4, <1>11, <1>12

LEMMA SkipPatchSound == ASSUME IInv, SkipPatch PROVE IInv'
<1> USE DEF IInv
<1>1. /\ op.step = "writing" /\ op'.step = "noting" /\ op'.head = op.head /\ op'.base = op.base
      /\ op'.content = op.content /\ op'.expected = op.expected
    BY DEF SkipPatch, Ops
<1>2. op' \in Ops
    BY DEF SkipPatch, Ops
<1>3. TypeOK'
  <2>1. /\ local' \in Files /\ remote' \in [head : Heads, files : Files]
        /\ row' \in [repo : BOOLEAN, head : Heads, files : Files] /\ (row'.repo => row'.head # None)
        /\ report' = None \/ report' \in Files
        /\ review' = None \/ review' \in [head : Heads, content : Files]
        /\ commits' \in 0..MaxCommits /\ foreign' \subseteq Paths
        /\ pushed' \in BOOLEAN /\ mishap' \in BOOLEAN
      BY DEF SkipPatch, TypeOK, history
  <2> QED
      BY <1>2, <2>1, OpFields DEF TypeOK
<1>4. HeadsKnown' /\ StepHeads' /\ SourceHeld'
    BY <1>1 DEF SkipPatch, HeadsKnown, Known, StepHeads, SourceHeld, Saving, history
<1>5. PriorTold' /\ SeenTrue' /\ Explained'
    BY <1>1 DEF PriorTold, SeenTrue, Explained, Saving
<1>6. Recorded'
    BY DEF SkipPatch, Recorded, Holds, history
<1>7. Written'
  <2>1. remote.head = op.head => Overlaid = remote.files
      BY <1>1 DEF SkipPatch, NothingToSave, SeenTrue, StepHeads
  <2> QED
      BY <1>1, <2>1, OverlaidHolds DEF SkipPatch, Written, Holds, history
<1> QED
    BY <1>2, <1>3, <1>4, <1>5, <1>6, <1>7

LEMMA NoteSound == ASSUME IInv, Note PROVE IInv'
<1> USE DEF IInv
<1>1. /\ row'.repo /\ row'.head = op.head /\ row'.files = op.content
      /\ row' \in [repo : BOOLEAN, head : Heads, files : Files] /\ op.head # None
    BY OpFields DEF Note, Noted, StepHeads
<1>2. op' = Idle /\ op' \in Ops /\ op'.step = "idle" /\ op'.head = None /\ op'.base = None
    BY IdleTyped DEF Note, Idle
<1>3. TypeOK'
  <2>1. /\ local' \in Files /\ remote' \in [head : Heads, files : Files]
        /\ report' = None \/ report' \in Files
        /\ review' = None \/ review' \in [head : Heads, content : Files]
        /\ commits' \in 0..MaxCommits /\ foreign' \subseteq Paths
        /\ pushed' \in BOOLEAN /\ mishap' \in BOOLEAN
      BY DEF Note, TypeOK
  <2> QED
      BY <1>1, <1>2, <2>1, OpFields DEF TypeOK
<1>4. HeadsKnown' /\ StepHeads' /\ SourceHeld'
    BY <1>1, <1>2 DEF Note, HeadsKnown, Known, StepHeads, SourceHeld, Saving
<1>5. Recorded'
  <2>1. ASSUME remote.head = op.head
        PROVE  /\ \A p \in Paths : IF p \in foreign'
                                    THEN /\ remote.files[p] # Absent
                                         /\ op.content[p] = Absent
                                    ELSE remote.files[p] = op.content[p]
               /\ foreign' \subseteq Paths
      BY <2>1, Typed DEF Note, Written, Holds
  <2> QED
      BY <1>1, <2>1 DEF Note, Recorded, Holds
<1>6. PriorTold' /\ SeenTrue' /\ Written' /\ Explained'
    BY <1>1, <1>2 DEF Note, PriorTold, SeenTrue, Written, Explained, Saving
<1> QED
    BY <1>2, <1>3, <1>4, <1>5, <1>6

LEMMA RaiseSound == ASSUME IInv, Raise PROVE IInv'
<1> USE DEF IInv
<1>1. op' = Idle /\ op' \in Ops /\ op'.step = "idle" /\ op'.head = None /\ op'.base = None
    BY IdleTyped DEF Raise, Idle
<1>2. TypeOK'
  <2>1. /\ local' \in Files /\ remote' \in [head : Heads, files : Files]
        /\ row' \in [repo : BOOLEAN, head : Heads, files : Files] /\ (row'.repo => row'.head # None)
        /\ report' = None \/ report' \in Files
        /\ review' = None \/ review' \in [head : Heads, content : Files]
        /\ commits' \in 0..MaxCommits /\ foreign' \subseteq Paths
        /\ pushed' \in BOOLEAN /\ mishap' \in BOOLEAN
      BY DEF Raise, TypeOK, history
  <2> QED
      BY <1>1, <2>1, OpFields DEF TypeOK
<1>3. HeadsKnown' /\ StepHeads' /\ SourceHeld'
    BY <1>1 DEF Raise, HeadsKnown, Known, StepHeads, SourceHeld, Saving
<1>4. PriorTold' /\ SeenTrue' /\ Written' /\ Recorded'
    BY <1>1 DEF Raise, PriorTold, SeenTrue, Written, Recorded, Holds, Saving
<1>5. Explained'
    BY <1>1 DEF Raise, Explained, TypeOK
<1> QED
    BY <1>1, <1>2, <1>3, <1>4, <1>5

LEMMA PushSound ==
  ASSUME IInv, NEW p \in Paths, NEW v \in Values \cup {Absent}, Push(p, v) PROVE IInv'
<1> USE DEF IInv
<1>1. /\ commits' \in 0..MaxCommits /\ commits' \in Heads /\ commits' # None
      /\ \A h : Known(h) => h # commits' /\ Known(h)'
      /\ Known(commits)'
    BY FreshHead, Typed DEF Push
<1>2. remote' \in [head : Heads, files : Files] /\ remote'.head = commits'
    BY <1>1, Typed DEF Push, Files
<1>3. op' \in Ops /\ UNCHANGED <<local, row, report, review, op, mishap>> /\ pushed'
    BY DEF Push
<1>4. TypeOK'
  <2>1. /\ local' \in Files
        /\ row' \in [repo : BOOLEAN, head : Heads, files : Files] /\ (row'.repo => row'.head # None)
        /\ report' = None \/ report' \in Files
        /\ review' = None \/ review' \in [head : Heads, content : Files]
        /\ foreign' \subseteq Paths /\ pushed' \in BOOLEAN /\ mishap' \in BOOLEAN
      BY DEF Push, TypeOK
  <2> QED
      BY <1>1, <1>2, <1>3, <2>1, OpFields DEF TypeOK
<1>5. HeadsKnown' /\ StepHeads' /\ SourceHeld'
    BY <1>1, <1>2, <1>3 DEF HeadsKnown, StepHeads, SourceHeld, Saving
<1>6. PriorTold' /\ SeenTrue' /\ Written' /\ Recorded' /\ Explained'
    BY <1>1, <1>2, <1>3 DEF HeadsKnown, StepHeads, PriorTold, SeenTrue, Written, Recorded,
       Explained
<1> QED
    BY <1>3, <1>4, <1>5, <1>6

LEMMA InvInductive == IInv /\ [Next]_vars => IInv'
<1> SUFFICES ASSUME IInv, [Next]_vars PROVE IInv'
    OBVIOUS
<1>1. CASE UNCHANGED vars
    BY <1>1
      DEF vars, history, IInv, TypeOK, HeadsKnown, Known, StepHeads, SourceHeld, PriorTold,
       SeenTrue, Written, Recorded, Explained, Saving, Told, Holds, UnmanagedKept
<1>2. CASE Next
    BY <1>2, ValidateSound, ReviewSound, BeginSound, CreatePrivateSound, FirstReadSound,
       ExportSound, ReadRemoteSound, PatchSound, SkipPatchSound, NoteSound, RaiseSound,
       PushSound, EditSound DEF Next
<1> QED
    BY <1>1, <1>2

(* The inductive invariant: what a save has read of the source and of the     *)
(* branch at each of its steps (review, save), and what the branch holds      *)
(* beside the recorded baseline after other pushes and lost answers.          *)
THEOREM SavesInvariant == Spec => []IInv
BY InitSound, InvInductive, PTL DEF Spec

(* BaselineTrue: the recorded head and files tell the truth about the branch, *)
(* and a save is refused for ever only if somebody pushed or an answer was    *)
(* lost: publish() and the UPDATE at its end.                                 *)
THEOREM BaselineSound == Spec => []BaselineTrue
<1>1. IInv => BaselineTrue
  <2> SUFFICES ASSUME IInv PROVE BaselineTrue
      OBVIOUS
  <2>1. TypeOK
      BY DEF IInv
  <2>2. ASSUME row.repo, remote.head = row.head
        PROVE  \A p \in Paths \ foreign : remote.files[p] = row.files[p]
      BY <2>2 DEF IInv, Recorded, Holds
  <2>3. ASSUME row.repo, op = Idle, remote.head # row.head
        PROVE  pushed \/ mishap
      BY <2>3, IdleTyped DEF IInv, Explained
  <2> QED
      BY <2>1, <2>2, <2>3 DEF BaselineTrue
<1> QED
    BY <1>1, SavesInvariant, PTL

(* ForeignKept: no PATCH changes what somebody else put on the branch.        *)
THEOREM ForeignSound == Spec => ForeignKept
<1>1. ASSUME IInv, Patch
      PROVE  \A p \in foreign : remote'.files[p] = remote.files[p]
    BY <1>1, OverlaidHolds DEF Patch, Forward
<1>2. IInv /\ [Next]_vars
        => [Patch => \A p \in foreign : remote'.files[p] = remote.files[p]]_vars
    BY <1>1
<1> QED
    BY <1>2, SavesInvariant, PTL DEF Spec, ForeignKept

(* SavedAsReviewed: a PATCH commits the source that the user reviewed and     *)
(* that a validation passed on, on top of the reviewed head.                  *)
THEOREM SavedSound == Spec => SavedAsReviewed
<1> DEFINE Saved == Patch => /\ \A p \in Paths : op.expected[p] # Absent
                                  => remote'.files[p] = op.expected[p]
                             /\ remote.head = op.head /\ report = op.content
<1>1. ASSUME IInv, Patch PROVE Saved
    BY <1>1, OverlaidHolds DEF Patch, Forward, IInv, SourceHeld
<1>2. IInv /\ [Next]_vars => [Saved]_vars
    BY <1>1
<1> QED
    BY <1>2, SavesInvariant, PTL DEF Spec, SavedAsReviewed

-----------------------------------------------------------------------------
(* The builds.                                                                *)
(* How far a build has come, and what it has put on disk by then.             *)
Whole(b) == file[b] \in {"whole", "damaged"}

Began(b) ==
  /\ pc[b] = "unused" => status[b] = "absent"
  /\ pc[b] \in {"unused", "started"} => json[b].status = "absent"
  /\ pc[b] \in {"unused", "started", "checking", "compiling", "inspecting"} => file[b] = "none"
  /\ pc[b] = "copying" => file[b] \in {"none", "partial"}
  /\ pc[b] = "publishing" => Whole(b)
  /\ pc[b] \in {"checking", "compiling", "inspecting", "copying", "publishing"} =>
       json[b].status = "running"
  /\ pc[b] = "announcing" => json[b].status = "completed"
  /\ pc[b] \in {"unused", "started", "checking", "compiling", "inspecting", "copying",
                "publishing", "announcing"} => exc[b] = "none"
  /\ pc[b] = "announcing" => record[b].status = "completed"
  /\ pc[b] \in Active => status[b] = "running" /\ up /\ data[b] \in Requests

(* What was raised is what the record says, or a write of it was lost.        *)
Raised(b) ==
  /\ pc[b] = "raised" =>
       exc[b] # "none" /\ (exc[b] = "cancelled" => json[b].status = "running")
  /\ pc[b] = "unlinking" =>
       exc[b] # "none" /\ json[b].status = exc[b] /\ record[b].status = exc[b]
  /\ pc[b] = "cleaning" =>
       /\ record[b].status = "completed" => json[b].status = "completed"
       /\ exc[b] # "failed" => record[b].status = json[b].status
       /\ exc[b] = "failed" => b \in lost \/ record[b].status = "failed"
  /\ pc[b] \in {"cleaning", "ending"} =>
       /\ exc[b] = "none" => json[b].status = "completed"
       /\ exc[b] = "cancelled" => json[b].status = "cancelled" /\ file[b] = "none"
       /\ exc[b] = "failed" => json[b].status = "failed" \/ b \in lost

(* What is left of a build that is over, or died with its process.            *)
Left(b) ==
  /\ pc[b] = "dead" => status[b] \in {"running", "interrupted"} /\ (up => status[b] = "interrupted")
  /\ pc[b] = "over" =>
       /\ status[b] = "completed" => json[b].status = "completed"
       /\ status[b] = "cancelled" => json[b].status = "cancelled" /\ file[b] = "none"
       /\ status[b] = "failed" => json[b].status = "failed" \/ b \in lost
       /\ status[b] = "running" => b \in lost
  /\ pc[b] \in {"over", "dead"} => exc[b] = "none"

(* A download has only to do with a build that was published.                 *)
Touched(b) == b \in served \/ \E d \in Readers : reader[d] # Unset /\ reader[d][1] = b

Handed(b) ==
  Touched(b) =>
    /\ pc[b] \in {"announcing", "raised", "unlinking", "cleaning", "ending", "over", "dead"}
    /\ exc[b] # "cancelled" /\ status[b] # "cancelled"

Quiet(b) == ~log[b] /\ ~json[b].told /\ ~record[b].told

Good(b) ==
  /\ Began(b) /\ Raised(b) /\ Left(b) /\ Handed(b) /\ Quiet(b)
  /\ json[b].status = "completed" => Whole(b)

BuildInv == BuildTypeOK /\ \A b \in Builds : Good(b)

-----------------------------------------------------------------------------
(* The records.                                                               *)
Outcomes == {"completed", "cancelled", "failed"}

LEMMA RecordFields ==
  ASSUME NEW r \in Records
  PROVE  /\ r.status \in {"absent", "running", "completed", "cancelled", "failed"}
         /\ r.note \in BOOLEAN /\ r.told \in BOOLEAN
BY DEF Records

LEMMA RecordStatus ==
  ASSUME NEW r \in Records, NEW s \in Outcomes
  PROVE  LET n == [r EXCEPT !.status = s] IN
         n \in Records /\ n.status = s /\ n.told = r.told
BY DEF Records, Outcomes

LEMMA RecordNote ==
  ASSUME NEW r \in Records
  PROVE  LET n == [r EXCEPT !.note = TRUE] IN
         n \in Records /\ n.status = r.status /\ n.told = r.told
BY DEF Records

LEMMA Constants ==
  /\ NoRecord \in Records /\ NoRecord.status = "absent" /\ ~NoRecord.told
  /\ Started \in Records /\ Started.status = "running" /\ ~Started.told
BY DEF NoRecord, Started, Records

(* The command's secrets are named to what writes the log and the error.      *)
LEMMA NothingLeaks == \A d, s : Leaks(d, s) = FALSE
BY DEF Leaks, Given, Secrets

LEMMA StagesBounded == \A d : Len(Stages(d)) \in 5..6
<1> SUFFICES ASSUME NEW d PROVE Len(Stages(d)) \in 5..6
  OBVIOUS
<1>1. CASE d.icon
  BY <1>1 DEF Stages
<1>2. CASE ~d.icon
  BY <1>2 DEF Stages
<1> QED BY <1>1, <1>2

LEMMA Carries ==
  ASSUME NEW r \in Requests
  PROVE  Carried(r) \in Requests
<1>1. (r.target = "aab") \in BOOLEAN
  OBVIOUS
<1> QED BY <1>1 DEF Carried, Requests

-----------------------------------------------------------------------------
LEMMA BuildInitSound == BuildInit => BuildInv
<1> SUFFICES ASSUME BuildInit PROVE BuildInv
  OBVIOUS
<1>1. BuildTypeOK
  BY Constants DEF BuildInit, BuildTypeOK, Artifacts
<1>2. ASSUME NEW b \in Builds PROVE Good(b)
  <2>1. /\ pc[b] = "unused" /\ status[b] = "absent" /\ json[b] = NoRecord /\ file[b] = "none"
        /\ record[b] = NoRecord /\ log[b] = FALSE /\ exc[b] = "none" /\ served = {}
        /\ \A d \in Readers : reader[d] = Unset
    BY DEF BuildInit
  <2> QED BY <2>1, Constants DEF Good, Began, Raised, Left, Handed, Touched, Quiet, Active
<1> QED BY <1>1, <1>2 DEF BuildInv

(* A step of one build leaves the others as they are.                         *)
Only(b) ==
  /\ UNCHANGED <<up, served, reader>>
  /\ \A c \in Builds \ {b} :
       /\ status'[c] = status[c] /\ pc'[c] = pc[c] /\ exc'[c] = exc[c] /\ data'[c] = data[c]
       /\ record'[c] = record[c] /\ json'[c] = json[c] /\ file'[c] = file[c]
       /\ log'[c] = log[c] /\ (c \in lost <=> c \in lost')

LEMMA OneBuild ==
  ASSUME BuildInv, NEW b \in Builds, BuildTypeOK', Only(b), Good(b)'
  PROVE  BuildInv'
<1>1. ASSUME NEW c \in Builds, c # b PROVE Good(c)'
  <2>1. /\ status'[c] = status[c] /\ pc'[c] = pc[c] /\ exc'[c] = exc[c] /\ data'[c] = data[c]
        /\ record'[c] = record[c] /\ json'[c] = json[c] /\ file'[c] = file[c]
        /\ log'[c] = log[c] /\ (c \in lost <=> c \in lost')
        /\ up' = up /\ served' = served /\ reader' = reader
    BY <1>1 DEF Only
  <2>2. Good(c)
    BY <1>1 DEF BuildInv
  <2>3. Began(c)' /\ Raised(c)' /\ Left(c)'
    BY <2>1, <2>2 DEF Good, Began, Raised, Left, Whole
  <2>4. Touched(c)' <=> Touched(c)
    BY <2>1 DEF Touched
  <2>5. Handed(c)' /\ Quiet(c)' /\ (json'[c].status = "completed" => Whole(c)')
    BY <2>1, <2>2, <2>4 DEF Good, Handed, Quiet, Whole
  <2> QED BY <2>3, <2>5 DEF Good
<1> QED BY <1>1 DEF BuildInv

(* What is known of a build that is being executed.                           *)
LEMMA ActiveFacts ==
  ASSUME BuildInv, NEW b \in Builds, pc[b] \in Active
  PROVE  /\ Good(b) /\ status[b] = "running" /\ up /\ data[b] \in Requests
         /\ record[b] \in Records /\ json[b] \in Records /\ ~record[b].told
         /\ exc[b] \in {"none", "cancelled", "failed"} /\ log[b] = FALSE
         /\ file[b] \in Artifacts /\ event[b] \in BOOLEAN
BY DEF BuildInv, BuildTypeOK, Good, Began, Quiet

(* Steps before anything is published: nobody has asked for the build.        *)
LEMMA Untouched ==
  ASSUME BuildInv, NEW b \in Builds, UNCHANGED <<served, reader>>,
         pc[b] \in {"unused", "started", "checking", "compiling", "inspecting", "copying",
                    "publishing"}
  PROVE  Handed(b)'
<1>1. ~Touched(b)
  BY DEF BuildInv, Good, Handed
<1>2. ~Touched(b)'
  BY <1>1 DEF Touched
<1> QED BY <1>2 DEF Handed

-----------------------------------------------------------------------------
LEMMA LaunchKeeps ==
  ASSUME BuildInv, NEW b \in Builds, NEW r \in Requests, Launch(b, r)
  PROVE  BuildInv'
<1>1. /\ up /\ pc[b] = "unused"
      /\ data' = [data EXCEPT ![b] = Carried(r)]
      /\ status' = [status EXCEPT ![b] = "running"]
      /\ pc' = [pc EXCEPT ![b] = "started"]
      /\ UNCHANGED <<up, source, event, exc, stage, record, json, file, log, work, reader,
                     crashes, damages, lost, served>>
  BY DEF Launch, disk, extra
<1>2. Good(b) /\ exc[b] \in {"none", "cancelled", "failed"} /\ Carried(r) \in Requests
  BY Carries DEF BuildInv, BuildTypeOK
<1> HIDE DEF Carried
<1>3. BuildTypeOK'
  BY <1>1, <1>2 DEF BuildInv, BuildTypeOK, Active
<1>4. /\ data'[b] = Carried(r) /\ status'[b] = "running" /\ pc'[b] = "started"
      /\ Only(b)
  BY <1>1 DEF BuildInv, BuildTypeOK, Only
<1>5. Good(b)'
  BY <1>1, <1>2, <1>4, Untouched
     DEF Good, Began, Raised, Left, Quiet, Whole, Active
<1> QED BY <1>3, <1>4, <1>5, OneBuild

(* A cancellation or an edit sets what the next check reads.                  *)
LEMMA CancelKeeps ==
  ASSUME BuildInv, NEW b \in Builds, Cancel(b) \/ EditSource
  PROVE  BuildInv'
<1>1. /\ UNCHANGED <<up, status, pc, exc, stage, data, record, json, file, log, work, reader,
                     crashes, damages, lost, served>>
      /\ event' = event \/ event' = [event EXCEPT ![b] = TRUE]
      /\ source' \in Codes
  BY DEF Cancel, EditSource, run, disk, extra, BuildInv, BuildTypeOK
<1>2. BuildTypeOK'
  BY <1>1 DEF BuildInv, BuildTypeOK
<1>3. Only(b)
  BY <1>1 DEF Only
<1>4. Good(b)'
  BY <1>1 DEF BuildInv, Good, Began, Raised, Left, Handed, Touched, Quiet, Whole
<1> QED BY <1>2, <1>3, <1>4, OneBuild

LEMMA PrepareKeeps ==
  ASSUME BuildInv, NEW b \in Builds, Prepare(b)
  PROVE  BuildInv'
<1>1. /\ pc[b] = "started"
      /\ record' = [record EXCEPT ![b] = Started]
      /\ \/ /\ json' = [json EXCEPT ![b] = Started] /\ pc' = [pc EXCEPT ![b] = "checking"]
            /\ exc' = exc /\ lost' = lost
         \/ /\ lost' = lost \cup {b} /\ pc' = [pc EXCEPT ![b] = "ending"]
            /\ exc' = [exc EXCEPT ![b] = "failed"] /\ json' = json
      /\ UNCHANGED <<up, source, status, event, stage, data, file, log, work, reader, served>>
  BY DEF Prepare, Write, Goto, Fails
<1>2. /\ pc[b] \in Active /\ Good(b) /\ status[b] = "running" /\ up /\ data[b] \in Requests
      /\ ~record[b].told /\ log[b] = FALSE
  BY <1>1, ActiveFacts DEF Active
<1>3. BuildTypeOK'
  BY <1>1, Constants DEF BuildInv, BuildTypeOK, Active
<1>4. Only(b)
  BY <1>1 DEF BuildInv, BuildTypeOK, Only
<1>5. Handed(b)'
  BY <1>1, Untouched
<1>6. /\ record'[b] = Started /\ log'[b] = log[b] /\ file'[b] = file[b]
      /\ status'[b] = status[b] /\ up' = up /\ data'[b] = data[b]
      /\ \/ json'[b] = Started /\ pc'[b] = "checking" /\ exc'[b] = exc[b]
         \/ json'[b] = json[b] /\ pc'[b] = "ending" /\ exc'[b] = "failed" /\ b \in lost'
  BY <1>1 DEF BuildInv, BuildTypeOK
<1>7. Good(b)'
  <2>1. Began(b)'
    BY <1>1, <1>2, <1>6, Constants DEF Good, Began, Whole, Active
  <2>2. Raised(b)'
    BY <1>1, <1>2, <1>6, Constants DEF Good, Began, Raised
  <2>3. Left(b)' /\ Quiet(b)'
    BY <1>1, <1>2, <1>6, Constants DEF Good, Left, Quiet
  <2>4. json'[b].status = "completed" => Whole(b)'
    BY <1>1, <1>2, <1>6, Constants DEF Good, Began, Whole
  <2> QED BY <1>5, <2>1, <2>2, <2>3, <2>4 DEF Good
<1> QED BY <1>3, <1>4, <1>7, OneBuild

LEMMA CheckKeeps ==
  ASSUME BuildInv, NEW b \in Builds, Check(b)
  PROVE  BuildInv'
<1>1. /\ pc[b] = "checking"
      /\ \/ /\ pc' = [pc EXCEPT ![b] = "raised"] /\ work' = work
            /\ \E what \in {"cancelled", "failed"} : exc' = [exc EXCEPT ![b] = what]
         \/ /\ pc' = [pc EXCEPT ![b] = "compiling"] /\ work' = [work EXCEPT ![b] = TRUE]
            /\ exc' = exc
      /\ UNCHANGED <<up, source, status, event, stage, data, record, json, file, log, reader, lost,
                     served>>
  BY DEF Check, Goto, BuildRaises, Fails, extra
<1>2. /\ pc[b] \in Active /\ Good(b) /\ status[b] = "running" /\ up /\ data[b] \in Requests
      /\ ~record[b].told /\ log[b] = FALSE
  BY <1>1, ActiveFacts DEF Active
<1>3. BuildTypeOK'
  <2>1. exc' \in [Builds -> {"none", "cancelled", "failed"}]
    BY <1>1 DEF BuildInv, BuildTypeOK
  <2>2. work' \in [Builds -> BOOLEAN]
    BY <1>1 DEF BuildInv, BuildTypeOK
  <2>3. pc' \in [Builds -> Active \cup {"unused", "over", "dead"}]
    BY <1>1 DEF BuildInv, BuildTypeOK, Active
  <2> QED BY <1>1, <2>1, <2>2, <2>3 DEF BuildInv, BuildTypeOK
<1>4. Only(b)
  BY <1>1 DEF BuildInv, BuildTypeOK, Only
<1>5. Handed(b)'
  BY <1>1, Untouched
<1>6. /\ \/ pc'[b] = "compiling" /\ exc'[b] = exc[b]
         \/ pc'[b] = "raised" /\ exc'[b] \in {"cancelled", "failed"}
      /\ UNCHANGED <<up, status, data, record, json, file, log, lost>>
  BY <1>1 DEF BuildInv, BuildTypeOK
<1>7. Good(b)'
  <2>1. Began(b)'
    BY <1>1, <1>2, <1>6 DEF Good, Began, Whole, Active
  <2>2. Raised(b)'
    BY <1>1, <1>2, <1>6 DEF Good, Began, Raised
  <2>3. Left(b)' /\ Quiet(b)'
    BY <1>1, <1>2, <1>6 DEF Good, Left, Quiet
  <2>4. json'[b].status = "completed" => Whole(b)'
    BY <1>1, <1>2, <1>6 DEF Good, Began, Whole
  <2> QED BY <1>5, <2>1, <2>2, <2>3, <2>4 DEF Good
<1> QED BY <1>3, <1>4, <1>7, OneBuild

(* Compiling: whatever is printed, no password reaches the log or the record. *)
LEMMA StageKeeps ==
  ASSUME BuildInv, NEW b \in Builds, Stage(b)
  PROVE  BuildInv'
<1> DEFINE stages == Stages(data[b])
           leak   == Leaks(data[b], stages[stage[b]])
<1>1. /\ pc[b] = "compiling"
      /\ log' = [log EXCEPT ![b] = @ \/ leak] \/ log' = log
      /\ \/ /\ pc' = [pc EXCEPT ![b] = "raised"] /\ stage' = stage
            /\ \/ exc' = [exc EXCEPT ![b] = "cancelled"] /\ record' = record
               \/ exc' = [exc EXCEPT ![b] = "failed"]
                  /\ record' = [record EXCEPT ![b].told = leak]
         \/ /\ exc' = exc /\ record' = record
            /\ \/ /\ stage[b] < Len(stages) /\ stage' = [stage EXCEPT ![b] = @ + 1] /\ pc' = pc
               \/ pc' = [pc EXCEPT ![b] = "inspecting"] /\ stage' = stage
      /\ UNCHANGED <<up, source, status, event, data, json, file, work, reader, lost, served>>
  <2> HIDE DEF stages, leak
  <2> QED BY DEF Stage, stages, leak, Goto, BuildRaises, Fails, extra
<1>2. leak = FALSE /\ Len(stages) \in 5..6
  BY NothingLeaks, StagesBounded
<1> HIDE DEF stages, leak
<1>3. /\ pc[b] \in Active /\ status[b] = "running" /\ up /\ data[b] \in Requests
  BY <1>1, ActiveFacts DEF Active
<1>4. Good(b) /\ record[b] \in Records /\ record[b].told = FALSE /\ log[b] = FALSE
  BY <1>3, ActiveFacts, RecordFields
<1>5. log' = log
  <2>1. log \in [Builds -> BOOLEAN]
    BY DEF BuildInv, BuildTypeOK
  <2>2. [log EXCEPT ![b] = FALSE] = log
    BY <1>4, <2>1
  <2>3. (log[b] \/ leak) = FALSE
    BY <1>2, <1>4
  <2> HIDE DEF BuildInv
  <2> QED BY <1>1, <2>2, <2>3
<1>6. /\ record' \in [Builds -> Records] /\ record'[b] \in Records /\ record'[b].told = FALSE
      /\ \A c \in Builds \ {b} : record'[c] = record[c]
  <2>1. record \in [Builds -> Records]
    BY DEF BuildInv, BuildTypeOK
  <2>2. [record[b] EXCEPT !.told = FALSE] \in Records
        /\ [record[b] EXCEPT !.told = FALSE].told = FALSE
    BY <1>4 DEF Records
  <2> QED BY <1>1, <1>2, <1>4, <2>1, <2>2
<1>7. BuildTypeOK'
  <2>1. stage' \in [Builds -> 1..6]
    <3>1. stage \in [Builds -> 1..6] /\ stage[b] \in 1..6
      BY DEF BuildInv, BuildTypeOK
    <3>2. \A n \in 5..6 : stage[b] < n => stage[b] + 1 \in 1..6
      BY <3>1
    <3>3. stage[b] < Len(stages) => stage[b] + 1 \in 1..6
      BY <1>2, <3>2, Zenon
    <3> QED BY <1>1, <3>1, <3>3
  <2> QED BY <1>1, <1>5, <1>6, <2>1 DEF BuildInv, BuildTypeOK, Active
<1>8. Only(b)
  BY <1>1, <1>5, <1>6 DEF BuildInv, BuildTypeOK, Only
<1>9. Handed(b)'
  BY <1>1, Untouched
<1>10. /\ \/ pc'[b] \in {"compiling", "inspecting"} /\ exc'[b] = exc[b]
          \/ pc'[b] = "raised" /\ exc'[b] \in {"cancelled", "failed"}
       /\ UNCHANGED <<up, status, data, json, file, log, lost>>
  BY <1>1, <1>5 DEF BuildInv, BuildTypeOK
<1>11. Good(b)'
  <2>1. Began(b)'
    BY <1>1, <1>3, <1>4, <1>6, <1>10 DEF Good, Began, Whole, Active
  <2>2. Raised(b)'
    BY <1>1, <1>3, <1>4, <1>6, <1>10 DEF Good, Began, Raised
  <2>3. Left(b)' /\ Quiet(b)'
    BY <1>1, <1>3, <1>4, <1>6, <1>10 DEF Good, Left, Quiet
  <2>4. json'[b].status = "completed" => Whole(b)'
    BY <1>1, <1>3, <1>4, <1>6, <1>10 DEF Good, Began, Whole
  <2> QED BY <1>9, <2>1, <2>2, <2>3, <2>4 DEF Good
<1> QED BY <1>7, <1>8, <1>11, OneBuild

LEMMA InspectKeeps ==
  ASSUME BuildInv, NEW b \in Builds, Inspect(b)
  PROVE  BuildInv'
<1>1. /\ pc[b] = "inspecting"
      /\ \/ /\ pc' = [pc EXCEPT ![b] = "raised"]
            /\ \E what \in {"cancelled", "failed"} : exc' = [exc EXCEPT ![b] = what]
         \/ pc' = [pc EXCEPT ![b] = "copying"] /\ exc' = exc
      /\ UNCHANGED <<up, source, status, event, stage, data, record, json, file, log, work, reader,
                     lost, served>>
  BY DEF Inspect, Goto, BuildRaises, Fails, extra, disk
<1>2. /\ pc[b] \in Active /\ Good(b) /\ status[b] = "running" /\ up /\ data[b] \in Requests
      /\ ~record[b].told /\ log[b] = FALSE
  BY <1>1, ActiveFacts DEF Active
<1>3. BuildTypeOK'
  BY <1>1 DEF BuildInv, BuildTypeOK, Active
<1>4. Only(b)
  BY <1>1 DEF BuildInv, BuildTypeOK, Only
<1>5. Handed(b)'
  BY <1>1, Untouched
<1>6. /\ \/ pc'[b] = "copying" /\ exc'[b] = exc[b]
         \/ pc'[b] = "raised" /\ exc'[b] \in {"cancelled", "failed"}
      /\ UNCHANGED <<up, status, data, record, json, file, log, lost>>
  BY <1>1 DEF BuildInv, BuildTypeOK
<1>7. Good(b)'
  <2>1. Began(b)'
    BY <1>1, <1>2, <1>6 DEF Good, Began, Whole, Active
  <2>2. Raised(b)'
    BY <1>1, <1>2, <1>6 DEF Good, Began, Raised
  <2>3. Left(b)' /\ Quiet(b)'
    BY <1>1, <1>2, <1>6 DEF Good, Left, Quiet
  <2>4. json'[b].status = "completed" => Whole(b)'
    BY <1>1, <1>2, <1>6 DEF Good, Began, Whole
  <2> QED BY <1>5, <2>1, <2>2, <2>3, <2>4 DEF Good
<1> QED BY <1>3, <1>4, <1>7, OneBuild

(* Only a copy that came to its end goes on to be published.                  *)
LEMMA CopyKeeps ==
  ASSUME BuildInv, NEW b \in Builds, Copy(b)
  PROVE  BuildInv'
<1>1. /\ pc[b] = "copying"
      /\ file' = [file EXCEPT ![b] = IF @ = "none" THEN "partial" ELSE "whole"]
      /\ \/ pc' = [pc EXCEPT ![b] = "raised"] /\ exc' = [exc EXCEPT ![b] = "failed"]
         \/ /\ pc' = [pc EXCEPT ![b] = IF file[b] = "none" THEN "copying" ELSE "publishing"]
            /\ exc' = exc
      /\ UNCHANGED <<up, source, status, event, stage, data, record, json, log, work, reader, lost,
                     served>>
  BY DEF Copy, Goto, BuildRaises, Fails, extra
<1>2. /\ pc[b] \in Active /\ Good(b) /\ status[b] = "running" /\ up /\ data[b] \in Requests
      /\ ~record[b].told /\ log[b] = FALSE
  BY <1>1, ActiveFacts DEF Active
<1>3. BuildTypeOK'
  BY <1>1 DEF BuildInv, BuildTypeOK, Active, Artifacts
<1>4. Only(b)
  BY <1>1 DEF BuildInv, BuildTypeOK, Only
<1>5. Handed(b)'
  BY <1>1, Untouched
<1>6. /\ file[b] = "none" => file'[b] = "partial"
      /\ file[b] # "none" => file'[b] = "whole"
      /\ \/ exc'[b] = exc[b] /\ pc'[b] = (IF file[b] = "none" THEN "copying" ELSE "publishing")
         \/ pc'[b] = "raised" /\ exc'[b] = "failed"
      /\ UNCHANGED <<up, status, data, record, json, log, lost>>
  BY <1>1 DEF BuildInv, BuildTypeOK
<1>7. Good(b)'
  <2>1. Began(b)'
    BY <1>1, <1>2, <1>6 DEF Good, Began, Whole, Active
  <2>2. Raised(b)'
    BY <1>1, <1>2, <1>6 DEF Good, Began, Raised
  <2>3. Left(b)' /\ Quiet(b)'
    BY <1>1, <1>2, <1>6 DEF Good, Left, Quiet
  <2>4. json'[b].status = "completed" => Whole(b)'
    BY <1>1, <1>2, <1>6 DEF Good, Began, Whole
  <2> QED BY <1>5, <2>1, <2>2, <2>3, <2>4 DEF Good
<1> QED BY <1>3, <1>4, <1>7, OneBuild

-----------------------------------------------------------------------------
(* The record says completed last; from here on downloads may find the build. *)
LEMMA PublishKeeps ==
  ASSUME BuildInv, NEW b \in Builds, Publish(b)
  PROVE  BuildInv'
<1> DEFINE ready == Ready(record[b])
<1>1. /\ pc[b] = "publishing"
      /\ record' = [record EXCEPT ![b] = ready]
      /\ \/ /\ pc' = [pc EXCEPT ![b] = "raised"] /\ json' = json
            /\ \E what \in {"cancelled", "failed"} : exc' = [exc EXCEPT ![b] = what]
         \/ /\ pc' = [pc EXCEPT ![b] = "announcing"] /\ exc' = exc
            /\ json' = [json EXCEPT ![b] = ready]
      /\ UNCHANGED <<up, source, status, event, stage, data, file, log, work, reader, lost, served>>
  BY DEF Publish, Write, Goto, BuildRaises, Fails, extra
<1>2. /\ pc[b] \in Active /\ Good(b) /\ status[b] = "running" /\ up /\ data[b] \in Requests
      /\ record[b] \in Records /\ ~record[b].told /\ log[b] = FALSE
  BY <1>1, ActiveFacts DEF Active
<1>3. ready \in Records /\ ready.status = "completed" /\ ready.told = record[b].told
  BY <1>2, RecordStatus DEF Ready, Outcomes
<1> HIDE DEF ready
<1>4. BuildTypeOK'
  <2>1. exc' \in [Builds -> {"none", "cancelled", "failed"}]
    BY <1>1 DEF BuildInv, BuildTypeOK
  <2>2. record' \in [Builds -> Records] /\ json' \in [Builds -> Records]
    BY <1>1, <1>3 DEF BuildInv, BuildTypeOK
  <2>3. pc' \in [Builds -> Active \cup {"unused", "over", "dead"}]
    BY <1>1 DEF BuildInv, BuildTypeOK, Active
  <2> QED BY <1>1, <2>1, <2>2, <2>3 DEF BuildInv, BuildTypeOK
<1>5. Only(b)
  BY <1>1 DEF BuildInv, BuildTypeOK, Only
<1>6. Handed(b)'
  BY <1>1, Untouched
<1>7. /\ record'[b] = ready
      /\ \/ pc'[b] = "raised" /\ exc'[b] \in {"cancelled", "failed"} /\ json'[b] = json[b]
         \/ pc'[b] = "announcing" /\ exc'[b] = exc[b] /\ json'[b] = ready
      /\ UNCHANGED <<up, status, data, file, log, lost>>
  BY <1>1 DEF BuildInv, BuildTypeOK
<1>8. Good(b)'
  <2>1. Began(b)'
    BY <1>1, <1>2, <1>3, <1>7 DEF Good, Began, Whole, Active
  <2>2. Raised(b)'
    BY <1>1, <1>2, <1>3, <1>7 DEF Good, Began, Raised
  <2>3. Left(b)' /\ Quiet(b)'
    BY <1>1, <1>2, <1>3, <1>7 DEF Good, Left, Quiet
  <2>4. json'[b].status = "completed" => Whole(b)'
    BY <1>1, <1>2, <1>3, <1>7 DEF Good, Began, Whole
  <2> QED BY <1>6, <2>1, <2>2, <2>3, <2>4 DEF Good
<1> QED BY <1>4, <1>5, <1>8, OneBuild

LEMMA AnnounceKeeps ==
  ASSUME BuildInv, NEW b \in Builds, Announce(b)
  PROVE  BuildInv'
<1>1. /\ pc[b] = "announcing"
      /\ \/ pc' = [pc EXCEPT ![b] = "cleaning"] /\ exc' = exc
         \/ pc' = [pc EXCEPT ![b] = "raised"] /\ exc' = [exc EXCEPT ![b] = "failed"]
      /\ UNCHANGED <<up, source, status, event, stage, data, record, json, file, log, work, reader,
                     lost, served>>
  BY DEF Announce, Goto, BuildRaises, Fails, extra, disk
<1>2. /\ pc[b] \in Active /\ Good(b) /\ status[b] = "running" /\ up /\ data[b] \in Requests
      /\ ~record[b].told /\ log[b] = FALSE
  BY <1>1, ActiveFacts DEF Active
<1>3. BuildTypeOK'
  BY <1>1 DEF BuildInv, BuildTypeOK, Active
<1>4. Only(b)
  BY <1>1 DEF BuildInv, BuildTypeOK, Only
<1>5. /\ \/ pc'[b] = "cleaning" /\ exc'[b] = exc[b]
         \/ pc'[b] = "raised" /\ exc'[b] = "failed"
      /\ UNCHANGED <<up, status, data, record, json, file, log, lost, reader, served>>
  BY <1>1 DEF BuildInv, BuildTypeOK
<1>6. Good(b)'
  <2>1. Began(b)'
    BY <1>1, <1>2, <1>5 DEF Good, Began, Whole, Active
  <2>2. Raised(b)'
    BY <1>1, <1>2, <1>5 DEF Good, Began, Raised
  <2>3. Left(b)' /\ Quiet(b)'
    BY <1>1, <1>2, <1>5 DEF Good, Left, Quiet
  <2>4. Handed(b)' /\ (json'[b].status = "completed" => Whole(b)')
    BY <1>1, <1>2, <1>5 DEF Good, Began, Whole, Handed, Touched
  <2> QED BY <2>1, <2>2, <2>3, <2>4 DEF Good
<1> QED BY <1>3, <1>4, <1>6, OneBuild

-----------------------------------------------------------------------------
(* What was raised is recorded before the artifact is taken away.             *)
LEMMA RecordFailureKeeps ==
  ASSUME BuildInv, NEW b \in Builds, RecordFailure(b)
  PROVE  BuildInv'
<1> DEFINE ended == Ended(b)
<1>1. /\ pc[b] = "raised"
      /\ record' = [record EXCEPT ![b] = ended]
      /\ \/ /\ json' = [json EXCEPT ![b] = ended] /\ pc' = [pc EXCEPT ![b] = "unlinking"]
            /\ exc' = exc /\ lost' = lost
         \/ /\ pc' = [pc EXCEPT ![b] = "cleaning"] /\ exc' = [exc EXCEPT ![b] = "failed"]
            /\ lost' = lost \cup {b} /\ json' = json
      /\ UNCHANGED <<up, source, status, event, stage, data, file, log, work, reader, served>>
  BY DEF RecordFailure, Write, Goto, Fails
<1>2. /\ pc[b] \in Active /\ Good(b) /\ status[b] = "running" /\ up /\ data[b] \in Requests
      /\ record[b] \in Records /\ ~record[b].told /\ log[b] = FALSE
      /\ exc[b] \in {"none", "cancelled", "failed"}
  BY <1>1, ActiveFacts DEF Active
<1>3. exc[b] \in {"cancelled", "failed"}
  BY <1>1, <1>2 DEF Good, Raised
<1>4. ended \in Records /\ ended.status = exc[b] /\ ended.told = record[b].told
  <2>1. exc[b] \in Outcomes
    BY <1>3 DEF Outcomes
  <2> QED BY <1>2, <2>1, RecordStatus DEF Ended
<1> HIDE DEF ended
<1>5. BuildTypeOK'
  <2>1. record' \in [Builds -> Records] /\ json' \in [Builds -> Records]
    BY <1>1, <1>4 DEF BuildInv, BuildTypeOK
  <2>2. pc' \in [Builds -> Active \cup {"unused", "over", "dead"}]
    BY <1>1 DEF BuildInv, BuildTypeOK, Active
  <2> QED BY <1>1, <2>1, <2>2 DEF BuildInv, BuildTypeOK
<1>6. Only(b)
  BY <1>1 DEF BuildInv, BuildTypeOK, Only
<1>7. /\ record'[b] = ended
      /\ \/ pc'[b] = "unlinking" /\ exc'[b] = exc[b] /\ json'[b] = ended
         \/ pc'[b] = "cleaning" /\ exc'[b] = "failed" /\ json'[b] = json[b] /\ b \in lost'
      /\ UNCHANGED <<up, status, data, file, log, reader, served>>
  BY <1>1 DEF BuildInv, BuildTypeOK
<1>8. Good(b)'
  <2>1. Began(b)'
    BY <1>1, <1>2, <1>7 DEF Good, Began, Whole, Active
  <2>2. Raised(b)'
    BY <1>1, <1>2, <1>3, <1>4, <1>7 DEF Good, Raised
  <2>3. Left(b)' /\ Quiet(b)'
    BY <1>1, <1>2, <1>4, <1>7 DEF Good, Left, Quiet
  <2>4. Handed(b)' /\ (json'[b].status = "completed" => Whole(b)')
    BY <1>1, <1>2, <1>3, <1>4, <1>7 DEF Good, Whole, Handed, Touched
  <2> QED BY <2>1, <2>2, <2>3, <2>4 DEF Good
<1> QED BY <1>5, <1>6, <1>8, OneBuild

LEMMA UnlinkKeeps ==
  ASSUME BuildInv, NEW b \in Builds, Unlink(b)
  PROVE  BuildInv'
<1>1. /\ pc[b] = "unlinking" /\ pc' = [pc EXCEPT ![b] = "cleaning"]
      /\ \/ file' = [file EXCEPT ![b] = "none"] /\ exc' = exc /\ lost' = lost
         \/ file' = file /\ exc' = [exc EXCEPT ![b] = "failed"] /\ lost' = lost \cup {b}
      /\ UNCHANGED <<up, source, status, event, stage, data, record, json, log, work, reader,
                     served>>
  BY DEF Unlink, Goto, Fails
<1>2. /\ pc[b] \in Active /\ Good(b) /\ status[b] = "running" /\ up /\ data[b] \in Requests
      /\ record[b] \in Records /\ ~record[b].told /\ log[b] = FALSE
      /\ exc[b] \in {"none", "cancelled", "failed"}
  BY <1>1, ActiveFacts DEF Active
<1>3. exc[b] \in {"cancelled", "failed"} /\ json[b].status = exc[b] /\ record[b].status = exc[b]
  BY <1>1, <1>2 DEF Good, Raised
<1>4. BuildTypeOK'
  BY <1>1 DEF BuildInv, BuildTypeOK, Active, Artifacts
<1>5. Only(b)
  BY <1>1 DEF BuildInv, BuildTypeOK, Only
<1>6. /\ pc'[b] = "cleaning"
      /\ \/ file'[b] = "none" /\ exc'[b] = exc[b]
         \/ file'[b] = file[b] /\ exc'[b] = "failed" /\ b \in lost'
      /\ UNCHANGED <<up, status, data, record, json, log, reader, served>>
  BY <1>1 DEF BuildInv, BuildTypeOK
<1>7. Good(b)'
  <2>1. Began(b)'
    BY <1>1, <1>2, <1>6 DEF Good, Began, Whole, Active
  <2>2. Raised(b)'
    BY <1>2, <1>3, <1>6 DEF Raised
  <2>3. Left(b)' /\ Quiet(b)'
    BY <1>2, <1>6 DEF Good, Left, Quiet
  <2>4. Handed(b)' /\ (json'[b].status = "completed" => Whole(b)')
    BY <1>1, <1>2, <1>3, <1>6 DEF Good, Whole, Handed, Touched
  <2> QED BY <2>1, <2>2, <2>3, <2>4 DEF Good
<1> QED BY <1>4, <1>5, <1>7, OneBuild

(* The finally clause may rewrite the record, with its status as it is.       *)
LEMMA CleanKeeps ==
  ASSUME BuildInv, NEW b \in Builds, Clean(b)
  PROVE  BuildInv'
<1> DEFINE noted == [record[b] EXCEPT !.note = TRUE]
<1>1. /\ pc[b] = "cleaning" /\ pc' = [pc EXCEPT ![b] = "ending"]
      /\ \/ /\ work' = [work EXCEPT ![b] = FALSE] /\ exc' = exc
            /\ record' = record /\ json' = json /\ lost' = lost
         \/ /\ record' = [record EXCEPT ![b] = noted] /\ work' = work
            /\ \/ json' = [json EXCEPT ![b] = noted] /\ exc' = exc /\ lost' = lost
               \/ exc' = [exc EXCEPT ![b] = "failed"] /\ lost' = lost \cup {b} /\ json' = json
      /\ UNCHANGED <<up, source, status, event, stage, data, file, log, reader, served>>
  BY DEF Clean, Write, Goto, Fails
<1>2. /\ pc[b] \in Active /\ Good(b) /\ status[b] = "running" /\ up /\ data[b] \in Requests
      /\ record[b] \in Records /\ ~record[b].told /\ log[b] = FALSE
      /\ exc[b] \in {"none", "cancelled", "failed"}
  BY <1>1, ActiveFacts DEF Active
<1>3. noted \in Records /\ noted.status = record[b].status /\ noted.told = record[b].told
  BY <1>2, RecordNote
<1> HIDE DEF noted
<1>4. BuildTypeOK'
  <2>1. record' \in [Builds -> Records] /\ json' \in [Builds -> Records]
    BY <1>1, <1>3 DEF BuildInv, BuildTypeOK
  <2>2. pc' \in [Builds -> Active \cup {"unused", "over", "dead"}]
    BY <1>1 DEF BuildInv, BuildTypeOK, Active
  <2>3. exc' \in [Builds -> {"none", "cancelled", "failed"}] /\ work' \in [Builds -> BOOLEAN]
        /\ lost' \subseteq Builds
    BY <1>1 DEF BuildInv, BuildTypeOK
  <2> QED BY <1>1, <2>1, <2>2, <2>3 DEF BuildInv, BuildTypeOK
<1>5. Only(b)
  BY <1>1 DEF BuildInv, BuildTypeOK, Only
<1>6. /\ pc'[b] = "ending" /\ record'[b] \in {record[b], noted}
      /\ \/ exc'[b] = exc[b] /\ json'[b] \in {json[b], noted} /\ (b \in lost <=> b \in lost')
         \/ exc'[b] = "failed" /\ json'[b] = json[b] /\ b \in lost'
      /\ UNCHANGED <<up, status, data, file, log, reader, served>>
  BY <1>1 DEF BuildInv, BuildTypeOK
<1>7. Good(b)'
  <2>1. Began(b)'
    BY <1>1, <1>2, <1>6 DEF Good, Began, Whole, Active
  <2>2. Raised(b)'
    BY <1>1, <1>2, <1>3, <1>6 DEF Good, Raised
  <2>3. Left(b)' /\ Quiet(b)'
    BY <1>2, <1>3, <1>6 DEF Good, Left, Quiet
  <2>4. Handed(b)' /\ (json'[b].status = "completed" => Whole(b)')
    BY <1>1, <1>2, <1>3, <1>6 DEF Good, Raised, Whole, Handed, Touched
  <2> QED BY <2>1, <2>2, <2>3, <2>4 DEF Good
<1> QED BY <1>4, <1>5, <1>7, OneBuild

(* The row gets what the run was raising, or its UPDATE is lost.              *)
LEMMA EndKeeps ==
  ASSUME BuildInv, NEW b \in Builds, End(b)
  PROVE  BuildInv'
<1>1. /\ pc[b] = "ending" /\ pc' = [pc EXCEPT ![b] = "over"] /\ exc' = [exc EXCEPT ![b] = "none"]
      /\ event' = [event EXCEPT ![b] = FALSE] /\ stage' = [stage EXCEPT ![b] = 1]
      /\ data' = [data EXCEPT ![b] = Unset] /\ record' = [record EXCEPT ![b] = NoRecord]
      /\ \/ status' = [status EXCEPT ![b] = Outcome(b)] /\ lost' = lost
         \/ lost' = lost \cup {b} /\ status' = status
      /\ UNCHANGED <<up, source, json, file, log, work, reader, served>>
  BY DEF End, disk
<1>2. /\ pc[b] \in Active /\ Good(b) /\ status[b] = "running" /\ log[b] = FALSE
      /\ exc[b] \in {"none", "cancelled", "failed"}
  BY <1>1, ActiveFacts DEF Active
<1>3. Outcome(b) \in {"completed", "failed", "cancelled"}
  BY <1>2 DEF Outcome
<1>4. /\ Outcome(b) = "completed" => exc[b] = "none"
      /\ Outcome(b) = "failed" => exc[b] = "failed"
      /\ Outcome(b) = "cancelled" => exc[b] = "cancelled"
  BY <1>2 DEF Outcome
<1> HIDE DEF Outcome
<1>5. BuildTypeOK'
  <2>1. status' \in [Builds -> {"absent", "running", "interrupted", "completed", "failed",
                             "cancelled"}]
    BY <1>1, <1>3 DEF BuildInv, BuildTypeOK
  <2>2. pc' \in [Builds -> Active \cup {"unused", "over", "dead"}]
    BY <1>1 DEF BuildInv, BuildTypeOK
  <2>3. /\ exc' \in [Builds -> {"none", "cancelled", "failed"}]
        /\ event' \in [Builds -> BOOLEAN] /\ lost' \subseteq Builds
    BY <1>1 DEF BuildInv, BuildTypeOK
  <2>4. stage' \in [Builds -> 1..6]
    <3>1. 1 \in 1..6
      OBVIOUS
    <3> QED BY <1>1, <3>1 DEF BuildInv, BuildTypeOK
  <2>5. data' \in [Builds -> Requests \cup {Unset}] /\ record' \in [Builds -> Records]
    BY <1>1, Constants DEF BuildInv, BuildTypeOK
  <2> QED BY <1>1, <2>1, <2>2, <2>3, <2>4, <2>5 DEF BuildInv, BuildTypeOK
<1>6. Only(b)
  BY <1>1 DEF BuildInv, BuildTypeOK, Only
<1>7. /\ pc'[b] = "over" /\ record'[b] = NoRecord /\ exc'[b] = "none"
      /\ \/ status'[b] = Outcome(b) /\ (b \in lost <=> b \in lost')
         \/ status'[b] = status[b] /\ b \in lost'
      /\ UNCHANGED <<up, json, file, log, reader, served>>
  BY <1>1 DEF BuildInv, BuildTypeOK
<1>8. Good(b)'
  <2>1. Began(b)' /\ Raised(b)'
    BY <1>7 DEF Began, Raised, Active
  <2>2. Left(b)'
    BY <1>1, <1>2, <1>3, <1>4, <1>7 DEF Good, Left, Raised
  <2>3. Quiet(b)' /\ (json'[b].status = "completed" => Whole(b)')
    BY <1>2, <1>7, Constants DEF Good, Quiet, Whole
  <2>4. Handed(b)'
    BY <1>1, <1>2, <1>3, <1>4, <1>7 DEF Good, Handed, Touched
  <2> QED BY <2>1, <2>2, <2>3, <2>4 DEF Good
<1> QED BY <1>5, <1>6, <1>8, OneBuild

-----------------------------------------------------------------------------
(* The process dies, and the next one marks what it finds running.            *)
LEMMA CrashKeeps ==
  ASSUME BuildInv, Crash
  PROVE  BuildInv'
<1>1. /\ up' = FALSE
      /\ pc' = [b \in Builds |-> IF pc[b] \in Active THEN "dead" ELSE pc[b]]
      /\ record' = [b \in Builds |-> NoRecord]
      /\ stage' = [b \in Builds |-> 1] /\ data' = [b \in Builds |-> Unset]
      /\ exc' = [b \in Builds |-> "none"] /\ event' = [b \in Builds |-> FALSE]
      /\ reader' = [d \in Readers |-> Unset]
      /\ UNCHANGED <<source, status, json, file, log, work, lost, served>>
  BY DEF Crash, disk
<1>2. BuildTypeOK'
  <2>1. 1 \in 1..6
    OBVIOUS
  <2>2. pc' \in [Builds -> Active \cup {"unused", "over", "dead"}]
    BY <1>1 DEF BuildInv, BuildTypeOK
  <2> QED BY <1>1, <2>1, <2>2, Constants DEF BuildInv, BuildTypeOK
<1>3. ASSUME NEW b \in Builds PROVE Good(b)'
  <2>1. Good(b) /\ pc[b] \in Active \cup {"unused", "over", "dead"}
    BY DEF BuildInv, BuildTypeOK
  <2>2. /\ pc'[b] \in {"unused", "over", "dead"} /\ exc'[b] = "none" /\ record'[b] = NoRecord
        /\ pc'[b] = "dead" => pc[b] \in Active \/ pc[b] = "dead"
        /\ pc'[b] # "dead" => pc[b] = pc'[b]
    BY <1>1, <2>1 DEF Active
  <2>3. status'[b] = status[b] /\ json'[b] = json[b] /\ file'[b] = file[b] /\ log'[b] = log[b]
        /\ up' = FALSE /\ lost' = lost /\ served' = served
    BY <1>1
  <2>4. Began(b)' /\ Raised(b)'
    BY <2>1, <2>2, <2>3 DEF Good, Began, Raised, Active
  <2>5. Left(b)'
    BY <2>1, <2>2, <2>3 DEF Good, Left, Began
  <2>6. Quiet(b)' /\ (json'[b].status = "completed" => Whole(b)')
    BY <2>1, <2>2, <2>3, Constants DEF Good, Quiet, Whole
  <2>7. Touched(b)' => b \in served
    BY <1>1, <2>3 DEF Touched
  <2>8. b \in served => /\ pc[b] \in {"announcing", "raised", "unlinking", "cleaning", "ending",
                                      "over", "dead"}
                        /\ status[b] # "cancelled"
    BY <2>1 DEF Good, Handed, Touched
  <2>9. Handed(b)'
    BY <2>2, <2>3, <2>7, <2>8 DEF Handed
  <2> QED BY <2>4, <2>5, <2>6, <2>9 DEF Good
<1> QED BY <1>2, <1>3 DEF BuildInv

LEMMA RestartKeeps ==
  ASSUME BuildInv, Restart
  PROVE  BuildInv'
<1>1. /\ ~up /\ up' = TRUE
      /\ status' = [b \in Builds |-> IF status[b] = "running" THEN "interrupted" ELSE status[b]]
      /\ UNCHANGED <<source, event, pc, exc, stage, data, record, json, file, log, work, reader,
                     lost, served>>
  BY DEF Restart, disk, extra
<1>2. BuildTypeOK'
  <2>1. status' \in [Builds -> {"absent", "running", "interrupted", "completed", "failed",
                             "cancelled"}]
    BY <1>1 DEF BuildInv, BuildTypeOK
  <2> QED BY <1>1, <2>1 DEF BuildInv, BuildTypeOK
<1>3. ASSUME NEW b \in Builds PROVE Good(b)'
  <2>1. Good(b) /\ pc[b] \notin Active
    BY <1>1 DEF BuildInv, Good, Began
  <2>2. /\ status[b] = "running" => status'[b] = "interrupted"
        /\ status[b] # "running" => status'[b] = status[b]
        /\ UNCHANGED <<pc, exc, data, record, json, file, log, lost, served, reader>>
    BY <1>1
  <2>3. Began(b)' /\ Raised(b)' /\ Quiet(b)' /\ (json'[b].status = "completed" => Whole(b)')
    BY <2>1, <2>2 DEF Good, Began, Raised, Quiet, Whole
  <2>4. Left(b)'
    BY <2>1, <2>2 DEF Good, Left
  <2>5. Handed(b)'
    BY <2>1, <2>2 DEF Good, Handed, Touched
  <2> QED BY <2>3, <2>4, <2>5 DEF Good
<1> QED BY <1>2, <1>3 DEF BuildInv

-----------------------------------------------------------------------------
(* Downloads: one begins where the record says completed.                     *)
LEMMA OnlyReader ==
  ASSUME BuildInv, UNCHANGED <<up, source, status, event, pc, exc, stage, data, record, json,
                               file, log,
                           work, lost>>,
         reader' \in [Readers -> {Unset} \cup (Builds \X {"asked", "checked"})],
         served' \subseteq Builds,
         \A b \in Builds : Touched(b)' => Touched(b) \/ json[b].status = "completed"
  PROVE  BuildInv'
<1>1. BuildTypeOK'
  BY DEF BuildInv, BuildTypeOK
<1>2. ASSUME NEW b \in Builds PROVE Good(b)'
  <2>1. Good(b) /\ pc[b] \in Active \cup {"unused", "over", "dead"}
        /\ exc[b] \in {"none", "cancelled", "failed"}
    BY DEF BuildInv, BuildTypeOK
  <2>2. Began(b)' /\ Raised(b)' /\ Left(b)' /\ Quiet(b)'
        /\ (json'[b].status = "completed" => Whole(b)')
    BY <2>1 DEF Good, Began, Raised, Left, Quiet, Whole
  <2>3. ASSUME json[b].status = "completed"
        PROVE  /\ pc[b] \in {"announcing", "raised", "unlinking", "cleaning", "ending", "over",
                             "dead"}
               /\ exc[b] # "cancelled" /\ status[b] # "cancelled"
    <3>1. pc[b] \in {"announcing", "raised", "unlinking", "cleaning", "ending", "over", "dead"}
      BY <2>1, <2>3 DEF Good, Began, Active
    <3>2. exc[b] # "cancelled"
      BY <2>1, <2>3, <3>1 DEF Good, Began, Raised, Left
    <3>3. status[b] # "cancelled"
      BY <2>1, <2>3, <3>1 DEF Good, Began, Left, Active
    <3> QED BY <3>1, <3>2, <3>3
  <2>4. Handed(b)'
    BY <2>1, <2>3 DEF Good, Handed
  <2> QED BY <2>2, <2>4 DEF Good
<1> QED BY <1>1, <1>2 DEF BuildInv

LEMMA AskKeeps ==
  ASSUME BuildInv, NEW d \in Readers, NEW b \in Builds, Ask(d, b)
  PROVE  BuildInv'
<1>1. /\ Shown(b) = "completed" /\ reader' = [reader EXCEPT ![d] = <<b, "asked">>]
      /\ UNCHANGED <<up, source, status, event, pc, exc, stage, data, record, json, file, log, work,
                     lost, served>>
  BY DEF Ask, run, disk, extra
<1>2. json[b].status = "completed"
  BY <1>1 DEF Shown
<1>3. reader' \in [Readers -> {Unset} \cup (Builds \X {"asked", "checked"})]
  BY <1>1 DEF BuildInv, BuildTypeOK
<1>4. ASSUME NEW c \in Builds, Touched(c)' PROVE Touched(c) \/ json[c].status = "completed"
  <2>1. CASE c \in served'
    BY <1>1, <2>1 DEF Touched
  <2>2. ASSUME NEW e \in Readers, reader'[e] # Unset, reader'[e][1] = c
        PROVE  Touched(c) \/ c = b
    <3>1. CASE e = d
      BY <1>1, <2>2, <3>1 DEF BuildInv, BuildTypeOK
    <3>2. CASE e # d
      BY <1>1, <2>2, <3>2 DEF BuildInv, BuildTypeOK, Touched
    <3> QED BY <3>1, <3>2
  <2> QED BY <1>2, <1>4, <2>1, <2>2 DEF Touched
<1>5. served' \subseteq Builds
  BY <1>1 DEF BuildInv, BuildTypeOK
<1> QED BY <1>1, <1>3, <1>4, <1>5, OnlyReader

LEMMA VerifyKeeps ==
  ASSUME BuildInv, NEW d \in Readers, Verify(d)
  PROVE  BuildInv'
<1>1. /\ reader[d] # Unset
      /\ \/ reader' = [reader EXCEPT ![d] = <<reader[d][1], "checked">>]
         \/ reader' = [reader EXCEPT ![d] = Unset]
      /\ UNCHANGED <<up, source, status, event, pc, exc, stage, data, record, json, file, log, work,
                     lost, served>>
  BY DEF Verify, run, disk, extra
<1>2. reader[d] \in Builds \X {"asked", "checked"}
  BY <1>1 DEF BuildInv, BuildTypeOK
<1>3. reader' \in [Readers -> {Unset} \cup (Builds \X {"asked", "checked"})]
  BY <1>1, <1>2 DEF BuildInv, BuildTypeOK
<1>4. ASSUME NEW c \in Builds, Touched(c)' PROVE Touched(c)
  <2>1. \A e \in Readers : e # d => reader'[e] = reader[e]
    BY <1>1 DEF BuildInv, BuildTypeOK
  <2>2. reader'[d] # Unset => reader'[d][1] = reader[d][1]
    BY <1>1, <1>2 DEF BuildInv, BuildTypeOK
  <2> QED BY <1>1, <1>4, <2>1, <2>2 DEF Touched
<1>5. served' \subseteq Builds
  BY <1>1 DEF BuildInv, BuildTypeOK
<1> QED BY <1>1, <1>3, <1>4, <1>5, OnlyReader

LEMMA ServeKeeps ==
  ASSUME BuildInv, NEW d \in Readers, Serve(d)
  PROVE  BuildInv'
<1>1. /\ reader[d] # Unset
      /\ served' = served \cup {b \in {reader[d][1]} : file[b] # "none"}
      /\ reader' = [reader EXCEPT ![d] = Unset]
      /\ UNCHANGED <<up, source, status, event, pc, exc, stage, data, record, json, file, log, work,
                     lost>>
  BY DEF Serve, run, disk, extra
<1>2. reader[d][1] \in Builds
  <2>1. reader[d] \in Builds \X {"asked", "checked"}
    BY <1>1 DEF BuildInv, BuildTypeOK
  <2> QED BY <2>1
<1>3. reader' \in [Readers -> {Unset} \cup (Builds \X {"asked", "checked"})]
      /\ served' \subseteq Builds
  BY <1>1, <1>2 DEF BuildInv, BuildTypeOK
<1>4. ASSUME NEW c \in Builds, Touched(c)' PROVE Touched(c)
  <2>1. \A e \in Readers : reader'[e] = Unset \/ reader'[e] = reader[e]
    BY <1>1 DEF BuildInv, BuildTypeOK
  <2>2. c \in served' => c \in served \/ c = reader[d][1]
    BY <1>1
  <2> QED BY <1>1, <1>4, <2>1, <2>2 DEF Touched
<1> QED BY <1>1, <1>3, <1>4, OnlyReader

LEMMA DamageKeeps ==
  ASSUME BuildInv, NEW b \in Builds, Damage(b)
  PROVE  BuildInv'
<1>1. /\ file[b] = "whole" /\ file' = [file EXCEPT ![b] = "damaged"]
      /\ UNCHANGED <<up, source, status, event, pc, exc, stage, data, record, json, log, work,
                     reader,
                     lost, served>>
  BY DEF Damage, run
<1>2. BuildTypeOK'
  BY <1>1 DEF BuildInv, BuildTypeOK, Artifacts
<1>3. file'[b] = "damaged" /\ Only(b) /\ Good(b)
  BY <1>1 DEF BuildInv, BuildTypeOK, Only
<1>4. Began(b)' /\ Whole(b)'
  BY <1>1, <1>3 DEF Good, Began, Whole
<1>5. Raised(b)' /\ Left(b)'
  BY <1>1, <1>3 DEF Good, Raised, Left
<1>6. Handed(b)' /\ Quiet(b)'
  BY <1>1, <1>3 DEF Good, Handed, Touched, Quiet
<1>7. Good(b)'
  BY <1>4, <1>5, <1>6 DEF Good
<1> QED BY <1>2, <1>3, <1>7, OneBuild

-----------------------------------------------------------------------------
LEMMA ExecuteKeeps ==
  ASSUME BuildInv, NEW b \in Builds, Execute(b)
  PROVE  BuildInv'
<1>1. CASE Prepare(b) \/ Check(b) \/ Stage(b) \/ Inspect(b)
  BY <1>1, PrepareKeeps, CheckKeeps, StageKeeps, InspectKeeps
<1>2. CASE Copy(b) \/ Publish(b) \/ Announce(b)
  BY <1>2, CopyKeeps, PublishKeeps, AnnounceKeeps
<1>3. CASE RecordFailure(b) \/ Unlink(b) \/ Clean(b) \/ End(b)
  BY <1>3, RecordFailureKeeps, UnlinkKeeps, CleanKeeps, EndKeeps
<1> QED BY <1>1, <1>2, <1>3 DEF Execute

LEMMA BuildNextSound == BuildInv /\ [BuildNext]_buildVars => BuildInv'
<1> SUFFICES ASSUME BuildInv, [BuildNext]_buildVars PROVE BuildInv'
  OBVIOUS
<1>1. ASSUME NEW b \in Builds, NEW r \in Requests, Launch(b, r)
      PROVE  BuildInv'
  BY <1>1, LaunchKeeps
<1>2. ASSUME NEW b \in Builds, Cancel(b) \/ Execute(b) \/ Damage(b)
      PROVE  BuildInv'
  BY <1>2, CancelKeeps, ExecuteKeeps, DamageKeeps
<1>3. ASSUME NEW d \in Readers, NEW b \in Builds, Ask(d, b)
      PROVE  BuildInv'
  BY <1>3, AskKeeps
<1>4. ASSUME NEW d \in Readers, Verify(d) \/ Serve(d)
      PROVE  BuildInv'
  BY <1>4, VerifyKeeps, ServeKeeps
<1>5. CASE EditSource \/ UNCHANGED buildVars
  <2>1. /\ UNCHANGED <<up, status, event, pc, exc, stage, data, record, json, file, log, work,
                       reader,
                       lost, served>>
        /\ source' \in Codes
    BY <1>5 DEF EditSource, buildVars, run, disk, extra, BuildInv, BuildTypeOK
  <2>2. BuildTypeOK'
    BY <2>1 DEF BuildInv, BuildTypeOK
  <2>3. ASSUME NEW b \in Builds PROVE Good(b)'
    BY <2>1 DEF BuildInv, Good, Began, Raised, Left, Handed, Touched, Quiet, Whole
  <2> QED BY <2>2, <2>3 DEF BuildInv
<1>6. CASE Crash \/ Restart
  BY <1>6, CrashKeeps, RestartKeeps
<1> QED BY <1>1, <1>2, <1>3, <1>4, <1>5, <1>6 DEF BuildNext

-----------------------------------------------------------------------------
(* The inductive invariant: what is on disk and what is recorded at each step *)
(* of a build, what a lost write leaves behind, and which builds a download   *)
(* may have to do with.                                                       *)
THEOREM NativeBuildsInvariant == BuildSpec => []BuildInv
<1>1. BuildInit => BuildInv
  BY BuildInitSound
<1>2. BuildInv /\ [BuildNext]_buildVars => BuildInv'
  BY BuildNextSound
<1> QED BY <1>1, <1>2, PTL DEF BuildSpec

(* A record that says completed has its artifact beside it, whole, through    *)
(* failures, cancellations and crashes, and no password is kept (execute,     *)
(* compile_native and the secrets of its commands).                           *)
THEOREM FilesAreSound == BuildSpec => []FilesSound
<1>1. BuildInv => FilesSound
  BY DEF BuildInv, Good, Whole, Quiet, FilesSound, PublishedIsWhole, NoPasswordKept
<1> QED BY <1>1, NativeBuildsInvariant, PTL

(* A build is shown as what became of its run (get, listing, and the row that *)
(* work() writes), unless one of its writes was lost.                         *)
THEOREM OutcomeIsShown == BuildSpec => []OutcomeShown
<1>1. BuildInv => OutcomeShown
  <2> SUFFICES ASSUME BuildInv, NEW b \in Builds
               PROVE  /\ status[b] \in {"completed", "cancelled"} => Shown(b) = status[b]
                      /\ status[b] = "failed" => Shown(b) = "failed" \/ b \in lost
                      /\ Shown(b) = "running" =>
                           pc[b] \in Active \/ ~up \/ (status[b] = "running" /\ b \in lost)
    BY DEF OutcomeShown
  <2>1. Began(b) /\ Left(b) /\ pc[b] \in Active \cup {"unused", "over", "dead"}
    BY DEF BuildInv, BuildTypeOK, Good
  <2>2. status[b] \in {"completed", "cancelled", "failed"} => pc[b] = "over"
    BY <2>1 DEF Began, Left
  <2>3. Shown(b) = "running" => status[b] = "running"
    BY DEF Shown
  <2>4. status[b] = "running" => pc[b] \in Active \/ pc[b] = "over" \/ (pc[b] = "dead" /\ ~up)
    BY <2>1 DEF Began, Left
  <2>5. status[b] \in {"completed", "cancelled"} => Shown(b) = status[b]
    BY <2>1, <2>2 DEF Left, Shown
  <2>6. status[b] = "failed" => Shown(b) = "failed" \/ b \in lost
    BY <2>1, <2>2 DEF Left, Shown
  <2> QED BY <2>1, <2>3, <2>4, <2>5, <2>6 DEF Left
<1> QED BY <1>1, NativeBuildsInvariant, PTL

(* A build that the run calls cancelled left no artifact, and no download     *)
(* has or will get one (the except clause of execute, artifact).              *)
THEOREM CancelledIsGone == BuildSpec => []CancelledLeavesNothing
<1>1. BuildInv => CancelledLeavesNothing
  <2> SUFFICES ASSUME BuildInv, NEW b \in Builds, status[b] = "cancelled"
               PROVE  /\ file[b] = "none" /\ b \notin served
                      /\ \A d \in Readers : reader[d] # Unset => reader[d][1] # b
    BY DEF CancelledLeavesNothing
  <2>1. Began(b) /\ Left(b) /\ Handed(b) /\ pc[b] \in Active \cup {"unused", "over", "dead"}
    BY DEF BuildInv, BuildTypeOK, Good
  <2>2. pc[b] = "over" /\ ~Touched(b)
    BY <2>1 DEF Began, Left, Handed
  <2> QED BY <2>1, <2>2 DEF Left, Touched
<1> QED BY <1>1, NativeBuildsInvariant, PTL
=============================================================================
