---------------------------- MODULE SourcesProofs ----------------------------
(* Proofs about the source tree of a project, for any contents, requests,     *)
(* checks and number of operations.                                           *)
EXTENDS Sources, TLAPS

(* Which operation takes which steps.                                         *)
StepsAgree ==
  op # Idle =>
    /\ op.step \in {"editing"} => op.name = "build"
    /\ op.step \in {"opening", "checking", "reporting"} => op.name \in {"build", "validate"}
    /\ op.step \in {"stopping", "clearing"} => op.name = "restore"
    /\ op.step \in {"preparing", "listing", "copying", "comparing", "recording"}
         => op.name = "approve"
    /\ op.step \in {"moving", "placing"} => op.name \in {"restore", "approve"}
    /\ op.step \in {"digesting", "exporting"} => op.name = "release"
    /\ op.step \in Saving => op.name \in {"build", "restore", "approve"}
    /\ op.name = "approve" => op.arg \in Requests

(* What an operation remembers is there when it is used.                      *)
Remembered ==
  op # Idle =>
    /\ op.step \in {"before_row", "after_row", "checking", "reporting", "placing"} =>
         op.digest \in Digests
    /\ op.step \in {"comparing", "moving", "placing"} => op.content \in Digests
    /\ op.step = "copying" => tree \in Content /\ op.content \in Content
    /\ op.step = "placing" => tree = Missing

(* A version has its snapshot, which was written first; and once an operation *)
(* that changes the tree has saved it, nothing that is owed is only there.    *)
SavedFirst ==
  /\ versions \subseteq snaps
  /\ owed \subseteq versions \cup {Digest}
  /\ op # Idle =>
       /\ op.step \in {"before_row", "after_row"} => op.digest \in snaps
       /\ op.step = "before_row" => owed \subseteq versions \cup {op.digest}
       /\ op.name \in {"build", "restore", "approve"} /\ op.step \notin {"before", "before_row"} =>
            owed \subseteq versions

(* What the checks saw while nobody, or somebody once, edited the folder.     *)
ChecksWatch ==
  op # Idle =>
    /\ op.step = "checking" =>
         /\ op.meddled = 0 => Digest = op.digest /\ op.saw \subseteq {op.digest}
         /\ op.meddled = 0 /\ op.left < Checks => op.saw = {op.digest}
         /\ op.meddled = 1 => Digest # op.digest
    /\ op.step = "reporting" /\ op.ok => SawItAll

(* The export is of what the gate let through.                                *)
GateHolds ==
  op # Idle /\ op.step = "exporting" /\ op.meddled = 0 => Digest \in vouched

(* A request that is being applied is the pending one that was reviewed, and  *)
(* its tree is copied while nobody, or somebody once, edited the folder.      *)
Copied == op.content = WithPackages(request[op.arg].digest, op.arg)
CopyWatch ==
  op # Idle /\ op.name = "approve" =>
    /\ op.step \in {"listing", "copying", "comparing"} =>
         /\ op.meddled = 0 => Digest = request[op.arg].digest
         /\ op.meddled = 1 => Digest # request[op.arg].digest
         /\ op.meddled = 0 /\ op.step # "listing" => Copied
    /\ op.step \in {"moving", "placing"} /\ op.ok => Copied

RequestsAgree ==
  /\ \A q \in Requests : replaced[q] # None \/ placed[q] # None => request[q].status # "none"
  /\ op # Idle =>
       /\ op.step \in {"listing", "copying", "comparing", "moving", "placing", "recording"}
          /\ op.name = "approve" => request[op.arg].status = "pending"
       /\ op.step = "moving" /\ op.name = "approve" /\ op.meddled = 0 =>
            Digest = request[op.arg].digest
       /\ op.step = "placing" /\ op.name = "approve" /\ op.meddled = 0 =>
            op.digest = request[op.arg].digest
  /\ CopyWatch

IInv == TypeOK /\ StepsAgree /\ Remembered /\ SavedFirst /\ ChecksWatch /\ GateHolds
               /\ RequestsAgree /\ ReportVouches /\ ReleasedWasValidated /\ AppliedToReviewed

-----------------------------------------------------------------------------
(* The records: what an operation is made of, and how it goes on.             *)
LEMMA OpFields ==
  ASSUME NEW o \in Ops
  PROVE  /\ o # Idle
         /\ o.name \in Names /\ o.step \in Steps
         /\ o.arg \in Digests \cup Requests \cup {None}
         /\ o.digest \in Digests \cup {None} /\ o.content \in Digests \cup {None}
         /\ o.left \in 0..Checks /\ o.saw \subseteq Digests
         /\ o.ok \in BOOLEAN /\ o.meddled \in 0..2
<1>1. o.step \in Steps
  BY DEF Ops
<1>2. Idle.step = "idle" /\ "idle" \notin Steps
  BY DEF Idle, Steps
<1> QED BY <1>1, <1>2 DEF Ops

LEMMA OpMoved ==
  ASSUME NEW o \in Ops, NEW step \in Steps
  PROVE  LET n == [o EXCEPT !.step = step] IN
         /\ n \in Ops /\ n # Idle /\ n.step = step
         /\ n.name = o.name /\ n.arg = o.arg /\ n.digest = o.digest /\ n.content = o.content
         /\ n.left = o.left /\ n.saw = o.saw /\ n.ok = o.ok /\ n.meddled = o.meddled
<1> DEFINE n == [o EXCEPT !.step = step]
<1>1. n \in Ops
  BY DEF Ops
<1>2. n # Idle
  BY <1>1, OpFields
<1>3. /\ n.step = step
      /\ n.name = o.name /\ n.arg = o.arg /\ n.digest = o.digest /\ n.content = o.content
      /\ n.left = o.left /\ n.saw = o.saw /\ n.ok = o.ok /\ n.meddled = o.meddled
  BY DEF Ops
<1> QED BY <1>1, <1>2, <1>3

LEMMA InOps == ASSUME TypeOK, op # Idle PROVE op \in Ops
BY DEF TypeOK

LEMMA StepInOps == ASSUME TypeOK, op.step \in Steps PROVE op \in Ops /\ op # Idle
BY OpFields DEF TypeOK, Idle, Steps

(* What the tree is made of.                                                  *)
LEMMA TreeFacts ==
  ASSUME TypeOK
  PROVE  /\ Digest \in Digests
         /\ tree \in Content => Digest = tree /\ tree # Missing
         /\ tree # Missing => Digest = tree
         /\ \A c \in Codes : Edited(c) \in Digests
         /\ \A c \in Codes : tree \in Content /\ c # tree.code =>
              Edited(c) \in Content /\ Edited(c) # tree
<1>1. Missing \notin Content /\ Empty # Missing
  BY NoneAssumption
<1>2. ASSUME NEW c \in Codes, tree \in Content
      PROVE  /\ Edited(c) = [tree EXCEPT !.code = c] /\ Edited(c) \in Content
             /\ Edited(c).code = c
  BY <1>2 DEF Edited, Content
<1>3. \A c \in Codes : Edited(c) \in Digests
  BY <1>2 DEF Edited, Digests
<1> QED BY <1>1, <1>2, <1>3 DEF TypeOK, Digest, Digests

-----------------------------------------------------------------------------
LEMMA InitEstablishes == Init => IInv
<1> SUFFICES ASSUME Init PROVE IInv
  OBVIOUS
<1>1. First \in Content
  BY SourcesAssumption DEF First, Content
<1>2. report \in [status : {"none", "passed", "failed"}, digest : Digests \cup {None}]
  BY DEF Init, NoReport
<1>3. request \in [Requests -> [status : {"none", "pending", "applied", "rejected"},
                                digest : Digests \cup {None}]]
  BY DEF Init
<1>4. replaced \in [Requests -> Digests \cup {None}] /\ placed = replaced /\ 0 \in 0..MaxOps
  BY SourcesAssumption DEF Init
<1>5. TypeOK
  BY <1>1, <1>2, <1>3, <1>4 DEF Init, TypeOK, Digests
<1>6. \A q \in Requests : replaced[q] = None /\ placed[q] = None
  BY DEF Init
<1>7. report.status = "none"
  BY DEF Init, NoReport
<1> QED
  BY <1>5, <1>6, <1>7 DEF Init, IInv, StepsAgree, Remembered, SavedFirst, ChecksWatch,
       GateHolds, RequestsAgree, CopyWatch, ReportVouches, ReleasedWasValidated,
       AppliedToReviewed

(* Steps that change the operation only.                                      *)
LEMMA OnlyOp ==
  ASSUME IInv, UNCHANGED <<tree, snaps, versions, report, request, history>>,
         op' \in Ops \cup {Idle},
         op' # Idle => /\ StepsAgree' /\ Remembered' /\ SavedFirst' /\ ChecksWatch'
                       /\ GateHolds' /\ RequestsAgree'
  PROVE  IInv'
<1>1. TypeOK'
  BY DEF IInv, TypeOK, history
<1>2. StepsAgree' /\ Remembered' /\ ChecksWatch' /\ GateHolds'
  BY DEF StepsAgree, Remembered, ChecksWatch, GateHolds
<1>3. SavedFirst'
  BY DEF IInv, SavedFirst, history, Digest
<1>4. RequestsAgree'
  BY DEF IInv, RequestsAgree, CopyWatch, Copied, history
<1>5. ReportVouches' /\ ReleasedWasValidated' /\ AppliedToReviewed'
  BY DEF IInv, ReportVouches, ReleasedWasValidated, AppliedToReviewed, history
<1> QED BY <1>1, <1>2, <1>3, <1>4, <1>5 DEF IInv

(* An exception: a build goes on to save what there is, a validation to       *)
(* report.                                                                    *)
LEMMA UnwindKeeps ==
  ASSUME IInv, op \in Ops, op.step # "placing", Unwind,
         UNCHANGED <<tree, snaps, versions, report, request, history>>
  PROVE  IInv'
<1>1. CASE op.step = "checking"
  <2>1. op' = [op EXCEPT !.step = "reporting", !.ok = FALSE]
    BY <1>1 DEF Unwind
  <2>2. /\ op' \in Ops /\ op'.step = "reporting" /\ op'.ok = FALSE
        /\ op'.name = op.name /\ op'.arg = op.arg /\ op'.digest = op.digest
    BY <2>1 DEF Ops, Steps
  <2>3. StepsAgree' /\ Remembered' /\ ChecksWatch' /\ GateHolds'
    BY <1>1, <2>2, OpFields DEF IInv, StepsAgree, Remembered, ChecksWatch, GateHolds, Saving
  <2>4. SavedFirst'
    BY <1>1, <2>2, OpFields DEF IInv, SavedFirst, StepsAgree, history, Digest
  <2>5. RequestsAgree'
    BY <2>2 DEF IInv, RequestsAgree, CopyWatch, Copied, history
  <2> QED BY <2>2, <2>3, <2>4, <2>5, OnlyOp
<1>2. CASE op.step # "checking" /\ op.name = "build" /\ op.step \notin Saving
  <2>1. op' = [op EXCEPT !.step = "after"] /\ "after" \in Steps
    BY <1>2 DEF Unwind, Steps
  <2>2. /\ op' \in Ops /\ op'.step = "after" /\ op'.name = op.name /\ op'.arg = op.arg
    BY <2>1, OpMoved
  <2>3. StepsAgree' /\ Remembered' /\ ChecksWatch' /\ GateHolds'
    BY <1>2, <2>2 DEF StepsAgree, Remembered, ChecksWatch, GateHolds
  <2>4. SavedFirst'
    BY <1>2, <2>2, OpFields DEF IInv, SavedFirst, history, Digest, Saving
  <2>5. RequestsAgree'
    BY <2>2 DEF IInv, RequestsAgree, CopyWatch, Copied, history
  <2> QED BY <2>2, <2>3, <2>4, <2>5, OnlyOp
<1>3. CASE op' = Idle
  BY <1>3, OnlyOp
<1> QED BY <1>1, <1>2, <1>3 DEF Unwind

(* The other steps that change the operation only.                            *)
LEMMA RaiseKeeps ==
  ASSUME IInv, Raise \/ Crash
  PROVE  IInv'
<1>1. op \in Ops
  BY DEF IInv, TypeOK, Raise, Crash
<1>2. CASE Raise
  BY <1>1, <1>2, UnwindKeeps DEF Raise
<1>3. CASE Crash
  BY <1>3, OnlyOp DEF Crash
<1> QED BY <1>2, <1>3

LEMMA AgentDoneKeeps ==
  ASSUME IInv, AgentDone
  PROVE  IInv'
<1>1. op.step = "editing" /\ "opening" \in Steps /\ op' = [op EXCEPT !.step = "opening"]
  BY DEF AgentDone, Goto, Steps
<1>2. op \in Ops /\ op # Idle
  BY <1>1, StepInOps DEF IInv, Steps
<1>3. op' \in Ops /\ op'.step = "opening" /\ op'.name = op.name /\ op'.arg = op.arg
  BY <1>1, <1>2, OpMoved
<1>4. UNCHANGED <<tree, snaps, versions, report, request, history>>
  BY DEF AgentDone
<1>5. StepsAgree' /\ Remembered' /\ ChecksWatch' /\ GateHolds'
  BY <1>1, <1>2, <1>3 DEF IInv, StepsAgree, Remembered, ChecksWatch, GateHolds, Saving
<1>6. SavedFirst'
  BY <1>1, <1>2, <1>3, <1>4 DEF IInv, SavedFirst, StepsAgree, history, Digest
<1>7. RequestsAgree'
  BY <1>3, <1>4 DEF IInv, RequestsAgree, CopyWatch, Copied, history
<1> QED BY <1>3, <1>4, <1>5, <1>6, <1>7, OnlyOp

LEMMA CheckKeeps ==
  ASSUME IInv, Check
  PROVE  IInv'
<1>1. op.step = "checking" /\ op.left > 0 /\ tree \in Content
      /\ op' = [op EXCEPT !.left = @ - 1, !.saw = @ \cup {tree}]
  BY DEF Check
<1>2. op \in Ops /\ op # Idle
  BY <1>1, StepInOps DEF IInv, Steps
<1>3. op.left \in 0..Checks /\ op.left - 1 \in 0..Checks
  BY <1>1, <1>2, OpFields, SourcesAssumption
<1>4. Digest = tree /\ tree \in Digests
  BY <1>1, TreeFacts DEF IInv
<1>5. op.saw \cup {tree} \in SUBSET Digests
  BY <1>2, <1>4, OpFields
<1>6. /\ op' \in Ops /\ op'.step = "checking" /\ op'.name = op.name /\ op'.arg = op.arg
      /\ op'.digest = op.digest /\ op'.saw = op.saw \cup {tree} /\ op'.left = op.left - 1
      /\ op'.meddled = op.meddled
  BY <1>1, <1>2, <1>3, <1>5 DEF Ops
<1>7. UNCHANGED <<tree, snaps, versions, report, request, history>>
  BY DEF Check
<1>8. StepsAgree' /\ Remembered' /\ GateHolds'
  BY <1>1, <1>2, <1>6 DEF IInv, StepsAgree, Remembered, GateHolds, Saving
<1>9. Digest' = Digest
  BY <1>7 DEF Digest
<1>10. ChecksWatch'
  BY <1>1, <1>2, <1>4, <1>6, <1>9 DEF IInv, ChecksWatch
<1>11. SavedFirst'
  BY <1>1, <1>2, <1>6, <1>7, <1>9 DEF IInv, SavedFirst, history
<1>12. RequestsAgree'
  BY <1>6, <1>7 DEF IInv, RequestsAgree, CopyWatch, Copied, history
<1> QED BY <1>6, <1>7, <1>8, <1>10, <1>11, <1>12, OnlyOp

(* The digest is what it was: nobody edited, or twice.  All checks saw it.    *)
LEMMA CompareKeeps ==
  ASSUME IInv, Compare
  PROVE  IInv'
<1>1. op.step = "checking" /\ op.left = 0
      /\ op' = [op EXCEPT !.step = "reporting", !.ok = UnchangedSince]
  BY DEF Compare
<1>2. op \in Ops /\ op # Idle
  BY <1>1, StepInOps DEF IInv, Steps
<1>3. UnchangedSince \in BOOLEAN /\ "reporting" \in Steps
  BY DEF UnchangedSince, Steps
<1>4. /\ op' \in Ops /\ op'.step = "reporting" /\ op'.name = op.name /\ op'.arg = op.arg
      /\ op'.digest = op.digest /\ op'.saw = op.saw /\ op'.meddled = op.meddled
      /\ op'.ok = UnchangedSince
  <2> HIDE DEF UnchangedSince
  <2> QED BY <1>1, <1>2, <1>3 DEF Ops
<1>5. UNCHANGED <<tree, snaps, versions, report, request, history>>
  BY DEF Compare
<1>6. StepsAgree' /\ Remembered' /\ GateHolds'
  BY <1>1, <1>2, <1>4 DEF IInv, StepsAgree, Remembered, GateHolds, Saving
<1>7. ChecksWatch'
  <2>1. op.meddled = 0 \/ op.meddled = 1 \/ op.meddled > 1
    BY <1>2, OpFields
  <2>2. op.left < Checks
    BY <1>1, SourcesAssumption
  <2>3. UnchangedSince => op.saw = {op.digest} \/ op.meddled > 1
    BY <1>1, <1>2, <2>1, <2>2 DEF IInv, ChecksWatch, UnchangedSince
  <2> QED
    BY <1>4, <2>3 DEF ChecksWatch, SawItAll
<1>8. SavedFirst'
  BY <1>1, <1>2, <1>4, <1>5 DEF IInv, SavedFirst, history, Digest
<1>9. RequestsAgree'
  BY <1>4, <1>5 DEF IInv, RequestsAgree, CopyWatch, Copied, history
<1> QED BY <1>4, <1>5, <1>6, <1>7, <1>8, <1>9, OnlyOp

LEMMA StageKeeps ==
  ASSUME IInv, Stage
  PROVE  IInv'
<1>1. op.step = "stopping" /\ op.arg \in snaps
      /\ op' = [op EXCEPT !.step = "moving", !.content = op.arg, !.meddled = 0]
  BY DEF Stage
<1>2. op \in Ops /\ op # Idle
  BY <1>1, StepInOps DEF IInv, Steps
<1>3. op.arg \in Digests /\ "moving" \in Steps /\ op.name = "restore"
  BY <1>1, <1>2 DEF IInv, TypeOK, StepsAgree, Steps
<1>4. /\ op' \in Ops /\ op'.step = "moving" /\ op'.name = op.name /\ op'.arg = op.arg
      /\ op'.content = op.arg
  <2>1. 0 \in 0..2
    OBVIOUS
  <2> QED BY <1>1, <1>2, <1>3, <2>1 DEF Ops
<1>5. UNCHANGED <<tree, snaps, versions, report, request, history>>
  BY DEF Stage
<1>6. StepsAgree' /\ Remembered' /\ ChecksWatch' /\ GateHolds'
  BY <1>1, <1>2, <1>3, <1>4 DEF StepsAgree, Remembered, ChecksWatch, GateHolds, Saving
<1>7. SavedFirst'
  BY <1>1, <1>2, <1>3, <1>4, <1>5 DEF IInv, SavedFirst, history, Digest
<1>8. RequestsAgree'
  BY <1>3, <1>4, <1>5 DEF IInv, RequestsAgree, CopyWatch, Copied, history
<1> QED BY <1>4, <1>5, <1>6, <1>7, <1>8, OnlyOp

LEMMA CompareFirstKeeps ==
  ASSUME IInv, CompareFirst
  PROVE  IInv'
<1>1. /\ op.step = "preparing" /\ request[op.arg].status = "pending"
      /\ request[op.arg].digest = Digest
      /\ op' = [op EXCEPT !.step = "listing", !.meddled = 0]
  BY DEF CompareFirst, Reviewed
<1>2. op \in Ops /\ op # Idle
  BY <1>1, StepInOps DEF IInv, Steps
<1>3. op.name = "approve" /\ op.arg \in Requests
  BY <1>1, <1>2 DEF IInv, StepsAgree
<1>4. /\ op' \in Ops /\ op'.step = "listing" /\ op'.name = op.name /\ op'.arg = op.arg
      /\ op'.meddled = 0
  <2>1. 0 \in 0..2 /\ "listing" \in Steps
    BY DEF Steps
  <2> QED BY <1>1, <1>2, <2>1 DEF Ops
<1>5. UNCHANGED <<tree, snaps, versions, report, request, history>> /\ Digest' = Digest
  BY DEF CompareFirst, Digest
<1>6. StepsAgree' /\ Remembered' /\ ChecksWatch' /\ GateHolds'
  BY <1>3, <1>4 DEF StepsAgree, Remembered, ChecksWatch, GateHolds, Saving
<1>7. SavedFirst'
  BY <1>1, <1>2, <1>3, <1>4, <1>5 DEF IInv, SavedFirst, history
<1>8. RequestsAgree'
  BY <1>1, <1>3, <1>4, <1>5 DEF IInv, RequestsAgree, CopyWatch, history
<1> QED BY <1>4, <1>5, <1>6, <1>7, <1>8, OnlyOp

LEMMA ListPackagesKeeps ==
  ASSUME IInv, ListPackages
  PROVE  IInv'
<1> DEFINE content == WithPackages(tree, op.arg)
<1>1. /\ op.step = "listing" /\ tree \in Content
      /\ op' = [op EXCEPT !.step = "copying", !.content = content]
  BY DEF ListPackages, Trusted
<1>2. op \in Ops /\ op # Idle
  BY <1>1, StepInOps DEF IInv, Steps
<1>3. op.name = "approve" /\ op.arg \in Requests
  BY <1>1, <1>2 DEF IInv, StepsAgree
<1>4. content \in Content /\ content \in Digests /\ "copying" \in Steps /\ Digest = tree
  BY <1>1, <1>3, TreeFacts DEF IInv, WithPackages, Content, Digests, Steps
<1>a. content = WithPackages(tree, op.arg)
  OBVIOUS
<1> HIDE DEF content
<1>5. /\ op' \in Ops /\ op'.step = "copying" /\ op'.name = op.name /\ op'.arg = op.arg
      /\ op'.content = content /\ op'.meddled = op.meddled
  BY <1>1, <1>2, <1>4 DEF Ops
<1>6. UNCHANGED <<tree, snaps, versions, report, request, history>> /\ Digest' = Digest
  BY DEF ListPackages, Digest
<1>7. StepsAgree' /\ Remembered' /\ ChecksWatch' /\ GateHolds'
  BY <1>1, <1>2, <1>3, <1>4, <1>5, <1>6
     DEF StepsAgree, Remembered, ChecksWatch, GateHolds, Saving
<1>8. SavedFirst'
  BY <1>1, <1>2, <1>3, <1>5, <1>6 DEF IInv, SavedFirst, history
<1>9. CopyWatch'
  BY <1>1, <1>2, <1>3, <1>4, <1>a, <1>5, <1>6 DEF IInv, RequestsAgree, CopyWatch, Copied
<1>10. RequestsAgree'
  BY <1>1, <1>2, <1>3, <1>5, <1>6, <1>9 DEF IInv, RequestsAgree, history
<1> QED BY <1>5, <1>6, <1>7, <1>8, <1>10, OnlyOp

LEMMA CopyFilesKeeps ==
  ASSUME IInv, CopyFiles
  PROVE  IInv'
<1> DEFINE content == [tree EXCEPT !.packs = op.content.packs]
<1>1. op.step = "copying" /\ op' = [op EXCEPT !.step = "comparing", !.content = content]
  BY DEF CopyFiles
<1>2. op \in Ops /\ op # Idle
  BY <1>1, StepInOps DEF IInv, Steps
<1>3. /\ op.name = "approve" /\ op.arg \in Requests
      /\ tree \in Content /\ op.content \in Content
  BY <1>1, <1>2 DEF IInv, StepsAgree, Remembered
<1>4. content \in Digests /\ "comparing" \in Steps /\ Digest = tree
  BY <1>1, <1>3, TreeFacts DEF IInv, Content, Digests, Steps
<1>a. op.content = WithPackages(tree, op.arg) => content = WithPackages(tree, op.arg)
  BY <1>3 DEF WithPackages, Content
<1> HIDE DEF content
<1>5. /\ op' \in Ops /\ op'.step = "comparing" /\ op'.name = op.name /\ op'.arg = op.arg
      /\ op'.content = content /\ op'.meddled = op.meddled
  BY <1>1, <1>2, <1>4 DEF Ops
<1>6. UNCHANGED <<tree, snaps, versions, report, request, history>> /\ Digest' = Digest
  BY DEF CopyFiles, Digest
<1>7. StepsAgree' /\ Remembered' /\ ChecksWatch' /\ GateHolds'
  BY <1>1, <1>2, <1>3, <1>4, <1>5 DEF StepsAgree, Remembered, ChecksWatch, GateHolds, Saving
<1>8. SavedFirst'
  BY <1>1, <1>2, <1>3, <1>5, <1>6 DEF IInv, SavedFirst, history
<1>9. CopyWatch'
  BY <1>1, <1>2, <1>3, <1>4, <1>a, <1>5, <1>6 DEF IInv, RequestsAgree, CopyWatch, Copied
<1>10. RequestsAgree'
  BY <1>1, <1>2, <1>3, <1>5, <1>6, <1>9 DEF IInv, RequestsAgree, history
<1> QED BY <1>5, <1>6, <1>7, <1>8, <1>10, OnlyOp

(* The digest is what it was: nobody edited, or twice.                        *)
LEMMA CompareAgainKeeps ==
  ASSUME IInv, CompareAgain
  PROVE  IInv'
<1>1. op.step = "comparing" /\ request[op.arg].digest = Digest
      /\ op' = [op EXCEPT !.step = "moving", !.digest = Digest, !.meddled = 0,
                         !.ok = op.meddled < 2]
  BY DEF CompareAgain, Reviewed
<1>2. op \in Ops /\ op # Idle
  BY <1>1, StepInOps DEF IInv, Steps
<1>3. op.name = "approve" /\ op.content \in Digests /\ request[op.arg].status = "pending"
  BY <1>1, <1>2 DEF IInv, StepsAgree, Remembered, RequestsAgree, CopyWatch, Copied
<1>4. Digest \in Digests /\ "moving" \in Steps
  BY TreeFacts DEF IInv, Steps
<1>5. /\ op' \in Ops /\ op'.step = "moving" /\ op'.name = op.name /\ op'.arg = op.arg
      /\ op'.content = op.content /\ op'.ok = (op.meddled < 2)
  <2>1. 0 \in 0..2 /\ (op.meddled < 2) \in BOOLEAN
    OBVIOUS
  <2> HIDE DEF Digest
  <2> QED BY <1>1, <1>2, <1>4, <2>1 DEF Ops
<1>6. UNCHANGED <<tree, snaps, versions, report, request, history>> /\ Digest' = Digest
  BY DEF CompareAgain, Digest
<1>7. StepsAgree' /\ Remembered' /\ ChecksWatch' /\ GateHolds'
  BY <1>1, <1>2, <1>3, <1>5 DEF IInv, StepsAgree, Remembered, ChecksWatch, GateHolds, Saving
<1>8. SavedFirst'
  BY <1>1, <1>2, <1>3, <1>5, <1>6 DEF IInv, SavedFirst, history
<1>9. op'.ok => Copied
  <2>1. op.meddled < 2 => op.meddled = 0
    BY <1>1, <1>2, <1>3, OpFields DEF IInv, RequestsAgree, CopyWatch
  <2> QED
    BY <1>1, <1>2, <1>3, <1>5, <2>1 DEF IInv, RequestsAgree, CopyWatch
<1>10. CopyWatch'
  BY <1>5, <1>6, <1>9 DEF CopyWatch, Copied
<1>11. RequestsAgree'
  BY <1>1, <1>3, <1>5, <1>6, <1>10 DEF IInv, RequestsAgree, history
<1> QED BY <1>5, <1>6, <1>7, <1>8, <1>11, OnlyOp

(* The gate: the report vouches for the tree that the export is about to read.*)
LEMMA PassGateKeeps ==
  ASSUME IInv, PassGate
  PROVE  IInv'
<1>1. op.step = "digesting" /\ report.status = "passed" /\ report.digest = Digest
      /\ op' = [op EXCEPT !.step = "exporting", !.meddled = 0]
  BY DEF PassGate, Gate
<1>2. op \in Ops /\ op # Idle
  BY <1>1, StepInOps DEF IInv, Steps
<1>3. op.name = "release" /\ Digest \in vouched
  BY <1>1, <1>2 DEF IInv, StepsAgree, ReportVouches
<1>4. op' \in Ops /\ op'.step = "exporting" /\ op'.name = op.name /\ op'.arg = op.arg
  <2>1. 0 \in 0..2 /\ "exporting" \in Steps
    BY DEF Steps
  <2> QED BY <1>1, <1>2, <2>1 DEF Ops
<1>5. UNCHANGED <<tree, snaps, versions, report, request, history>> /\ Digest' = Digest
  BY DEF PassGate, Digest
<1>6. StepsAgree' /\ Remembered' /\ ChecksWatch'
  BY <1>3, <1>4 DEF StepsAgree, Remembered, ChecksWatch, Saving
<1>7. GateHolds'
  BY <1>3, <1>5 DEF GateHolds, history
<1>8. SavedFirst'
  BY <1>3, <1>4, <1>5 DEF IInv, SavedFirst, history
<1>9. RequestsAgree'
  BY <1>3, <1>4, <1>5 DEF IInv, RequestsAgree, CopyWatch, Copied, history
<1> QED BY <1>4, <1>5, <1>6, <1>7, <1>8, <1>9, OnlyOp

-----------------------------------------------------------------------------
(* Taking the lock; what is owed grows by the tree that is there.             *)
LEMMA BeginKeeps ==
  ASSUME IInv, NEW name \in Names, NEW arg \in Digests \cup Requests \cup {None},
         Begin(name, arg)
  PROVE  IInv'
<1>1. op = Idle /\ begun < MaxOps /\ begun' = begun + 1 /\ owed' = owed \cup {Digest}
      /\ op' = [Idle EXCEPT !.name = name, !.step = Entry[name], !.arg = arg]
      /\ UNCHANGED <<tree, snaps, versions, report, request, verdict, vouched, released,
                     replaced, placed>>
  BY DEF Begin
<1>2. name = "approve" => arg \in Requests
  BY DEF Begin
<1>3. /\ name \in {"build", "restore", "approve"} => Entry[name] = "before"
      /\ name = "validate" => Entry[name] = "opening"
      /\ name = "release" => Entry[name] = "digesting"
  BY DEF Entry
<1>4. Entry[name] \in Steps
  BY <1>3 DEF Names, Steps
<1> HIDE DEF Entry
<1>5. /\ op' \in Ops /\ op'.name = name /\ op'.step = Entry[name] /\ op'.arg = arg
  <2>1. op' = [name |-> name, step |-> Entry[name], arg |-> arg, digest |-> None,
               content |-> None, left |-> 0, saw |-> {}, ok |-> FALSE, meddled |-> 0]
    BY <1>1 DEF Idle
  <2>2. 0 \in 0..2 /\ 0 \in 0..Checks
    BY SourcesAssumption
  <2> QED BY <1>4, <2>1, <2>2 DEF Ops
<1>6. begun' \in 0..MaxOps /\ owed' \subseteq Digests
  BY <1>1, TreeFacts, SourcesAssumption DEF IInv, TypeOK
<1>7. TypeOK'
  BY <1>1, <1>5, <1>6 DEF IInv, TypeOK
<1>8. StepsAgree' /\ Remembered' /\ ChecksWatch' /\ GateHolds'
  BY <1>2, <1>3, <1>5 DEF StepsAgree, Remembered, ChecksWatch, GateHolds, Names, Saving
<1>9. SavedFirst'
  BY <1>1, <1>3, <1>5 DEF IInv, SavedFirst, Names, Digest
<1>10. RequestsAgree'
  BY <1>1, <1>3, <1>5 DEF IInv, RequestsAgree, CopyWatch, Copied, Names
<1>11. ReportVouches' /\ ReleasedWasValidated' /\ AppliedToReviewed'
  BY <1>1 DEF IInv, ReportVouches, ReleasedWasValidated, AppliedToReviewed
<1> QED BY <1>7, <1>8, <1>9, <1>10, <1>11 DEF IInv

LEMMA SaveFileKeeps ==
  ASSUME IInv, SaveFile
  PROVE  IInv'
<1> DEFINE next == IF op.step = "before" THEN "before_row" ELSE "after_row"
<1>1. /\ op.step \in {"before", "after"} /\ snaps' = snaps \cup {Digest}
      /\ op' = [op EXCEPT !.step = next, !.digest = Digest]
      /\ UNCHANGED <<tree, versions, report, request, history>>
  BY DEF SaveFile
<1>2. op \in Ops /\ op # Idle
  BY <1>1, StepInOps DEF IInv, Steps
<1>3. Digest \in Digests /\ Digest' = Digest /\ next \in Steps
      /\ (next = "before_row" <=> op.step = "before") /\ next \in {"before_row", "after_row"}
  BY <1>1, TreeFacts DEF IInv, Steps, Digest
<1> HIDE DEF next
<1>4. /\ op' \in Ops /\ op'.step = next /\ op'.digest = Digest
      /\ op'.name = op.name /\ op'.arg = op.arg
  <2> HIDE DEF Digest
  <2> QED BY <1>1, <1>2, <1>3 DEF Ops
<1>5. op.name \in {"build", "restore", "approve"}
  BY <1>1, <1>2 DEF IInv, StepsAgree, Saving
<1>6. TypeOK'
  BY <1>1, <1>3, <1>4 DEF IInv, TypeOK, history
<1>7. StepsAgree' /\ Remembered' /\ ChecksWatch' /\ GateHolds'
  BY <1>2, <1>3, <1>4, <1>5 DEF IInv, StepsAgree, Remembered, ChecksWatch, GateHolds, Saving
<1>8. SavedFirst'
  BY <1>1, <1>2, <1>3, <1>4, <1>5 DEF IInv, SavedFirst, history
<1>9. RequestsAgree'
  BY <1>1, <1>3, <1>4 DEF IInv, RequestsAgree, CopyWatch, Copied, history
<1>10. ReportVouches' /\ ReleasedWasValidated' /\ AppliedToReviewed'
  BY <1>1 DEF IInv, ReportVouches, ReleasedWasValidated, AppliedToReviewed, history
<1> QED BY <1>6, <1>7, <1>8, <1>9, <1>10 DEF IInv

LEMMA SaveRowKeeps ==
  ASSUME IInv, SaveRow
  PROVE  IInv'
<1>1. /\ op.step \in {"before_row", "after_row"} /\ versions' = versions \cup {op.digest}
      /\ UNCHANGED <<tree, snaps, report, request, history>>
  BY DEF SaveRow
<1>2. op \in Ops /\ op # Idle
  BY <1>1, StepInOps DEF IInv, Steps
<1>3. op.digest \in Digests /\ op.digest \in snaps /\ Digest' = Digest
      /\ op.name \in {"build", "restore", "approve"}
  BY <1>1, <1>2 DEF IInv, Remembered, SavedFirst, StepsAgree, Saving, Digest
<1>4. versions' \subseteq snaps' /\ owed' \subseteq versions' \cup {Digest'}
      /\ (op.step = "before_row" => owed' \subseteq versions')
  BY <1>1, <1>2, <1>3 DEF IInv, SavedFirst, history
<1>5. \/ op' = Idle
      \/ op.step = "before_row" /\ op' = [op EXCEPT !.step = AfterSave[op.name]]
  BY <1>1 DEF SaveRow, Goto, Unwind, Saving
<1>6. op' # Idle =>
        /\ op' \in Ops /\ op'.name = op.name /\ op'.arg = op.arg
        /\ op.name = "build" => op'.step = "editing"
        /\ op.name = "restore" => op'.step = "stopping"
        /\ op.name = "approve" => op'.step = "preparing"
  <2>1. /\ op.name = "build" => AfterSave[op.name] = "editing"
        /\ op.name = "restore" => AfterSave[op.name] = "stopping"
        /\ op.name = "approve" => AfterSave[op.name] = "preparing"
    BY DEF AfterSave
  <2>2. AfterSave[op.name] \in Steps
    BY <1>3, <2>1 DEF Steps
  <2> HIDE DEF AfterSave
  <2>3. CASE op' = [op EXCEPT !.step = AfterSave[op.name]]
    <3>1. /\ op' \in Ops /\ op'.step = AfterSave[op.name]
          /\ op'.name = op.name /\ op'.arg = op.arg
      BY <1>2, <2>2, <2>3, OpMoved
    <3> QED BY <2>1, <3>1
  <2> QED BY <1>5, <2>3
<1>7. TypeOK'
  BY <1>1, <1>3, <1>6 DEF IInv, TypeOK, history
<1>8. StepsAgree' /\ Remembered' /\ ChecksWatch' /\ GateHolds'
  BY <1>2, <1>3, <1>6 DEF IInv, StepsAgree, Remembered, ChecksWatch, GateHolds, Saving
<1>9. SavedFirst'
  BY <1>3, <1>4, <1>5, <1>6 DEF SavedFirst
<1>10. RequestsAgree'
  BY <1>1, <1>3, <1>6 DEF IInv, RequestsAgree, CopyWatch, Copied, history
<1>11. ReportVouches' /\ ReleasedWasValidated' /\ AppliedToReviewed'
  BY <1>1 DEF IInv, ReportVouches, ReleasedWasValidated, AppliedToReviewed, history
<1> QED BY <1>7, <1>8, <1>9, <1>10, <1>11 DEF IInv

-----------------------------------------------------------------------------
(* Edits: by the agent only after the tree was saved, by others at any time,  *)
(* which takes what they overwrite out of what is owed.                       *)
LEMMA AgentEditsKeeps ==
  ASSUME IInv, NEW c \in Codes, AgentEdits(c)
  PROVE  IInv'
<1>1. op.step = "editing" /\ tree' = Edited(c)
      /\ UNCHANGED <<snaps, versions, report, request, op, history>>
  BY DEF AgentEdits
<1>2. op \in Ops /\ op # Idle
  BY <1>1, StepInOps DEF IInv, Steps
<1>3. op.name = "build"
  BY <1>1, <1>2 DEF IInv, StepsAgree
<1>4. Edited(c) \in Digests
  BY TreeFacts DEF IInv
<1>5. TypeOK'
  BY <1>1, <1>4 DEF IInv, TypeOK, history
<1>6. StepsAgree' /\ Remembered' /\ ChecksWatch' /\ GateHolds'
  BY <1>1 DEF IInv, StepsAgree, Remembered, ChecksWatch, GateHolds
<1>7. SavedFirst'
  BY <1>1, <1>2, <1>3 DEF IInv, SavedFirst, history
<1>8. RequestsAgree'
  BY <1>1 DEF IInv, RequestsAgree, CopyWatch, Copied, history
<1>9. ReportVouches' /\ ReleasedWasValidated' /\ AppliedToReviewed'
  BY <1>1 DEF IInv, ReportVouches, ReleasedWasValidated, AppliedToReviewed, history
<1> QED BY <1>5, <1>6, <1>7, <1>8, <1>9 DEF IInv

LEMMA OutsideKeeps ==
  ASSUME IInv, NEW t \in Content, Outside(t)
  PROVE  IInv'
<1>1. /\ tree \in Content /\ t # tree /\ tree' = t /\ owed' = owed \ {tree}
      /\ UNCHANGED <<snaps, versions, report, request, verdict, vouched, released,
                     replaced, placed, begun>>
  BY EditsAssumption DEF Outside
<1>2. /\ tree' \in Content /\ tree' # tree /\ tree' \in Digests
      /\ Digest = tree /\ Digest' = tree' /\ tree # Missing
  BY <1>1, TreeFacts, NoneAssumption DEF IInv, Digest, Digests
<1>3. CASE op = Idle
  <2>1. op' = Idle
    BY <1>3 DEF Outside
  <2>2. TypeOK'
    BY <1>1, <1>2, <2>1 DEF IInv, TypeOK
  <2>3. StepsAgree' /\ Remembered' /\ ChecksWatch' /\ GateHolds'
    BY <2>1 DEF StepsAgree, Remembered, ChecksWatch, GateHolds
  <2>4. SavedFirst' /\ RequestsAgree'
    BY <1>1, <1>2, <2>1 DEF IInv, SavedFirst, RequestsAgree, CopyWatch, Copied
  <2>5. ReportVouches' /\ ReleasedWasValidated' /\ AppliedToReviewed'
    BY <1>1 DEF IInv, ReportVouches, ReleasedWasValidated, AppliedToReviewed
  <2> QED BY <2>2, <2>3, <2>4, <2>5 DEF IInv
<1>4. CASE op # Idle
  <2>1. op \in Ops /\ op.meddled \in 0..2
    BY <1>4, InOps, OpFields DEF IInv
  <2>2. /\ op' \in Ops /\ op' # Idle
        /\ op'.meddled = IF op.meddled = 2 THEN 2 ELSE op.meddled + 1
        /\ op'.step = op.step /\ op'.name = op.name /\ op'.arg = op.arg
        /\ op'.digest = op.digest /\ op'.content = op.content
        /\ op'.left = op.left /\ op'.saw = op.saw /\ op'.ok = op.ok
    <3>1. CASE op.meddled = 2
      BY <1>4, <2>1, <3>1 DEF Outside
    <3>2. CASE op.meddled # 2
      <4>1. op' = [op EXCEPT !.meddled = @ + 1] /\ op.meddled + 1 \in 0..2
        BY <1>4, <2>1, <3>2 DEF Outside
      <4>2. /\ op' \in Ops /\ op'.meddled = op.meddled + 1
            /\ op'.step = op.step /\ op'.name = op.name /\ op'.arg = op.arg
            /\ op'.digest = op.digest /\ op'.content = op.content
            /\ op'.left = op.left /\ op'.saw = op.saw /\ op'.ok = op.ok
        BY <2>1, <4>1 DEF Ops
      <4> QED BY <3>2, <4>2, OpFields
    <3> QED BY <3>1, <3>2
  <2>3. op'.meddled # 0
    BY <2>1, <2>2
  <2>4. TypeOK'
    BY <1>1, <1>2, <2>2 DEF IInv, TypeOK
  <2>5. StepsAgree' /\ Remembered' /\ GateHolds'
    BY <1>2, <1>4, <2>2, <2>3 DEF IInv, StepsAgree, Remembered, GateHolds
  <2>6. ChecksWatch'
    <3>1. op'.meddled = 1 => op.meddled = 0
      BY <2>1, <2>2
    <3>2. op.step = "checking" /\ op'.meddled = 1 => Digest' # op'.digest
      BY <1>2, <1>4, <2>2, <3>1 DEF IInv, ChecksWatch
    <3>3. op.meddled > 1 => op'.meddled > 1
      BY <2>1, <2>2
    <3>4. op.step = "reporting" /\ op.ok => SawItAll'
      BY <1>4, <2>2, <3>3 DEF IInv, ChecksWatch, SawItAll
    <3> QED BY <2>2, <2>3, <3>2, <3>4 DEF ChecksWatch
  <2>7. SavedFirst'
    BY <1>1, <1>2, <1>4, <2>2 DEF IInv, SavedFirst
  <2>8. RequestsAgree'
    <3>1. op'.meddled = 1 => op.meddled = 0
      BY <2>1, <2>2
    <3>2. Copied' <=> Copied
      BY <1>1, <2>2 DEF Copied
    <3>3. CopyWatch'
      BY <1>1, <1>2, <1>4, <2>2, <2>3, <3>1, <3>2 DEF IInv, RequestsAgree, CopyWatch
    <3> QED
      BY <1>1, <1>4, <2>2, <2>3, <3>3 DEF IInv, RequestsAgree
  <2>9. ReportVouches' /\ ReleasedWasValidated' /\ AppliedToReviewed'
    BY <1>1 DEF IInv, ReportVouches, ReleasedWasValidated, AppliedToReviewed
  <2> QED BY <2>4, <2>5, <2>6, <2>7, <2>8, <2>9 DEF IInv
<1> QED BY <1>3, <1>4

-----------------------------------------------------------------------------
(* Package requests.                                                          *)
LEMMA ProposeKeeps ==
  ASSUME IInv, NEW q \in Requests, Propose(q)
  PROVE  IInv'
<1>1. /\ op.step = "editing" /\ request[q].status = "none"
      /\ request' = [request EXCEPT ![q] = [status |-> "pending", digest |-> Digest]]
      /\ op' = [op EXCEPT !.step = "after"] \/ op' = op
      /\ UNCHANGED <<tree, snaps, versions, report, history>>
  BY DEF Propose, Goto
<1>2. op \in Ops /\ op # Idle
  BY <1>1, StepInOps DEF IInv, Steps
<1>3. op.name = "build" /\ replaced[q] = None /\ placed[q] = None
  BY <1>1, <1>2 DEF IInv, StepsAgree, RequestsAgree, CopyWatch, Copied
<1>4. /\ op' \in Ops /\ op'.step \in {"editing", "after"}
      /\ op'.name = op.name /\ op'.arg = op.arg
  <2>1. "after" \in Steps
    BY DEF Steps
  <2>2. CASE op' = [op EXCEPT !.step = "after"]
    <3>1. op' \in Ops /\ op'.step = "after" /\ op'.name = op.name /\ op'.arg = op.arg
      BY <1>2, <2>1, <2>2, OpMoved
    <3> QED BY <3>1
  <2> QED BY <1>1, <1>2, <2>2
<1>5. Digest \in Digests /\ Digest' = Digest
  BY <1>1, TreeFacts DEF IInv, Digest
<1>6. request' \in [Requests -> [status : {"none", "pending", "applied", "rejected"},
                                 digest : Digests \cup {None}]]
  <2> HIDE DEF Digest
  <2> QED BY <1>1, <1>5 DEF IInv, TypeOK
<1>7. TypeOK'
  BY <1>1, <1>4, <1>6 DEF IInv, TypeOK, history
<1>8. StepsAgree' /\ Remembered' /\ ChecksWatch' /\ GateHolds'
  BY <1>1, <1>2, <1>3, <1>4 DEF IInv, StepsAgree, Remembered, ChecksWatch, GateHolds, Saving
<1>9. SavedFirst'
  BY <1>1, <1>2, <1>3, <1>4, <1>5 DEF IInv, SavedFirst, history
<1>10. \A p \in Requests : p # q => request'[p] = request[p]
  BY <1>1 DEF IInv, TypeOK
<1>11. replaced' = replaced /\ placed' = placed
  BY <1>1 DEF history
<1>12. RequestsAgree'
  BY <1>3, <1>4, <1>10, <1>11 DEF IInv, RequestsAgree, CopyWatch, Copied
<1>13. AppliedToReviewed'
  BY <1>3, <1>10, <1>11 DEF IInv, AppliedToReviewed
<1>14. ReportVouches' /\ ReleasedWasValidated'
  BY <1>1 DEF IInv, ReportVouches, ReleasedWasValidated, history
<1> QED BY <1>7, <1>8, <1>9, <1>12, <1>13, <1>14 DEF IInv

LEMMA RejectKeeps ==
  ASSUME IInv, NEW q \in Requests, Reject(q)
  PROVE  IInv'
<1>1. /\ op = Idle /\ request[q].status = "pending"
      /\ request' = [request EXCEPT ![q].status = "rejected"]
      /\ UNCHANGED <<tree, snaps, versions, report, op, history>>
  BY DEF Reject
<1>2. /\ request' \in [Requests -> [status : {"none", "pending", "applied", "rejected"},
                                    digest : Digests \cup {None}]]
      /\ request'[q].status = "rejected"
      /\ \A p \in Requests : p # q => request'[p] = request[p]
      /\ \A p \in Requests : request'[p].digest = request[p].digest
  BY <1>1 DEF IInv, TypeOK
<1>3. TypeOK'
  BY <1>1, <1>2 DEF IInv, TypeOK, history
<1>4. op' = Idle /\ replaced' = replaced /\ placed' = placed
  BY <1>1 DEF history
<1>5. StepsAgree' /\ Remembered' /\ ChecksWatch' /\ GateHolds'
  BY <1>4 DEF StepsAgree, Remembered, ChecksWatch, GateHolds
<1>6. SavedFirst'
  BY <1>1 DEF IInv, SavedFirst, history, Digest
<1>7. RequestsAgree' /\ AppliedToReviewed'
  <2>1. CopyWatch'
    BY <1>4 DEF CopyWatch
  <2>2. RequestsAgree'
    BY <1>2, <1>4, <2>1 DEF IInv, RequestsAgree
  <2>3. AppliedToReviewed'
    BY <1>2, <1>4 DEF IInv, AppliedToReviewed
  <2> QED BY <2>2, <2>3
<1>8. ReportVouches' /\ ReleasedWasValidated'
  BY <1>1 DEF IInv, ReportVouches, ReleasedWasValidated, history
<1> QED BY <1>3, <1>5, <1>6, <1>7, <1>8 DEF IInv

-----------------------------------------------------------------------------
(* A validation: no report while it runs, and at the end one for what it saw. *)
LEMMA OpenKeeps ==
  ASSUME IInv, Open
  PROVE  IInv'
<1>1. /\ op.step = "opening" /\ report' = NoReport /\ verdict' = "running"
      /\ UNCHANGED <<tree, snaps, versions, request, owed, vouched, released, replaced,
                     placed, begun>>
  BY DEF Open
<1>2. op \in Ops /\ op # Idle
  BY <1>1, StepInOps DEF IInv, Steps
<1>3. op.name \in {"build", "validate"}
  BY <1>1, <1>2 DEF IInv, StepsAgree
<1>4. Digest \in Digests /\ Digest' = Digest
  BY <1>1, TreeFacts DEF IInv, Digest
<1>5. \/ op' = Idle
      \/ /\ op' \in Ops /\ op'.name = op.name /\ op'.arg = op.arg /\ op'.step = "after"
         /\ op.name = "build"
      \/ /\ op' \in Ops /\ op'.name = op.name /\ op'.arg = op.arg /\ op'.step = "checking"
         /\ op'.digest = Digest /\ op'.left = Checks /\ op'.saw = {} /\ op'.meddled = 0
  <2>1. CASE Unwind
    <3>1. \/ op' = Idle
          \/ op.name = "build" /\ op' = [op EXCEPT !.step = "after"] /\ "after" \in Steps
      BY <1>1, <2>1 DEF Unwind, Steps
    <3>2. CASE op.name = "build" /\ op' = [op EXCEPT !.step = "after"] /\ "after" \in Steps
      <4>1. op' \in Ops /\ op'.step = "after" /\ op'.name = op.name /\ op'.arg = op.arg
        BY <1>2, <3>2, OpMoved
      <4> QED BY <3>2, <4>1
    <3> QED BY <3>1, <3>2
  <2>2. CASE op' = [op EXCEPT !.step = "checking", !.digest = Digest, !.left = Checks,
                              !.saw = {}, !.ok = FALSE, !.meddled = 0]
    <3>1. 0 \in 0..2 /\ Checks \in 0..Checks /\ {} \subseteq Digests /\ "checking" \in Steps
      BY SourcesAssumption DEF Steps
    <3> HIDE DEF Digest
    <3> QED BY <1>2, <1>4, <2>2, <3>1 DEF Ops
  <2> QED BY <2>1, <2>2 DEF Open
<1>6. TypeOK'
  <2>1. report' \in [status : {"none", "passed", "failed"}, digest : Digests \cup {None}]
    BY <1>1 DEF NoReport
  <2> QED BY <1>1, <1>5, <2>1 DEF IInv, TypeOK
<1>7. StepsAgree'
  BY <1>3, <1>5 DEF StepsAgree, Saving
<1>8. Remembered' /\ ChecksWatch' /\ GateHolds'
  <2>1. Checks \in Nat
    BY SourcesAssumption
  <2> HIDE DEF Digest
  <2>2. Remembered'
    BY <1>4, <1>5 DEF Remembered
  <2>3. ChecksWatch'
    BY <1>4, <1>5, <2>1 DEF ChecksWatch
  <2>4. GateHolds'
    BY <1>5 DEF GateHolds
  <2> QED BY <2>2, <2>3, <2>4
<1>9. SavedFirst'
  BY <1>1, <1>2, <1>3, <1>4, <1>5 DEF IInv, SavedFirst
<1>10. RequestsAgree'
  BY <1>1, <1>3, <1>5 DEF IInv, RequestsAgree, CopyWatch, Copied
<1>11. ReportVouches'
  BY <1>1 DEF ReportVouches, NoReport
<1>12. ReleasedWasValidated' /\ AppliedToReviewed'
  BY <1>1 DEF IInv, ReleasedWasValidated, AppliedToReviewed
<1> QED BY <1>6, <1>7, <1>8, <1>9, <1>10, <1>11, <1>12 DEF IInv

LEMMA ReportKeeps ==
  ASSUME IInv, Report
  PROVE  IInv'
<1>1. /\ op.step = "reporting"
      /\ report' = [status |-> Outcome, digest |-> op.digest] /\ verdict' = Outcome
      /\ vouched' = IF op.ok /\ SawItAll THEN vouched \cup {op.digest} ELSE vouched
      /\ UNCHANGED <<tree, snaps, versions, request, owed, released, replaced, placed, begun>>
  BY DEF Report
<1>2. op \in Ops /\ op # Idle
  BY <1>1, StepInOps DEF IInv, Steps
<1>3. op.digest \in Digests /\ op.name \in {"build", "validate"} /\ op.ok \in BOOLEAN
      /\ (op.ok => SawItAll)
  BY <1>1, <1>2, OpFields DEF IInv, StepsAgree, Remembered, ChecksWatch
<1>4. \/ op' = Idle
      \/ /\ op' \in Ops /\ op'.name = op.name /\ op'.arg = op.arg
         /\ op.name = "build" /\ op'.step \in {"editing", "after"}
  <2>1. "editing" \in Steps /\ "after" \in Steps
    BY DEF Steps
  <2>2. \/ op' = Idle
        \/ op.name = "build" /\ op' = [op EXCEPT !.step = "editing"]
        \/ op.name = "build" /\ op' = [op EXCEPT !.step = "after"]
    BY DEF Report, AfterReport, Goto
  <2>3. CASE op.name = "build" /\ op' = [op EXCEPT !.step = "editing"]
    <3>1. op' \in Ops /\ op'.step = "editing" /\ op'.name = op.name /\ op'.arg = op.arg
      BY <1>2, <2>1, <2>3, OpMoved
    <3> QED BY <2>3, <3>1
  <2>4. CASE op.name = "build" /\ op' = [op EXCEPT !.step = "after"]
    <3>1. op' \in Ops /\ op'.step = "after" /\ op'.name = op.name /\ op'.arg = op.arg
      BY <1>2, <2>1, <2>4, OpMoved
    <3> QED BY <2>4, <3>1
  <2> QED BY <2>2, <2>3, <2>4
<1>5. TypeOK'
  <2>1. Outcome \in {"passed", "failed"}
    BY DEF Outcome
  <2>2. report' \in [status : {"none", "passed", "failed"}, digest : Digests \cup {None}]
    BY <1>1, <1>3, <2>1
  <2> QED BY <1>1, <1>3, <1>4, <2>1, <2>2 DEF IInv, TypeOK
<1>6. StepsAgree' /\ Remembered' /\ ChecksWatch' /\ GateHolds'
  BY <1>4 DEF StepsAgree, Remembered, ChecksWatch, GateHolds, Saving
<1>7. SavedFirst'
  BY <1>1, <1>2, <1>3, <1>4 DEF IInv, SavedFirst, Digest
<1>8. RequestsAgree'
  BY <1>1, <1>3, <1>4 DEF IInv, RequestsAgree, CopyWatch, Copied
<1>9. ReportVouches'
  <2>1. CASE op.ok
    <3>1. report'.digest = op.digest /\ verdict' = "passed" /\ op.digest \in vouched'
      BY <1>1, <1>3, <2>1 DEF Outcome
    <3> QED BY <3>1 DEF ReportVouches
  <2>2. CASE ~op.ok
    <3>1. report'.status = "failed"
      BY <1>1, <2>2 DEF Outcome
    <3> QED BY <3>1 DEF ReportVouches
  <2> QED BY <2>1, <2>2
<1>10. ReleasedWasValidated' /\ AppliedToReviewed'
  BY <1>1 DEF IInv, ReleasedWasValidated, AppliedToReviewed
<1> QED BY <1>5, <1>6, <1>7, <1>8, <1>9, <1>10 DEF IInv

-----------------------------------------------------------------------------
(* The swap of the two directories: what it takes away has been saved.        *)
LEMMA MoveAwayKeeps ==
  ASSUME IInv, MoveAway
  PROVE  IInv'
<1>1. /\ op.step = "moving" /\ tree # Missing /\ tree' = Missing
      /\ op' = [op EXCEPT !.step = "placing", !.digest = tree]
      /\ UNCHANGED <<snaps, versions, report, request, history>>
  BY DEF MoveAway
<1>2. op \in Ops /\ op # Idle
  BY <1>1, StepInOps DEF IInv, Steps
<1>3. op.name \in {"restore", "approve"} /\ op.content \in Digests
  BY <1>1, <1>2 DEF IInv, StepsAgree, Remembered
<1>4. Digest = tree /\ tree \in Digests /\ "placing" \in Steps
  BY <1>1, TreeFacts DEF IInv, Steps
<1>5. /\ op' \in Ops /\ op'.step = "placing" /\ op'.digest = tree
      /\ op'.name = op.name /\ op'.arg = op.arg /\ op'.content = op.content
      /\ op'.meddled = op.meddled /\ op'.ok = op.ok
  BY <1>1, <1>2, <1>4 DEF Ops
<1>6. TypeOK'
  BY <1>1, <1>5 DEF IInv, TypeOK, history
<1>7. StepsAgree' /\ Remembered' /\ ChecksWatch' /\ GateHolds'
  BY <1>1, <1>2, <1>3, <1>4, <1>5
     DEF IInv, StepsAgree, Remembered, ChecksWatch, GateHolds, Saving
<1>8. owed \subseteq versions
  BY <1>1, <1>2, <1>3 DEF IInv, SavedFirst
<1>9. SavedFirst'
  BY <1>1, <1>5, <1>8 DEF IInv, SavedFirst, history
<1>10. RequestsAgree'
  BY <1>1, <1>2, <1>4, <1>5 DEF IInv, RequestsAgree, CopyWatch, Copied, history
<1>11. ReportVouches' /\ ReleasedWasValidated' /\ AppliedToReviewed'
  BY <1>1 DEF IInv, ReportVouches, ReleasedWasValidated, AppliedToReviewed, history
<1> QED BY <1>6, <1>7, <1>9, <1>10, <1>11 DEF IInv

LEMMA PlaceKeeps ==
  ASSUME IInv, Place
  PROVE  IInv'
<1> DEFINE next == IF op.name = "restore" THEN "clearing" ELSE "recording"
<1>1. /\ op.step = "placing" /\ tree' = op.content
      /\ op' = [op EXCEPT !.step = next]
      /\ replaced' = IF op.name = "approve" /\ op.meddled = 0
                     THEN [replaced EXCEPT ![op.arg] = op.digest] ELSE replaced
      /\ placed' = IF op.name = "approve" /\ op.ok
                   THEN [placed EXCEPT ![op.arg] = op.content] ELSE placed
      /\ UNCHANGED <<snaps, versions, report, request, owed, verdict, vouched, released, begun>>
  BY DEF Place, Goto
<1>2. op \in Ops /\ op # Idle
  BY <1>1, StepInOps DEF IInv, Steps
<1>3. /\ op.name \in {"restore", "approve"} /\ op.content \in Digests /\ op.digest \in Digests
      /\ op.name = "approve" => op.arg \in Requests /\ request[op.arg].status = "pending"
      /\ op.name = "approve" /\ op.meddled = 0 => op.digest = request[op.arg].digest
      /\ op.name = "approve" /\ op.ok => Copied
  BY <1>1, <1>2 DEF IInv, StepsAgree, Remembered, RequestsAgree, CopyWatch, Copied
<1>4. /\ next \in Steps
      /\ op.name = "restore" => next = "clearing"
      /\ op.name = "approve" => next = "recording"
  BY DEF Steps
<1> HIDE DEF next
<1>5. op' \in Ops /\ op'.step = next /\ op'.name = op.name /\ op'.arg = op.arg
  BY <1>1, <1>2, <1>4, OpMoved
<1>6. /\ replaced' \in [Requests -> Digests \cup {None}]
      /\ \A q \in Requests : \/ replaced'[q] = replaced[q]
                             \/ /\ op.name = "approve" /\ op.meddled = 0 /\ q = op.arg
                                /\ replaced'[q] = op.digest
      /\ placed' \in [Requests -> Digests \cup {None}]
      /\ \A q \in Requests : \/ placed'[q] = placed[q]
                             \/ /\ op.name = "approve" /\ op.ok /\ q = op.arg
                                /\ placed'[q] = op.content
  BY <1>1, <1>3 DEF IInv, TypeOK
<1>7. TypeOK'
  BY <1>1, <1>3, <1>5, <1>6 DEF IInv, TypeOK
<1>8. StepsAgree' /\ Remembered' /\ ChecksWatch' /\ GateHolds'
  BY <1>3, <1>4, <1>5 DEF StepsAgree, Remembered, ChecksWatch, GateHolds, Saving
<1>9. owed \subseteq versions
  BY <1>1, <1>2, <1>3 DEF IInv, SavedFirst
<1>10. SavedFirst'
  BY <1>1, <1>3, <1>4, <1>5, <1>9 DEF IInv, SavedFirst
<1>11. RequestsAgree'
  BY <1>1, <1>3, <1>4, <1>5, <1>6 DEF IInv, RequestsAgree, CopyWatch, Copied
<1>12. AppliedToReviewed'
  BY <1>1, <1>3, <1>6 DEF IInv, AppliedToReviewed, Copied
<1>13. ReportVouches' /\ ReleasedWasValidated'
  BY <1>1 DEF IInv, ReportVouches, ReleasedWasValidated
<1> QED BY <1>7, <1>8, <1>10, <1>11, <1>12, <1>13 DEF IInv

LEMMA PutBackKeeps ==
  ASSUME IInv, PutBack
  PROVE  IInv'
<1>1. /\ op.step = "placing" /\ tree' = op.digest /\ op' = Idle
      /\ UNCHANGED <<snaps, versions, report, request, history>>
  BY DEF PutBack
<1>2. op \in Ops /\ op # Idle
  BY <1>1, StepInOps DEF IInv, Steps
<1>3. op.name \in {"restore", "approve"} /\ op.digest \in Digests
  BY <1>1, <1>2 DEF IInv, StepsAgree, Remembered
<1>4. TypeOK'
  BY <1>1, <1>3 DEF IInv, TypeOK, history
<1>5. StepsAgree' /\ Remembered' /\ ChecksWatch' /\ GateHolds'
  BY <1>1 DEF StepsAgree, Remembered, ChecksWatch, GateHolds
<1>6. owed \subseteq versions
  BY <1>1, <1>2, <1>3 DEF IInv, SavedFirst
<1>7. SavedFirst'
  BY <1>1, <1>6 DEF IInv, SavedFirst, history
<1>8. RequestsAgree'
  BY <1>1 DEF IInv, RequestsAgree, CopyWatch, Copied, history
<1>9. ReportVouches' /\ ReleasedWasValidated' /\ AppliedToReviewed'
  BY <1>1 DEF IInv, ReportVouches, ReleasedWasValidated, AppliedToReviewed, history
<1> QED BY <1>4, <1>5, <1>7, <1>8, <1>9 DEF IInv

(* The step after a swap: the operation's row, and a version at the end.      *)
LEMMA ClosingMove ==
  ASSUME IInv, op \in Ops, op.name \in {"restore", "approve"},
         Goto("after") \/ op' = Idle
  PROVE  \/ op' = Idle
         \/ op' \in Ops /\ op'.step = "after" /\ op'.name = op.name /\ op'.arg = op.arg
<1>1. "after" \in Steps
  BY DEF Steps
<1>2. CASE op' = [op EXCEPT !.step = "after"]
  BY <1>1, <1>2, OpMoved
<1> QED BY <1>2 DEF Goto

LEMMA ClearKeeps ==
  ASSUME IInv, Clear
  PROVE  IInv'
<1>1. /\ op.step = "clearing" /\ report' = NoReport
      /\ UNCHANGED <<tree, snaps, versions, request, history>>
  BY DEF Clear
<1>2. op \in Ops /\ op # Idle
  BY <1>1, StepInOps DEF IInv, Steps
<1>3. op.name = "restore"
  BY <1>1, <1>2 DEF IInv, StepsAgree
<1>4. \/ op' = Idle
      \/ op' \in Ops /\ op'.step = "after" /\ op'.name = op.name /\ op'.arg = op.arg
  BY <1>2, <1>3, ClosingMove DEF Clear
<1>5. TypeOK'
  <2>1. report' \in [status : {"none", "passed", "failed"}, digest : Digests \cup {None}]
    BY <1>1 DEF NoReport
  <2> QED BY <1>1, <1>4, <2>1 DEF IInv, TypeOK, history
<1>6. StepsAgree' /\ Remembered' /\ ChecksWatch' /\ GateHolds'
  BY <1>3, <1>4 DEF StepsAgree, Remembered, ChecksWatch, GateHolds, Saving
<1>7. SavedFirst'
  BY <1>1, <1>2, <1>3, <1>4 DEF IInv, SavedFirst, Digest, history
<1>8. RequestsAgree'
  BY <1>1, <1>3, <1>4 DEF IInv, RequestsAgree, CopyWatch, Copied, history
<1>9. ReportVouches'
  BY <1>1 DEF ReportVouches, NoReport
<1>10. ReleasedWasValidated' /\ AppliedToReviewed'
  BY <1>1 DEF IInv, ReleasedWasValidated, AppliedToReviewed, history
<1> QED BY <1>5, <1>6, <1>7, <1>8, <1>9, <1>10 DEF IInv

LEMMA RecordKeeps ==
  ASSUME IInv, Record
  PROVE  IInv'
<1>1. /\ op.step = "recording" /\ report' = NoReport
      /\ request' = [request EXCEPT ![op.arg].status = "applied"]
      /\ UNCHANGED <<tree, snaps, versions, history>>
  BY DEF Record
<1>2. op \in Ops /\ op # Idle
  BY <1>1, StepInOps DEF IInv, Steps
<1>3. op.name = "approve" /\ op.arg \in Requests
  BY <1>1, <1>2 DEF IInv, StepsAgree
<1>4. \/ op' = Idle
      \/ op' \in Ops /\ op'.step = "after" /\ op'.name = op.name /\ op'.arg = op.arg
  BY <1>2, <1>3, ClosingMove DEF Record
<1>5. /\ request' \in [Requests -> [status : {"none", "pending", "applied", "rejected"},
                                    digest : Digests \cup {None}]]
      /\ request'[op.arg].status = "applied"
      /\ \A p \in Requests : p # op.arg => request'[p] = request[p]
      /\ \A p \in Requests : request'[p].digest = request[p].digest
  BY <1>1, <1>3 DEF IInv, TypeOK
<1>6. TypeOK'
  <2>1. report' \in [status : {"none", "passed", "failed"}, digest : Digests \cup {None}]
    BY <1>1 DEF NoReport
  <2> QED BY <1>1, <1>4, <1>5, <2>1 DEF IInv, TypeOK, history
<1>7. StepsAgree' /\ Remembered' /\ ChecksWatch' /\ GateHolds'
  BY <1>3, <1>4 DEF StepsAgree, Remembered, ChecksWatch, GateHolds, Saving
<1>8. SavedFirst'
  BY <1>1, <1>2, <1>3, <1>4 DEF IInv, SavedFirst, Digest, history
<1>9. replaced' = replaced /\ placed' = placed
  BY <1>1 DEF history
<1>10. RequestsAgree' /\ AppliedToReviewed'
  BY <1>4, <1>5, <1>9 DEF IInv, RequestsAgree, CopyWatch, Copied, AppliedToReviewed
<1>11. ReportVouches'
  BY <1>1 DEF ReportVouches, NoReport
<1>12. ReleasedWasValidated'
  BY <1>1 DEF IInv, ReleasedWasValidated, history
<1> QED BY <1>6, <1>7, <1>8, <1>10, <1>11, <1>12 DEF IInv

-----------------------------------------------------------------------------
LEMMA ExportKeeps ==
  ASSUME IInv, Export
  PROVE  IInv'
<1>1. /\ op.step = "exporting" /\ op' = Idle
      /\ released' = IF op.meddled = 0 THEN released \cup {Digest} ELSE released
      /\ UNCHANGED <<tree, snaps, versions, report, request, owed, verdict, vouched,
                     replaced, placed, begun>>
  BY DEF Export
<1>2. op \in Ops /\ op # Idle
  BY <1>1, StepInOps DEF IInv, Steps
<1>3. op.meddled = 0 => Digest \in vouched
  BY <1>1, <1>2 DEF IInv, GateHolds
<1>4. ReleasedWasValidated'
  BY <1>1, <1>3 DEF IInv, ReleasedWasValidated
<1>5. TypeOK'
  BY <1>1, <1>4 DEF IInv, TypeOK, ReleasedWasValidated
<1>6. StepsAgree' /\ Remembered' /\ ChecksWatch' /\ GateHolds'
  BY <1>1 DEF StepsAgree, Remembered, ChecksWatch, GateHolds
<1>7. SavedFirst' /\ RequestsAgree'
  BY <1>1 DEF IInv, SavedFirst, RequestsAgree, CopyWatch, Copied, Digest
<1>8. ReportVouches' /\ AppliedToReviewed'
  BY <1>1 DEF IInv, ReportVouches, AppliedToReviewed
<1> QED BY <1>4, <1>5, <1>6, <1>7, <1>8 DEF IInv

(* An empty directory has the digest of none.                                 *)
LEMMA EnsureLayoutKeeps ==
  ASSUME IInv, EnsureLayout
  PROVE  IInv'
<1>1. /\ op = Idle /\ op' = Idle /\ tree = Missing /\ tree' = Empty
      /\ UNCHANGED <<snaps, versions, report, request, history>>
  BY DEF EnsureLayout
<1>2. Digest' = Digest
  BY <1>1, NoneAssumption DEF Digest
<1>3. TypeOK'
  BY <1>1 DEF IInv, TypeOK, history, Digests
<1>4. StepsAgree' /\ Remembered' /\ ChecksWatch' /\ GateHolds'
  BY <1>1 DEF StepsAgree, Remembered, ChecksWatch, GateHolds
<1>5. SavedFirst' /\ RequestsAgree'
  BY <1>1, <1>2 DEF IInv, SavedFirst, RequestsAgree, CopyWatch, Copied, history
<1>6. ReportVouches' /\ ReleasedWasValidated' /\ AppliedToReviewed'
  BY <1>1 DEF IInv, ReportVouches, ReleasedWasValidated, AppliedToReviewed, history
<1> QED BY <1>3, <1>4, <1>5, <1>6 DEF IInv

LEMMA StutterKeeps ==
  ASSUME IInv, UNCHANGED vars
  PROVE  IInv'
<1>1. op' = op /\ UNCHANGED <<tree, snaps, versions, report, request, history>>
  BY DEF vars
<1>2. TypeOK' /\ StepsAgree' /\ Remembered'
  BY <1>1 DEF IInv, TypeOK, StepsAgree, Remembered, history
<1>3. SavedFirst' /\ GateHolds'
  BY <1>1 DEF IInv, SavedFirst, GateHolds, Digest, history
<1>4. ChecksWatch' /\ RequestsAgree'
  BY <1>1 DEF IInv, ChecksWatch, SawItAll, RequestsAgree, CopyWatch, Copied, Digest, history
<1>5. ReportVouches' /\ ReleasedWasValidated' /\ AppliedToReviewed'
  BY <1>1 DEF IInv, ReportVouches, ReleasedWasValidated, AppliedToReviewed, history
<1> QED BY <1>2, <1>3, <1>4, <1>5 DEF IInv

LEMMA NextKeeps == IInv /\ [Next]_vars => IInv'
<1> SUFFICES ASSUME IInv, [Next]_vars PROVE IInv'
  OBVIOUS
<1>1. ASSUME NEW name \in Names, NEW arg \in Digests \cup Requests \cup {None},
             Begin(name, arg)
      PROVE  IInv'
  BY <1>1, BeginKeeps
<1>2. CASE SaveFile \/ SaveRow \/ Raise \/ Crash
  BY <1>2, SaveFileKeeps, SaveRowKeeps, RaiseKeeps
<1>3. ASSUME NEW c \in Codes, AgentEdits(c)
      PROVE  IInv'
  BY <1>3, AgentEditsKeeps
<1>4. ASSUME NEW t \in Content, Outside(t)
      PROVE  IInv'
  BY <1>4, OutsideKeeps
<1>5. ASSUME NEW q \in Requests, Propose(q) \/ Reject(q)
      PROVE  IInv'
  BY <1>5, ProposeKeeps, RejectKeeps
<1>6. CASE AgentDone \/ Open \/ Check \/ Compare \/ Report
  BY <1>6, AgentDoneKeeps, OpenKeeps, CheckKeeps, CompareKeeps, ReportKeeps
<1>7. CASE Stage \/ CompareFirst \/ ListPackages \/ CopyFiles \/ CompareAgain
             \/ MoveAway \/ Place \/ PutBack
  BY <1>7, StageKeeps, CompareFirstKeeps, ListPackagesKeeps, CopyFilesKeeps, CompareAgainKeeps,
     MoveAwayKeeps, PlaceKeeps, PutBackKeeps
<1>8. CASE Clear \/ Record \/ PassGate \/ Export \/ EnsureLayout
  BY <1>8, ClearKeeps, RecordKeeps, PassGateKeeps, ExportKeeps, EnsureLayoutKeeps
<1>9. CASE UNCHANGED vars
  BY <1>9, StutterKeeps
<1> QED BY <1>1, <1>2, <1>3, <1>4, <1>5, <1>6, <1>7, <1>8, <1>9 DEF Next

-----------------------------------------------------------------------------
(* The inductive invariant: which operation takes which steps, what it        *)
(* remembers between them, that a version is saved before the tree changes,   *)
(* what the checks saw, and which request is being applied.                   *)
THEOREM SourcesInvariant == Spec => []IInv
<1>1. Init => IInv
  BY InitEstablishes
<1>2. IInv /\ [Next]_vars => IInv'
  BY NextKeeps
<1> QED BY <1>1, <1>2, PTL DEF Spec

(* No operation loses the tree it found: it is at source/ or it is a version  *)
(* with its snapshot, after any failures and crashes (save_version before     *)
(* each change of the files).                                                 *)
THEOREM NothingOwedLost == Spec => []WorkSaved
<1>1. IInv => WorkSaved
  BY DEF IInv, SavedFirst, WorkSaved
<1> QED BY <1>1, SourcesInvariant, PTL

(* A report that says "passed" is the last validation's, and all its checks   *)
(* ran on the tree it names (validation.run: the digest before and after, and *)
(* last_validation=NULL in between).                                          *)
THEOREM ReportsVouch == Spec => []ReportVouches
<1>1. IInv => ReportVouches
  BY DEF IInv
<1> QED BY <1>1, SourcesInvariant, PTL

(* A release holds a validated tree (the gate of releases.bundle).            *)
THEOREM ReleasesValidated == Spec => []ReleasedWasValidated
<1>1. IInv => ReleasedWasValidated
  BY DEF IInv
<1> QED BY <1>1, SourcesInvariant, PTL

(* Approved packages replace only the tree their request was made for, and    *)
(* nothing but that tree comes with them (dependencies.apply compares the     *)
(* digest before and after it reads the files and builds its images).         *)
THEOREM AppliedReviewed == Spec => []AppliedToReviewed
<1>1. IInv => AppliedToReviewed
  BY DEF IInv
<1> QED BY <1>1, SourcesInvariant, PTL

=============================================================================
