----------------------------- MODULE NativeBuilds -----------------------------
(* Native builds of one project (backend/app/mobile_builds.py): a run writes   *)
(* its progress into build.json, compiles in a private work directory, and     *)
(* publishes one artifact beside the record.  Cancellation, failing commands,  *)
(* failing writes and crashes come at any step, and downloads read the record  *)
(* and the artifact without a lock.                                            *)
EXTENDS Naturals, Sequences

CONSTANTS
  Builds,       \* ids of runs, which name the builds' folders
  Codes,        \* contents of the project's source
  Readers,      \* download requests
  Available,    \* the targets for which capabilities() has no blocker
  MaxCrashes, MaxDamages,   \* bounds
  Unset

ASSUME NativeBuildsAssumption ==
  /\ Available \subseteq {"apk", "aab", "ipa"}
  /\ MaxCrashes \in Nat /\ MaxDamages \in Nat

VARIABLES
  up,           \* the builder process runs
  source,       \* what files.digest(source) sees
  status,       \* runs.status
  event,        \* the run's cancellation event is set
  pc, exc,      \* the step of the run, and what it is raising
  stage,        \* how far compile_native() is
  data,         \* the validated request, with what the lambda carries
  record,       \* the record in memory
  json,         \* build.json
  file,         \* app.apk, app.aab or app.ipa
  log,          \* build.log holds a signing password
  work,         \* the work directory exists
  reader,       \* what a download has found out so far
  \* bounds and history:
  crashes, damages,
  lost,         \* builds one of whose writes raised at the end
  served        \* builds whose artifact was sent

run  == <<status, event, pc, exc, stage, data>>
disk == <<json, file, log, work>>
extra == <<crashes, damages, lost>>
buildVars == <<up, source, run, record, disk, reader, extra, served>>

-----------------------------------------------------------------------------
Targets  == {"apk", "aab", "ipa"}
Requests == [target : Targets, signing : BOOLEAN, icon : BOOLEAN, network : BOOLEAN,
             digest : Codes]
Active == {"started", "checking", "inspecting", "copying", "publishing",
           "compiling", "announcing", "raised", "unlinking", "cleaning", "ending"}
(* told: the phase, which ends as the error's text, holds a signing password.  *)
Records == [status : {"absent", "running", "completed", "cancelled", "failed"},
            note : BOOLEAN, told : BOOLEAN]
NoRecord == [status |-> "absent", note |-> FALSE, told |-> FALSE]
Artifacts == {"none", "partial", "whole", "damaged"}

BuildTypeOK ==
  /\ up \in BOOLEAN /\ source \in Codes
  /\ status \in [Builds -> {"absent", "running", "interrupted", "completed", "failed", "cancelled"}]
  /\ event \in [Builds -> BOOLEAN]
  /\ pc \in [Builds -> Active \cup {"unused", "over", "dead"}]
  /\ exc \in [Builds -> {"none", "cancelled", "failed"}]
  /\ stage \in [Builds -> 1..6]
  /\ data \in [Builds -> Requests \cup {Unset}]
  /\ record \in [Builds -> Records] /\ json \in [Builds -> Records]
  /\ file \in [Builds -> Artifacts]
  /\ log \in [Builds -> BOOLEAN] /\ work \in [Builds -> BOOLEAN]
  /\ reader \in [Readers -> {Unset} \cup (Builds \X {"asked", "checked"})]
  /\ lost \subseteq Builds /\ served \subseteq Builds

BuildInit ==
  /\ up = TRUE /\ source \in Codes
  /\ status = [b \in Builds |-> "absent"] /\ event = [b \in Builds |-> FALSE]
  /\ pc = [b \in Builds |-> "unused"] /\ exc = [b \in Builds |-> "none"]
  /\ stage = [b \in Builds |-> 1] /\ data = [b \in Builds |-> Unset]
  /\ record = [b \in Builds |-> NoRecord] /\ json = [b \in Builds |-> NoRecord]
  /\ file = [b \in Builds |-> "none"]
  /\ log = [b \in Builds |-> FALSE] /\ work = [b \in Builds |-> FALSE]
  /\ reader = [d \in Readers |-> Unset]
  /\ crashes = 0 /\ damages = 0 /\ lost = {} /\ served = {}

-----------------------------------------------------------------------------
(* The request.  Signing material is carried only by the build that needs it.  *)
Blocked(target) == target \notin Available
Admitted(r) ==
  /\ r.network /\ ~Blocked(r.target)
  /\ r.target = "aab" => r.signing

Carried(r) == [r EXCEPT !.signing = r.target = "aab"]

Busy == \E b \in Builds : pc[b] \in Active

Launch(b, r) ==
  /\ up /\ pc[b] = "unused" /\ ~Busy
  /\ Admitted(r) /\ r.digest = source
  /\ data' = [data EXCEPT ![b] = Carried(r)]
  /\ status' = [status EXCEPT ![b] = "running"]
  /\ pc' = [pc EXCEPT ![b] = "started"]
  /\ UNCHANGED <<up, source, event, exc, stage, record, disk, reader, extra, served>>

Cancel(b) ==
  /\ up /\ pc[b] \in Active /\ ~event[b]
  /\ event' = [event EXCEPT ![b] = TRUE]
  /\ UNCHANGED <<up, source, status, pc, exc, stage, data, record, disk, reader, extra, served>>

(* The source changes under the build: the user edits it on disk.              *)
EditSource ==
  /\ \E c \in Codes \ {source} : source' = c
  /\ UNCHANGED <<up, run, record, disk, reader, extra, served>>

-----------------------------------------------------------------------------
(* Steps of execute().  check_cancel() comes first wherever it is called.      *)
Goto(b, step) == pc' = [pc EXCEPT ![b] = step] /\ UNCHANGED <<exc, stage>>
Fails(b, step, what) == /\ pc' = [pc EXCEPT ![b] = step]
                        /\ exc' = [exc EXCEPT ![b] = what] /\ UNCHANGED stage
BuildRaises(b, what) == Fails(b, "raised", what)
CheckCancel(b) == event[b]

Started == [status |-> "running", note |-> FALSE, told |-> FALSE]

(* write_record() replaces build.json as a whole, or raises.                   *)
Write(b, item) == json' = [json EXCEPT ![b] = item]

Prepare(b) ==
  /\ up /\ pc[b] = "started"
  /\ record' = [record EXCEPT ![b] = Started]
  /\ \/ Write(b, Started) /\ Goto(b, "checking") /\ UNCHANGED lost
     \/ /\ lost' = lost \cup {b}
        /\ Fails(b, "ending", "failed") /\ UNCHANGED json
  /\ UNCHANGED <<up, source, status, event, data, file, log, work, reader, crashes, damages,
                 served>>

Check(b) ==
  /\ up /\ pc[b] = "checking"
  /\ IF CheckCancel(b) THEN BuildRaises(b, "cancelled") /\ UNCHANGED work
     ELSE IF source # data[b].digest THEN BuildRaises(b, "failed") /\ UNCHANGED work
     ELSE Goto(b, "compiling") /\ work' = [work EXCEPT ![b] = TRUE]
  /\ UNCHANGED <<up, source, status, event, data, record, json, file, log, reader, extra, served>>

(* compile_native(): each stage announces itself, which writes the record and  *)
(* an event, and runs a command, which is killed with its process group when   *)
(* the build is cancelled or late.                                             *)
Stages(d) == <<"install", "generate">> \o (IF d.icon THEN <<"icons">> ELSE <<>>)
             \o <<"sync", "compile", "verify">>

(* Gradle and jarsigner are given the passwords, and what they print goes into *)
(* the log and into the error, without what the caller names as secrets.       *)
Given(d, s) == d.signing /\ s \in {"compile", "verify"}
SecretsFault(d, s) == d.signing /\ s = "compile"
Secrets(d, s) == d.signing /\ s \in {"compile", "verify"}
Leaks(d, s) == Given(d, s) /\ ~Secrets(d, s)

Stage(b) ==
  LET stages == Stages(data[b])
      leak   == Leaks(data[b], stages[stage[b]])
      Says   == log' = [log EXCEPT ![b] = @ \/ leak]
  IN
  /\ up /\ pc[b] = "compiling"
  /\ \/ CheckCancel(b) /\ BuildRaises(b, "cancelled") /\ UNCHANGED record /\ (Says \/ UNCHANGED log)
     \/ /\ BuildRaises(b, "failed") /\ Says
        /\ record' = [record EXCEPT ![b].told = leak]
     \/ /\ ~CheckCancel(b) /\ UNCHANGED record /\ Says
        /\ \/ /\ stage[b] < Len(stages)
              /\ stage' = [stage EXCEPT ![b] = @ + 1] /\ UNCHANGED <<pc, exc>>
           \/ stage[b] = Len(stages) /\ Goto(b, "inspecting")
  /\ UNCHANGED <<up, source, status, event, data, json, file, work, reader, extra, served>>

Inspect(b) ==
  /\ up /\ pc[b] = "inspecting"
  /\ \/ CheckCancel(b) /\ BuildRaises(b, "cancelled")
     \/ ~CheckCancel(b) /\ (Goto(b, "copying") \/ BuildRaises(b, "failed"))
  /\ UNCHANGED <<up, source, status, event, data, record, disk, reader, extra, served>>

(* copyfile() writes in place and may stop in the middle.                      *)
Copy(b) ==
  /\ up /\ pc[b] = "copying"
  /\ file' = [file EXCEPT ![b] = IF @ = "none" THEN "partial" ELSE "whole"]
  /\ \/ BuildRaises(b, "failed")
     \/ Goto(b, IF file[b] = "none" THEN "copying" ELSE "publishing")
  /\ UNCHANGED <<up, source, status, event, data, record, json, log, work, reader, extra, served>>

Ready(item) == [item EXCEPT !.status = "completed"]

Publish(b) ==
  /\ up /\ pc[b] = "publishing"
  /\ record' = [record EXCEPT ![b] = Ready(record[b])]
  /\ \/ CheckCancel(b) /\ BuildRaises(b, "cancelled") /\ UNCHANGED json
     \/ ~CheckCancel(b) /\ Write(b, Ready(record[b])) /\ Goto(b, "announcing")
     \/ ~CheckCancel(b) /\ BuildRaises(b, "failed") /\ UNCHANGED json
  /\ UNCHANGED <<up, source, status, event, data, file, log, work, reader, extra, served>>

(* The event after the record may raise as well.                               *)
Announce(b) ==
  /\ up /\ pc[b] = "announcing"
  /\ Goto(b, "cleaning") \/ BuildRaises(b, "failed")
  /\ UNCHANGED <<up, source, status, event, data, record, disk, reader, extra, served>>

-----------------------------------------------------------------------------
(* The except clause records what was raised, then takes the artifact away;    *)
(* the finally clause removes the work directory or leaves a note.             *)
Ended(b) == [record[b] EXCEPT !.status = exc[b]]

RecordFailure(b) ==
  /\ up /\ pc[b] = "raised"
  /\ record' = [record EXCEPT ![b] = Ended(b)]
  /\ \/ Write(b, Ended(b)) /\ Goto(b, "unlinking") /\ UNCHANGED lost
     \/ Fails(b, "cleaning", "failed") /\ lost' = lost \cup {b} /\ UNCHANGED json
  /\ UNCHANGED <<up, source, status, event, data, file, log, work, reader, crashes, damages,
                 served>>

UnlinkFault(b) ==                               \* only after an error, not after a cancel
  /\ up /\ pc[b] = "unlinking"
  /\ file' = IF exc[b] = "failed" THEN [file EXCEPT ![b] = "none"] ELSE file
  /\ Goto(b, "cleaning")
  /\ UNCHANGED <<up, source, status, event, data, record, json, log, work, reader, extra, served>>
Unlink(b) ==
  /\ up /\ pc[b] = "unlinking"
  /\ \/ file' = [file EXCEPT ![b] = "none"] /\ Goto(b, "cleaning") /\ UNCHANGED lost
     \/ /\ file[b] # "none" /\ Fails(b, "cleaning", "failed") /\ UNCHANGED file
        /\ lost' = lost \cup {b}
  /\ UNCHANGED <<up, source, status, event, data, record, json, log, work, reader, crashes, damages,
                 served>>

Clean(b) ==
  LET noted == [record[b] EXCEPT !.note = TRUE] IN
  /\ up /\ pc[b] = "cleaning"
  /\ \/ work' = [work EXCEPT ![b] = FALSE] /\ Goto(b, "ending") /\ UNCHANGED <<record, json, lost>>
     \/ /\ work[b] /\ record' = [record EXCEPT ![b] = noted] /\ UNCHANGED work
        /\ \/ Write(b, noted) /\ Goto(b, "ending") /\ UNCHANGED lost
           \/ Fails(b, "ending", "failed") /\ lost' = lost \cup {b} /\ UNCHANGED json
  /\ UNCHANGED <<up, source, status, event, data, file, log, reader, crashes, damages, served>>

(* work() of main.py writes the row; its UPDATE may be lost.                   *)
Outcome(b) == IF exc[b] = "none" THEN "completed" ELSE exc[b]

End(b) ==
  /\ up /\ pc[b] = "ending"
  /\ pc' = [pc EXCEPT ![b] = "over"] /\ exc' = [exc EXCEPT ![b] = "none"]
  /\ event' = [event EXCEPT ![b] = FALSE] /\ stage' = [stage EXCEPT ![b] = 1]
  /\ data' = [data EXCEPT ![b] = Unset] /\ record' = [record EXCEPT ![b] = NoRecord]
  /\ \/ status' = [status EXCEPT ![b] = Outcome(b)] /\ UNCHANGED lost
     \/ lost' = lost \cup {b} /\ UNCHANGED status
  /\ UNCHANGED <<up, source, disk, reader, crashes, damages, served>>

-----------------------------------------------------------------------------
Crash ==
  /\ up /\ crashes < MaxCrashes
  /\ up' = FALSE /\ crashes' = crashes + 1
  /\ pc' = [b \in Builds |-> IF pc[b] \in Active THEN "dead" ELSE pc[b]]
  /\ record' = [b \in Builds |-> NoRecord]
  /\ stage' = [b \in Builds |-> 1] /\ data' = [b \in Builds |-> Unset]
  /\ exc' = [b \in Builds |-> "none"] /\ event' = [b \in Builds |-> FALSE]
  /\ reader' = [d \in Readers |-> Unset]
  /\ UNCHANGED <<source, status, disk, damages, lost, served>>

(* db.init() marks the rows of runs that no process works on any more.         *)
Restart ==
  /\ ~up /\ up' = TRUE
  /\ status' = [b \in Builds |-> IF status[b] = "running" THEN "interrupted" ELSE status[b]]
  /\ UNCHANGED <<source, event, pc, exc, stage, data, record, disk, reader, extra, served>>

-----------------------------------------------------------------------------
(* get() and listing(): what a build is shown as.                              *)
ShownFault(b) == json[b].status
Shown(b) == IF json[b].status = "running" /\ status[b] # "running" THEN "interrupted"
            ELSE json[b].status

(* A download: artifact() reads the record, then checks the file against it;   *)
(* FileResponse opens the file once more.                                      *)
Ask(d, b) ==
  /\ up /\ reader[d] = Unset /\ Shown(b) = "completed"
  /\ reader' = [reader EXCEPT ![d] = <<b, "asked">>]
  /\ UNCHANGED <<up, source, run, record, disk, extra, served>>

SameAsRecorded(b) == file[b] = "whole"

Verify(d) ==
  /\ up /\ reader[d] # Unset /\ reader[d][2] = "asked"
  /\ reader' = [reader EXCEPT ![d] = IF SameAsRecorded(reader[d][1])
                                     THEN <<reader[d][1], "checked">> ELSE Unset]
  /\ UNCHANGED <<up, source, run, record, disk, extra, served>>

Serve(d) ==
  /\ up /\ reader[d] # Unset /\ reader[d][2] = "checked"
  /\ served' = served \cup {b \in {reader[d][1]} : file[b] # "none"}
  /\ reader' = [reader EXCEPT ![d] = Unset]
  /\ UNCHANGED <<up, source, run, record, disk, extra>>

(* A file on disk changes by itself.                                           *)
Damage(b) ==
  /\ damages < MaxDamages /\ file[b] = "whole"
  /\ damages' = damages + 1 /\ file' = [file EXCEPT ![b] = "damaged"]
  /\ UNCHANGED <<up, source, run, record, json, log, work, reader, crashes, lost, served>>

-----------------------------------------------------------------------------
Execute(b) ==
  \/ Prepare(b) \/ Check(b) \/ Stage(b) \/ Inspect(b) \/ Copy(b) \/ Publish(b) \/ Announce(b)
  \/ RecordFailure(b) \/ Unlink(b) \/ Clean(b) \/ End(b)

BuildNext ==
  \/ \E b \in Builds : (\E r \in Requests : Launch(b, r)) \/ Cancel(b) \/ Execute(b) \/ Damage(b)
  \/ \E d \in Readers : (\E b \in Builds : Ask(d, b)) \/ Verify(d) \/ Serve(d)
  \/ EditSource \/ Crash \/ Restart

BuildSpec == BuildInit /\ [][BuildNext]_buildVars

-----------------------------------------------------------------------------
PublishedIsWhole ==
  \A b \in Builds : json[b].status = "completed" => file[b] \in {"whole", "damaged"}
NoPasswordKept   == \A b \in Builds : ~log[b] /\ ~json[b].told

(* Whatever fails and whenever the process dies, a record that says completed  *)
(* has its artifact, whole, beside it, also while the except clause takes it   *)
(* back; and no log or record keeps a signing password that a command printed  *)
(* (main.py "Never persisted to the build record or its log").                 *)
FilesSound == BuildTypeOK /\ PublishedIsWhole /\ NoPasswordKept

(* What a user is shown is what became of the run: the record and the row are  *)
(* written apart, and each write may be lost.  A build is shown as running     *)
(* only while it runs, or until the next restart if its last write was lost.   *)
OutcomeShown ==
  \A b \in Builds :
    /\ status[b] \in {"completed", "cancelled"} => Shown(b) = status[b]
    /\ status[b] = "failed" => Shown(b) = "failed" \/ b \in lost
    /\ Shown(b) = "running" => pc[b] \in Active \/ ~up \/ (status[b] = "running" /\ b \in lost)

(* "Mobile build cancelled. No artifact was published.": if the run says so,   *)
(* there is no artifact, nobody got one, and nobody is about to.               *)
CancelledLeavesNothing ==
  \A b \in Builds : status[b] = "cancelled" =>
    /\ file[b] = "none" /\ b \notin served
    /\ \A d \in Readers : reader[d] # Unset => reader[d][1] # b
=============================================================================
